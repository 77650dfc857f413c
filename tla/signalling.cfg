SPECIFICATION Spec
CONSTANTS
    MaxCandidates <- UnevenCandidates
    Slack = 1
    Rounds = 2
    Tricklings <- AnswererMay
    Streams = {webcam}
    Names = {video}
    Styles = {"unified", "planB", "unifiedStreamOnly"}
INVARIANTS TypeOK PublishedIsTrue CompleteHasAll SentIsComplete NeverRefused
           TracksSurvive
PROPERTY TakesTurns Connects
CHECK_DEADLOCK FALSE
