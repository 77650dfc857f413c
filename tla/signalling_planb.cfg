SPECIFICATION Spec
CONSTANTS
    MaxCandidates <- UnevenCandidates
    Slack = 1
    Rounds = 1
    Tricklings <- NobodyTrickles
    Streams = {webcam}
    Names = {video}
    Styles = {"planB", "planBStreamOnly"}
INVARIANT TrackIdIsOptional
CHECK_DEADLOCK FALSE
