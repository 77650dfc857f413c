SPECIFICATION Spec
CONSTANTS
    Receiver = {r1, r2}
    MaxPackets = 2
INVARIANT OpenReceiversGetIt
CHECK_DEADLOCK FALSE
