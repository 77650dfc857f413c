SPECIFICATION Spec
CONSTANT MaxPackets = 3
INVARIANT ForwardingInv
INVARIANT NilNeverUnwrapped
PROPERTY StoppedIsSilent StoppedIsFreed
CHECK_DEADLOCK FALSE
