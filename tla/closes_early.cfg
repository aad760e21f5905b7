CONSTANTS
    SWS = 5
    NFrames = 2
    MaxSacks = 0
    MaxInFlight = 1
    MaxRepeats = 1
    ExactMultiple = TRUE
SPECIFICATION Spec
INVARIANT ClosesAfterLastAck
CHECK_DEADLOCK FALSE
