CONSTANTS
    SWS = 5
    NFrames = 4
    MaxSacks = 0
    MaxInFlight = 2
    MaxRepeats = 1
    ExactMultiple = FALSE
SPECIFICATION Spec
INVARIANT AckedIsWritten
PROPERTY ImplementsTransfer
CHECK_DEADLOCK FALSE
