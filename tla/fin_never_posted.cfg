CONSTANTS
    SWS = 5
    NFrames = 2
    MaxSacks = 0
    MaxInFlight = 1
    MaxRepeats = 1
    ExactMultiple = FALSE
SPECIFICATION FairSpec
PROPERTY FinPosted
CHECK_DEADLOCK FALSE
