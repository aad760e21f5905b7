CONSTANTS
    SWS = 5
    NFrames = 3
    MaxSacks = 1
    MaxInFlight = 1
    MaxRepeats = 1
    ExactMultiple = FALSE
SPECIFICATION FairSpec
PROPERTIES FileArrives TransferCompletes
CHECK_DEADLOCK FALSE
