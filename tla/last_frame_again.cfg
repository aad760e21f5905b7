CONSTANTS
    SWS = 4
    NFrames = 3
    MaxRepeats = 1
SPECIFICATION ReceiverSpec
INVARIANT ExpectedNotWritten
