CONSTANTS
    SWS = 8
    NFrames = 9
    MaxRepeats = 0
    MaxBlocks = 3
SPECIFICATION Spec
INVARIANTS
    SackTypeOK
    BlocksReceived
    OnlyLastLeftOut
PROPERTY AnswerStartsWithFrame
