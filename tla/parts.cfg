CONSTANTS
    SWS = 4
    NFrames = 9
    MaxRepeats = 2
    Cap <- MCCap
    MaxSample <- MCMaxSample
    Samples <- MCSamples
    SIZE = 8
    HLEN = 3
    MaxFileSize = 21
    SeqnoMod = 16
    Window = 3
    RWS = 5
    Late = 11
    LastFrame = 40
SPECIFICATION PartsSpec
INVARIANTS
    ReceiverTypeOK
    OutputInOrder
    BufferInWindow
    AcksWritten
    RttTypeOK
    EstimateBounded
    TimeoutCoversSample
    OutputStartsWithInput
    SavedIsSent
    StopsWithLastByte
    AckedWasDelivered
    WindowTestsExact
PROPERTIES
    BufferedUntilWritten
    FrameTimeoutCoversSample
