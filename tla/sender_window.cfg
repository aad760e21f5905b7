CONSTANTS
    SWS = 5
    NFrames = 8
    MaxSacks = 0
    MaxInFlight = 8
SPECIFICATION SenderSpec
INVARIANTS
    SenderTypeOK
    CongestionWindowBound
    WindowBound
    SavedUntilAcked
    CancelFindsEvent
    WakeupPending
    SampleIsFirstTransmission
