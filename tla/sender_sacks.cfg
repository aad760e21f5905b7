CONSTANTS
    SWS = 5
    NFrames = 4
    MaxSacks = 1
    MaxInFlight = 4
SPECIFICATION SenderSpec
INVARIANTS
    QueuesHoldOutstanding
    TimerTracksEntry
    ReadsEnabled
    NotWithheldTwice
