CONSTANTS
    SWS = 5
    NFrames = 3
    MaxSacks = 0
    MaxInFlight = 5
SPECIFICATION SenderSpec
INVARIANT TailNeverEmpty
