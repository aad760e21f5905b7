CONSTANTS
    SWS = 5
    NFrames = 4
    MaxSacks = 0
    MaxInFlight = 5
SPECIFICATION SenderSpec
INVARIANT TimerArmed
