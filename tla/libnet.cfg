SPECIFICATION FairSpec
CONSTANTS
    RingSize = 7
    Rtts = {1, 4}
    TxTimes = {1, 2}
    Lossy = TRUE
    Trains = {3}
    HandlerSends = 2
    MaxPackets = 7
INVARIANTS
    LibnetTypeOK
    OneInQueue
    HandlerNeverBlocked
    LateBehindOlderOrHandler
PROPERTIES
    ImplementsDelayLine
    QueuedIsTransmitted
    SendReturns
