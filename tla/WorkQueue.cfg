CONSTANTS
    k1 = k1
    k2 = k2
    w1 = w1
    w2 = w2
    None = None
    Keys <- MCKeys
    Workers <- MCWorkers
    Delays <- MCDelays
    Backoffs <- MCBackoffs
    MaxRetries = 2
    MaxTime = 4
SPECIFICATION FairSpec
INVARIANTS TypeOK Ordered OneAtATime LastWishWins LooksInTime
PROPERTIES EnqueuedIsHandled RunReturns
CHECK_DEADLOCK FALSE
