CONSTANTS
    None = None
    Ops <- MCOps
    Tidy <- MCTidy
    MaxRequests = 3
    MaxRepeats = 2
SPECIFICATION FairSpec
INVARIANTS OkWasExecuted OneLateIsHarmless
PROPERTIES WedgedForGood RequestsReturn
CHECK_DEADLOCK FALSE
