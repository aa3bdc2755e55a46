CONSTANTS
    f1 = f1
    f2 = f2
    None = None
    Forwards <- MCForwards
    Headers <- MCHeaders
SPECIFICATION FairSpec
INVARIANTS RemovesItsOwn PairsMatch CompleteOnce
PROPERTY PairsGo
CHECK_DEADLOCK FALSE
