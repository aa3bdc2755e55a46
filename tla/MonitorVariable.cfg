CONSTANTS
    r1 = r1
    r2 = r2
    Nothing = Nothing
    Readers <- MCReaders
    MaxVersion = 3
SPECIFICATION MonitorFairSpec
INVARIANTS MonitorTypeOK ClosedIffNews NothingMissed
PROPERTY LastValueIsRead
