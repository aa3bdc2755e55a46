CONSTANTS
    a = a
    b = b
    None = None
    Images <- MCImages
    MaxId = 2
    MaxPipe = 2
SPECIFICATION Spec
INVARIANTS TypeOK Ascending DeployedIsActive CallInv
PROPERTY KeepsPromise
