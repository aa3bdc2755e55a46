CONSTANTS
    one = one
    two = two
    A = A
    B = B
    None = None
    Pods = {one, two}
    Containers <- MCContainers
    Adapted <- MCAdapted
    FirstId = 1000
    MaxId = 1008
    MaxFaults = 1
SPECIFICATION Spec
INVARIANTS CountedIsActive OneStrayPerFault
PROPERTY RetriedIsDeployed
