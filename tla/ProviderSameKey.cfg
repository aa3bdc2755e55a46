CONSTANTS
    a = a
    b = b
    c = c
    p1 = p1
    p2 = p2
    k1 = k1
    k2 = k2
    w1 = w1
    w2 = w2
    s1 = s1
    None = None
    Images <- MCImages
    Pods <- MCPods
    Keys <- MCKeys
    Scrapers <- MCScrapers
    Workers <- MCWorkers
    KeyOf <- SameKey
    Containers <- MCContainers
    Adapted <- MCAdapted
    MaxId = 2
    MaxFaults = 1
SPECIFICATION Spec
SYMMETRY Symmetry
INVARIANT GetPodByName
