CONSTANTS
    a = a
    b = b
    c = c
    p1 = p1
    p2 = p2
    k1 = k1
    k2 = k2
    w1 = w1
    w2 = w2
    s1 = s1
    None = None
    Images <- TwoImages
    Pods <- MCPods
    Keys <- MCKeys
    Scrapers <- MCScrapers
    Workers <- MCWorkers
    KeyOf <- MCKeyOf
    Containers <- OneContainer
    Adapted <- MCAdapted
    MaxId = 1
    MaxFaults = 1
SPECIFICATION FairSpec
PROPERTIES DeletedPodsGo MutexReleased
