SPECIFICATION FairSpec
CONSTANTS
    c1 = c1  c2 = c2  c3 = c3  c4 = c4
    w1 = w1  w2 = w2  w3 = w3
    Clients <- OneClient
    Workers <- TwoWorkers
    Queued = 1
    QueueWait = 1
    Unlucky <- Nobody
    SpawnFaults <- OutOfThreads
    Owner = Owner
    None = None
PROPERTIES
    SmallerPoolStillServes
