SPECIFICATION FairAppSpec
CONSTANTS
    c1 = c1  c2 = c2  c3 = c3
    w1 = w1
    Clients <- ThreeClients
    Workers <- OneWorker
    Queued = 1
    \* One tick is longer than queue_wait: a wait is in time or too late.
    QueueWait = 0
    Unlucky <- Nobody
    SpawnFaults <- OutOfThreads
    Owner = Owner
    None = None
    DescriptorLimit = 2
    Hiccups <- SomeHiccups
    Calls <- OneOrNone
INVARIANTS
    AppTypeOK
    NoListedErrorEndsTheServer
    RunLeavesNothingBehind
PROPERTIES
    EveryClientIsReleased
    BrokenListenerEndsTheServer
    EveryArrivalIsDealtWith
