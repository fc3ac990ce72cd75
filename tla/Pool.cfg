SPECIFICATION Spec
CONSTANTS
    c1 = c1  c2 = c2  c3 = c3  c4 = c4
    w1 = w1  w2 = w2  w3 = w3
    Clients <- FourClients
    Workers <- ThreeWorkers
    Queued = 2
    QueueWait = 1
    Unlucky <- OneUnlucky
    SpawnFaults <- AnyFault
    Owner = Owner
    None = None
SYMMETRY Interchangeable
INVARIANTS
    TypeOK
    SocketHasOneOwner
    NobodySleepsOnWork
    JoinedWorkersAreAwake
    NoBlockingUnderLock
    NoWorkerOutlivesPool
PROPERTIES
    ImplementsDispatch
