SPECIFICATION Spec
CONSTANTS
    Streams <- AllStreams
    IdleLimit = 1
    RequestLimit = 1
    Longest = 1
    Representable = 2
    SendBuffer = 1
    MaxSignals = 0
INVARIANTS
    StalledRequestIsTold
