SPECIFICATION Spec
CONSTANTS
    Chunks <- SmallChunks
    Counts <- SmallCounts
    MaxLine = 2
    MaxTotal = 6
INVARIANTS
    TypeOK
    NoTerminatorBeforeScanned
PROPERTIES
    ImplementsByteStream
