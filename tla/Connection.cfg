SPECIFICATION FairSpec
CONSTANTS
    Streams <- AllStreams
    IdleLimit = 1
    RequestLimit = 2
    Longest = 2
    Representable = 2
    SendBuffer = 1
    MaxSignals = 1
INVARIANTS
    TypeOK
    AnswersFollowRequests
    DripIsBounded
    FreshDeadlinesAreKept
    WriteIsBounded
    ClientReadsEveryReply
    PatientClientIsTold
    FlagIsNeverInvented
PROPERTIES
    EveryWaitEnds
