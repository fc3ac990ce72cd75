SPECIFICATION FairSpec
CONSTANTS
    Conversations <- AllConversations
    MaxLine = 14
    MaxHead = 6
    MaxFields = 3
    MaxBody = 2
    MaxDrain = 4
    SizeMax = 64
\* Only calls after a failure remain, and their number is bounded.
CHECK_DEADLOCK FALSE
INVARIANTS
    TypeOK
    ReaderStaysInStep
    EachMessageIsJudgedAlone
PROPERTIES
    FailureLatches
    EveryMessageGetsAResult
