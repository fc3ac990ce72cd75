SPECIFICATION Spec
CONSTANTS
    Unescape <- Escapes
    Uppercased <- Upper
    Parameters <- Converters
    Registered <- SomeRoutes
    Requests <- SomeRequests
    Copies <- SomeCopies
    Chain = 2
    MaxCalls = 2
INVARIANTS
    TypeOK
    RouteChosenOnce
    HandlersNeverUnwind
PROPERTIES
    EveryRequestAnswered
