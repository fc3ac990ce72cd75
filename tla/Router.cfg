SPECIFICATION Spec
CONSTANTS
    Registrations <- SomeRegistrations
    Queries <- SomeQueries
    MaxRoutes = 2
    Unescape <- Escapes
    Uppercased <- Upper
    Parameters <- Converters
\* A router that has been asked is done.
CHECK_DEADLOCK FALSE
INVARIANTS
    TypeOK
    NormalizedAsWritten
    RestStaysBelow
    RestGainsNoSeparator
    FindAgreesWithAllowed
    FirstRegistrationWins
