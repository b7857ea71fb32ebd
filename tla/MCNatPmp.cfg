CONSTANTS
    Callers = {"app", "patient"}
    MaxTry = 3
    MaxDelay = 1
SPECIFICATION Spec
INVARIANTS
    TypeOK
    UrlIsMapped
PROPERTIES
    NoEarlyGiveUp
    CallerReturns
CHECK_DEADLOCK FALSE
