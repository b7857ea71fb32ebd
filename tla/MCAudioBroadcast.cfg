CONSTANTS
    Clients = {c1, c2}
    NoHandle = none
SPECIFICATION Spec
INVARIANT CloseIsFinal
CHECK_DEADLOCK FALSE
