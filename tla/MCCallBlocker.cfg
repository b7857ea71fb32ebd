\* Two calls, blocked or not; the process may die once.
CONSTANTS
    Calls = {c1, c2}
    NoCall = NoCall
    Behaviors = {"hangUp", "silence"}
    MaxListeners = 2
    MaxDeaths = 1
SPECIFICATION Spec
INVARIANTS
    TypeOK
    OneThreadPerCall
    NoCallSlips
PROPERTIES
    ThreadsEnd
\* All calls may be over.
CHECK_DEADLOCK FALSE
