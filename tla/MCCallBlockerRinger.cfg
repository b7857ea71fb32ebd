\* Two calls that are silenced; no process death is needed.
CONSTANTS
    Calls = {c1, c2}
    NoCall = NoCall
    Behaviors = {"silence"}
    MaxListeners = 1
    MaxDeaths = 0
SPECIFICATION Spec
SYMMETRY Symmetry
INVARIANTS
    RingerRestored
\* All calls may be over.
CHECK_DEADLOCK FALSE
