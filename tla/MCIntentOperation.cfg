CONSTANTS
    a = a
    b = b
    Intents = {a, b}
    Resources = {r}
    None = None
    MaxOp = 3
    MaxRevision = 2
    MaxMishap = 1
SPECIFICATION Spec
SYMMETRY Symmetry
\* Every operation may have ended.
CHECK_DEADLOCK FALSE
INVARIANTS
    Journalled Guarded ReleasedMeansRestored
PROPERTIES
    OneWriter NoReplay
