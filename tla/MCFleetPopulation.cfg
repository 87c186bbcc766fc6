CONSTANTS
    a = a
    b = b
    p = p
    q = q
    Owners = {a, b}
    Ops = {p, q}
    NoOne = NoOne
    FleetSize = 1
    MaxAdd = 1
    MaxDevice = 3
    MaxGen = 4
    MaxHold = 2
    MaxCrash = 1
SPECIFICATION Spec
SYMMETRY Symmetry
\* Every operation may have been used up.
CHECK_DEADLOCK FALSE
INVARIANTS DispatchedOnce Quarantined PublishedProved
PROPERTIES Covered HoldExclusive
