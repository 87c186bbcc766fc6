\* A backend whose requests and operator bounds are used up really is idle.
CHECK_DEADLOCK FALSE
SPECIFICATION Spec
CONSTANTS
    q1 = q1
    q2 = q2
    Request <- MCRequest
    Faults = {TRUE}
    MaxGen = 4
    MaxCrash = 2
    MaxOperator = 1
SYMMETRY Symmetry
INVARIANTS ReleasedOwnsNothing WrittenOnce
PROPERTIES ResidentFleetKept NoWorkAfterCleaning OwnershipKept
