CONSTANTS
    a = a
    b = b
    p = p
    Owners = {a, b}
    Ops = {p}
    NoOne = NoOne
    FleetSize = 1
    MaxAdd = 1
    MaxDevice = 2
    MaxGen = 4
    MaxHold = 2
    MaxCrash = 0
SPECIFICATION FairSpec
\* Every operation may have been used up.
CHECK_DEADLOCK FALSE
PROPERTIES UnchangedFleetStops
