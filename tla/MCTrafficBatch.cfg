CONSTANTS
    a = a
    b = b
    Shards = {a, b}
    MaxMishap = 1
SPECIFICATION Spec
SYMMETRY Symmetry
\* A measurement ends once; a token may stay in quarantine.
CHECK_DEADLOCK FALSE
INVARIANTS
    ClosedMeansSilent VerifiedMeansClosed OneEpoch AcceptedMeasured Owned
