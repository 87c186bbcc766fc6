CONSTANTS
    Others = TRUE
    Legacy = TRUE
    MaxRevision = 2
    MaxRelease = 2
    MaxMishap = 1
SPECIFICATION FairSpec
\* Every actor may be done, or wait for an operator.
CHECK_DEADLOCK FALSE
INVARIANTS
    TypeOK PolicyBeforeStop GoneStaysGone OneOpenRound
PROPERTIES
    NeverReactivated NeverRelaunched TrafficEnds
