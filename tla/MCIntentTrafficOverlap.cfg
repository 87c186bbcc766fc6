CONSTANTS
    Others = FALSE
    Legacy = FALSE
    MaxRevision = 1
    MaxRelease = 3
    MaxMishap = 0
SPECIFICATION FairSpec
\* Every actor may be done, or wait for an operator.
CHECK_DEADLOCK FALSE
PROPERTIES RetryFinishes
