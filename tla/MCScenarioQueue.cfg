\* When every request was submitted and has ended the queue really is idle.
CHECK_DEADLOCK FALSE
SPECIFICATION FairSpec
CONSTANTS
    q1 = q1
    q2 = q2
    q3 = q3
    Request <- MCRequest
    MaxCrash = 2
INVARIANTS NoHiddenRound StartedInOrder
PROPERTIES NoOverlap QueueDrains
