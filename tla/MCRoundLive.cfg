\* A round that has ended, or that no request follows, may stop the system.
CHECK_DEADLOCK FALSE
SPECIFICATION RetrySpec
CONSTANTS
    q1 = q1
    q2 = q2
    Request <- TwoRequests
    Faults = {TRUE, FALSE}
    MaxGen = 4
    MaxCrash = 1
    MaxOperator = 0
PROPERTIES CancelSettles EventuallyReleased
