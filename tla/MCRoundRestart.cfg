CHECK_DEADLOCK FALSE
SPECIFICATION RetrySpec
CONSTANTS
    q1 = q1
    q2 = q2
    Request <- OneRequest
    Faults = {FALSE}
    MaxGen = 3
    MaxCrash = 1
    MaxOperator = 1
PROPERTY RestartCleansUp
