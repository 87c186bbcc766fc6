SPECIFICATION FairSpec
CONSTANTS
    t1 = t1
    t2 = t2
    t3 = t3
    t4 = t4
    g1 = g1
    g2 = g2
    NULL = NULL
    Thread <- MCThread
    Gate <- MCGate
    MaxWaiters = 2
INVARIANTS MutualExclusion NoLostWakeup QueueExact
PROPERTIES AdmittedInOrder WaiterAnswered
