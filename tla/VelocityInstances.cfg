SPECIFICATION Spec
CONSTANTS
    t1 = t1
    t2 = t2
    i1 = i1
    i2 = i2
    Nobody = Nobody
    Backends <- OnlyRedis
    Thread <- TwoThreads
    Instance <- TwoInstances
    Window = 2
    MaxDelay = 1
    MaxAhead = 0
    MaxClock = 5
    MaxCalls = 4
INVARIANTS
    RecentCounted
CHECK_DEADLOCK FALSE
