SPECIFICATION HotSpec
CONSTANTS
    t1 = t1
    t2 = t2
    i1 = i1
    Nobody = Nobody
    Backends <- Both
    Thread <- TwoThreads
    Instance <- OneInstance
    Window = 2
    MaxDelay = 1
    MaxAhead = 1
    MaxClock = 3
    MaxCalls = 3
    Limit = 2
    Subjects <- AllSubjects
SYMMETRY AnyThread
INVARIANTS
    HotTypeOK
    RecentCounted
    NothingOldCounted
    DecidesByWindow
    BlindIsCounted
    LossIsARace
CHECK_DEADLOCK FALSE
