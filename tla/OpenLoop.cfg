SPECIFICATION FairSpec
CONSTANTS
    w1 = w1
    w2 = w2
    health = health
    Worker <- TwoWorkers
    Prober <- OneProber
    Threshold = 2
    MaxQueue = 1
    MaxOffered = 3
    MaxRuns = 2
INVARIANTS
    FailuresBounded
    ReportAddsUp
PROPERTIES
    RunReturns
CHECK_DEADLOCK FALSE
