SPECIFICATION Spec
CONSTANTS
    w1 = w1
    w2 = w2
    health = health
    small = small
    middle = middle
    large = large
    NoRequest = NoRequest
    Worker <- TwoWorkers
    Prober <- OneProber
    Request <- ThreeRequests
    Tier <- Amounts3
    Quality <- FreshOrStale
    Score <- ThreeScores
    Threshold = 1
INVARIANTS
    EveryRequestAnswered
CHECK_DEADLOCK FALSE
