SPECIFICATION FairSpec
CONSTANTS
    w1 = w1
    w2 = w2
    health = health
    small = small
    middle = middle
    large = large
    NoRequest = NoRequest
    Worker <- TwoWorkers
    Prober <- OneProber
    Request <- TwoRequests
    Tier <- Amounts2
    Quality <- FreshOrStale
    Score <- ThreeScores
    Threshold = 1
INVARIANTS
    TypeOK
    AnswerIsAudited
    LargeNeedsModel
    StalenessTightens
PROPERTIES
    RequestEnds
    ClosesWhenProbed
CHECK_DEADLOCK FALSE
