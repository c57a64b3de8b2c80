SPECIFICATION FairSpec
CONSTANTS
    w1 = w1
    w2 = w2
    prometheus = prometheus
    curl = curl
    Worker <- TwoWorkers
    Scraper <- TwoScrapers
    Prometheus = prometheus
    MaxRequests = 2
    MaxRestarts = 1
    EvalEvery = 3
    RateWindow = 3
    For = 3
    Deadline = 7
INVARIANTS
    ExportBounded
    PageComplete
    CounterInBounds
PROPERTIES
    SilenceFires
    DrillFires
CHECK_DEADLOCK FALSE
