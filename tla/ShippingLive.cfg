SPECIFICATION FairSpec
CONSTANTS
    r1 = r1
    r2 = r2
    r3 = r3
    Record <- TwoRecords
    Rejected <- Poison1
    SegmentCap = 2
    SyncBatch = 2
    Fsync = "always"
    BatchSize = 2
    MaxAttempts = 2
    MaxStops = 1
    MaxCorruptions = 1
INVARIANTS
    AlwaysDurable
PROPERTIES
    EventuallyDelivered
    EventuallyReclaimed
CHECK_DEADLOCK FALSE
