SPECIFICATION Spec
CONSTANTS
    r1 = r1
    r2 = r2
    r3 = r3
    Record <- ThreeRecords
    Rejected <- Poison3
    SegmentCap = 2
    SyncBatch = 2
    Fsync = "batch"
    BatchSize = 2
    MaxAttempts = 2
    MaxStops = 2
    MaxCorruptions = 1
SYMMETRY Alike
INVARIANTS
    WatermarkSound
    NoDecisionLost
PROPERTIES
    WatermarkFirst
    ImplementsPromise
    ImplementsWal
CHECK_DEADLOCK FALSE
