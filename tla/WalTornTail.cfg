SPECIFICATION WalSpec
CONSTANTS
    r1 = r1
    r2 = r2
    r3 = r3
    r4 = r4
    Record <- FourRecords
    SegmentCap = 3
    SyncBatch = 2
    Fsync = "batch"
    MaxStops = 1
SYMMETRY Alike
INVARIANTS
    AppendedIsReadable
CHECK_DEADLOCK FALSE
