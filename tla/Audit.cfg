SPECIFICATION DrillSpec
CONSTANTS
    w1 = w1
    w2 = w2
    r1 = r1
    r2 = r2
    r3 = r3
    r4 = r4
    Nobody = Nobody
    NoRecord = NoRecord
    Worker <- TwoWorkers
    Record <- FourRecords
    Identified <- NoneOfThem
    Policies <- TwoPolicies
    Drivers <- BothDrivers
    BatchSize = 2
    MaxStops = 1
SYMMETRY Alike
INVARIANTS
    DrillTypeOK
    BufferedIsLogged
    UnsyncedBounded
    NothingUnaccounted
    AnsweredIsDurable
    DrillComplete
CHECK_DEADLOCK FALSE
