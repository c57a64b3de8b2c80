SPECIFICATION Spec
CONSTANTS
    w1 = w1
    w2 = w2
    r1 = r1
    r2 = r2
    r3 = r3
    Nobody = Nobody
    NoRecord = NoRecord
    Worker <- TwoWorkers
    Record <- ThreeRecords
    Identified <- NoneOfThem
    Policies <- TwoPolicies
    BatchSize = 2
    MaxStops = 0
SYMMETRY Alike
INVARIANTS
    RecoverIsExact
CHECK_DEADLOCK FALSE
