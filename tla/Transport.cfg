SPECIFICATION FairSpec
CONSTANTS
    c1 = c1
    c2 = c2
    Caller <- TwoCallers
    Kind <- BinaryAndGrpc
    MaxCalls = 2
    MaxStarts = 2
INVARIANTS
    AnswerBelongs
    StartTells
    EveryCallCounted
PROPERTIES
    CallEnds
    StartEnds
CHECK_DEADLOCK FALSE
