SPECIFICATION FairSpec
CONSTANTS
    r1 = r1
    t1 = t1
    t2 = t2
    Runs = {r1}
    Turns = {t1, t2}
    Threshold = 2
    MaxRetries = 2
    MaxSteps = 2
    Cap = 2
    MaxCost = 2
INVARIANTS
    TypeOK
    OverspendBounded
    FailuresBounded
PROPERTY
    EveryCallEnds
