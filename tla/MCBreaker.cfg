SPECIFICATION HealthySpec
CONSTANTS
    r1 = r1
    t1 = t1
    t2 = t2
    Runs = {r1}
    Turns = {t1}
    Threshold = 2
    MaxRetries = 2
    MaxSteps = 2
    Cap = 1
    MaxCost = 1
PROPERTY
    BreakerResets
