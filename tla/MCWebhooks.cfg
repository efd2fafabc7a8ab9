SPECIFICATION FairSpec
CONSTANTS
    None = None
    order = order
    update = update
    first = first
    second = second
    long = long
    Events = {order, update}
    Deliveries = {first, second, long}
    EventOf <- MCEventOf
    Oversized = {long}
    CacheSize = 1
    MaxRetries = 2
    Batch = 1
    MaxOutages = 2
CHECK_DEADLOCK FALSE
INVARIANTS
    TypeOK
    ProcessedIsApplied
    FailureIsKept
    OkIsRemembered
PROPERTY
    EveryFailureSettles
