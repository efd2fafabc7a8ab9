SPECIFICATION Spec
CONSTANTS
    None = None
    Skus = {sku_a}
    Runs = {q1, q2, d1}
    Queued = {q1, q2}
    Stocks = {4, 8}
    Grains = 10
    Demands <- MCDemands
    LeadTime = 2
    Lead = 2
    MaxRows = 2
    Moq <- MCMoq
    Edits = {6, 20}
    Window = 1
    Transit = 2
    MaxClock = 3
SYMMETRY QueuedRuns
CHECK_DEADLOCK FALSE
INVARIANTS
    TypeOK
    NoDuplicateUnlessTied
    NoOverOrder
    CriticalIsOrdered
