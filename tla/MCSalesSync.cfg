SPECIFICATION Spec
CONSTANTS
    None = None
    old = old
    new = new
    far = far
    o1 = o1
    o2 = o2
    o3 = o3
    Tasks = {q1, q2}
    MaxResults = 1
    Skus = {old, new, far}
    Orders = {o1, o2, o3}
    SkuOf <- MCSkuOf
    Catalog <- MCCatalog
    Cut = {o1}
    Earlier <- MCEarlier
    PageSize = 2
    Runs = {q1, q2, d1}
    Scoped = {q1, q2}
    Owned = {old}
    MaxEvents = 2
SYMMETRY QueuedRuns
CHECK_DEADLOCK FALSE
INVARIANTS
    TypeOK
    RunSeesFreshStock
    RunCountsOrders
PROPERTY ResultKept
