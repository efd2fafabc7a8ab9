SPECIFICATION FairSpec
CONSTANTS
    None = None
    o1 = o1
    o2 = o2
    s1 = s1
    Job = Job
    Request = Request
    Orders = {o1, o2}
    Skus = {s1}
    SkuOf <- MCSkuOf
    Drafted = 2
    Approvable = {1, 2}
    Lead = 1
    Window = 1
    MaxDay = 2
    MaxAborts = 0
CHECK_DEADLOCK FALSE
PROPERTY EveryOrderIsEvaluated
