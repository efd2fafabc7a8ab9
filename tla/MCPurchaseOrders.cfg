SPECIFICATION FairSpec
CONSTANTS
    None = None
    graph_po = graph_po
    chat_po = chat_po
    run1 = run1
    k1 = k1
    k2 = k2
    r1 = r1
    r2 = r2
    r3 = r3
    POs = {graph_po, chat_po}
    Threads = {run1}
    ThreadOf <- MCThreadOf
    Drafted <- MCDrafted
    Quantities = {1, 2, 3}
    Keys = {k1, k2}
    Requests = {r1, r2, r3}
    CallsOf <- MCCallsOf
    CacheMax = 1
    MaxCrashes = 1
CHECK_DEADLOCK FALSE
INVARIANTS
    TypeOK
    AnswersTrue
    AuditMatchesDecision
    EditNeverSilent
    NoOrphanInterrupt
PROPERTIES
    RefinesDecision
    EveryRequestSettles
