SPECIFICATION Spec
CONSTANTS
    a = a
    b = b
    confirm1 = confirm1
    confirm2 = confirm2
    cancel1 = cancel1
    other = other
    Actions <- MCActions
    Requests <- MCRequests
    OpOf <- MCOpOf
    ActionOf <- MCActionOf
SYMMETRY SameConfirmation
CHECK_DEADLOCK FALSE
INVARIANTS
    TypeOK
    SettledIsNotOrdered
