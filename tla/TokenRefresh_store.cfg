SPECIFICATION Spec
CONSTANTS
    p1 = p1
    p2 = p2
    Proc = {p1, p2}
    NoProc = NoProc
    LockTTL = 2
    HoldLimit = 1
    Wait = 1
    Advance = 1
    Life = 2
    Horizon = 3
    MaxTime = 5
    MaxIssued = 2
SYMMETRY ProcSymmetry
INVARIANTS
    ResultNotOlder
    NoTokenBurnt
PROPERTIES
    ImplementsSerialRefresh
CHECK_DEADLOCK FALSE
