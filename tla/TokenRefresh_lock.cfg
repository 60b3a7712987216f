SPECIFICATION FairSpec
CONSTANTS
    p1 = p1
    p2 = p2
    Proc = {p1, p2}
    NoProc = NoProc
    LockTTL = 2
    HoldLimit = 1
    Wait = 1
    Advance = 1
    Life = 2
    Horizon = 2
    MaxTime = 4
    MaxIssued = 1
INVARIANTS
    TypeOK
    MutualExclusion
PROPERTIES
    OnlyOwnerReleases
    LockIsFreed
    CallsEnd
CHECK_DEADLOCK FALSE
