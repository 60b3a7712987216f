SPECIFICATION ServerFairSpec
CONSTANTS
    alice = alice
    bob = bob
    other = other
    c1 = c1
    c2 = c2
    r1 = r1
    NoProxy = NoProxy
    Direct = Direct
    Account = {alice, bob, other}
    Client = {c1, c2}
    Refresh = {r1}
    Request = {c1, c2, r1}
    Host = {"h"}
    Port = {1, 2}
    User = {"alice", "bob"}
    ProxyOf <- Proxies
    IdleTimeout = 1
    DrainLimit = 1
    MaxTime = 2
    MaxBuilt = 2
INVARIANTS
    ServerTypeOK
    RightRoute
    KeptWhileRecent
    ClosedUnderNobody
    CutOnlyAfterLimit
PROPERTIES
    SignalEndsProcess
CHECK_DEADLOCK FALSE
