SPECIFICATION Spec
CONSTANTS
    Account = {a1, a2}
    UUID = {u}
    Client = {c}
    Session = {t1, t2}
    SessionUUID = {t1}
    Default = Default
    NoUUID = NoUUID
    NoSession = NoSession
    NoUser = NoUser
    NoAttempt = NoAttempt
    MaxCacheControls = 2
    Identified = {a1}
    AnyUUID = u
    MaxSystem = 2
    MaxMessages = 3
    a1 = a1
    a2 = a2
    t1 = t1
    t2 = t2
    AccountUUID <- UUIDs
    RawBody <- Bodies
INVARIANTS
    TypeOK
    CacheControlsLimited
    SessionKept
    SessionIsBound
