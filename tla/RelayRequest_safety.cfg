SPECIFICATION FairSpec
CONSTANTS
    Account = {a1, a2}
    Request = {q1}
    Session = {s1}
    MaxRetryAccounts = 3
    Code = {200, 401, 403}
    Preferred = {a1}
    a1 = a1
    a2 = a2
    q1 = q1
    s1 = s1
    NoAccount = NoAccount
    NoSession = NoSession
    Unnamed = Unnamed
    Priority <- TwoPriorities
INVARIANTS
    TypeOK
    AskedAgainOnlyAfterForbidden
    BoundTriedFirst
    BindingsExpire
PROPERTIES
    BindingMovesForCause
    SteadyAccountIsReached
    EveryStepCounts
    RequestsEnd
