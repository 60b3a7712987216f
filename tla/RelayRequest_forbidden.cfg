SPECIFICATION Spec
CONSTANTS
    Account = {a1, a2}
    Request = {q1}
    Session = {s1}
    MaxRetryAccounts = 2
    Code = {200, 401, 403, 429, 500, 529}
    Preferred = {}
    a1 = a1
    a2 = a2
    q1 = q1
    s1 = s1
    NoAccount = NoAccount
    NoSession = NoSession
    Unnamed = Unnamed
    Priority <- TwoPriorities
INVARIANTS
    ForbiddenIsRetried
