SPECIFICATION FairSpec
CONSTANTS
    Pause401 = 2
    Pause403 = 1
    Pause429 = 1
    Pause529 = 1
    Window = 2
    Hour = 2
    Grace = 1
    a1 = a1
    q1 = q1
    q2 = q2
    Account = {a1}
    Request = {q1, q2}
    WarnStops = {}
    Response <- StopResponses
    Quiet <- Ok
    NoAccount = NoAccount
    NoResponse = NoResponse
    Horizon = 0
    MaxTime = 5
    MaxFaults = 0
PROPERTIES
    RejectedRecovers
