CONSTANTS
    Pid = {p1, p2}
    NoPid = NoPid
    d1 = d1
    d2 = d2
    Dir = {d1, d2}
    Period = {}
    NoPeriod = NoPeriod
    h1 = h1
    h2 = h2
    Helper = {h1, h2}
    None = None
    Requests <- MCRequests
    MaxStart = 3
    MaxKill = 1
    MaxFail = 0
CHECK_DEADLOCK FALSE
SPECIFICATION Spec
INVARIANTS
    MtabLocked
    MtabTrue
PROPERTIES
    HelperReturns
