CONSTANTS
    Pid = {p1, p2}
    NoPid = NoPid
    d1 = d1
    d2 = d2
    Dir = {d1, d2}
    P = P
    Period = {P}
    NoPeriod = NoPeriod
    Helper = {h1}
    Requests <- MCRequests
    MaxFail = 1
SPECIFICATION Spec
INVARIANTS
    CleanerUnderControl
PROPERTIES
    PeriodKept
    HelperEnds
