CONSTANTS
    Period = {0, 1, 3}
    NcpPerSpan = 2
    MaxClock = 4
    MaxCno = 3
    MaxBack = 1
    MaxRewind = 1
    MaxFail = 1
SPECIFICATION Spec
INVARIANTS
    PeriodAnswered
    HistorySound
