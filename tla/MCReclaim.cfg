SPECIFICATION Spec
CONSTANTS
    f1 = f1
    f2 = f2
    f3 = f3
    m1 = m1
    m2 = m2
    d1 = d1
    d2 = d2
    Cleaners = {c1, c2}
    Tools = {}
    Segs = {s1, s2, s3}
    Blocks = {f1}
    Kind <- MCKind
    InitBlocks = {f1}
    CNO_MAX = 9
    SeqMod = 8
    InitSeq = 7
    Faults <- AllFaults
    MaxCno = 2
    MaxSeq = 9
    MaxCalls = 2
    MaxFaults = 1
    Uses <- DeferUse
    ProtCnos = {9}
    NSegs = 2
CHECK_DEADLOCK FALSE
INVARIANTS
    SegnumsSound
    LockNotLeaked
PROPERTIES
    RecoveryLogKept
    CallReturns
