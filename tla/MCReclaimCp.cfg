SPECIFICATION Spec
CONSTANTS
    f1 = f1
    f2 = f2
    f3 = f3
    m1 = m1
    m2 = m2
    d1 = d1
    d2 = d2
    Cleaners = {c1}
    Tools = {t1}
    Segs = {s1, s2}
    Blocks = {f1, f2, m1, d1, d2}
    Kind <- MCKind
    InitBlocks = {f1, m1, d1}
    CNO_MAX = 9
    SeqMod = 8
    InitSeq = 7
    Faults <- KillFaults
    MaxCno = 3
    MaxSeq = 8
    MaxCalls = 2
    MaxFaults = 1
    Uses <- DryUses
    ProtCnos = {0, 2, 9}
    NSegs = 1
SYMMETRY Symmetry
CHECK_DEADLOCK FALSE
INVARIANTS
    NothingNeededLost
PROPERTIES
    ProtectedCheckpointsKept
