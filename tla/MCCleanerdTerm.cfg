SPECIFICATION Spec
CONSTANTS
    Segs = {s1, s2}
    Configs <- MCConfigs
    BadFile = BadFile
    RsvRatio = 0
    NILFS_MIN_NRSVSEGS = 0
    Faults <- TermFaults
    MaxWrites = 0
    MaxCmds = 0
    MaxFaults = 1
    MaxPasses = 1
INVARIANT ExitLeavesFsThawed
CHECK_DEADLOCK FALSE
