SPECIFICATION Spec
CONSTANTS
    Segs = {s1, s2}
    Configs <- MCConfigs
    BadFile = BadFile
    RsvRatio = 0
    NILFS_MIN_NRSVSEGS = 0
    Faults <- MemFaults
    MaxWrites = 0
    MaxCmds = 1
    MaxFaults = 1
    MaxPasses = 2
PROPERTIES
    ManualRunEnds
    ReloadServed
    LowSpaceResumes
CHECK_DEADLOCK FALSE
