SPECIFICATION Spec
CONSTANTS
    Segs = {s1, s2}
    Configs <- MCConfigs
    BadFile = BadFile
    RsvRatio = 0
    NILFS_MIN_NRSVSEGS = 0
    Faults <- AllFaults
    MaxWrites = 1
    MaxCmds = 2
    MaxFaults = 1
    MaxPasses = 1
SYMMETRY Symmetry
INVARIANTS
    TypeOK
    PassOnlyWhenRunning
    IdleNeverSpins
    
    PausedAboveMax
    
 
CHECK_DEADLOCK FALSE
