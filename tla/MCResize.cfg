SPECIFICATION FairSpec
CONSTANTS
    N = 4
    RsvRatio = 5
    NILFS_MIN_NRSVSEGS = 1
    NSegNums = 2
    PerClean = 2
    Users = TRUE
    Faults = {"prompt", "limit", "read", "lock", "truncate", "move", "cursor", "prod",
              "restore", "signal"}
CHECK_DEADLOCK FALSE

    
PROPERTIES
    ShrinkEnds
