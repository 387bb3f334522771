SPECIFICATION Spec
CONSTANTS
    NCPINFO = 3
    MINDELTA = 1
    Cps = {1, 2, 5, 10, 14}
    MaxCp = 16
    Snapshots <- McSnapshots
    Minors <- McMinors
    Starts = {0, 6}
    Counts = {0, 2}
    MaxNewCps = 1
    MaxDelete = 1
    SegBlkSizes = {4, 8}
    SegHdrSizes = {2, 5}
    SegFiles <- McFiles
    SegBadCounts = {0, 1, 2, 31, 32, 33, 64, 255, 256, 510, 511}
    M32 = 512
    MkInputs <- McMkInputs
    TuneEdits <- McEdits
    MaxCommits = 1
    LogBlocks <- McLogBlocks
    NSUINFO = 2
    NUsages = 3
    UsageStates <- McUsages
    BLOCKS = 4
    Now = 10
    Protection = 3
    CheckInterval = 2
    NongcTimes = {3}
    PerCleanMax = 2
    AgeWindow = 1
    MaxTouched = 1
    FsReal <- McFsReal
    FsDirs = {"d", "e"}
    MaxMounts = 2
    MaxMountChanges = 1
    CldFiles <- McConfFiles
    CldOverride <- McOverride
    CldGeom <- McGeom
    ULL = 1073741824
    MaxReloads = 1
    GcBlockKinds <- McBlockKinds
    GcSnapshots = {2, 4, 5}
    GcProtects = {3, 7, 99}
    GcNBlocks = 3
    CNO_MAX = 99
    INIT_MAXELEMS = 2
    FACTOR = 2
    VecElemSizes = {1, 3}
    SIZE_MAX = 31
    VecCounts = {0, 1, 2, 7}
    MaxOps = 4
CHECK_DEADLOCK FALSE
INVARIANTS
    WalkExact
    IterExact
    
    TuneSound
    
    
    OpenedTogether
    ConfigSound
    ListsExact
    VectorIsList
PROPERTIES
    WalkEnds
    TuneKeepsLogs
