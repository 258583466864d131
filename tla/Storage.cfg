INIT StorageInit
NEXT StorageNext
CONSTANTS
    entA = entA
    entB = entB
    NInodes = 4
    NZones = 5
    Direct = 2
    PerBlock = 3
    Names = {entA, entB}
    Link = entA
    Target <- NoTarget
    Values = {1}
    Handles = {h1}
    MaxFaults = 1
    MaxOps = 4
    FZones = 16
    BS = 2
    ND = 2
    NE = 3
    CacheMax = 16
    Offsets = {0, 1, 3, 6, 8, 11}
    Lengths = {1, 4, 7, 12}
    FileLens = {0, 3, 5, 10, 12, 20, 28}
    FMaxOps = 3
    NDisks = 2
    Machines <- MCMachines
    FProcs = {f1, f2}
    UserPaths <- MCUserPaths
    OpenModes <- MCOpenModes
    CompOrder <- MCCompOrder
    Cpio <- MCCpio
    LiveDirs <- MCLiveDirs
    FMaxFd = 2
    FMaxFiles = 5
    FMaxLen = 2
    FMaxCalls = 3
SYMMETRY StorageSymmetry
INVARIANTS
    NamespaceSound
    
    FileExact
    PathsSound
    
CHECK_DEADLOCK FALSE
