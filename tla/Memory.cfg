INIT MemoryInit
NEXT MemoryNext
CONSTANTS
    BitsPerPage = 5
    MaxRegions = 3
    NoFrame = NoFrame
    MemMaps <- MCMemMaps
    DmaLens = {2, 3}
    DmaLimit = 8
    Spaces = {x1, x2}
    NUser = 10
    HeapStart = 4
    MmapBase = 5
    UserUpper = 10
    StackPages = {10}
    PageU = 2
    Program <- MCProgram
    BadPrograms <- MCBadPrograms
    FileSize = 8
    Prots = {{"r"}, {"r", "w"}}
    MaxMapLen = 2
    MemPhys = 12
    MaxMemOps = 3
    Targets = {6}
    Rows = 2
    Cols = 3
    FlushAt = 4
    CsiMax = 9
    MaxWrites = 4
    Writes <- MCWrites
    Prints <- MCPrints
    Readers = {r1, r2}
    MaxInput = 3
    ReadLens = {3}
    KeyWords <- MCKeyWords
    Modes <- MCModes
SYMMETRY ReaderSymmetry
INVARIANTS
    AllocatorSound
    
    ScreenSound
    ReadersServed
CHECK_DEADLOCK FALSE
