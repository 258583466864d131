SPECIFICATION DevicesSpec
CONSTANTS
    PageU = 2
    SegU = 4
    MemU = 20
    Dma32 = 18
    PrdMax = 3
    BounceAt = 14
    BounceU = 3
    CountMax = 2
    PioMax = 1
    Ext48Max = 8
    DBlocks = 5
    DBufs <- MCDBufs
    MaxDmaOps = 1
    BkN = 4
    SecU = 2
    BkSlots = 2
    BkLines = 2
    BkSmall = 2
    BkMost = 2
    PartAt = 1
    PartN = 2
    DevRanges <- MCDevRanges
    CdN = 5
    CdAhead = 2
    ImgAt = 1
    ImgN = 4
    ImgAhead = 3
    NoEntry = NoEntry
    MaxBkOps = 3
    UhPlugs <- MCUhPlugs
    UhFrames = {1, 2, 3, 4, 5, 6, 7}
    MaxReports = 4
    MaxUhFaults = 2
    XPlugs <- MCXPlugs
    XRingN = 3
    XCtlN = 23
    XBufs = {xb1, xb2}
    NoXBuf = NoXBuf
    XLbas = {l1, l2}
    NoLba = NoLba
    MaxTur = 2
    MaxXReads = 2
    MaxXFaults = 1
    Keys = {k1, k2}
    Modifiers = {m1}
    Ctrls = {m1}
    RollOver = RollOver
    NoKey = NoKey
    MaxEvents = 2
    KbHorizon = 1
    RepeatDelay = 2
    RepeatPeriod = 1
    NicKinds = {"rtl", "pcnet"}
    RxLen = 12
    RxPad = 8
    Word = 2
    RxSizes = {3, 6}
    TxCount = 2
    RxCount = 2
    RxBudget = 2
    MaxIn = 3
    MaxOut = 3
    MaxDamaged = 1
    NoService = NoService
    web = web
    echo = echo
    Services = {web, echo}
    RestartPolicy <- MCRestartPolicy
    OnDemand = {echo}
    Named = {echo}
    BootClients = {c1}
    Trusted = {c1}
    CtlClients = {d1}
    RestartLimit = 1
    RestartWindow = 1
    OnDemandTimeout = 1
    LogReadBudget = 3
    LogCap = 1
    MaxPid = 4
    MaxClock = 2
    MaxWorld = 4
    b1 = b1
    Surfs = {s1, s2}
    Bufs = {b1}
    Pools = {p1}
    BufSize <- MCBufSize
    Output <- MCOutput
    Border = 1
    Titlebar = 1
    CloseSize = 1
    CloseInset = 0
    FirstAt = 1
    Cascade = 1
    LayerProps <- MCLayerProps
    PointerAt <- MCPointerAt
    NoSurf = NoSurf
    NoBuf = NoBuf
    NullBuf = NullBuf
    MaxReq = 4
INVARIANTS
    
    
    
    TrafficSound
    
    
PROPERTIES
    DmaExact
    CachesExact
CHECK_DEADLOCK FALSE
