SPECIFICATION IpcSpec
CONSTANTS
    FdProcs = {1, 2}
    Pipes = {1}
    MaxFd = 2
    PipeCap = 2
    IoLens = {1, 3}
    QCap = 3
    PollFds = {{0, 1}, {1}}
    SelectFds <- MCSelectFds
    MaxTableOps = 3
    IProcs = {1, 2}
    Files = {1, 2}
    NHandles = 2
    Ports = {1}
    BufCap = 1
    ClosingMax = 1
    MaxInetOps = 4
    TmProcs = {t1, t2, t3}
    Horizon = 2
    LastToken = 5
    Batch = 1
INVARIANTS
    SleepersHaveNothing
    EndsCounted
    SocketsSound
PROPERTIES
    TeardownKept
    HeapExact
CHECK_DEADLOCK FALSE
