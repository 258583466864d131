SPECIFICATION UnixSpec
CONSTANTS
    UProcs = {u1, u2}
    USocks = {s1, s2, s3}
    Conns = {c1}
    Addrs = {a1}
    ChanCap = 2
    MsgLens = {1, 2, 3}
    UWaitCap = 2
    NoSock = NoSock
    NoConn = NoConn
    NoAddr = NoAddr
    NoProc = NoProc
    MaxUnixOps = 4
SYMMETRY UnixSymmetry
INVARIANTS
    SocketSleepers
    NamesBound
CHECK_DEADLOCK FALSE
