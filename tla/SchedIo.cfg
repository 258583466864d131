SPECIFICATION Spec
CONSTANTS
    MaxPid = 2
    Forked = 2
    Sig = {13, 17}
    Caught = {}
    MaxDelay = 2
    MaxWaits = 2
    Quantum = 1
    PollSlots = 3
    Masks = {{}}
    Timeouts = {1, 3}
    NetDelays = {2}
    Ops <- IoOps
INVARIANTS
    TypeOK
    RunningIsCurrent
    UserIsRunning
    TimedWaitQueued
    ClockeventCovers
    
    DeadlineTruthful
    IoWokenHasBoundary
PROPERTIES
    NoEarlyDeadline
