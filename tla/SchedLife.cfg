SPECIFICATION Spec
CONSTANTS
    MaxPid = 3
    Forked = 1
    Sig = {17}
    Caught = {}
    MaxDelay = 1
    MaxWaits = 1
    Quantum = 1
    PollSlots = 3
    Masks = {{}, {17}}
    Timeouts = {1}
    NetDelays = {2}
    Ops <- LifeOps
INVARIANTS
    NoLostChild
    AdoptedByInit
