SPECIFICATION FairSpec
CONSTANTS
    MaxPid = 2
    Forked = 2
    Sig = {17}
    Caught = {}
    MaxDelay = 1
    MaxWaits = 2
    Quantum = 1
    PollSlots = 3
    Masks = {{}}
    Timeouts = {1, 2}
    NetDelays = {2}
    Ops <- LiveOps
PROPERTIES
    TimedWaitWakes
    RoundRobin
