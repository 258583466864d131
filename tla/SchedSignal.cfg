SPECIFICATION Spec
CONSTANTS
    MaxPid = 2
    Forked = 2
    Sig = {10, 17}
    Caught = {10}
    MaxDelay = 1
    MaxWaits = 1
    Quantum = 1
    PollSlots = 3
    Masks = {{}, {10}}
    Timeouts = {1}
    NetDelays = {2}
    Ops <- SignalOps
INVARIANTS
    SignalNotSleptThrough
    
