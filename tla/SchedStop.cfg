SPECIFICATION Spec
CONSTANTS
    MaxPid = 2
    Forked = 2
    Sig = {9, 17, 18, 19}
    Caught = {}
    MaxDelay = 1
    MaxWaits = 1
    Quantum = 1
    PollSlots = 3
    Masks = {{}}
    Timeouts = {1}
    NetDelays = {2}
    Ops <- StopOps
INVARIANTS
    StopsSound
