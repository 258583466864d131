-------------------------------- MODULE MCIpc --------------------------------
(***************************************************************************)
(* Instances for TLC of what processes block on: pipes with poll and       *)
(* select (Pipe), TCP and UDP sockets with the network service (Inet), and *)
(* the deadline heap with its deferred expiry (TimerHeap, which implements *)
(* Deadlines).  They share no variable; `focus' says which one a behaviour *)
(* is about, and the others stay in an initial state.                      *)
(***************************************************************************)
EXTENDS Pipe, Inet, TimerHeap

VARIABLE focus

(* Descriptors to read and to write that select is called with.            *)
MCSelectFds == {<<{1}, {0}>>, <<{0}, {}>>}

(* Processes are numbered, and a new one takes the lowest free number: the *)
(* identity of a process is immaterial, so this leaves out only copies of  *)
(* a behaviour under another numbering.                                    *)
LowestFirst(ids, used, usedNext) ==
    \A i \in usedNext \ used, j \in ids \ (used \cup usedNext) : i < j

PipeSlots == plive \cup {p \in FdProcs : pcall[p] # Idle}
InetSlots == ilive \cup {p \in IProcs : icall[p] # INone}

IpcInit ==
    /\ focus \in {"pipe", "inet", "timer"}
    /\ PipeInit /\ InetInit /\ HInit
    /\ 1 \in plive \cap ilive
    /\ focus # "inet" => ns = NoSockets

IpcNext ==
    /\ focus' = focus
    /\ \/ /\ focus = "pipe" /\ PipeNext /\ UNCHANGED <<inetVars, heapVars>>
          /\ LowestFirst(FdProcs, PipeSlots, PipeSlots')
       \/ /\ focus = "inet" /\ InetNext /\ UNCHANGED <<pipeVars, heapVars>>
          /\ LowestFirst(IProcs, InetSlots, InetSlots')
       \/ focus = "timer" /\ HNext /\ UNCHANGED <<pipeVars, inetVars>>

IpcSpec == IpcInit /\ [][IpcNext]_<<focus, pipeVars, inetVars, heapVars>>
==============================================================================
