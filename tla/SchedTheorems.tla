---------------------------- MODULE SchedTheorems ----------------------------
(***************************************************************************)
(* What Sched.tla guarantees about waits, signals, children and the CPU,   *)
(* from the inductive invariants that SchedProofs.tla, SchedWaitProofs.tla *)
(* and SchedFamilyProofs.tla show every action to preserve.                *)
(***************************************************************************)
EXTENDS SchedProofs, SchedWaitProofs, SchedFamilyProofs

(* The invariant of the waits: where a process that waits, was woken or has  *)
(* the result of a wait is in the kernel, what the deadline queue holds for  *)
(* it, and how signal frames nest.  Every action of Sched.tla preserves it.  *)
THEOREM WaitInvariant == Spec => []WaitInv
<1>1. Init => WaitInv
  BY InitWait
<1>2. SchedInv /\ WaitInv /\ [Next]_vars => WaitInv'
  BY StepWait DEF WaitStep
<1> QED
  BY <1>1, <1>2, SchedInvariant, PTL DEF Spec

(* block_current_until and await_io_until never wait for a timeout that is   *)
(* not queued: the entry of every published wait is in the deadline queue,   *)
(* with its deadline and its kind, until it or a wake ends the wait.         *)
THEOREM TimeoutsAreQueued == Spec => []TimedWaitQueued
<1>1. SchedInv /\ WaitInv => TimedWaitQueued
  <2> SUFFICES ASSUME SchedInv, WaitInv, NEW p \in Pid, Blocked(p), proc[p].wait_token # 0
               PROVE  \E e \in timers : /\ e.pid = p /\ e.token = proc[p].wait_token
                                        /\ e.deadline = proc[p].wait_deadline
                                        /\ e.kind = KindOf(p)
    BY DEF TimedWaitQueued
  <2>1. PICK e \in timers : e.pid = p /\ e.token = proc[p].wait_token
    BY DEF WaitInv, TableSound, QueueSound, Blocked
  <2>2. e.deadline = proc[p].wait_deadline /\ e.kind = KindAt(proc[p])
    BY <2>1 DEF WaitInv, TableSound, QueueSound, IsLive
  <2>3. KindAt(proc[p]) = KindOf(p)
    BY Zenon DEF WaitInv, TableSound, Sound, Placed, Blocked, KindAt, KindOf, AwaitPoint, SleepPoint
  <2> QED
    BY <2>1, <2>2, <2>3
<1> QED
  BY <1>1, SchedInvariant, WaitInvariant, PTL

(* poll and nanosleep return Deadline only when the deadline that their      *)
(* caller asked for has passed.                                              *)
THEOREM DeadlinesAreTruthful == Spec => []DeadlineTruthful
<1>1. WaitInv => DeadlineTruthful
  BY DEF WaitInv, TableSound, Sound, Truthful, DeadlineTruthful
<1> QED
  BY <1>1, WaitInvariant, PTL

(* expire_due never wakes a process for a deadline that is not due: the      *)
(* entry of an earlier wait of the process does not wake a later one.        *)
THEOREM NoWakeBeforeDeadline == Spec => NoEarlyDeadline
<1>1. SchedInv /\ WaitInv /\ [Next]_vars =>
        [\A p \in Pid :
           proc'[p].wake_reason = "Deadline" /\ proc[p].wake_reason # "Deadline"
              => proc[p].wait_deadline = 0]_vars
  BY StepWait DEF WaitStep
<1> QED
  BY <1>1, SchedInvariant, WaitInvariant, PTL DEF Spec, NoEarlyDeadline

(* deliver_pending_signal masks a signal while its handler runs, also across *)
(* rt_sigsuspend and rt_sigreturn: signal frames never nest deeper than      *)
(* there are caught signals, so the user stack they take is bounded.         *)
THEOREM FramesBounded == Spec => []HandlerNotNested
<1>1. SchedInv /\ WaitInv => HandlerNotNested
  <2> SUFFICES ASSUME SchedInv, WaitInv, NEW p \in Pid
               PROVE  Len(proc[p].frames) <= Cardinality(Caught)
    BY DEF HandlerNotNested
  <2>1. /\ proc[p].signal_mask \in SUBSET Sig /\ proc[p].frames \in Seq(SUBSET Sig)
    BY DEF SchedInv, CpuInv, Process
  <2>2. Cardinality(proc[p].signal_mask \cap Caught) >= Len(proc[p].frames)
    BY Zenon DEF WaitInv, TableSound, Sound, Nested
  <2>3. /\ Cardinality(proc[p].signal_mask \cap Caught) \in Nat
        /\ Cardinality(proc[p].signal_mask \cap Caught) <= Cardinality(Caught)
        /\ Cardinality(Caught) \in Nat
    BY Zenon, <2>1, MaskCard
  <2>4. Len(proc[p].frames) \in Nat
    BY <2>1
  <2> QED
    BY <2>2, <2>3, <2>4
<1> QED
  BY <1>1, SchedInvariant, WaitInvariant, PTL

(* No wakeup is lost between the check of a condition and the sleep: while   *)
(* the poll wait queue has a slot for every process, whoever is blocked in   *)
(* poll is registered there and its descriptor is not ready, and the network *)
(* service blocks only registered on WORK with the device drained.           *)
THEOREM WakeupsAreNotLost ==
    ASSUME PollSlots > MaxPid
    PROVE  Spec => []NoLostWakeup
<1>1. WaitInv => NoLostWakeup
  BY DEF WaitInv
<1> QED
  BY <1>1, WaitInvariant, PTL

(* The invariant of the family: how the entries of the process table are     *)
(* related, the state of the process that has the CPU, and that an idle loop *)
(* that an event left without a quantum reschedules.  Every action of        *)
(* Sched.tla but kill preserves it.                                          *)
THEOREM FamilyInvariant ==
    ASSUME "kill" \notin Ops
    PROVE  Spec => []FamilyInv
<1>1. Init => FamilyInv
  BY InitFamily, InitInv
<1>2. SchedInv /\ WaitInv /\ FamilyInv /\ [Next]_vars => FamilyInv'
  BY StepFamily
<1> QED
  BY <1>1, <1>2, SchedInvariant, WaitInvariant, PTL DEF Spec

(* No child is lost: exit, exit_group and the death by a fault make the      *)
(* parent runnable before its zombie is left to reap, and the children that  *)
(* pass to init do the same, so nobody is blocked in wait4 over a zombie.    *)
THEOREM ChildrenAreNotLost ==
    ASSUME "kill" \notin Ops
    PROVE  Spec => []NoLostChild
<1>1. FamilyInv => NoLostChild
  BY DEF FamilyInv, FamilySound, Family, Lives, NoLostChild
<1> QED
  BY <1>1, FamilyInvariant, PTL

(* reparent_children leaves no orphan: the parent of every process but the   *)
(* network service is init or neither reaped nor a zombie.                   *)
THEOREM OrphansAreAdopted ==
    ASSUME "kill" \notin Ops
    PROVE  Spec => []AdoptedByInit
<1>1. FamilyInv => AdoptedByInit
  BY DEF FamilyInv, FamilySound, Family, AdoptedByInit
<1> QED
  BY <1>1, FamilyInvariant, PTL

(* wake_process arms a quantum whenever it makes a process runnable, and no  *)
(* later step drops it early: userspace without a quantum never keeps the    *)
(* CPU from a process that an event woke.                                    *)
THEOREM WokenHaveBoundary ==
    ASSUME "kill" \notin Ops
    PROVE  Spec => []IoWokenHasBoundary
<1>1. FamilyInv => IoWokenHasBoundary
  BY DEF FamilyInv, Held, IoWokenHasBoundary
<1> QED
  BY <1>1, FamilyInvariant, PTL

(* validate_running_owner: without kill and rt_sigsuspend, which returns in  *)
(* SignalWait, userspace only ever runs as a process marked Running.         *)
THEOREM UserspaceIsRunning ==
    ASSUME {"kill", "sigsuspend"} \cap Ops = {}
    PROVE  Spec => []UserIsRunning
<1>1. WaitInv /\ FamilyInv => UserIsRunning
  BY DEF FamilyInv, CpuSound, OnCpu, WaitInv, CpuPlaced, UserIsRunning
<1>2. "kill" \notin Ops
  OBVIOUS
<1>3. Spec => []FamilyInv
  BY <1>2, FamilyInvariant
<1> QED
  BY <1>1, <1>3, WaitInvariant, PTL
==============================================================================
