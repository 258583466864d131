--------------------------- MODULE SchedInvariants ---------------------------
(***************************************************************************)
(* The inductive invariants of Sched.tla.  SchedInv gives the types, who   *)
(* is marked Running and what the clockevent covers.  WaitInv says, entry  *)
(* by entry, where in the kernel a process is whose entry says that it     *)
(* waits or was woken, and ties the tokens in the table to the entries of  *)
(* the deadline queue.  FamilyInv says where a process is that is dead,    *)
(* waits for a child or owns the CPU, that the table lists every entry     *)
(* once, and that a process woken by an event is bounded by a quantum or   *)
(* by a reschedule that the idle loop will honour; kill does not preserve  *)
(* it.                                                                     *)
(***************************************************************************)
EXTENDS Sched

\* The inductive invariant, in two parts: the one that a change of the process
\* on the CPU is about, and the types of the variables it leaves alone.
CpuInv ==
    /\ proc \in [Pid -> Process]
    /\ cur \in Pid
    /\ mode \in Mode
    /\ timers \subseteq Entry
    /\ quantum \in Delay /\ armed \in Delay
    /\ RunningIsCurrent
    /\ ClockeventCovers

IoOK ==
    /\ ready \in BOOLEAN /\ nic \in BOOLEAN /\ work \in BOOLEAN
    /\ pollq \subseteq Pid

SchedInv ==
    /\ CpuInv
    /\ IoOK
    /\ table \in Seq(Pid)
    /\ resched \in BOOLEAN

------------------------------------------------------------------------------
(* The waits.                                                               *)

\* Inside await_io_until, and inside block_current_until.
AwaitPoint == {"awaitSwitched", "awaitIdle", "awaitDrop"}

SleepPoint == {"sleepSwitched", "sleepIdle"}

\* Where a process can be when its entry says that it waits, was woken, or
\* carries the result of a wait.
Placed(r) ==
    /\ r.state = "AwaitingIo" => r.at \in AwaitPoint /\ ~r.pending_io
    /\ r.state = "Sleeping" => r.at \in SleepPoint
    /\ r.wait_token # 0 => \/ r.at \in SleepPoint
                           \/ r.at \in AwaitPoint /\ r.io_token = r.wait_token
    /\ r.wake_reason # "none" => r.at \in AwaitPoint \cup SleepPoint
    /\ r.reason = "Deadline" => r.at \in {"woke", "slept"}

\* The deadline of the wait is the caller's, and a Deadline wake is due.
Truthful(r) ==
    /\ r.wait_token # 0 => r.wait_deadline = r.timeout
    /\ r.wake_reason = "Deadline" \/ r.reason = "Deadline" => r.timeout = 0

\* Every frame was pushed with one more caught signal masked than the last.
Nested(r) ==
    /\ r.in_sigsuspend => r.frames = <<>>
    /\ \A i \in 1..Len(r.frames) : Cardinality(r.frames[i] \cap Caught) >= i - 1
    /\ Cardinality(r.signal_mask \cap Caught) >= Len(r.frames)

\* What the entry r of process p satisfies; the network service never returns
\* to user mode and has a deadline of its own making.
Sound(p, r) ==
    /\ Placed(r) /\ Nested(r)
    /\ IF p = Service
       THEN /\ r.at \in {"serve", "woke"} \cup AwaitPoint
            /\ r.state \notin {"Dead", "Free"}
       ELSE Truthful(r)

\* The kind of the deadline that a process waiting at r.at has queued.
KindAt(r) == IF r.at \in AwaitPoint THEN "IoTimeout" ELSE "Sleep"

\* Tokens name entries of the deadline queue; a live entry is the one that its
\* process published, and a process that waits for a deadline has an entry.
QueueSound(P, Q) ==
    /\ \A e, f \in Q : e.token = f.token => e = f
    /\ \A e \in Q : IsLive(P, e) =>
          e.deadline = P[e.pid].wait_deadline /\ e.kind = KindAt(P[e.pid])
    /\ \A p \in Pid : P[p].state \in {"AwaitingIo", "Sleeping"} /\ P[p].wait_token # 0 =>
          \E e \in Q : e.pid = p /\ e.token = P[p].wait_token

\* Where the process on the CPU is when its entry still says that it waits.
CpuPlaced(r, m) ==
    /\ r.state = "AwaitingIo" => r.at = "awaitIdle"
    /\ r.state = "Sleeping" => r.at = "sleepIdle"
    /\ m = "user" => r.at = "user"

\* The process table and the deadline queue agree.
TableSound(P, Q) == (\A p \in Pid : Sound(p, P[p])) /\ QueueSound(P, Q)

\* The invariant.  A poll queue without a slot for everyone may lose a wake.
WaitInv ==
    /\ TableSound(proc, timers)
    /\ CpuPlaced(proc[cur], mode)
    /\ PollSlots > MaxPid => NoLostWakeup

------------------------------------------------------------------------------
(* The family.                                                              *)

ExitPoint == {"exited", "exitIdle"}

IdlePoint == {"awaitIdle", "sleepIdle", "exitIdle"}

\* Where a process is that is dead or in wait4; none is stopped.
Lives(r) ==
    /\ r.state # "Stopped"
    /\ (r.state = "Dead") <=> (r.at \in ExitPoint)
    /\ r.state = "Waiting" => r.at = "wait4" /\ "nohang" \notin r.options

\* The table lists every entry once.
Listed(P, t) ==
    /\ \A i, j \in 1..Len(t) : t[i] = t[j] => i = j
    /\ \A p \in Pid : P[p].state # "Free" <=> p \in InTable(t)

\* The family: a parent in wait4 has a child and no zombie; no parent but init
\* is dead or gone; init is never reaped and nobody is their own parent.
Family(P) ==
    /\ \A p \in Pid : P[p].state = "Waiting" =>
          \E c \in Pid : P[c].state # "Free" /\ P[c].parent_pid = p
    /\ \A p, c \in Pid : P[p].state = "Waiting" /\ P[c].parent_pid = p =>
          P[c].state # "Dead"
    /\ \A p \in Pid \ {Service} : P[p].state # "Free" =>
          \/ P[p].parent_pid = InitPid
          \/ P[P[p].parent_pid].state \notin {"Free", "Dead"}
    /\ P[InitPid].state # "Free" /\ P[InitPid].parent_pid = Service
    /\ \A p \in Pid \ {Service} : P[p].parent_pid # p

FamilySound(P, t) ==
    /\ P \in [Pid -> Process]
    /\ \A p \in Pid : Lives(P[p])
    /\ Listed(P, t)
    /\ Family(P)

\* The state of the process that has the CPU, at every point but the sleeps.
OnCpu(r) ==
    /\ r.at \in {"user", "ret", "poll", "woke", "sleep", "slept", "serve"} =>
          r.state = "Running"
    /\ r.at = "wait4" => r.state \in {"Running", "Waiting"}
    /\ r.at \in AwaitPoint => r.state \in {"Running", "Runnable", "AwaitingIo"}

\* The process that has the CPU, in mode m.
CpuSound(r, m) ==
    /\ r.state # "Free" /\ r.at # "exited"
    /\ "sigsuspend" \notin Ops => OnCpu(r)
    /\ m \in {"halt", "woken"} => r.at \in IdlePoint

\* A process other than c was woken by an event and waits for the CPU.
Held(P, c) == \E p \in Pid \ {c} : P[p].state = "Runnable" /\ P[p].wake_reason = "Event"

\* The invariant.  Without a quantum an idle loop is about to reschedule.
FamilyInv ==
    /\ FamilySound(proc, table)
    /\ CpuSound(proc[cur], mode)
    /\ quantum = Never /\ Held(proc, cur) => resched /\ mode = "woken"
==============================================================================
