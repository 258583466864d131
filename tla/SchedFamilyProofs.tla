-------------------------- MODULE SchedFamilyProofs --------------------------
(***************************************************************************)
(* Every action of Sched.tla but kill preserves FamilyInv: who is whose    *)
(* child and who has the CPU.  A process that kills or stops itself while  *)
(* no other can run goes on in userspace, so what is proved here does not  *)
(* hold of it.                                                             *)
(***************************************************************************)
EXTENDS SchedFamilyLemmas

\* cond_resched, whether or not a reschedule is pending.
LEMMA CondReschedFamily ==
    ASSUME SchedInv, NEW P, FamilySound(P, table), NEW m, CpuSound(P[cur], m),
           quantum = Never /\ Held(P, cur) => resched,
           CondResched(P, m), UNCHANGED table
    PROVE  FamilyInv'
<1>1. P[cur].state # "Free"
  BY DEF CpuSound
<1>2. CASE resched
  BY <1>1, <1>2, ScheduleFamily DEF CondResched
<1>3. CASE ~resched
  BY <1>3, ContinueFamily DEF CondResched
<1> QED  BY <1>2, <1>3

\* The moves that syscalls make.
LEMMA GoesMoves ==
    ASSUME NEW r \in Process, NEW a \in Point, NEW d \in Delay, NEW w \in Reason,
           NEW o \in SUBSET {"nohang", "untraced"}, NEW m \in SUBSET Sig
    PROVE  /\ Goes(r, a, [r EXCEPT !.at = a])
           /\ Goes(r, a, [r EXCEPT !.at = a, !.timeout = d])
           /\ Goes(r, a, [r EXCEPT !.at = a, !.reason = w])
           /\ Goes(r, a, [r EXCEPT !.at = a, !.options = o])
           /\ Goes(r, a, [r EXCEPT !.signal_mask = m, !.at = a])
<1>1. Goes(r, a, [r EXCEPT !.at = a])
  <2>1. [r EXCEPT !.at = a] \in Process
    BY Zenon, OwnUpdates DEF Owned
  <2> QED  BY <2>1 DEF Goes, Process
<1>2. Goes(r, a, [r EXCEPT !.at = a, !.timeout = d])
  <2>1. [r EXCEPT !.at = a, !.timeout = d] \in Process
    BY Zenon, OwnUpdates DEF Owned
  <2> QED  BY <2>1 DEF Goes, Process
<1>3. Goes(r, a, [r EXCEPT !.at = a, !.reason = w])
  <2>1. [r EXCEPT !.at = a, !.reason = w] \in Process
    BY Zenon, OwnUpdates DEF Owned
  <2> QED  BY <2>1 DEF Goes, Process
<1>4. Goes(r, a, [r EXCEPT !.at = a, !.options = o])
  <2>1. [r EXCEPT !.at = a, !.options = o] \in Process
    BY Zenon, OwnUpdates DEF Owned
  <2> QED  BY <2>1 DEF Goes, Process
<1>5. Goes(r, a, [r EXCEPT !.signal_mask = m, !.at = a])
  <2>1. [r EXCEPT !.signal_mask = m, !.at = a] \in Process
    BY Zenon, OwnUpdates DEF Owned
  <2> QED  BY <2>1 DEF Goes, Process
<1> QED  BY <1>1, <1>2, <1>3, <1>4, <1>5

\* The points that the moves name.
LEMMA RunPoints ==
    RunPoint \cup {"wait4", "awaitIdle", "awaitSwitched", "awaitDrop"} \subseteq Point
  BY DEF RunPoint, Point

\* A syscall or a kernel step that moves cur and nothing else.
LEMMA MoveFamily ==
    ASSUME SchedInv, WaitInv, FamilyInv, NEW p, p = cur,
           (mode = "kernel" /\ proc[p].at \in RunPoint) \/ mode = "user",
           NEW a \in RunPoint \cup {"wait4"}, NEW q, Goes(proc[p], a, q), Enter(p, q)
    PROVE  FamilyInv'
<1>1. Kin(proc[p], q) /\ CpuSound(q, "kernel")
  BY RunStart, GoesKin
<1> QED  BY <1>1, RunStart, EnterFamily

\* poll, nanosleep and wait4 up to their loops, and rt_sigprocmask.
LEMMA EntriesFamily ==
    ASSUME SchedInv, WaitInv, FamilyInv, NEW p \in Pid,
           \/ \E d \in Timeouts : Poll(p, d) \/ Nanosleep(p, d)
           \/ \E o \in SUBSET {"nohang", "untraced"} : Wait4(p, o)
           \/ \E m \in Masks : Sigprocmask(p, m)
    PROVE  FamilyInv'
<1>1. cur = p /\ mode = "user" /\ proc[p] \in Process
  BY Zenon, FamilyStart DEF Poll, Nanosleep, Wait4, Sigprocmask, Syscall
<1>2. Timeouts \subseteq Delay
  BY TimeoutsAssumption, DelayAssumption DEF Delay, Never
<1>3. "none" \in Reason /\ Masks \subseteq SUBSET Sig
  BY MasksAssumption DEF Reason
<1>4. {} \in SUBSET Sig /\ {} \in SUBSET {"nohang", "untraced"} /\ Never \in Delay
  BY ConstantTypes
<1>5. CASE \E d \in Timeouts : Poll(p, d) \/ Nanosleep(p, d)
  <2> PICK d \in Timeouts : Poll(p, d) \/ Nanosleep(p, d)
    BY <1>5
  <2>1. PICK a \in {"ret", "poll", "sleep"} :
           Enter(p, [proc[p] EXCEPT !.at = a, !.timeout = d])
    BY Zenon DEF Poll, Nanosleep
  <2>2. a \in RunPoint /\ a \in Point
    BY RunPoints DEF RunPoint
  <2>3. Goes(proc[p], a, [proc[p] EXCEPT !.at = a, !.timeout = d])
    BY Zenon, <1>1, <1>2, <1>3, <1>4, <2>2, GoesMoves
  <2> QED  BY <1>1, <2>1, <2>2, <2>3, MoveFamily
<1>6. CASE \E o \in SUBSET {"nohang", "untraced"} : Wait4(p, o)
  <2> PICK o \in SUBSET {"nohang", "untraced"} : Wait4(p, o)
    BY <1>6
  <2>1. Enter(p, [proc[p] EXCEPT !.at = "wait4", !.options = o])
    BY Zenon DEF Wait4
  <2>2. Goes(proc[p], "wait4", [proc[p] EXCEPT !.at = "wait4", !.options = o])
    BY Zenon, <1>1, <1>3, <1>4, RunPoints, GoesMoves
  <2> QED  BY <1>1, <2>1, <2>2, MoveFamily
<1>7. CASE \E m \in Masks : Sigprocmask(p, m)
  <2> PICK m \in Masks : Sigprocmask(p, m)
    BY <1>7
  <2>1. Enter(p, [proc[p] EXCEPT !.signal_mask = m, !.at = "ret"])
    BY Zenon DEF Sigprocmask
  <2>2. "ret" \in RunPoint /\ "ret" \in Point
    BY RunPoints DEF RunPoint
  <2>3. Goes(proc[p], "ret", [proc[p] EXCEPT !.signal_mask = m, !.at = "ret"])
    BY Zenon, <1>1, <1>3, <1>4, <2>2, GoesMoves
  <2> QED  BY <1>1, <2>1, <2>2, <2>3, MoveFamily
<1> QED  BY <1>5, <1>6, <1>7

\* The steps behind a wait: poll, nanosleep and the service look at the reason.
LEMMA WokeFamily ==
    ASSUME SchedInv, WaitInv, FamilyInv, NEW p \in Pid,
           PollWoke(p) \/ SleepWoke(p) \/ ServeWoke(p)
    PROVE  FamilyInv'
<1>1. PICK a \in {"ret", "poll", "sleep", "serve"} :
         Enter(p, [proc[p] EXCEPT !.at = a, !.reason = "none"])
  BY Zenon DEF PollWoke, SleepWoke, ServeWoke
<1>2. p = cur /\ mode = "kernel" /\ proc[p].at \in RunPoint
  BY DEF PollWoke, SleepWoke, ServeWoke, Kernel, RunPoint
<1>3. "none" \in Reason /\ proc[p] \in Process /\ a \in RunPoint /\ a \in Point
  BY <1>2, RunPoints, FamilyStart DEF RunPoint, Reason
<1>4. {} \in SUBSET Sig /\ {} \in SUBSET {"nohang", "untraced"} /\ Never \in Delay
  BY ConstantTypes
<1>5. Goes(proc[p], a, [proc[p] EXCEPT !.at = a, !.reason = "none"])
  BY Zenon, <1>3, <1>4, GoesMoves
<1> DEFINE q == [proc[p] EXCEPT !.at = a, !.reason = "none"]
<1>6. Enter(p, q) /\ Goes(proc[p], a, q)
  BY <1>1, <1>5
<1> HIDE DEF q
<1> QED  BY <1>2, <1>3, <1>6, MoveFamily

------------------------------------------------------------------------------
(* Steps that end in cond_resched or schedule_now.                           *)

\* An entry that cur rewrote itself, and cond_resched behind it.
LEMMA OwnFamily ==
    ASSUME SchedInv, FamilyInv, NEW p, p = cur, NEW f, Kin(proc[p], f), NEW m,
           CpuSound(f, m), CondResched(Set(p, f), m), UNCHANGED table
    PROVE  FamilyInv'
<1>1. FamilySound(Set(p, f), table) /\ Set(p, f)[cur] = f
  BY FamilyStart, KinSet DEF FamilyInv, Set
<1>2. quantum = Never /\ Held(Set(p, f), cur) => resched
  BY FamilyStart
<1> HIDE DEF Set
<1> QED  BY <1>1, <1>2, CondReschedFamily

\* The same for schedule_now.
LEMMA OwnSchedule ==
    ASSUME SchedInv, FamilyInv, NEW p, p = cur, NEW f, Kin(proc[p], f), NEW g,
           Kin(proc[p], g), NEW m, CpuSound(g, m),
           ScheduleNow(Set(p, f), Continue(Set(p, g), m)), UNCHANGED table
    PROVE  FamilyInv'
<1>1. FamilySound(Set(p, f), table) /\ Set(p, f)[cur] = f
  BY Zenon, FamilyStart, KinSet DEF FamilyInv, Set
<1>2. FamilySound(Set(p, g), table) /\ Set(p, g)[cur] = g
  BY Zenon, FamilyStart, KinSet DEF FamilyInv, Set
<1>3. \A k \in Pid \ {cur} : Set(p, g)[k] = Set(p, f)[k]
  BY FamilyStart DEF Set
<1>4. f.state # "Free"
  BY FamilyStart DEF Kin
<1> HIDE DEF Set
<1> QED  BY <1>1, <1>2, <1>3, <1>4, ScheduleFamily

\* deliver_pending_signal leaves cur where it is.
LEMMA DeliverGoes ==
    ASSUME NEW r \in Process, NEW sig \in Sig
    PROVE  Goes(r, r.at, Deliver(r, sig))
<1> DEFINE old == IF r.in_sigsuspend THEN r.saved_mask ELSE r.signal_mask
           d == [r EXCEPT !.pending_signals = @ \ {sig}, !.in_sigsuspend = FALSE,
                          !.saved_mask = {}]
           c == [d EXCEPT !.signal_mask = @ \cup {sig}, !.frames = Append(@, old)]
           i == [d EXCEPT !.signal_mask = old]
<1>1. Deliver(r, sig) \in Process
  BY DeliverOwned DEF Owned
<1>2. Deliver(r, sig) = IF sig \in Caught THEN c ELSE i
  BY DEF Deliver
<1>3. d.at = r.at /\ d.state = r.state /\ d.parent_pid = r.parent_pid
      /\ DOMAIN d = DOMAIN r
  BY DEF Process
<1>4. {"at", "state", "parent_pid"} \subseteq DOMAIN r
  BY DEF Process
<1> HIDE DEF d
<1>5. c.at = d.at /\ c.state = d.state /\ c.parent_pid = d.parent_pid
  BY <1>3, <1>4
<1>6. i.at = d.at /\ i.state = d.state /\ i.parent_pid = d.parent_pid
  BY <1>3, <1>4
<1> HIDE DEF c, i
<1> QED  BY <1>1, <1>2, <1>3, <1>5, <1>6 DEF Goes

\* The syscall exit path, with or without a signal to deliver.
LEMMA RetFamily ==
    ASSUME SchedInv, WaitInv, FamilyInv, NEW p \in Pid, Ret(p)
    PROVE  FamilyInv'
<1> DEFINE r == [proc[p] EXCEPT !.at = "user", !.timeout = Never, !.options = {}]
           unblocked == r.pending_signals \ r.signal_mask
           f == IF unblocked = {} THEN r ELSE Deliver(r, Least(unblocked))
<1>1. p = cur /\ mode = "kernel" /\ proc[p].at = "ret"
  BY DEF Ret, Kernel
<1>2. CondResched(Set(p, f), "user") /\ UNCHANGED table
  BY DEF Ret
<1>3. proc[p] \in Process /\ "user" \in Point /\ Never \in Delay
  BY <1>1, FamilyStart, ConstantTypes DEF Point
<1>4. r \in Process
  BY Zenon, <1>3 DEF Process
<1>5. Goes(proc[p], "user", r)
  BY <1>3, <1>4 DEF Goes, Process
<1>6. unblocked \in SUBSET Sig /\ unblocked \in SUBSET Nat
  <2> HIDE DEF r
  <2>1. r.pending_signals \in SUBSET Sig
    BY <1>4 DEF Process
  <2>2. Sig \subseteq Nat
    BY SigAssumption
  <2> QED  BY Zenon, <2>1, <2>2
<1> HIDE DEF r
<1>7. Goes(proc[p], "user", f)
  <2>1. CASE unblocked = {}
    BY <1>5, <2>1
  <2>2. CASE unblocked # {}
    <3> HIDE DEF unblocked
    <3>1. Least(unblocked) \in Sig
      BY Zenon, <1>6, <2>2, LeastInSet
    <3>2. Goes(r, r.at, Deliver(r, Least(unblocked)))
      BY <1>4, <3>1, DeliverGoes
    <3> QED  BY <1>5, <2>2, <3>2 DEF Goes
  <2> QED  BY <2>1, <2>2
<1> HIDE DEF f
<1>8. Kin(proc[p], f) /\ CpuSound(f, "user")
  <2>1. "user" \in RunPoint /\ proc[p].at \in RunPoint
    BY <1>1 DEF RunPoint
  <2> QED  BY <1>1, <1>7, <2>1, RunStart, GoesKin
<1> QED  BY <1>1, <1>2, <1>8, OwnFamily

\* rt_sigreturn.
LEMMA SigreturnFamily ==
    ASSUME SchedInv, WaitInv, FamilyInv, NEW p \in Pid, Sigreturn(p)
    PROVE  FamilyInv'
<1> DEFINE f == proc[p].frames
           r == [proc[p] EXCEPT !.signal_mask = f[Len(f)],
                                !.frames = SubSeq(f, 1, Len(f) - 1)]
<1>1. p = cur /\ mode = "user" /\ f # <<>> /\ CondResched(Set(p, r), "user")
      /\ UNCHANGED table
  BY DEF Sigreturn
<1>2. proc[p] \in Process /\ proc[p].at = "user"
  BY <1>1, Start
<1>3. f \in Seq(SUBSET Sig)
  BY <1>2 DEF Process
<1>4. f[Len(f)] \in SUBSET Sig /\ SubSeq(f, 1, Len(f) - 1) \in Seq(SUBSET Sig)
  <2> HIDE DEF f
  <2>1. Len(f) \in Nat /\ Len(f) >= 1
    BY <1>1, <1>3
  <2> QED  BY <1>3, <2>1
<1> HIDE DEF f
<1>5. r \in Process
  BY Zenon, <1>2, <1>4 DEF Process
<1>6. Goes(proc[p], "user", r)
  BY <1>2, <1>5 DEF Goes, Process
<1> HIDE DEF r
<1>7. Kin(proc[p], r) /\ CpuSound(r, "user")
  <2>1. "user" \in RunPoint
    BY DEF RunPoint
  <2> QED  BY <1>1, <1>6, <2>1, RunStart, GoesKin
<1> QED  BY <1>1, <1>7, OwnFamily

\* sched_yield.
LEMMA YieldFamily ==
    ASSUME SchedInv, WaitInv, FamilyInv, NEW p \in Pid, Yield(p)
    PROVE  FamilyInv'
<1> DEFINE f == [proc[p] EXCEPT !.at = "ret"]
<1>1. p = cur /\ mode = "user" /\ UNCHANGED table
      /\ ScheduleNow(Set(p, f), Continue(Set(p, f), "kernel"))
  BY DEF Yield, Syscall
<1>2. Goes(proc[p], "ret", f)
  BY <1>1, FamilyStart, GoesAt DEF RunPoint
<1> HIDE DEF f
<1>3. Kin(proc[p], f) /\ CpuSound(f, "kernel")
  <2>1. "ret" \in RunPoint
    BY DEF RunPoint
  <2> QED  BY <1>1, <1>2, <2>1, RunStart, GoesKin
<1> QED  BY <1>1, <1>3, OwnSchedule

\* What await_io_until and block_current_until leave of an entry at their end.
LEMMA WokenFields ==
    ASSUME NEW r \in Process
    PROVE  LET q == Woken(r)
           IN  /\ q \in Process /\ q.at = "woke" /\ q.parent_pid = r.parent_pid
               /\ q.state = IF r.state = "Runnable" THEN "Running" ELSE r.state
<1> DEFINE a == [r EXCEPT !.pending_io = FALSE,
                          !.state = IF @ = "Runnable" THEN "Running" ELSE @]
           b == CancelOwned(a)
           c == TakeWakeReason(b)
<1>1. Woken(r) = c /\ c \in Process
  BY Zenon, WokenOwned DEF Woken, Owned
<1>2. /\ a.state = IF r.state = "Runnable" THEN "Running" ELSE r.state
      /\ a.parent_pid = r.parent_pid
      /\ {"state", "parent_pid", "at"} \subseteq DOMAIN a
  BY DEF Process
<1> HIDE DEF a
<1>3. b.state = a.state /\ b.parent_pid = a.parent_pid /\ DOMAIN b = DOMAIN a
  BY <1>2 DEF CancelOwned, ClearWait
<1> HIDE DEF b
<1>4. c.state = b.state /\ c.parent_pid = b.parent_pid /\ c.at = "woke"
  BY <1>2, <1>3 DEF TakeWakeReason
<1> QED  BY <1>1, <1>2, <1>3, <1>4

\* The end of a sleep.
LEMMA SleptFields ==
    ASSUME NEW r \in Process
    PROVE  LET q == ReadAndClearWakeReason(r)
           IN  /\ q \in Process /\ q.at = "slept" /\ q.parent_pid = r.parent_pid
               /\ q.state = "Running"
<1> DEFINE c == ClearWait(r)
           q == ReadAndClearWakeReason(r)
<1>1. q \in Process
  BY ReadAndClearOwned DEF Owned
<1>2. c.parent_pid = r.parent_pid /\ {"state", "parent_pid", "at"} \subseteq DOMAIN c
  BY DEF ClearWait, Process
<1>3. q = [c EXCEPT
        !.reason = IF r.wake_reason # "none" THEN r.wake_reason
                   ELSE IF r.timeout = 0 THEN "Deadline" ELSE "Cancelled",
        !.wake_reason = "none", !.state = "Running", !.at = "slept"]
  BY DEF ReadAndClearWakeReason
<1> HIDE DEF c
<1>4. q.at = "slept" /\ q.parent_pid = c.parent_pid /\ q.state = "Running"
  BY <1>2, <1>3
<1> QED  BY <1>1, <1>2, <1>4

\* The end of a wait that cur finds over.
LEMMA WokenFamily ==
    ASSUME SchedInv, WaitInv, FamilyInv, NEW p, p = cur, proc[p].at \in AwaitPoint,
           proc[p].state # "AwaitingIo", CondResched(Set(p, Woken(proc[p])), "kernel"),
           UNCHANGED table
    PROVE  FamilyInv'
<1> DEFINE r == proc[p]
           q == Woken(r)
<1>1. r \in Process /\ Lives(r) /\ r.state # "Free" /\ ("sigsuspend" \notin Ops => OnCpu(r))
  BY FamilyStart DEF FamilyInv, CpuSound
<1>2. /\ q \in Process /\ q.at = "woke" /\ q.parent_pid = r.parent_pid
      /\ q.state = IF r.state = "Runnable" THEN "Running" ELSE r.state
  BY <1>1, WokenFields
<1> HIDE DEF q
<1>3. Kin(r, q)
  BY <1>1, <1>2, OwnKin DEF AwaitPoint, ExitPoint
<1>4. CpuSound(q, "kernel")
  BY <1>1, <1>2 DEF CpuSound, OnCpu, AwaitPoint
<1> QED  BY <1>3, <1>4, OwnFamily DEF q

\* The end of a sleep that cur finds over.
LEMMA SleptFamily ==
    ASSUME SchedInv, WaitInv, FamilyInv, NEW p, p = cur, proc[p].at \in SleepPoint,
           CondResched(Set(p, ReadAndClearWakeReason(proc[p])), "kernel"),
           UNCHANGED table
    PROVE  FamilyInv'
<1> DEFINE r == proc[p]
           q == ReadAndClearWakeReason(r)
<1>1. r \in Process /\ Lives(r) /\ r.state # "Free"
  BY FamilyStart
<1>2. q \in Process /\ q.at = "slept" /\ q.parent_pid = r.parent_pid /\ q.state = "Running"
  BY <1>1, SleptFields
<1> HIDE DEF q
<1>3. Kin(r, q)
  BY <1>1, <1>2, OwnKin DEF SleepPoint, ExitPoint
<1>4. CpuSound(q, "kernel")
  BY <1>2 DEF CpuSound, OnCpu, AwaitPoint
<1> QED  BY <1>3, <1>4, OwnFamily DEF q

\* Switched back to in await_io_until and in block_current_until.
LEMMA ResumeFamily ==
    ASSUME SchedInv, WaitInv, FamilyInv, NEW p \in Pid, AwaitResume(p) \/ SleepResume(p)
    PROVE  FamilyInv'
<1>1. CASE AwaitResume(p)
  <2>1. p = cur /\ proc[p].at = "awaitSwitched" /\ UNCHANGED table
        /\ CondResched(Set(p, Woken(proc[p])), "kernel")
    BY <1>1 DEF AwaitResume, Kernel
  <2>2. proc[p].state # "AwaitingIo"
    BY <2>1, Start DEF CpuPlaced
  <2> QED  BY <2>1, <2>2, WokenFamily DEF AwaitPoint
<1>2. CASE SleepResume(p)
  BY <1>2, SleptFamily DEF SleepResume, Kernel, SleepPoint
<1> QED  BY <1>1, <1>2

\* The idle loops of await_io_until, block_current_until and exit.
LEMMA IdleFamily ==
    ASSUME SchedInv, WaitInv, FamilyInv, NEW p \in Pid,
           AwaitIdle(p) \/ AwaitDrop(p) \/ SleepIdle(p) \/ ExitIdle(p)
    PROVE  FamilyInv'
<1>1. p = cur /\ proc[p].at \in {"awaitIdle", "awaitDrop", "sleepIdle", "exitIdle"}
      /\ UNCHANGED table
  BY DEF AwaitIdle, AwaitDrop, SleepIdle, ExitIdle, Idle, Kernel
<1> DEFINE r == proc[p]
<1>2. r \in Process /\ Lives(r) /\ r.state # "Free" /\ CpuSound(r, mode) /\ Sound(p, r)
      /\ proc = Set(p, r) /\ Kin(r, r)
  BY <1>1, FamilyStart, Start, KinRefl DEF FamilyInv, Set
<1>3. r.at \in IdlePoint => CpuSound(r, "halt")
  BY <1>2 DEF CpuSound
<1>4. ASSUME r.at \in AwaitPoint, NEW a \in AwaitPoint
      PROVE  LET q == [r EXCEPT !.at = a]
             IN  Kin(r, q) /\ (a = "awaitIdle" => CpuSound(q, "halt"))
  <2> DEFINE q == [r EXCEPT !.at = a]
  <2>1. Goes(r, a, q)
    BY <1>2, GoesAt
  <2> HIDE DEF q
  <2>2. Kin(r, q)
    BY <1>2, <1>4, <2>1, OwnKin DEF Goes, AwaitPoint, ExitPoint
  <2>3. a = "awaitIdle" => CpuSound(q, "halt")
    BY <1>2, <1>4, <2>1 DEF Goes, CpuSound, OnCpu, AwaitPoint, IdlePoint
  <2> QED  BY <2>2, <2>3 DEF q
<1>5. CASE AwaitIdle(p)
  <2>1. r.at = "awaitIdle" /\ r.at \in AwaitPoint /\ r.at \in IdlePoint
    BY <1>5 DEF AwaitIdle, Idle, AwaitPoint, IdlePoint
  <2>2. CASE r.pending_io \/ r.state = "Runnable"
    <3>1. r.state # "AwaitingIo"
      BY <1>2, <2>2 DEF Sound, Placed
    <3>2. CondResched(Set(p, Woken(r)), "kernel")
      BY <1>5, <2>2 DEF AwaitIdle
    <3> QED  BY <1>1, <2>1, <3>1, <3>2, WokenFamily
  <2>3. CASE ~(r.pending_io \/ r.state = "Runnable")
    <3> DEFINE a == IF resched THEN "awaitDrop" ELSE "awaitIdle"
    <3>1. ScheduleNow(Set(p, [r EXCEPT !.at = a]), Continue(Set(p, r), "halt"))
      BY <1>2, <1>5, <2>3 DEF AwaitIdle
    <3>2. a \in AwaitPoint
      BY DEF AwaitPoint
    <3>3. Kin(r, [r EXCEPT !.at = a])
      BY <1>4, <2>1, <3>2
    <3> HIDE DEF a
    <3> QED  BY <1>1, <1>2, <1>3, <2>1, <3>1, <3>3, OwnSchedule
  <2> QED  BY <2>2, <2>3
<1>6. CASE AwaitDrop(p)
  <2> DEFINE q == [r EXCEPT !.at = "awaitIdle"]
  <2>1. ScheduleNow(Set(p, q), Continue(Set(p, q), "halt")) /\ r.at = "awaitDrop"
    BY <1>6 DEF AwaitDrop, Kernel
  <2>2. Kin(r, q) /\ CpuSound(q, "halt")
    BY <1>4, <2>1 DEF AwaitPoint
  <2> HIDE DEF q
  <2> QED  BY <1>1, <2>1, <2>2, OwnSchedule
<1>7. CASE SleepIdle(p)
  <2>1. r.at = "sleepIdle" /\ r.at \in SleepPoint /\ r.at \in IdlePoint
    BY <1>7 DEF SleepIdle, Idle, SleepPoint, IdlePoint
  <2>2. CASE CondResched(Set(p, ReadAndClearWakeReason(r)), "kernel")
    BY <1>1, <2>1, <2>2, SleptFamily
  <2>3. CASE ScheduleNow(Set(p, r), Continue(Set(p, r), "halt"))
    BY <1>1, <1>2, <1>3, <2>1, <2>3, OwnSchedule
  <2> QED  BY <1>2, <1>7, <2>2, <2>3 DEF SleepIdle
<1>8. CASE ExitIdle(p)
  <2>1. r.at \in IdlePoint /\ ScheduleNow(Set(p, r), Continue(Set(p, r), "halt"))
    BY <1>2, <1>8 DEF ExitIdle, Idle, IdlePoint
  <2> QED  BY <1>1, <1>2, <1>3, <2>1, OwnSchedule
<1> QED  BY <1>5, <1>6, <1>7, <1>8

\* An exited process that gave the CPU away does not get it back.
LEMMA ExitedHaltNever ==
    ASSUME FamilyInv, NEW p \in Pid
    PROVE  ~ExitedHalt(p)
  BY DEF FamilyInv, CpuSound, ExitedHalt, Idle

\* wake_process rouses whoever waits for I/O and nobody else.
LEMMA WakeRouses ==
    ASSUME NEW r \in Process
    PROVE  /\ Roused(r, WakeProcess(r))
           /\ r.state # "AwaitingIo" => /\ WakeProcess(r).state = r.state
                                        /\ WakeProcess(r).wake_reason = r.wake_reason
<1>1. WakeProcess(r) \in Process
  BY WakeProcessPassive DEF Passive
<1>2. CASE r.state = "AwaitingIo"
  <2>1. WakeProcess(r) = [r EXCEPT !.state = "Runnable", !.pending_io = TRUE,
                                   !.wake_reason = "Event"]
    BY <1>2 DEF WakeProcess
  <2> QED  BY <1>1, <1>2, <2>1 DEF Roused, Process
<1>3. CASE r.state \in {"Dead", "Stopped", "Free"}
  <2>1. WakeProcess(r) = r
    BY <1>3 DEF WakeProcess
  <2> QED  BY <1>1, <2>1, <1>3 DEF Roused
<1>4. CASE r.state \notin {"AwaitingIo", "Dead", "Stopped", "Free"}
  <2>1. WakeProcess(r) = [r EXCEPT !.pending_io = TRUE]
    BY <1>4 DEF WakeProcess
  <2> QED  BY <1>1, <1>4, <2>1 DEF Roused, Process
<1> QED  BY <1>2, <1>3, <1>4

\* A wake leaves cur in a state to have the CPU.
LEMMA WakeCpu ==
    ASSUME NEW r \in Process, NEW m, CpuSound(r, m)
    PROVE  CpuSound(WakeProcess(r), m)
<1> DEFINE q == WakeProcess(r)
<1>1. /\ Roused(r, q) /\ (r.state # "AwaitingIo" => q.state = r.state)
  BY WakeRouses
<1> HIDE DEF q
<1>2. CpuSound(q, m)
  BY <1>1 DEF Roused, CpuSound, OnCpu
<1> QED  BY <1>2 DEF q

\* notify_all: the family stays, and without a quantum nobody new is woken.
LEMMA NotifyFamily ==
    ASSUME NEW P, FamilySound(P, table), cur \in Pid, NEW W, NEW m, CpuSound(P[cur], m)
    PROVE  /\ FamilySound(Notify(P, W), table)
           /\ CpuSound(Notify(P, W)[cur], m)
           /\ QuantumAfter(P, W) = Never =>
                 quantum = Never /\ (Held(Notify(P, W), cur) => Held(P, cur))
<1> DEFINE N == Notify(P, W)
<1>1. P \in [Pid -> Process]
  BY DEF FamilySound
<1>2. N = [p \in Pid |-> N[p]]
      /\ \A p \in Pid : N[p] = IF p \in W THEN WakeProcess(P[p]) ELSE P[p]
  BY DEF Notify
<1> HIDE DEF N
<1>3. ASSUME NEW p \in Pid  PROVE Kin(P[p], N[p])
  BY <1>1, <1>2, WakeRouses, RousedKin, KinRefl
<1>4. FamilySound(N, table)
  BY <1>2, <1>3, KinFamily
<1>5. CpuSound(N[cur], m)
  BY <1>1, <1>2, WakeCpu
<1>6. ASSUME QuantumAfter(P, W) = Never
      PROVE  quantum = Never /\ (Held(N, cur) => Held(P, cur))
  <2>1. quantum = Never /\ \A p \in W \ {cur} : P[p].state # "AwaitingIo"
    BY <1>6, QuantumAssumption, DelayAssumption DEF QuantumAfter, Never
  <2>2. \A p \in Pid \ {cur} : N[p].state = P[p].state /\ N[p].wake_reason = P[p].wake_reason
    BY <1>1, <1>2, <2>1, WakeRouses
  <2> QED  BY <2>1, <2>2 DEF Held
<1> QED  BY <1>4, <1>5, <1>6 DEF N

\* poll_wait_queue().notify_all(), from a syscall or an interrupt.
LEMMA ReadinessFamily ==
    ASSUME SchedInv, FamilyInv, NEW P, FamilySound(P, table),
           NEW m, CpuSound(P[cur], m), Held(P, cur) => Held(proc, cur),
           mode = "woken" => m = "woken", NEW now, Readiness(P, m, now)
    PROVE  FamilyInv'
<1> DEFINE N == Notify(P, pollq)
<1>1. proc' = N /\ quantum' = QuantumAfter(P, pollq) /\ mode' = m
      /\ table' = table /\ cur' = cur /\ resched' = resched
  BY DEF Readiness
<1>2. /\ FamilySound(N, table) /\ CpuSound(N[cur], m)
      /\ QuantumAfter(P, pollq) = Never => quantum = Never /\ (Held(N, cur) => Held(P, cur))
  BY FamilyStart, NotifyFamily
<1> HIDE DEF N
<1> QED  BY <1>1, <1>2 DEF FamilyInv, Held

\* read and write, and the syscall that fails with EPIPE.
LEMMA ReadWriteFamily ==
    ASSUME SchedInv, WaitInv, FamilyInv, NEW p \in Pid, Read(p) \/ Write(p)
    PROVE  FamilyInv'
<1> DEFINE f == [proc[p] EXCEPT !.at = "ret"]
<1>1. PICK now \in BOOLEAN : Readiness(Set(p, f), "kernel", now)
  BY Zenon DEF Read, Write
<1>2. p = cur /\ mode = "user"
  BY Zenon DEF Read, Write, Syscall
<1>3. "ret" \in RunPoint /\ Goes(proc[p], "ret", f)
  BY <1>2, FamilyStart, GoesAt DEF RunPoint
<1> HIDE DEF f
<1>4. Kin(proc[p], f) /\ CpuSound(f, "kernel")
  BY <1>2, <1>3, RunStart, GoesKin
<1>5. FamilySound(Set(p, f), table) /\ Set(p, f)[cur] = f
  BY <1>2, <1>4, FamilyStart, KinSet DEF FamilyInv, Set
<1>6. Held(Set(p, f), cur) => Held(proc, cur)
  BY <1>2, FamilyStart
<1> HIDE DEF Set
<1> QED  BY <1>1, <1>2, <1>4, <1>5, <1>6, ReadinessFamily

\* A write whose reader is gone.
LEMMA WriteBrokenFamily ==
    ASSUME SchedInv, WaitInv, FamilyInv, NEW p \in Pid, WriteBroken(p)
    PROVE  FamilyInv'
<1> DEFINE f == [proc[p] EXCEPT !.at = "ret"]
           g == QueueSignal(f, SIGPIPE)
           h == WakeProcess(g)
<1>1. p = cur /\ mode = "user" /\ SIGPIPE \in Sig /\ Enter(p, h)
  BY DEF WriteBroken, Syscall
<1>2. "ret" \in RunPoint /\ Goes(proc[p], "ret", f)
  BY <1>1, FamilyStart, GoesAt DEF RunPoint
<1> HIDE DEF f
<1>3. Roused(f, g)
  BY <1>1, <1>2, SignalRouses DEF Goes
<1> HIDE DEF g
<1>4. g \in Process
  BY <1>3 DEF Roused
<1>5. Roused(g, h)
  BY <1>4, WakeRouses
<1> HIDE DEF h
<1>6. /\ Lives(proc[p]) /\ proc[p].state # "Free" /\ proc[p].at = "user"
      /\ "sigsuspend" \notin Ops => proc[p].state = "Running"
  BY <1>1, FamilyStart, Start DEF FamilyInv, CpuSound, OnCpu
<1>7. /\ h \in Process /\ h.parent_pid = proc[p].parent_pid /\ h.at = "ret"
      /\ h.state \in {"Runnable", proc[p].state}
      /\ proc[p].state = "Running" => h.state = "Running"
  BY <1>2, <1>3, <1>5 DEF Goes, Roused
<1>8. Kin(proc[p], h)
  BY <1>6, <1>7, OwnKin DEF ExitPoint
<1>9. CpuSound(h, "kernel")
  BY <1>6, <1>7 DEF CpuSound, OnCpu, AwaitPoint, Lives
<1> QED  BY <1>1, <1>8, <1>9, EnterFamily

\* Keyboard, serial and network input.
LEMMA InputFamily ==
    ASSUME SchedInv, WaitInv, FamilyInv, TtyIrq \/ NicIrq
    PROVE  FamilyInv'
<1>1. IrqMode \in {"user", "woken"} /\ (mode = "woken" => IrqMode = "woken")
      /\ CpuSound(proc[cur], IrqMode) /\ FamilySound(proc, table)
  <2>1. mode \in {"user", "halt", "woken"}
    BY Zenon DEF TtyIrq, NicIrq, SchedInv, CpuInv, Mode
  <2> QED  BY <2>1 DEF IrqMode, FamilyInv, CpuSound
<1>2. CASE TtyIrq
  <2>1. Readiness(proc, IrqMode, TRUE)
    BY Zenon, <1>2 DEF TtyIrq
  <2> HIDE DEF IrqMode
  <2> QED  BY Zenon, <1>1, <2>1, ReadinessFamily
<1>3. CASE NicIrq
  <2> DEFINE W == IF work THEN {Service} ELSE {}
             N == Notify(proc, W)
  <2>1. proc' = N /\ quantum' = QuantumAfter(proc, W) /\ mode' = IrqMode
        /\ table' = table /\ cur' = cur /\ resched' = resched
    BY <1>3 DEF NicIrq
  <2>2. /\ FamilySound(N, table) /\ CpuSound(N[cur], IrqMode)
        /\ QuantumAfter(proc, W) = Never =>
              quantum = Never /\ (Held(N, cur) => Held(proc, cur))
    BY <1>1, FamilyStart, NotifyFamily
  <2> HIDE DEF N, W, IrqMode
  <2> QED  BY <1>1, <2>1, <2>2 DEF FamilyInv, Held
<1> QED  BY <1>2, <1>3

\* q is entry r blocked for I/O at point a.
Suspended(r, a, q) ==
    q \in Process /\ q.parent_pid = r.parent_pid /\ q.state = "AwaitingIo" /\ q.at = a

\* The record that await_io_until blocks with.
LEMMA BlockedFields ==
    ASSUME NEW r \in Process, NEW t \in Token, NEW d \in Delay, NEW a \in AwaitPoint,
           NEW b \in {r, Publish(r, t, d)}
    PROVE  Suspended(r, a, [[b EXCEPT !.state = "AwaitingIo", !.io_token = t]
                                 EXCEPT !.at = a])
<1> DEFINE c == [b EXCEPT !.state = "AwaitingIo", !.io_token = t]
<1>1. b \in Process /\ b.parent_pid = r.parent_pid
  <2>1. Publish(r, t, d) \in Process
    BY PublishType
  <2>2. Publish(r, t, d).parent_pid = r.parent_pid
    BY DEF Publish, Process
  <2> QED  BY <2>1, <2>2
<1>2. "AwaitingIo" \in State /\ a \in Point
  BY DEF State, AwaitPoint, Point
<1>3. c \in Process
  BY Zenon, <1>1, <1>2 DEF Process
<1>4. c.parent_pid = r.parent_pid /\ c.state = "AwaitingIo"
  BY <1>1 DEF Process
<1> HIDE DEF c
<1>6. Goes(c, a, [c EXCEPT !.at = a])
  <2>1. a \in RunPoint \cup AwaitPoint \cup {"wait4"}
    OBVIOUS
  <2> HIDE DEF AwaitPoint
  <2> QED  BY Zenon, <1>3, <2>1, GoesAt
<1>7. Suspended(r, a, [c EXCEPT !.at = a])
  BY <1>4, <1>6 DEF Goes, Suspended
<1> QED  BY <1>7 DEF c

\* A wake that came before the block is honoured.
LEMMA HonouredFields ==
    ASSUME NEW r \in Process,
           NEW q, q = TakeWakeReason([r EXCEPT !.pending_io = FALSE,
                          !.state = IF @ \in {"Runnable", "AwaitingIo"} THEN "Running" ELSE @])
    PROVE  /\ q \in Process /\ q.parent_pid = r.parent_pid /\ q.at = "woke"
           /\ q.state = IF r.state \in {"Runnable", "AwaitingIo"} THEN "Running" ELSE r.state
<1> DEFINE s == IF r.state \in {"Runnable", "AwaitingIo"} THEN "Running" ELSE r.state
           a == [r EXCEPT !.pending_io = FALSE, !.state = s]
<1>1. s \in State
  BY DEF State, Process
<1>2. q = TakeWakeReason(a)
  OBVIOUS
<1> HIDE DEF s
<1>3. a \in Process
  BY Zenon, <1>1, OwnUpdates DEF Owned
<1>4. a.parent_pid = r.parent_pid /\ a.state = s
  BY DEF Process
<1> HIDE DEF a
<1>5. q \in Process
  BY <1>2, <1>3, TakeWakeReasonOwned DEF Owned
<1>6. q.parent_pid = a.parent_pid /\ q.at = "woke" /\ q.state = a.state
  BY Zenon, <1>2, <1>3 DEF TakeWakeReason, Process
<1> QED  BY <1>4, <1>5, <1>6 DEF s

\* await_io_until for cur, whichever of its ways out it takes.
LEMMA AwaitFamily ==
    ASSUME SchedInv, NEW P, FamilySound(P, table), P[cur].at \in {"poll", "serve"},
           CpuSound(P[cur], "kernel"), NEW d \in Delay, NEW q, NEW a,
           q = Never => ~Held(P, cur), AwaitIo(P, d, q, a), UNCHANGED table
    PROVE  FamilyInv'
<1> DEFINE r == P[cur]
           free == FreeTokens(P, timers)
           timed == d # Never /\ free # {}
           t == IF timed THEN Least(free) ELSE 0
           b0 == IF timed THEN Publish(r, t, d) ELSE r
           b == [b0 EXCEPT !.state = "AwaitingIo", !.io_token = t]
           w == TakeWakeReason([r EXCEPT !.pending_io = FALSE,
                          !.state = IF @ \in {"Runnable", "AwaitingIo"} THEN "Running" ELSE @])
           Q == IF timed THEN timers \cup {NewEntry(t, d, "IoTimeout")} ELSE timers
           n == NextRunnable(P, table, cur)
           sw == [b EXCEPT !.at = "awaitSwitched"]
           id == [b EXCEPT !.at = "awaitIdle"]
<1>1. \/ proc' = [P EXCEPT ![cur] = w] /\ mode' = "kernel" /\ quantum' = q /\ cur' = cur
      \/ n # NoPid /\ SwitchTo([P EXCEPT ![cur] = sw], Q, n)
      \/ proc' = [P EXCEPT ![cur] = id] /\ mode' = "kernel" /\ quantum' = q /\ cur' = cur
  BY DEF AwaitIo
<1>2. P \in [Pid -> Process] /\ cur \in Pid /\ table \in Seq(Pid) /\ r \in Process
      /\ Lives(r) /\ r.state # "Free"
  BY DEF FamilySound, SchedInv, CpuInv, CpuSound
<1>3. t \in Token
  <2>1. timed => Least(free) \in 1..MaxWaits
    BY FreeTokenFresh
  <2> QED  BY <2>1, ConstantTypes, WaitsAssumption DEF Token
<1>4. /\ sw \in Process /\ sw.parent_pid = r.parent_pid /\ sw.state = "AwaitingIo"
      /\ sw.at = "awaitSwitched"
  <2>1. b0 \in {r, Publish(r, t, d)} /\ "awaitSwitched" \in AwaitPoint
    BY DEF AwaitPoint
  <2> HIDE DEF t, b0, AwaitPoint
  <2>2. Suspended(r, "awaitSwitched", sw)
    BY Zenon, <1>2, <1>3, <2>1, BlockedFields
  <2> HIDE DEF sw
  <2> QED  BY <2>2 DEF Suspended
<1>5. /\ id \in Process /\ id.parent_pid = r.parent_pid /\ id.state = "AwaitingIo"
      /\ id.at = "awaitIdle"
  <2>1. b0 \in {r, Publish(r, t, d)} /\ "awaitIdle" \in AwaitPoint
    BY DEF AwaitPoint
  <2> HIDE DEF t, b0, AwaitPoint
  <2>2. Suspended(r, "awaitIdle", id)
    BY Zenon, <1>2, <1>3, <2>1, BlockedFields
  <2> HIDE DEF id
  <2> QED  BY <2>2 DEF Suspended
<1>6. /\ w \in Process /\ w.parent_pid = r.parent_pid /\ w.at = "woke"
      /\ w.state = IF r.state \in {"Runnable", "AwaitingIo"} THEN "Running" ELSE r.state
  BY Zenon, <1>2, HonouredFields
<1> HIDE DEF sw, id, w, Q
<1>7. Kin(r, sw) /\ Kin(r, id) /\ Kin(r, w)
  <2>1. r.at \notin ExitPoint \cup {"wait4"}
    BY DEF ExitPoint
  <2> QED  BY <1>2, <1>4, <1>5, <1>6, <2>1, OwnKin DEF ExitPoint
<1>8. ASSUME NEW f \in {w, id}, proc' = [P EXCEPT ![cur] = f], mode' = "kernel",
             quantum' = q, cur' = cur
      PROVE  FamilyInv'
  <2>1. FamilySound([P EXCEPT ![cur] = f], table) /\ [P EXCEPT ![cur] = f][cur] = f
    BY Zenon, <1>2, <1>7, <1>8, KinSet
  <2>2. CpuSound(f, "kernel")
    BY <1>2, <1>5, <1>6, <1>8 DEF CpuSound, OnCpu, AwaitPoint
  <2>3. Held([P EXCEPT ![cur] = f], cur) => Held(P, cur)
    BY <1>2 DEF Held
  <2> QED  BY <1>8, <2>1, <2>2, <2>3 DEF FamilyInv, Held
<1>9. ASSUME n # NoPid, SwitchTo([P EXCEPT ![cur] = sw], Q, n)
      PROVE  FamilyInv'
  <2>1. n \in Pid /\ n # cur /\ P[n].state = "Runnable"
    BY <1>2, <1>9, NextRunnableFinds
  <2> HIDE DEF n
  <2> DEFINE S == [P EXCEPT ![cur] = sw]
  <2>2. FamilySound(S, table) /\ S[n].state = "Runnable" /\ SwitchTo(S, Q, n)
    BY Zenon, <1>2, <1>7, <1>9, <2>1, KinSet
  <2> HIDE DEF S
  <2> QED  BY <2>1, <2>2, SwitchFamily
<1> QED  BY <1>1, <1>8, <1>9

\* wait_for_ready up to await_io_until.
LEMMA PollWaitFamily ==
    ASSUME SchedInv, WaitInv, FamilyInv, NEW p \in Pid, PollWait(p)
    PROVE  FamilyInv'
<1>1. p = cur /\ mode = "kernel" /\ proc[p].at = "poll"
  BY DEF PollWait, Kernel
<1>2. \/ Enter(p, [proc[p] EXCEPT !.at = "ret"])
      \/ AwaitIo(proc, proc[p].timeout, quantum, armed) /\ UNCHANGED table
  BY DEF PollWait
<1>3. CASE Enter(p, [proc[p] EXCEPT !.at = "ret"])
  <2>1. "ret" \in RunPoint /\ Goes(proc[p], "ret", [proc[p] EXCEPT !.at = "ret"])
    BY <1>1, FamilyStart, GoesAt DEF RunPoint
  <2> QED  BY <1>1, <1>3, <2>1, MoveFamily DEF RunPoint
<1>4. CASE AwaitIo(proc, proc[p].timeout, quantum, armed) /\ UNCHANGED table
  <2>1. proc[p].timeout \in Delay
    BY <1>1, FamilyStart DEF Process
  <2>2. quantum = Never => ~Held(proc, cur)
    BY <1>1, FamilyStart
  <2>3. CpuSound(proc[cur], "kernel")
    BY <1>1 DEF FamilyInv, CpuSound
  <2> QED  BY <1>1, <1>4, <2>1, <2>2, <2>3, AwaitFamily DEF FamilyInv
<1> QED  BY <1>2, <1>3, <1>4

\* One turn of the network service.
LEMMA ServeFamily ==
    ASSUME SchedInv, WaitInv, FamilyInv, NEW p \in Pid, NEW d \in NetDelays,
           NEW changed, Serve(p, d, changed)
    PROVE  FamilyInv'
<1>1. p = cur /\ mode = "kernel" /\ proc[p].at = "serve" /\ UNCHANGED table
  BY DEF Serve, Kernel
<1>2. d \in Delay
  BY TimeoutsAssumption, DelayAssumption DEF Delay, Never
<1>3. CpuSound(proc[cur], "kernel") /\ (quantum = Never => ~Held(proc, cur))
      /\ FamilySound(proc, table)
  BY <1>1, FamilyStart DEF FamilyInv, CpuSound
<1>4. CASE ~changed
  <2>1. AwaitIo(proc, d, quantum, armed)
    BY <1>4 DEF Serve
  <2> QED  BY Zenon, <1>1, <1>2, <1>3, <2>1, AwaitFamily
<1>5. CASE changed
  <2> DEFINE q == QuantumAfter(proc, pollq)
             a == IF q # quantum THEN Earlier(armed, q) ELSE armed
             N == Notify(proc, pollq)
  <2>1. AwaitIo(N, d, q, a)
    BY <1>5 DEF Serve
  <2>2. /\ FamilySound(N, table) /\ CpuSound(N[cur], "kernel")
        /\ q = Never => quantum = Never /\ (Held(N, cur) => Held(proc, cur))
    BY <1>3, FamilyStart, NotifyFamily
  <2>3. N[cur].at = "serve"
    <3>1. N[cur] \in {proc[cur], WakeProcess(proc[cur])}
      BY FamilyStart DEF Notify
    <3> HIDE DEF N
    <3> QED  BY SMTT(20), <1>1, <3>1, FamilyStart, WakeRouses DEF Roused
  <2> HIDE DEF N, q, a
  <2> QED  BY <1>1, <1>2, <1>3, <2>1, <2>2, <2>3, AwaitFamily
<1> QED  BY <1>4, <1>5

\* block_current_until.
LEMMA BlockFamily ==
    ASSUME SchedInv, WaitInv, FamilyInv, NEW p \in Pid, Block(p)
    PROVE  FamilyInv'
<1> DEFINE r == proc[p]
           free == FreeTokens(proc, timers)
           t == Least(free)
           S == Publish([r EXCEPT !.state = "Sleeping"], t, r.timeout)
           Q == timers \cup {NewEntry(t, r.timeout, "Sleep")}
           n == NextRunnable(proc, table, p)
           sw == [S EXCEPT !.at = "sleepSwitched"]
           id == [S EXCEPT !.at = "sleepIdle"]
<1>1. p = cur /\ mode = "kernel" /\ r.at = "sleep" /\ UNCHANGED table
  BY DEF Block, Kernel
<1>2. \/ Enter(p, [r EXCEPT !.at = "ret"])
      \/ free # {} /\ n # NoPid /\ SwitchTo(Set(p, sw), Q, n)
      \/ /\ free # {} /\ proc' = Set(p, id)
         /\ UNCHANGED <<cur, mode, quantum>>
  BY DEF Block
<1>3. r \in Process /\ Lives(r) /\ r.state # "Free" /\ Sound(p, r) /\ p # Service
      /\ table \in Seq(Pid)
  BY <1>1, FamilyStart, Start DEF Sound, AwaitPoint, SchedInv
<1>4. CASE Enter(p, [r EXCEPT !.at = "ret"])
  <2>1. "ret" \in RunPoint /\ Goes(r, "ret", [r EXCEPT !.at = "ret"])
    BY <1>3, GoesAt DEF RunPoint
  <2> QED  BY <1>1, <1>4, <2>1, MoveFamily DEF RunPoint
<1>5. ASSUME free # {}
      PROVE  Kin(r, sw) /\ Kin(r, id) /\ id.at = "sleepIdle" /\ id.state = "Sleeping"
  <2>1. t \in 1..MaxWaits
    BY <1>5, FreeTokenFresh
  <2> HIDE DEF t
  <2>2. /\ sw \in Process /\ sw.at = "sleepSwitched" /\ sw.state = "Sleeping"
        /\ id \in Process /\ id.at = "sleepIdle" /\ id.state = "Sleeping"
    <3>1. "sleepSwitched" \in SleepPoint /\ "sleepIdle" \in SleepPoint
      BY DEF SleepPoint
    <3>2. Sleeper(p, t, r.timeout, "sleepSwitched", sw)
      BY Zenon, <1>1, <1>3, <2>1, <3>1, SleeperSound
    <3>3. Sleeper(p, t, r.timeout, "sleepIdle", id)
      BY Zenon, <1>1, <1>3, <2>1, <3>1, SleeperSound
    <3> HIDE DEF sw, id
    <3> QED  BY <3>2, <3>3 DEF Sleeper
  <2>3. sw.parent_pid = r.parent_pid /\ id.parent_pid = r.parent_pid
    <3> DEFINE z == [r EXCEPT !.state = "Sleeping"]
    <3>1. z.parent_pid = r.parent_pid /\ {"parent_pid", "at"} \subseteq DOMAIN z
      BY <1>3 DEF Process
    <3> HIDE DEF z
    <3>2. S.parent_pid = r.parent_pid /\ {"parent_pid", "at"} \subseteq DOMAIN S
      BY <3>1 DEF Publish, z
    <3> HIDE DEF S
    <3> QED  BY <3>2
  <2> HIDE DEF sw, id
  <2> QED  BY Zenon, <1>1, <1>3, <2>2, <2>3, OwnKin DEF ExitPoint
<1> HIDE DEF sw, id, Q
<1>6. ASSUME free # {}, n # NoPid, SwitchTo(Set(p, sw), Q, n)
      PROVE  FamilyInv'
  <2>1. n \in Pid /\ n # cur /\ proc[n].state = "Runnable"
    BY <1>1, <1>3, <1>6, NextRunnableFinds
  <2> HIDE DEF n
  <2>2. FamilySound(Set(p, sw), table) /\ Set(p, sw)[n].state = "Runnable"
    BY <1>1, <1>5, <1>6, <2>1, FamilyStart, KinSet DEF FamilyInv, Set
  <2> HIDE DEF Set
  <2> QED  BY <1>1, <1>6, <2>1, <2>2, SwitchFamily
<1>7. ASSUME free # {}, proc' = Set(p, id), UNCHANGED <<cur, mode, quantum>>
      PROVE  FamilyInv'
  <2>1. FamilySound(Set(p, id), table) /\ Set(p, id)[cur] = id
    BY Zenon, <1>1, <1>5, <1>7, FamilyStart, KinSet DEF FamilyInv, Set
  <2>2. CpuSound(id, "kernel")
    BY <1>5, <1>7 DEF CpuSound, OnCpu, AwaitPoint
  <2>3. ~(quantum = Never /\ Held(Set(p, id), cur))
    BY <1>1, FamilyStart
  <2> HIDE DEF Set
  <2> QED  BY <1>1, <1>7, <2>1, <2>2, <2>3 DEF FamilyInv, Held
<1> QED  BY <1>2, <1>4, <1>6, <1>7

\* rt_sigsuspend.
LEMMA SigsuspendFamily ==
    ASSUME SchedInv, WaitInv, FamilyInv, NEW p \in Pid, NEW m \in Masks, Sigsuspend(p, m)
    PROVE  FamilyInv'
<1> DEFINE r == proc[p]
           s == [r EXCEPT !.saved_mask = r.signal_mask, !.signal_mask = m,
                          !.in_sigsuspend = TRUE, !.at = "ret"]
           w == [s EXCEPT !.state = "SignalWait"]
<1>1. p = cur /\ mode = "user" /\ "sigsuspend" \in Ops /\ UNCHANGED table
  BY DEF Sigsuspend, Syscall
<1>2. \/ Continue(Set(p, s), "kernel")
      \/ ScheduleNow(Set(p, w), Continue(Set(p, w), "kernel"))
  BY DEF Sigsuspend
<1>3. r \in Process /\ Lives(r) /\ r.state # "Free" /\ r.at = "user" /\ m \in SUBSET Sig
  BY <1>1, FamilyStart, Start, MasksAssumption
<1>4. "ret" \in Point /\ "SignalWait" \in State /\ r.signal_mask \in SUBSET Sig
  BY <1>3 DEF Point, State, Process
<1>5. s \in Process
  BY Zenon, <1>3, <1>4 DEF Process
<1>6. s.at = "ret" /\ s.state = r.state /\ s.parent_pid = r.parent_pid
  BY <1>3 DEF Process
<1> HIDE DEF s
<1>7. w \in Process /\ w.at = "ret" /\ w.state = "SignalWait" /\ w.parent_pid = r.parent_pid
  <2>1. w \in Process
    BY Zenon, <1>4, <1>5, OwnUpdates DEF Owned
  <2> QED  BY <1>5, <1>6, <2>1 DEF Process
<1> HIDE DEF w
<1>8. Kin(r, s) /\ Kin(r, w)
  BY <1>3, <1>5, <1>6, <1>7, OwnKin DEF ExitPoint
<1>9. CpuSound(s, "kernel") /\ CpuSound(w, "kernel")
  BY <1>1, <1>3, <1>6, <1>7 DEF CpuSound
<1>10. CASE Continue(Set(p, s), "kernel")
  <2>1. FamilySound(Set(p, s), table) /\ Set(p, s)[cur] = s
    BY <1>1, <1>8, FamilyStart, KinSet DEF FamilyInv, Set
  <2>2. ~(quantum = Never /\ Held(Set(p, s), cur))
    BY <1>1, FamilyStart
  <2> HIDE DEF Set
  <2> QED  BY <1>1, <1>9, <1>10, <2>1, <2>2, ContinueFamily
<1>11. CASE ScheduleNow(Set(p, w), Continue(Set(p, w), "kernel"))
  BY <1>1, <1>8, <1>9, <1>11, OwnSchedule
<1> QED  BY <1>2, <1>10, <1>11

\* Every step of the scheduler but kill keeps the family.
LEMMA StepFamily ==
    ASSUME SchedInv, WaitInv, FamilyInv, "kill" \notin Ops, [Next]_vars
    PROVE  FamilyInv'
<1>1. ASSUME NEW p \in Pid, UserStep(p) PROVE FamilyInv'
  <2>1. ASSUME NEW T, NEW sig, Kill(p, T, sig) PROVE FALSE
    <3>1. Syscall("kill", p)
      BY Zenon, <2>1 DEF Kill
    <3> QED  BY <3>1 DEF Syscall
  <2> QED
    BY <1>1, <2>1, EntriesFamily, SigsuspendFamily, SigreturnFamily, YieldFamily,
       ForkFamily, ExitFamily, ReadWriteFamily, WriteBrokenFamily
    DEF UserStep
<1>2. ASSUME NEW p \in Pid, KernelStep(p) PROVE FamilyInv'
  BY <1>2, RetFamily, WokeFamily, ResumeFamily, IdleFamily, ExitedHaltNever,
     PollWaitFamily, ServeFamily, BlockFamily, Wait4ScanFamily
  DEF KernelStep
<1>3. CASE Irq
  BY <1>3, InputFamily, TimerIrqFamily DEF Irq
<1>4. CASE Tick
  BY <1>4, TickFamily
<1>5. CASE UNCHANGED vars
  BY Zenon, <1>5 DEF vars, FamilyInv, Held
<1> QED
  BY <1>1, <1>2, <1>3, <1>4, <1>5 DEF Next
==============================================================================
