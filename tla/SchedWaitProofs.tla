--------------------------- MODULE SchedWaitProofs ---------------------------
(***************************************************************************)
(* Every action of Sched.tla preserves WaitInv: the waits of               *)
(* await_io_until, block_current_until and rt_sigsuspend, the deadline     *)
(* queue that ends them, and the frames of signal handlers.                *)
(***************************************************************************)
EXTENDS SchedWaitLemmas

------------------------------------------------------------------------------
(* One lemma per action: each keeps the invariant and gives no early wake.   *)

\* The syscall exit path, with or without a signal to deliver.
LEMMA RetWait ==
    ASSUME SchedInv, WaitInv, NEW p \in Pid, Ret(p)
    PROVE  WaitStep
<1> DEFINE r0 == proc[p]
           r == [r0 EXCEPT !.at = "user", !.timeout = Never, !.options = {}]
           unblocked == r.pending_signals \ r.signal_mask
           f == IF unblocked = {} THEN r ELSE Deliver(r, Least(unblocked))
<1>1. /\ p = cur /\ CondResched(Set(p, f), "user") /\ r0.at = "ret"
      /\ UNCHANGED <<ready, pollq, nic, work>>
  BY DEF Ret, Kernel, io
<1>2. r0 \in Process /\ Sound(p, r0) /\ Off(r0) /\ p # Service
  BY <1>1, Start DEF Off, AwaitPoint, SleepPoint, Sound
<1>3. ~Waits(r0) /\ r0.wait_token = 0 /\ r0.wake_reason = "none" /\ Nested(r0)
      /\ r0.reason # "Deadline"
  BY <1>1, <1>2, OffRest DEF Sound, Placed
<1> HIDE DEF r0
<1>4. /\ r \in Process /\ r.at = "user" /\ r.state = r0.state /\ r.wait_token = 0
      /\ r.wake_reason = "none" /\ r.reason = r0.reason
      /\ r.signal_mask = r0.signal_mask /\ r.in_sigsuspend = r0.in_sigsuspend
      /\ r.frames = r0.frames
  <2>1. r \in Process
    BY Zenon, <1>2, PointModes, ConstantTypes DEF Process
  <2> QED
    BY Zenon, <1>2, <1>3, <2>1 DEF Process
<1>5. Nested(r) /\ unblocked \in SUBSET Nat
  <2>1. Nested(r)
    BY <1>3, <1>4 DEF Nested
  <2> HIDE DEF r
  <2>2. r.pending_signals \in SUBSET Sig
    BY <1>4 DEF Process
  <2>3. Sig \subseteq Nat
    BY SigAssumption
  <2> QED
    BY Zenon, <2>1, <2>2, <2>3
<1> HIDE DEF r
<1>6. /\ f \in Process /\ Nested(f) /\ f.at = "user" /\ f.state = r0.state
      /\ f.wait_token = 0 /\ f.wake_reason = "none" /\ f.reason # "Deadline"
  <2>1. CASE unblocked = {}
    BY <1>3, <1>4, <1>5, <2>1
  <2>2. CASE unblocked # {}
    <3>1. Least(unblocked) \in unblocked
      <4> HIDE DEF unblocked
      <4> QED
        BY Zenon, <1>5, <2>2, LeastInSet
    <3>2. f = Deliver(r, Least(unblocked))
      BY <2>2
    <3> DEFINE sig == Least(unblocked)
    <3>3. sig \in r.pending_signals \ r.signal_mask
      BY <3>1
    <3> HIDE DEF sig
    <3>4. LET g == Deliver(r, sig)
          IN  /\ Nested(g) /\ g \in Process /\ g.at = r.at /\ g.state = r.state
              /\ g.wait_token = r.wait_token /\ g.wake_reason = r.wake_reason
              /\ g.reason = r.reason
      BY <1>4, <1>5, <3>3, DeliverNested
    <3> QED
      BY <1>3, <1>4, <3>2, <3>4 DEF sig
  <2> QED
    BY Zenon, <2>1, <2>2
<1> HIDE DEF f
<1>7. Off(f) /\ ~Waits(f)
  BY <1>3, <1>6 DEF Off, Waits, AwaitPoint, SleepPoint
<1>8. Sound(p, f) /\ Keeps(r0, f)
  BY <1>2, <1>6, <1>7, OwnMove
<1>9. /\ Reached(Set(p, f), timers) /\ Idles(Set(p, f)) \subseteq Idles(proc)
      /\ CpuPlaced(Set(p, f)[cur], "user")
  BY Zenon, <1>1, <1>6, <1>7, <1>8, OwnReached DEF r0
<1> HIDE DEF Set
<1> QED
  BY <1>1, <1>9, CondReschedReached, FinishIo

\* sched_yield.
LEMMA YieldWait ==
    ASSUME SchedInv, WaitInv, NEW p \in Pid, Yield(p)
    PROVE  WaitStep
<1> DEFINE r == [proc[p] EXCEPT !.at = "ret"]
<1>1. /\ p = cur /\ mode = "user" /\ UNCHANGED <<ready, pollq, nic, work>>
      /\ ScheduleNow(Set(p, r), Continue(Set(p, r), "kernel"))
  BY DEF Yield, Syscall, io
<1>2. Moved(p, proc[p], "ret", r)
  BY Zenon, <1>1, Start, CurMoves, ConstantTypes
<1> HIDE DEF r
<1>3. /\ Reached(Set(p, r), timers) /\ Idles(Set(p, r)) \subseteq Idles(proc)
      /\ CpuPlaced(Set(p, r)[cur], "kernel")
  BY Zenon, <1>1, <1>2, OwnReached DEF Moved
<1> HIDE DEF Set
<1>4. /\ Reached(proc', timers') /\ CpuPlaced(proc'[cur'], mode')
      /\ Idles(proc') \subseteq Idles(Set(p, r)) \cup Idles(Set(p, r))
  BY <1>1, <1>3, ScheduleReached
<1> QED
  BY <1>1, <1>3, <1>4, FinishIo

\* The end of a wait that cur finds over: cond_resched, then on in the kernel.
LEMMA WokenWait ==
    ASSUME SchedInv, WaitInv, NEW p, p = cur, NEW r \in Process, Sound(p, r),
           Keeps(proc[p], r), ~Waits(r), CondResched(Set(p, r), "kernel"),
           UNCHANGED <<ready, pollq, nic, work>>
    PROVE  WaitStep
<1>1. /\ Reached(Set(p, r), timers) /\ Idles(Set(p, r)) \subseteq Idles(proc)
      /\ CpuPlaced(Set(p, r)[cur], "kernel")
  BY OwnReached
<1> HIDE DEF Set
<1>2. /\ Reached(proc', timers') /\ CpuPlaced(proc'[cur'], mode')
      /\ Idles(proc') \subseteq Idles(Set(p, r))
  BY <1>1, CondReschedReached
<1> QED
  BY <1>1, <1>2, FinishIo

\* await_io_until after the switch back.
LEMMA AwaitResumeWait ==
    ASSUME SchedInv, WaitInv, NEW p \in Pid, AwaitResume(p)
    PROVE  WaitStep
<1>1. /\ p = cur /\ proc[p].at = "awaitSwitched" /\ UNCHANGED <<ready, pollq, nic, work>>
      /\ CondResched(Set(p, Woken(proc[p])), "kernel")
  BY DEF AwaitResume, Kernel, io
<1>2. /\ proc[p] \in Process /\ Sound(p, proc[p]) /\ proc[p].at \in AwaitPoint
      /\ proc[p].state \notin {"AwaitingIo", "Sleeping"}
  BY <1>1, Start DEF AwaitPoint, CpuPlaced
<1> DEFINE q == Woken(proc[p])
<1>3. q \in Process /\ Sound(p, q) /\ Keeps(proc[p], q) /\ ~Waits(q)
  BY <1>2, WokenSound
<1> HIDE DEF q
<1> QED
  BY <1>1, <1>3, WokenWait DEF q

\* One turn of await_io_until's HLT loop.
LEMMA AwaitIdleWait ==
    ASSUME SchedInv, WaitInv, NEW p \in Pid, AwaitIdle(p)
    PROVE  WaitStep
<1> DEFINE r == proc[p]
           next == IF resched THEN "awaitDrop" ELSE "awaitIdle"
           q == [r EXCEPT !.at = next]
           w == Woken(r)
<1>1. /\ p = cur /\ r.at = "awaitIdle" /\ UNCHANGED <<ready, pollq, nic, work>>
  BY DEF AwaitIdle, Idle, io
<1>2. /\ r \in Process /\ Sound(p, r) /\ r.at \in AwaitPoint /\ CpuPlaced(r, mode)
      /\ next \in AwaitPoint
  BY <1>1, Start DEF AwaitPoint
<1>3. CASE (r.pending_io \/ r.state = "Runnable") /\ CondResched(Set(p, Woken(r)), "kernel")
  <2>1. r.state \notin {"AwaitingIo", "Sleeping"}
    BY Zenon, <1>1, <1>2, <1>3 DEF Sound, Placed, SleepPoint
  <2>2. w \in Process /\ Sound(p, w) /\ Keeps(r, w) /\ ~Waits(w)
    BY <1>2, <2>1, WokenSound
  <2> HIDE DEF w
  <2> QED
    BY <1>1, <1>3, <2>2, WokenWait DEF w
<1>4. CASE ScheduleNow(Set(p, q), Continue(proc, "halt"))
  <2>1. q \in Process /\ Sound(p, q) /\ Keeps(r, q)
    BY <1>2, AwaitMove
  <2> HIDE DEF q
  <2>2. Reached(Set(p, q), timers) /\ Idles(Set(p, q)) \subseteq Idles(proc)
    BY Zenon, <2>1, Start, KeepsOwn DEF Set
  <2>3. Reached(proc, timers) /\ CpuPlaced(proc[cur], "halt")
    BY <1>1, <1>2, Start DEF CpuPlaced
  <2> HIDE DEF Set, r
  <2>4. /\ Reached(proc', timers') /\ CpuPlaced(proc'[cur'], mode')
        /\ Idles(proc') \subseteq Idles(Set(p, q)) \cup Idles(proc)
    BY <1>4, <2>2, <2>3, ScheduleReached
  <2> QED
    BY <1>1, <2>2, <2>4, FinishIo
<1> QED
  BY <1>3, <1>4 DEF AwaitIdle

\* The drop of the PreemptGuard in that loop.
LEMMA AwaitDropWait ==
    ASSUME SchedInv, WaitInv, NEW p \in Pid, AwaitDrop(p)
    PROVE  WaitStep
<1> DEFINE q == [proc[p] EXCEPT !.at = "awaitIdle"]
<1>1. /\ p = cur /\ proc[p].at = "awaitDrop" /\ UNCHANGED <<ready, pollq, nic, work>>
      /\ ScheduleNow(Set(p, q), Continue(Set(p, q), "halt"))
  BY DEF AwaitDrop, Kernel, io
<1>2. proc[p] \in Process /\ Sound(p, proc[p]) /\ proc[p].at \in AwaitPoint
      /\ "awaitIdle" \in AwaitPoint /\ CpuPlaced(proc[p], mode)
  BY <1>1, Start DEF AwaitPoint
<1>3. q \in Process /\ Sound(p, q) /\ Keeps(proc[p], q) /\ ~Waits(q)
  BY <1>1, <1>2, AwaitMove DEF Waits, CpuPlaced
<1> HIDE DEF q
<1>4. /\ Reached(Set(p, q), timers) /\ Idles(Set(p, q)) \subseteq Idles(proc)
      /\ CpuPlaced(Set(p, q)[cur], "halt")
  BY Zenon, <1>1, <1>3, OwnReached
<1> HIDE DEF Set
<1>5. /\ Reached(proc', timers') /\ CpuPlaced(proc'[cur'], mode')
      /\ Idles(proc') \subseteq Idles(Set(p, q)) \cup Idles(Set(p, q))
  BY <1>1, <1>4, ScheduleReached
<1> QED
  BY <1>1, <1>4, <1>5, FinishIo

\* read and write.
LEMMA ReadWriteWait ==
    ASSUME SchedInv, WaitInv, NEW p \in Pid, Read(p) \/ Write(p)
    PROVE  WaitStep
<1> DEFINE r == [proc[p] EXCEPT !.at = "ret"]
<1>1. p = cur /\ mode = "user" /\ \E now : Readiness(Set(p, r), "kernel", now)
  BY Zenon DEF Read, Write, Syscall
<1>2. Moved(p, proc[p], "ret", r)
  BY Zenon, <1>1, Start, CurMoves, ConstantTypes
<1> HIDE DEF r
<1>3. /\ Reached(Set(p, r), timers) /\ Idles(Set(p, r)) \subseteq Idles(proc)
      /\ CpuPlaced(Set(p, r)[cur], "kernel")
  BY <1>1, <1>2, OwnReached DEF Moved
<1> HIDE DEF Set
<1> QED
  BY <1>1, <1>3, ReadinessWait

\* Keyboard or serial input.
LEMMA TtyIrqWait ==
    ASSUME SchedInv, WaitInv, TtyIrq
    PROVE  WaitStep
<1>1. CpuPlaced(proc[cur], IrqMode)
  BY Start DEF CpuPlaced, IrqMode
<1>2. Reached(proc, timers) /\ Readiness(proc, IrqMode, TRUE)
  BY Zenon, Start DEF TtyIrq
<1> QED
  BY Zenon, <1>1, <1>2, ReadinessWait

\* A received frame: the service is woken if it is registered.
LEMMA NicIrqWait ==
    ASSUME SchedInv, WaitInv, NicIrq
    PROVE  WaitStep
<1> DEFINE W == IF work THEN {Service} ELSE {}
<1>1. /\ proc' = Notify(proc, W) /\ mode' = IrqMode /\ cur' = cur /\ timers' = timers
      /\ ready' = ready /\ pollq' = pollq
  BY DEF NicIrq
<1>2. proc \in [Pid -> Process] /\ cur \in Pid /\ timers \in SUBSET Entry
      /\ Reached(proc, timers) /\ CpuPlaced(proc[cur], IrqMode)
  BY Start DEF Reached, CpuPlaced, IrqMode
<1>3. Reached(proc', timers') /\ Idles(proc') \subseteq Idles(proc) \ W
  BY <1>1, <1>2, NotifyReached
<1>4. CpuPlaced(proc'[cur'], mode')
  BY <1>1, <1>2, NotifyPlaced
<1>5. PollSlots > MaxPid =>
        \A k \in Idles(proc') : IF k = Service THEN work' /\ ~nic'
                                ELSE k \in pollq' /\ ~ready'
  BY Zenon, <1>1, <1>3 DEF WaitInv, NoLostWakeup, Idles
<1> QED
  BY <1>3, <1>4, <1>5, Finish

\* poll up to its first scan, and nanosleep and wait4 up to their loops.
LEMMA PollWaits ==
    ASSUME SchedInv, WaitInv, NEW p \in Pid, NEW d \in Timeouts, Poll(p, d)
    PROVE  WaitStep
<1> DEFINE a == IF ready THEN "ret" ELSE "poll"
<1>1. /\ p = cur /\ mode = "user" /\ Enter(p, [proc[p] EXCEPT !.at = a, !.timeout = d])
      /\ UNCHANGED <<ready, pollq, nic, work>>
  BY DEF Poll, Syscall, io
<1>2. a \in {"user", "ret", "poll", "sleep", "wait4"}
  OBVIOUS
<1> HIDE DEF a
<1>3. d \in Delay
  BY TimeoutsAssumption DEF Delay
<1>4. Moved(p, proc[p], a, [proc[p] EXCEPT !.at = a, !.timeout = d])
  BY Zenon, <1>1, <1>2, <1>3, Start, CurMoves
<1> QED
  BY <1>1, <1>4, MoveWait

\* nanosleep.
LEMMA NanosleepWait ==
    ASSUME SchedInv, WaitInv, NEW p \in Pid, NEW d \in Timeouts, Nanosleep(p, d)
    PROVE  WaitStep
<1>1. /\ p = cur /\ mode = "user" /\ Enter(p, [proc[p] EXCEPT !.at = "sleep", !.timeout = d])
      /\ UNCHANGED <<ready, pollq, nic, work>>
  BY DEF Nanosleep, Syscall, io
<1>2. d \in Delay
  BY TimeoutsAssumption DEF Delay
<1>3. Moved(p, proc[p], "sleep", [proc[p] EXCEPT !.at = "sleep", !.timeout = d])
  BY Zenon, <1>1, <1>2, Start, CurMoves
<1> QED
  BY <1>1, <1>3, MoveWait

\* wait4.
LEMMA Wait4Wait ==
    ASSUME SchedInv, WaitInv, NEW p \in Pid, NEW o \in SUBSET {"nohang", "untraced"},
           Wait4(p, o)
    PROVE  WaitStep
<1>1. /\ p = cur /\ mode = "user" /\ Enter(p, [proc[p] EXCEPT !.at = "wait4", !.options = o])
      /\ UNCHANGED <<ready, pollq, nic, work>>
  BY DEF Wait4, Syscall, io
<1>2. Moved(p, proc[p], "wait4", [proc[p] EXCEPT !.at = "wait4", !.options = o])
  BY Zenon, <1>1, Start, CurMoves, ConstantTypes
<1> QED
  BY <1>1, <1>2, MoveWait

\* wait_for_ready up to await_io_until: who blocks is on the queue, since the
\* queue has a slot for every process.
LEMMA PollWaitWait ==
    ASSUME SchedInv, WaitInv, NEW p \in Pid, PollWait(p)
    PROVE  WaitStep
<1>1. p = cur /\ proc[p].at = "poll"
  BY DEF PollWait, Kernel
<1>2. /\ Moved(p, proc[p], "ret", [proc[p] EXCEPT !.at = "ret"]) /\ p # Service
  BY Zenon, <1>1, CurMoves, ConstantTypes
<1>3. CASE Enter(p, [proc[p] EXCEPT !.at = "ret"]) /\ UNCHANGED io
  BY <1>1, <1>2, <1>3, MoveWait DEF io
<1>4. CASE /\ UNCHANGED <<ready, nic, work>> /\ pollq' = pollq \ {p}
           /\ Enter(p, [proc[p] EXCEPT !.at = "ret"])
  BY <1>1, <1>2, <1>4, LeaveWait
<1>5. CASE /\ UNCHANGED <<ready, nic, work>> /\ ~ready
           /\ AwaitIo(proc, proc[p].timeout, quantum, armed) /\ pollq' = Prepare(pollq, p)
  <2>1. Reached(proc, timers) /\ proc[cur].timeout \in Delay
    BY <1>1, Start DEF Process
  <2>2. /\ Reached(proc', timers') /\ CpuPlaced(proc'[cur'], mode')
        /\ Idles(proc') \subseteq Idles(proc) \cup {cur}
    BY Zenon, <1>1, <1>5, <2>1, AwaitReached
  <2>3. pollq \subseteq pollq' /\ (PollSlots > MaxPid => p \in pollq')
    <3>1. CASE p \in pollq
      BY <1>5, <3>1 DEF Prepare
    <3>2. CASE p \notin pollq
      <4>1. pollq \subseteq Pid \ {p}
        BY <3>2 DEF SchedInv, IoOK
      <4>2. IsFiniteSet(Pid) /\ Cardinality(Pid) = MaxPid + 1
        <5>1. 0 \in Int /\ MaxPid \in Int /\ MaxPid >= 0
          BY PidAssumption
        <5>2. IsFiniteSet(0..MaxPid)
              /\ Cardinality(0..MaxPid) = IF 0 > MaxPid THEN 0 ELSE MaxPid - 0 + 1
          BY Zenon, <5>1, FS_Interval
        <5> QED
          BY <5>1, <5>2 DEF Pid
      <4>3. IsFiniteSet(Pid \ {p}) /\ Cardinality(Pid \ {p}) = MaxPid
        BY <4>2, FS_RemoveElement, PidAssumption
      <4>4. Cardinality(pollq) <= MaxPid /\ Cardinality(pollq) \in Nat
        BY <4>1, <4>3, FS_Subset, FS_CardinalityType
      <4>5. PollSlots > MaxPid => Cardinality(pollq) < PollSlots
        BY <4>4, PidAssumption, SlotsAssumption
      <4> QED
        BY <1>5, <4>5 DEF Prepare
    <3> QED
      BY <3>1, <3>2
  <2>4. PollSlots > MaxPid =>
          \A k \in Idles(proc') : IF k = Service THEN work' /\ ~nic'
                                  ELSE k \in pollq' /\ ~ready'
    BY <1>1, <1>2, <1>5, <2>2, <2>3 DEF WaitInv, NoLostWakeup, Idles
  <2> QED
    BY <2>2, <2>4, Finish
<1> QED
  BY <1>3, <1>4, <1>5 DEF PollWait

\* wait_for_ready after await_io_until.
LEMMA PollWokeWait ==
    ASSUME SchedInv, WaitInv, NEW p \in Pid, PollWoke(p)
    PROVE  WaitStep
<1> DEFINE r == proc[p]
           done == \/ r.reason = "Signal"
                   \/ r.reason = "Event" /\ ready
                   \/ r.reason = "Deadline" /\ r.timeout = 0
           a == IF done THEN "ret" ELSE "poll"
           q == [r EXCEPT !.at = a, !.reason = "none"]
<1>1. /\ p = cur /\ r.at = "woke" /\ p # Service /\ Enter(p, q) /\ pollq' = pollq \ {p}
      /\ UNCHANGED <<ready, nic, work>>
  BY DEF PollWoke, Kernel
<1>2. a \in Point \ (AwaitPoint \cup SleepPoint)
  BY DEF Point, AwaitPoint, SleepPoint
<1>3. r \in Process /\ Sound(p, r) /\ Off(r)
  BY <1>1, Start DEF Off, AwaitPoint, SleepPoint
<1> HIDE DEF a, r
<1>4. Moved(p, r, a, q)
  BY Zenon, <1>1, <1>2, <1>3, SoundMove, ConstantTypes
<1> HIDE DEF q
<1> QED
  BY <1>1, <1>4, LeaveWait DEF r

\* A write whose reader is gone.
LEMMA WriteBrokenWait ==
    ASSUME SchedInv, WaitInv, NEW p \in Pid, WriteBroken(p)
    PROVE  WaitStep
<1> DEFINE r == [proc[p] EXCEPT !.at = "ret"]
           s == QueueSignal(r, SIGPIPE)
           q == WakeProcess(s)
<1>1. /\ p = cur /\ mode = "user" /\ SIGPIPE \in Sig /\ Enter(p, q)
      /\ UNCHANGED <<ready, pollq, nic, work>>
  BY DEF WriteBroken, Syscall, io
<1>2. Moved(p, proc[p], "ret", r)
  BY Zenon, <1>1, Start, CurMoves, ConstantTypes
<1>3. r \in Process /\ Sound(p, r) /\ Keeps(proc[p], r) /\ ~Waits(r)
  BY <1>2 DEF Moved
<1> HIDE DEF r
<1>4. Quiet(p, r, s) /\ s \in Process
  BY Zenon, <1>1, <1>3, QueueSignalQuiet DEF Quiet
<1> HIDE DEF s
<1>5. Quiet(p, s, q)
  BY <1>4, WakeProcessQuiet
<1> HIDE DEF q
<1>6. Quiet(p, r, q)
  BY <1>4, <1>5, QuietTrans
<1>7. Sound(p, q) /\ Keeps(r, q) /\ q \in Process /\ ~Waits(q)
  BY Zenon, <1>3, <1>6, QuietSound DEF Quiet, Waits
<1>8. Keeps(proc[p], q)
  BY <1>3, <1>7, KeepsTrans
<1>9. /\ Reached(proc', timers') /\ CpuPlaced(proc'[cur'], mode')
      /\ Idles(proc') \subseteq Idles(proc) \ {p}
  BY <1>1, <1>7, <1>8, EnterReached
<1> QED
  BY <1>1, <1>9, FinishIo

\* block_current_until: the sleeper's entry is queued before the CPU is given away.
LEMMA BlockWait ==
    ASSUME SchedInv, WaitInv, NEW p \in Pid, Block(p)
    PROVE  WaitStep
<1> DEFINE r == proc[p]
           free == FreeTokens(proc, timers)
           t == Least(free)
           S == Publish([r EXCEPT !.state = "Sleeping"], t, r.timeout)
           e == NewEntry(t, r.timeout, "Sleep")
           Q == timers \cup {e}
           n == NextRunnable(proc, table, p)
           q(a) == [S EXCEPT !.at = a]
<1>1. p = cur /\ r.at = "sleep" /\ mode = "kernel" /\ UNCHANGED <<ready, pollq, nic, work>>
  BY DEF Block, Kernel, io
<1>2. /\ r \in Process /\ Sound(p, r) /\ p # Service /\ Reached(proc, timers)
      /\ timers \in SUBSET Entry /\ r.timeout \in Delay /\ table \in Seq(Pid)
  BY Zenon, <1>1, Start, CurMoves, ConstantTypes DEF Process, SchedInv, CpuInv
<1>3. CASE Enter(p, [r EXCEPT !.at = "ret"])
  BY Zenon, <1>1, <1>3, CurMoves, ConstantTypes, MoveWait
<1>4. CASE /\ free # {}
           /\ IF n # NoPid
              THEN SwitchTo(Set(p, q("sleepSwitched")), Q, n)
              ELSE /\ proc' = Set(p, q("sleepIdle"))
                   /\ timers' = Q
                   /\ UNCHANGED <<cur, mode>>
  <2>1. t \in 1..MaxWaits /\ \A f \in timers : f.token # t
    BY <1>4, FreeTokenFresh
  <2> HIDE DEF t
  <2>2. /\ e \in Entry /\ e.pid = cur /\ e.token = t /\ e.deadline = r.timeout
        /\ e.kind = "Sleep"
    BY <1>1, <1>2, <2>1 DEF NewEntry, Entry
  <2>3. ASSUME NEW a \in SleepPoint
        PROVE  /\ q(a) \in Process /\ q(a).state = "Sleeping" /\ q(a).at = a
               /\ Reached(Set(p, q(a)), Q)
               /\ Idles(Set(p, q(a))) \subseteq Idles(proc)
    <3> DEFINE z == q(a)
    <3>0. Sleeper(p, t, r.timeout, a, z)
      BY <1>1, <1>2, <2>1, SleeperSound
    <3> HIDE DEF z
    <3>1. /\ z \in Process /\ Sound(p, z) /\ z.state = "Sleeping" /\ z.at = a
          /\ z.wait_token = t /\ z.wait_deadline = r.timeout
          /\ z.wake_reason = "none"
      BY <3>0 DEF Sleeper
    <3> HIDE DEF e, r
    <3>2. KindAt(z) = "Sleep" /\ \A f \in timers : f.token # e.token
      BY <2>1, <2>2, <3>1 DEF KindAt, SleepPoint, AwaitPoint
    <3>3. Reached([proc EXCEPT ![p] = z], timers \cup {e})
      BY <1>1, <1>2, <2>2, <3>1, <3>2, PublishReached
    <3>4. Idles([proc EXCEPT ![p] = z]) \subseteq Idles(proc)
      <4>1. proc \in [Pid -> Process] /\ z.state = "Sleeping"
        BY <1>2, <3>1 DEF Reached
      <4> QED
        BY <4>1 DEF Idles
    <3> QED
      BY Zenon, <3>1, <3>3, <3>4 DEF Set, z
  <2>4. Q \in SUBSET Entry
    BY <1>2, <2>2
  <2> HIDE DEF q, Q
  <2>5. CASE n # NoPid
    <3> DEFINE R == Set(p, q("sleepSwitched"))
    <3>1. n \in Pid /\ n # cur /\ proc[n].state = "Runnable"
      BY <1>1, <1>2, <2>5, NextRunnableFinds
    <3>2. SwitchTo(R, Q, n)
      BY <1>4, <2>5
    <3>3. Reached(R, Q) /\ Idles(R) \subseteq Idles(proc)
      BY <2>3 DEF SleepPoint
    <3> HIDE DEF n
    <3>4. R[n].state = "Runnable"
      BY <1>1, <1>2, <3>1 DEF Reached, Set
    <3> HIDE DEF R
    <3>5. /\ Reached(proc', timers') /\ CpuPlaced(proc'[cur'], mode')
          /\ Idles(proc') \subseteq Idles(R)
      BY <2>4, <3>1, <3>2, <3>3, <3>4, SwitchReached
    <3> QED
      BY Zenon, <1>1, <3>3, <3>5, FinishIo
  <2>6. CASE n = NoPid
    <3> DEFINE z == q("sleepIdle")
    <3>1. proc' = Set(p, z) /\ timers' = Q /\ cur' = cur /\ mode' = "kernel"
      BY <1>1, <1>4, <2>6
    <3>2. /\ z.state = "Sleeping" /\ z.at = "sleepIdle" /\ Reached(Set(p, z), Q)
          /\ Idles(Set(p, z)) \subseteq Idles(proc)
      BY <2>3 DEF SleepPoint
    <3> HIDE DEF z
    <3>3. CpuPlaced(proc'[cur'], mode')
      BY <1>1, <1>2, <3>1, <3>2 DEF CpuPlaced, Set, Reached
    <3> QED
      BY <1>1, <3>1, <3>2, <3>3, FinishIo
  <2> QED
    BY <2>5, <2>6
<1> QED
  BY Zenon, <1>3, <1>4 DEF Block

\* Switched back to in block_current_until.
LEMMA SleepResumeWait ==
    ASSUME SchedInv, WaitInv, NEW p \in Pid, SleepResume(p)
    PROVE  WaitStep
<1> DEFINE q == ReadAndClearWakeReason(proc[p])
<1>1. /\ p = cur /\ proc[p].at = "sleepSwitched" /\ UNCHANGED <<ready, pollq, nic, work>>
      /\ CondResched(Set(p, q), "kernel")
  BY DEF SleepResume, Kernel, io
<1>2. proc[p] \in Process /\ Sound(p, proc[p]) /\ proc[p].at \in SleepPoint
  BY Zenon, <1>1, Start DEF SleepPoint
<1>3. q \in Process /\ Sound(p, q) /\ Keeps(proc[p], q) /\ ~Waits(q)
  BY <1>2, SleptSound
<1> HIDE DEF q
<1> QED
  BY Zenon, <1>1, <1>3, WokenWait

\* One turn of idle_until_woken.
LEMMA SleepIdleWait ==
    ASSUME SchedInv, WaitInv, NEW p \in Pid, SleepIdle(p)
    PROVE  WaitStep
<1> DEFINE q == ReadAndClearWakeReason(proc[p])
<1>1. /\ p = cur /\ proc[p].at = "sleepIdle" /\ UNCHANGED <<ready, pollq, nic, work>>
  BY DEF SleepIdle, Idle, io
<1>2. /\ proc[p] \in Process /\ Sound(p, proc[p]) /\ proc[p].at \in SleepPoint
      /\ Reached(proc, timers) /\ CpuPlaced(proc[cur], "halt")
  BY <1>1, Start DEF SleepPoint, CpuPlaced
<1>3. CASE CondResched(Set(p, q), "kernel")
  <2>1. q \in Process /\ Sound(p, q) /\ Keeps(proc[p], q) /\ ~Waits(q)
    BY <1>2, SleptSound
  <2> HIDE DEF q
  <2> QED
    BY Zenon, <1>1, <1>3, <2>1, WokenWait
<1>4. CASE ScheduleNow(proc, Continue(proc, "halt"))
  BY Zenon, <1>1, <1>2, <1>4, ScheduleReached, FinishIo
<1> QED
  BY <1>3, <1>4 DEF SleepIdle

\* sleep_until_deadline behind block_current_until.
LEMMA SleepWokeWait ==
    ASSUME SchedInv, WaitInv, NEW p \in Pid, SleepWoke(p)
    PROVE  WaitStep
<1> DEFINE r == proc[p]
           again == r.reason \in {"Deadline", "Event"} /\ r.timeout # 0
           a == IF again THEN "sleep" ELSE "ret"
           q == [r EXCEPT !.at = a, !.reason = "none"]
<1>1. /\ p = cur /\ r.at = "slept" /\ Enter(p, q) /\ UNCHANGED <<ready, pollq, nic, work>>
  BY DEF SleepWoke, Kernel, io
<1>2. a \in Point \ (AwaitPoint \cup SleepPoint)
  BY DEF Point, AwaitPoint, SleepPoint
<1>3. r \in Process /\ Sound(p, r) /\ Off(r) /\ p # Service
  BY <1>1, Start DEF Off, AwaitPoint, SleepPoint, Sound
<1> HIDE DEF a, r
<1>4. Moved(p, r, a, q)
  BY Zenon, <1>2, <1>3, SoundMove, ConstantTypes
<1> HIDE DEF q
<1> QED
  BY <1>1, <1>4, MoveWait DEF r

\* One turn of the network service: it blocks registered on WORK, the device
\* drained, and whoever polls is told of a socket that changed.
LEMMA ServeWait ==
    ASSUME SchedInv, WaitInv, NEW p \in Pid, NEW d \in NetDelays, NEW changed \in BOOLEAN,
           Serve(p, d, changed)
    PROVE  WaitStep
<1>1. /\ p = cur /\ p = Service /\ proc[p].at = "serve" /\ mode = "kernel"
      /\ nic' = FALSE /\ work' = TRUE
  BY DEF Serve, Kernel
<1>2. d \in Delay
  BY TimeoutsAssumption DEF Delay
<1>3. /\ Reached(proc, timers) /\ timers \in SUBSET Entry /\ cur \in Pid
      /\ proc \in [Pid -> Process] /\ CpuPlaced(proc[cur], mode)
  BY Start DEF Reached
<1>4. CASE changed
  <2> DEFINE P == Notify(proc, pollq)
             q == QuantumAfter(proc, pollq)
             a == IF q # quantum THEN Earlier(armed, q) ELSE armed
  <2>1. AwaitIo(P, d, q, a) /\ pollq' = {}
    BY <1>4 DEF Serve
  <2>2. Reached(P, timers) /\ Idles(P) \subseteq Idles(proc) \ pollq
    BY <1>3, NotifyReached
  <2>3. P[cur].at = "serve"
    BY Zenon, <1>1, <1>3, NotifyPlaced
  <2> HIDE DEF P, q, a
  <2>4. /\ Reached(proc', timers') /\ CpuPlaced(proc'[cur'], mode')
        /\ Idles(proc') \subseteq Idles(P) \cup {cur}
    BY Zenon, <1>1, <1>2, <2>1, <2>2, <2>3, AwaitReached
  <2>5. PollSlots > MaxPid =>
          \A k \in Idles(proc') : IF k = Service THEN work' /\ ~nic'
                                  ELSE k \in pollq' /\ ~ready'
    BY Zenon, <1>1, <2>2, <2>4 DEF WaitInv, NoLostWakeup, Idles
  <2> QED
    BY <2>4, <2>5, Finish
<1>5. CASE ~changed
  <2>1. AwaitIo(proc, d, quantum, armed) /\ ready' = ready /\ pollq' = pollq
    BY <1>5 DEF Serve
  <2>2. /\ Reached(proc', timers') /\ CpuPlaced(proc'[cur'], mode')
        /\ Idles(proc') \subseteq Idles(proc) \cup {cur}
    BY <1>1, <1>2, <1>3, <2>1, AwaitReached
  <2>3. PollSlots > MaxPid =>
          \A k \in Idles(proc') : IF k = Service THEN work' /\ ~nic'
                                  ELSE k \in pollq' /\ ~ready'
    BY <1>1, <2>1, <2>2 DEF WaitInv, NoLostWakeup, Idles
  <2> QED
    BY <2>2, <2>3, Finish
<1> QED
  BY <1>4, <1>5

\* The service behind await_io_until.
LEMMA ServeWokeWait ==
    ASSUME SchedInv, WaitInv, NEW p \in Pid, ServeWoke(p)
    PROVE  WaitStep
<1> DEFINE r == proc[p]
           q == [r EXCEPT !.at = "serve", !.reason = "none"]
<1>1. /\ p = cur /\ p = Service /\ r.at = "woke" /\ Enter(p, q)
      /\ UNCHANGED <<ready, pollq, nic>>
  BY DEF ServeWoke, Kernel
<1>2. "serve" \in Point \ (AwaitPoint \cup SleepPoint)
  BY DEF Point, AwaitPoint, SleepPoint
<1>3. r \in Process /\ Sound(p, r) /\ Off(r)
  BY <1>1, Start DEF Off, AwaitPoint, SleepPoint
<1> HIDE DEF r
<1>4. Moved(p, r, "serve", q)
  BY Zenon, <1>2, <1>3, SoundMove, ConstantTypes
<1> HIDE DEF q
<1> QED
  BY <1>1, <1>4, LeaveWait DEF r

\* The idle loop and the final halt of an exited process.
LEMMA ExitIdleWait ==
    ASSUME SchedInv, WaitInv, NEW p \in Pid, ExitIdle(p) \/ ExitedHalt(p)
    PROVE  WaitStep
<1>1. Reached(proc, timers) /\ CpuPlaced(proc[cur], "halt")
  BY Start DEF CpuPlaced
<1>2. CASE ExitIdle(p)
  <2>1. ScheduleNow(proc, Continue(proc, "halt")) /\ UNCHANGED <<ready, pollq, nic, work>>
    BY <1>2 DEF ExitIdle, io
  <2> QED
    BY <1>1, <2>1, ScheduleReached, FinishIo
<1>3. CASE ExitedHalt(p)
  <2>1. Continue(proc, "halt") /\ UNCHANGED <<ready, pollq, nic, work>>
    BY <1>3 DEF ExitedHalt, io
  <2>2. /\ Reached(proc', timers') /\ CpuPlaced(proc'[cur'], mode')
        /\ Idles(proc') = Idles(proc)
    BY <1>1, <2>1, ContinueReached
  <2> QED
    BY <2>1, <2>2, FinishIo
<1> QED
  BY <1>2, <1>3

\* rt_sigprocmask.
LEMMA SigprocmaskWait ==
    ASSUME SchedInv, WaitInv, NEW p \in Pid, NEW m \in Masks, Sigprocmask(p, m)
    PROVE  WaitStep
<1> DEFINE r == proc[p]
           q == [r EXCEPT !.signal_mask = m, !.at = "ret"]
<1>1. /\ p = cur /\ mode = "user" /\ r.frames = <<>> /\ Enter(p, q)
      /\ UNCHANGED <<ready, pollq, nic, work>>
  BY DEF Sigprocmask, Syscall, io
<1>2. /\ r \in Process /\ Sound(p, r) /\ r.at = "user" /\ p # Service /\ Off(r)
      /\ m \in SUBSET Sig
  BY <1>1, Start, MasksAssumption DEF Off, AwaitPoint, SleepPoint
<1>3. ~Waits(r) /\ r.wait_token = 0 /\ r.wake_reason = "none" /\ r.reason # "Deadline"
  BY <1>2, OffRest DEF Sound, Placed
<1> HIDE DEF r
<1>4. /\ q \in Process /\ q.at = "ret" /\ q.state = r.state /\ q.wait_token = 0
      /\ q.wake_reason = "none" /\ q.reason = r.reason /\ q.frames = <<>>
      /\ q.signal_mask = m
  <2>1. q \in Process
    BY Zenon, <1>2, PointModes DEF Process
  <2> QED
    BY Zenon, <1>1, <1>2, <1>3, <2>1 DEF Process
<1> HIDE DEF q
<1>5. Off(q) /\ ~Waits(q) /\ Nested(q)
  BY Zenon, <1>2, <1>3, <1>4, MaskNested DEF Off, Waits, AwaitPoint, SleepPoint
<1>6. Sound(p, q) /\ Keeps(r, q)
  BY <1>2, <1>3, <1>4, <1>5, OwnMove
<1>7. /\ Reached(proc', timers') /\ CpuPlaced(proc'[cur'], mode')
      /\ Idles(proc') \subseteq Idles(proc) \ {p}
  BY Zenon, <1>1, <1>4, <1>5, <1>6, EnterReached DEF r
<1> QED
  BY <1>1, <1>7, FinishIo

\* rt_sigsuspend.
LEMMA SigsuspendWait ==
    ASSUME SchedInv, WaitInv, NEW p \in Pid, NEW m \in Masks, Sigsuspend(p, m)
    PROVE  WaitStep
<1> DEFINE r == proc[p]
           s == [r EXCEPT !.saved_mask = r.signal_mask, !.signal_mask = m,
                          !.in_sigsuspend = TRUE, !.at = "ret"]
           w == [s EXCEPT !.state = "SignalWait"]
<1>1. /\ p = cur /\ mode = "user" /\ r.frames = <<>> /\ UNCHANGED <<ready, pollq, nic, work>>
      /\ \/ Continue(Set(p, s), "kernel")
         \/ ScheduleNow(Set(p, w), Continue(Set(p, w), "kernel"))
  BY DEF Sigsuspend, Syscall, io
<1>2. /\ r \in Process /\ Sound(p, r) /\ r.at = "user" /\ p # Service /\ Off(r)
      /\ m \in SUBSET Sig /\ r.signal_mask \in SUBSET Sig
  BY <1>1, Start, MasksAssumption DEF Off, AwaitPoint, SleepPoint, Process
<1>3. ~Waits(r) /\ r.wait_token = 0 /\ r.wake_reason = "none" /\ r.reason # "Deadline"
  BY <1>2, OffRest DEF Sound, Placed
<1> HIDE DEF r
<1>4. /\ s \in Process /\ s.at = "ret" /\ s.state = r.state /\ s.wait_token = 0
      /\ s.wake_reason = "none" /\ s.reason = r.reason /\ s.frames = <<>>
      /\ s.signal_mask = m
  <2>1. s \in Process
    BY Zenon, <1>2, PointModes DEF Process
  <2> QED
    BY Zenon, <1>1, <1>2, <1>3, <2>1 DEF Process
<1> HIDE DEF s
<1>5. /\ w \in Process /\ w.at = "ret" /\ w.state = "SignalWait" /\ w.wait_token = 0
      /\ w.wake_reason = "none" /\ w.reason = r.reason /\ w.frames = <<>>
      /\ w.signal_mask = m
  <2>1. "SignalWait" \in State
    BY DEF State
  <2>2. w \in Process
    BY Zenon, <1>4, <2>1 DEF Process
  <2> QED
    BY Zenon, <1>4, <2>2 DEF Process
<1> HIDE DEF w
<1>6. ASSUME NEW q \in {s, w}
      PROVE  /\ Reached(Set(p, q), timers) /\ Idles(Set(p, q)) \subseteq Idles(proc)
             /\ CpuPlaced(Set(p, q)[cur], "kernel")
  <2>1. Off(q) /\ ~Waits(q) /\ Nested(q) /\ q \in Process
    BY Zenon, <1>2, <1>3, <1>4, <1>5, MaskNested DEF Off, Waits, AwaitPoint, SleepPoint
  <2>2. Sound(p, q) /\ Keeps(r, q)
    BY <1>2, <1>3, <1>4, <1>5, <2>1, OwnMove
  <2> QED
    BY Zenon, <1>1, <2>1, <2>2, OwnReached DEF r
<1> HIDE DEF Set
<1>7. CASE Continue(Set(p, s), "kernel")
  <2>1. /\ Reached(proc', timers') /\ CpuPlaced(proc'[cur'], mode')
        /\ Idles(proc') = Idles(Set(p, s))
    BY <1>6, <1>7, ContinueReached
  <2> QED
    BY Zenon, <1>1, <1>6, <2>1, FinishIo
<1>8. CASE ScheduleNow(Set(p, w), Continue(Set(p, w), "kernel"))
  <2>1. /\ Reached(proc', timers') /\ CpuPlaced(proc'[cur'], mode')
        /\ Idles(proc') \subseteq Idles(Set(p, w)) \cup Idles(Set(p, w))
    BY <1>6, <1>8, ScheduleReached
  <2> QED
    BY Zenon, <1>1, <1>6, <2>1, FinishIo
<1> QED
  BY <1>1, <1>7, <1>8

\* rt_sigreturn: the frame that is popped holds the mask that its depth needs.
LEMMA SigreturnWait ==
    ASSUME SchedInv, WaitInv, NEW p \in Pid, Sigreturn(p)
    PROVE  WaitStep
<1> DEFINE r == proc[p]
           f == r.frames
           g == SubSeq(f, 1, Len(f) - 1)
           m == f[Len(f)]
           q == [r EXCEPT !.signal_mask = m, !.frames = g]
<1>1. /\ p = cur /\ mode = "user" /\ f # <<>> /\ CondResched(Set(p, q), "user")
      /\ UNCHANGED <<ready, pollq, nic, work>>
  BY DEF Sigreturn, io
<1>2. /\ r \in Process /\ Sound(p, r) /\ r.at = "user" /\ p # Service /\ Off(r)
      /\ f \in Seq(SUBSET Sig)
  BY <1>1, Start DEF Off, AwaitPoint, SleepPoint, Process
<1> HIDE DEF r
<1>3. ~Waits(r) /\ r.wait_token = 0 /\ r.wake_reason = "none" /\ r.reason # "Deadline"
      /\ Nested(r)
  <2>1. ~Waits(r) /\ r.wait_token = 0 /\ r.wake_reason = "none"
    BY <1>2, OffRest
  <2>2. r.reason # "Deadline" /\ Nested(r)
    BY <1>2 DEF Sound, Placed
  <2> QED
    BY <2>1, <2>2
<1>4. /\ ~r.in_sigsuspend
      /\ \A i \in 1..Len(f) : Cardinality(f[i] \cap Caught) >= i - 1
  BY <1>1, <1>3 DEF Nested
<1> HIDE DEF f
<1>5. /\ m \in SUBSET Sig /\ g \in Seq(SUBSET Sig) /\ Len(g) = Len(f) - 1
      /\ \A i \in 1..Len(g) : g[i] = f[i] /\ i \in 1..Len(f)
      /\ Cardinality(m \cap Caught) >= Len(g)
  <2>1. Len(f) \in 1..Len(f)
    BY <1>1, <1>2
  <2>2. Len(g) = Len(f) - 1 /\ g \in Seq(SUBSET Sig) /\ m \in SUBSET Sig
    <3>1. m \in SUBSET Sig
      BY <1>2, <2>1
    <3>2. g \in Seq(SUBSET Sig)
      BY <1>2, <2>1
    <3>3. Len(g) = Len(f) - 1
      <4>1. \A k \in 0..Len(f) : Len(SubSeq(f, 1, k)) = k
        BY <1>2
      <4>2. Len(f) - 1 \in 0..Len(f)
        BY <1>2, <2>1
      <4> QED
        BY Zenon, <4>1, <4>2
    <3> QED
      BY <3>1, <3>2, <3>3
  <2>3. \A i \in 1..(Len(f) - 1) : g[i] = f[i] /\ i \in 1..Len(f)
    BY <1>2, <2>1
  <2>4. Cardinality(m \cap Caught) >= Len(f) - 1
    BY Zenon, <1>4, <2>1
  <2> HIDE DEF m, g
  <2> QED
    BY <2>2, <2>3, <2>4
<1> HIDE DEF m, g
<1>6. /\ q \in Process /\ q.at = r.at /\ q.state = r.state /\ q.wait_token = r.wait_token
      /\ q.wake_reason = r.wake_reason /\ q.reason = r.reason /\ q.frames = g
      /\ q.signal_mask = m /\ q.in_sigsuspend = r.in_sigsuspend
  <2>1. q \in Process
    BY Zenon, <1>2, <1>5 DEF Process
  <2> QED
    BY Zenon, <1>2, <2>1 DEF Process
<1> HIDE DEF q
<1>7. Nested(q)
  BY <1>4, <1>5, <1>6 DEF Nested
<1>8. Off(q) /\ ~Waits(q)
  BY <1>2, <1>3, <1>6 DEF Off, Waits
<1>9. Sound(p, q) /\ Keeps(r, q)
  BY <1>2, <1>3, <1>6, <1>7, <1>8, OwnMove
<1>10. /\ Reached(Set(p, q), timers) /\ Idles(Set(p, q)) \subseteq Idles(proc)
       /\ CpuPlaced(Set(p, q)[cur], "user")
  BY Zenon, <1>1, <1>2, <1>6, <1>8, <1>9, OwnReached DEF r
<1> HIDE DEF Set
<1>11. /\ Reached(proc', timers') /\ CpuPlaced(proc'[cur'], mode')
       /\ Idles(proc') \subseteq Idles(Set(p, q))
  BY <1>1, <1>10, CondReschedReached
<1> QED
  BY <1>1, <1>10, <1>11, FinishIo

\* fork.
LEMMA ForkWait ==
    ASSUME SchedInv, WaitInv, NEW p \in Pid, Fork(p)
    PROVE  WaitStep
<1> DEFINE F == {k \in Pid : proc[k].state = "Free"} \cup {NoPid}
           c == Least(F)
           N == NewProcess(p, proc[p].signal_mask, "user")
           r == [proc[p] EXCEPT !.at = "ret"]
           P == [proc EXCEPT ![p].at = "ret", ![c] = N]
<1>1. /\ p = cur /\ mode = "user" /\ c # NoPid /\ proc' = P /\ mode' = "kernel"
      /\ UNCHANGED <<cur, timers, ready, pollq, nic, work>>
  BY DEF Fork, Syscall, io
<1>2. c \in Pid /\ proc[c].state = "Free"
  <2>1. F \in SUBSET Nat /\ F # {}
    BY PidAssumption DEF Pid, NoPid
  <2>2. c \in F
    <3> HIDE DEF F
    <3> QED
      BY <2>1, LeastInSet
  <2> QED
    BY <1>1, <2>2
<1> HIDE DEF c
<1>3. c # Service
  BY <1>2 DEF WaitInv, TableSound, Sound
<1>4. /\ N \in Process /\ N.at = "user" /\ N.state = "Runnable" /\ N.wait_token = 0
      /\ N.wake_reason = "none" /\ N.reason = "none" /\ N.frames = <<>> /\ ~N.in_sigsuspend
  <2>1. proc[p].signal_mask \in SUBSET Sig
    BY DEF SchedInv, CpuInv, Process
  <2>2. N \in Process
    BY Zenon, <2>1, PointModes, NewProcessType
  <2> QED
    BY Zenon, <2>2 DEF NewProcess
<1> HIDE DEF N
<1>5. Moved(p, proc[p], "ret", r)
  BY Zenon, <1>1, Start, CurMoves, ConstantTypes
<1> HIDE DEF r
<1>6. /\ Reached(Set(p, r), timers) /\ Idles(Set(p, r)) \subseteq Idles(proc)
      /\ CpuPlaced(Set(p, r)[cur], "kernel")
  BY <1>1, <1>5, OwnReached DEF Moved
<1>7. P = [Set(p, r) EXCEPT ![c] = N]
  BY DEF Set, r
<1> HIDE DEF P, Set
<1>8. /\ Reached(P, timers) /\ Idles(P) \subseteq Idles(Set(p, r))
      /\ CpuPlaced(P[cur], "kernel")
  BY Zenon, <1>2, <1>3, <1>4, <1>6, <1>7, FreshReached
<1> QED
  BY <1>1, <1>6, <1>8, FinishIo

\* One turn of wait4's loop.
LEMMA Wait4ScanWait ==
    ASSUME SchedInv, WaitInv, NEW p \in Pid, Wait4Scan(p)
    PROVE  WaitStep
<1> DEFINE r == proc[p]
           child(c) == proc[c].state # "Free" /\ proc[c].parent_pid = p
           stopped(c) == /\ "untraced" \in r.options
                         /\ proc[c].state = "Stopped" /\ ~proc[c].wait_reported
           hits == {k \in 1..Len(table) :
                       /\ child(table[k])
                       /\ proc[table[k]].state = "Dead" \/ stopped(table[k])}
           i == Least(hits)
           c == table[i]
           done == [r EXCEPT !.at = "ret"]
           D == [proc EXCEPT ![p] = done]
           u == [r EXCEPT !.state = "Waiting"]
           W == Set(p, u)
<1>1. p = cur /\ r.at = "wait4" /\ mode = "kernel" /\ UNCHANGED <<ready, pollq, nic, work>>
  BY Zenon DEF Wait4Scan, Kernel, io
<1>2. Moved(p, proc[p], "ret", done) /\ p # Service /\ r \in Process /\ Sound(p, r)
  BY Zenon, <1>1, CurMoves, Start, ConstantTypes
<1>3. /\ Reached(D, timers) /\ Idles(D) \subseteq Idles(proc) /\ CpuPlaced(D[cur], "kernel")
  <2> HIDE DEF done
  <2> QED
    BY ZenonT(40), <1>1, <1>2, OwnReached DEF Moved, Set
<1>4. hits # {} => c \in Pid
  <2>1. hits \in SUBSET Nat /\ hits \in SUBSET (1..Len(table))
    OBVIOUS
  <2>2. hits # {} => i \in hits
    <3> HIDE DEF hits
    <3> QED
      BY <2>1, LeastInSet
  <2>3. \A k \in 1..Len(table) : table[k] \in Pid
    BY DEF SchedInv
  <2> HIDE DEF hits, i
  <2>4. hits # {} => i \in 1..Len(table)
    BY Zenon, <2>1, <2>2
  <2> QED
    BY <2>3, <2>4
<1>5. CASE /\ hits # {} /\ proc[c].state = "Dead"
           /\ Continue([proc EXCEPT ![p] = done, ![c] = FreeProcess], "kernel")
  <2> DEFINE P == [proc EXCEPT ![p] = done, ![c] = FreeProcess]
  <2> HIDE DEF hits, i, done
  <2>1. P = [D EXCEPT ![c] = FreeProcess]
    OBVIOUS
  <2>2. /\ FreeProcess \in Process /\ FreeProcess.at = "user" /\ FreeProcess.state = "Free"
        /\ FreeProcess.wait_token = 0 /\ FreeProcess.wake_reason = "none"
        /\ FreeProcess.reason = "none" /\ FreeProcess.frames = <<>>
        /\ ~FreeProcess.in_sigsuspend
    BY FreeProcessType DEF FreeProcess, NewProcess
  <2>3. c \in Pid /\ c # Service
    BY <1>4, <1>5 DEF WaitInv, TableSound, Sound
  <2> HIDE DEF D, c
  <2>4. Continue(P, "kernel")
    BY <1>5
  <2> HIDE DEF P
  <2>5. /\ Reached(P, timers) /\ Idles(P) \subseteq Idles(D) /\ CpuPlaced(P[cur], "kernel")
    BY Zenon, <1>3, <2>1, <2>2, <2>3, FreshReached
  <2>6. /\ Reached(proc', timers') /\ CpuPlaced(proc'[cur'], mode')
        /\ Idles(proc') = Idles(P)
    BY <2>4, <2>5, ContinueReached
  <2> QED
    BY <1>1, <1>3, <2>5, <2>6, FinishIo
<1>6. CASE /\ hits # {}
           /\ Continue([proc EXCEPT ![p] = done, ![c].wait_reported = TRUE], "kernel")
  <2> DEFINE P == [proc EXCEPT ![p] = done, ![c].wait_reported = TRUE]
             v == [D[c] EXCEPT !.wait_reported = TRUE]
  <2> HIDE DEF hits, i, done
  <2>1. P = [D EXCEPT ![c] = v]
    OBVIOUS
  <2> HIDE DEF D, c
  <2>2. c \in Pid /\ D \in [Pid -> Process] /\ D[c] \in Process
    BY <1>3, <1>4, <1>6 DEF Reached
  <2>3. Quiet(c, D[c], v)
    <3> DEFINE d == D[c]
    <3>1. d \in Process
      BY <2>2
    <3> HIDE DEF d
    <3>2. [d EXCEPT !.wait_reported = TRUE] \in Process
      BY Zenon, <3>1 DEF Process
    <3>3. Quiet(c, d, [d EXCEPT !.wait_reported = TRUE])
      BY Zenon, <3>1, <3>2 DEF Quiet, Process
    <3> QED
      BY <3>3 DEF d
  <2> HIDE DEF v
  <2>4. Sound(c, v) /\ Keeps(D[c], v) /\ v \in Process
    BY <1>3, <2>2, <2>3, QuietSound DEF Reached, TableSound, Quiet
  <2>5. Reached(P, timers) /\ Idles(P) \subseteq Idles(D)
    BY Zenon, <1>3, <2>1, <2>2, <2>4, Start, KeepsOwn
  <2>6. CpuPlaced(P[cur], "kernel")
    <3>1. P[cur] = IF c = cur THEN v ELSE D[cur]
      BY Zenon, <2>1, <2>2, Start
    <3> QED
      BY <1>3, <2>3, <3>1, QuietPlaced
  <2>7. Continue(P, "kernel")
    BY <1>6
  <2> HIDE DEF P
  <2>8. /\ Reached(proc', timers') /\ CpuPlaced(proc'[cur'], mode')
        /\ Idles(proc') = Idles(P)
    BY <2>5, <2>6, <2>7, ContinueReached
  <2> QED
    BY <1>1, <1>3, <2>5, <2>8, FinishIo
<1>7. CASE Enter(p, done)
  BY <1>1, <1>2, <1>7, MoveWait
<1>8. CASE ScheduleNow(W, Continue(W, "kernel"))
  <2>1. /\ ~Waits(r) /\ r.wait_token = 0 /\ r.wake_reason = "none" /\ r.reason # "Deadline"
        /\ Nested(r) /\ Off(r)
    BY <1>1, <1>2, OffRest DEF Sound, Placed, Off, AwaitPoint, SleepPoint
  <2> HIDE DEF r
  <2>2. /\ u \in Process /\ u.at = r.at /\ u.state = "Waiting" /\ u.wait_token = r.wait_token
        /\ u.wake_reason = r.wake_reason /\ u.reason = r.reason /\ u.frames = r.frames
        /\ u.signal_mask = r.signal_mask /\ u.in_sigsuspend = r.in_sigsuspend
    <3>1. "Waiting" \in State
      BY DEF State
    <3>2. u \in Process
      BY Zenon, <1>2, <3>1 DEF Process
    <3> QED
      BY Zenon, <1>2, <3>2 DEF Process
  <2> HIDE DEF u
  <2>3. Off(u) /\ ~Waits(u) /\ Nested(u)
    BY <2>1, <2>2 DEF Off, Waits, Nested
  <2>4. Sound(p, u) /\ Keeps(r, u)
    BY <1>2, <2>1, <2>2, <2>3, OwnMove
  <2>5. Reached(W, timers) /\ Idles(W) \subseteq Idles(proc) /\ CpuPlaced(W[cur], "kernel")
    BY SMTT(20), <1>1, <2>2, <2>3, <2>4, OwnReached DEF r
  <2> HIDE DEF W
  <2>6. /\ Reached(proc', timers') /\ CpuPlaced(proc'[cur'], mode')
        /\ Idles(proc') \subseteq Idles(W) \cup Idles(W)
    BY <1>8, <2>5, ScheduleReached
  <2> QED
    BY <1>1, <2>5, <2>6, FinishIo
<1> QED
  BY Zenon, <1>5, <1>6, <1>7, <1>8 DEF Wait4Scan

\* The entry of a process that exits is outside of any wait.
LEMMA ExitSound ==
    ASSUME NEW p, p # Service, NEW r \in Process, Sound(p, r), r.at = "user",
           NEW w \in Status
    PROVE  LET q == Exited(r, w)
           IN  /\ q \in Process /\ Sound(p, q) /\ Keeps(r, q)
               /\ q.state = "Dead" /\ q.at = "exited"
<1> DEFINE c == ClearWait(r)
           q == Exited(r, w)
<1>1. q \in Process /\ c \in Process
  BY Zenon, ExitEntry, ClearWaitPassive DEF Owned, Passive, Exited
<1>2. c.wait_token = 0 /\ c.reason = r.reason /\ c.signal_mask = r.signal_mask
      /\ c.in_sigsuspend = r.in_sigsuspend /\ c.frames = r.frames
  BY Zenon, <1>1 DEF ClearWait, Process
<1>3. q = [c EXCEPT !.state = "Dead", !.wake_reason = "none", !.at = "exited",
                    !.wait_status = w, !.wait_reported = FALSE]
  BY DEF Exited
<1> HIDE DEF c, q
<1>4. /\ q.at = "exited" /\ q.state = "Dead" /\ q.wait_token = 0 /\ q.wake_reason = "none"
      /\ q.reason = r.reason /\ q.signal_mask = r.signal_mask
      /\ q.in_sigsuspend = r.in_sigsuspend /\ q.frames = r.frames
  BY Zenon, <1>1, <1>2, <1>3 DEF Process
<1>5. r.reason # "Deadline" /\ Nested(r)
  BY DEF Sound, Placed
<1>6. Off(q) /\ ~Waits(q) /\ Nested(q)
  BY <1>4, <1>5 DEF Off, Waits, Nested, AwaitPoint, SleepPoint
<1>7. Sound(p, q) /\ Keeps(r, q)
  BY <1>4, <1>5, <1>6, OwnMove
<1> QED
  BY <1>1, <1>4, <1>7 DEF q

\* exit, exit_group and terminate_current_by_signal.
LEMMA ExitWait ==
    ASSUME SchedInv, WaitInv, NEW p \in Pid, NEW how, Exit(p, how)
    PROVE  WaitStep
<1> DEFINE parent == proc[p].parent_pid
           R == Reparent(proc, {p})
           w == IF how = "fault" THEN "killed" ELSE "exited"
           x == [ClearWait(R[p]) EXCEPT
                    !.state = "Dead", !.wake_reason = "none", !.at = "exited",
                    !.wait_status = w, !.wait_reported = FALSE]
           D == [R EXCEPT ![p] = x]
           told == QueueSignal(D[parent], SIGCHLD)
           y == IF how = "group" THEN told ELSE ForceWake(told)
           P == [D EXCEPT ![parent] = y]
           n == IF P[parent].state = "Runnable" THEN parent ELSE NextRunnable(P, table, p)
           I == [P EXCEPT ![p].at = "exitIdle"]
<1>1. /\ p = cur /\ mode = "user" /\ UNCHANGED <<ready, pollq, nic, work>>
      /\ IF n # NoPid THEN SwitchTo(P, timers, n)
         ELSE proc' = I /\ mode' = "kernel" /\ Rearm(I, timers, Never) /\ cur' = cur
  BY Zenon DEF Exit, Syscall, io
<1>2. /\ proc \in [Pid -> Process] /\ parent \in Pid /\ Reached(proc, timers)
      /\ timers \in SUBSET Entry /\ proc[p].at = "user" /\ p # Service
      /\ table \in Seq(Pid)
  <2>1. proc \in [Pid -> Process] /\ proc[p] \in Process
    BY Start DEF Reached
  <2>2. parent \in Pid
    BY Zenon, <2>1 DEF Process
  <2> QED
    BY <1>1, <2>1, <2>2, Start DEF SchedInv
<1>3. /\ Reached(R, timers) /\ Idles(R) \subseteq Idles(proc) /\ R \in [Pid -> Process]
      /\ R[p].at = "user" /\ Sound(p, R[p])
  <2>1. /\ R = [k \in Pid |-> R[k]] /\ \A k \in Pid : Quiet(k, proc[k], R[k])
    BY Zenon, <1>2, ReparentQuiet
  <2> HIDE DEF R
  <2>2. Reached(R, timers) /\ Idles(R) \subseteq Idles(proc)
    BY Zenon, <1>2, <2>1, QuietReached
  <2> QED
    BY <1>2, <2>1, <2>2 DEF Reached, TableSound, Quiet
<1> HIDE DEF R, parent
<1>4. /\ x \in Process /\ Sound(p, x) /\ Keeps(R[p], x)
      /\ x.state = "Dead" /\ x.at = "exited"
  <2>1. w \in Status
    BY DEF Status
  <2> HIDE DEF w
  <2> DEFINE r == R[p]
  <2>2. r \in Process /\ Sound(p, r) /\ r.at = "user"
    BY <1>3
  <2>3. x = Exited(r, w)
    BY DEF Exited
  <2> HIDE DEF x, r
  <2>4. x \in Process /\ Sound(p, x) /\ Keeps(r, x) /\ x.state = "Dead" /\ x.at = "exited"
    BY Zenon, <1>2, <2>1, <2>2, <2>3, ExitSound
  <2> QED
    BY <2>4 DEF r
<1> HIDE DEF x
<1>5. /\ Reached(D, timers) /\ Idles(D) \subseteq Idles(proc) /\ D \in [Pid -> Process]
      /\ D[p].state = "Dead" /\ D[p].at = "exited"
  <2>1. Reached(D, timers) /\ Idles(D) \subseteq Idles(R)
    BY Zenon, <1>2, <1>3, <1>4, KeepsOwn
  <2> QED
    BY Zenon, <1>3, <1>4, <2>1
<1> HIDE DEF D
<1>6. Quiet(parent, D[parent], y) /\ (D[parent].state = "Dead" => y.state = "Dead")
  <2>1. Quiet(parent, D[parent], told) /\ told \in Process
    <3>1. D[parent] \in Process
      BY <1>2, <1>5
    <3>2. Quiet(parent, D[parent], told)
      BY <3>1, QueueSignalQuiet, ChldAssumption
    <3> HIDE DEF told
    <3> QED
      BY Zenon, <3>2 DEF Quiet
  <2>2. D[parent].state = "Dead" => told.state = "Dead" /\ ForceWake(told).state = "Dead"
    BY <1>2, <1>5, DeadStays, ChldAssumption
  <2> HIDE DEF told
  <2>3. Quiet(parent, told, ForceWake(told))
    BY <2>1, ForceWakeQuiet
  <2>4. Quiet(parent, D[parent], ForceWake(told))
    BY <2>1, <2>3, QuietTrans
  <2> QED
    BY Zenon, <2>1, <2>2, <2>4
<1> HIDE DEF y
<1>7. /\ Reached(P, timers) /\ Idles(P) \subseteq Idles(proc) /\ P \in [Pid -> Process]
      /\ P[p].state = "Dead" /\ P[p].at = "exited" /\ Sound(p, P[p])
  <2>1. \A k \in Pid : Quiet(k, D[k], P[k])
    BY <1>2, <1>5, <1>6, QuietRefl
  <2>2. P = [k \in Pid |-> P[k]]
    BY Zenon, <1>5
  <2>3. P[p].state = "Dead"
    BY <1>2, <1>5, <1>6
  <2> HIDE DEF P
  <2>4. Reached(P, timers) /\ Idles(P) \subseteq Idles(D)
    BY Zenon, <1>2, <1>5, <2>1, <2>2, QuietReached
  <2> QED
    BY <1>5, <2>1, <2>3, <2>4 DEF Reached, TableSound, Quiet
<1> HIDE DEF P
<1>8. CASE n # NoPid
  <2>1. n \in Pid /\ n # cur /\ P[n].state = "Runnable"
    <3>1. CASE P[parent].state = "Runnable"
      BY <1>1, <1>2, <1>7, <3>1
    <3>2. CASE P[parent].state # "Runnable"
      BY <1>1, <1>2, <1>8, <3>2, NextRunnableFinds
    <3> QED
      BY Zenon, <3>1, <3>2
  <2>2. SwitchTo(P, timers, n)
    BY <1>1, <1>8
  <2> HIDE DEF n
  <2>3. /\ Reached(proc', timers') /\ CpuPlaced(proc'[cur'], mode')
        /\ Idles(proc') \subseteq Idles(P)
    BY <1>2, <1>7, <2>1, <2>2, SwitchReached
  <2> QED
    BY <1>1, <1>7, <2>3, FinishIo
<1>9. CASE n = NoPid
  <2> DEFINE r == P[p]
             z == [r EXCEPT !.at = "exitIdle"]
  <2>1. proc' = I /\ mode' = "kernel" /\ timers' = DrainStale(I, timers) /\ cur' = cur
    BY <1>1, <1>9 DEF Rearm
  <2>2. I = [P EXCEPT ![p] = z]
    OBVIOUS
  <2>3. Moved(p, r, "exitIdle", z)
    <3>1. r \in Process /\ Sound(p, r) /\ Off(r) /\ r.at \notin {"woke", "slept"}
      BY <1>7 DEF Off, AwaitPoint, SleepPoint
    <3>2. "exitIdle" \in Point \ (AwaitPoint \cup SleepPoint)
      BY DEF Point, AwaitPoint, SleepPoint
    <3> HIDE DEF r
    <3> QED
      BY Zenon, <1>2, <3>1, <3>2, SoundMove, ConstantTypes
  <2> HIDE DEF z
  <2>4. z \in Process /\ Sound(p, z) /\ Keeps(P[p], z) /\ ~Waits(z)
    BY <2>3 DEF Moved
  <2>5. Reached(I, timers) /\ Idles(I) \subseteq Idles(P) /\ I[p] = z
    BY Zenon, <1>2, <1>7, <2>2, <2>4, KeepsOwn
  <2> HIDE DEF I
  <2>6. Reached(proc', timers')
    BY <1>2, <2>1, <2>5, DrainReached
  <2>7. CpuPlaced(proc'[cur'], mode')
    BY Zenon, <1>1, <2>1, <2>4, <2>5 DEF CpuPlaced, Waits
  <2> QED
    BY <1>1, <1>7, <2>1, <2>5, <2>6, <2>7, FinishIo
<1> QED
  BY <1>8, <1>9

\* kill: what it does to the targets, to their children and to their parents.
LEMMA KillWait ==
    ASSUME SchedInv, WaitInv, NEW p \in Pid, NEW T \in SUBSET (Pid \ {Service}),
           NEW sig \in Sig, Kill(p, T, sig)
    PROVE  WaitStep
<1> DEFINE A == [k \in Pid |-> IF k \in T THEN ApplySignal(proc[k], sig) ELSE proc[k]]
           dead == {k \in T : NotifiesParent(sig) /\ A[k].state = "Dead"}
           R == Reparent(A, dead)
           parents == IF NotifiesParent(sig) THEN {proc[k].parent_pid : k \in T} ELSE {}
           N == [k \in Pid |-> IF k \in parents /\ R[k].state # "Free"
                               THEN QueueSignal(R[k], SIGCHLD) ELSE R[k]]
           P == [N EXCEPT ![p].at = "ret"]
<1>1. /\ p = cur /\ mode = "user" /\ UNCHANGED <<ready, pollq, nic, work>>
      /\ \/ ScheduleNow(P, Continue(P, "kernel"))
         \/ Continue(P, "kernel")
  BY Zenon DEF Kill, Syscall, io
<1>2. /\ proc \in [Pid -> Process] /\ Reached(proc, timers) /\ timers \in SUBSET Entry
      /\ proc[p].at = "user" /\ p # Service
  BY Zenon, <1>1, Start DEF Reached
<1>3. /\ A \in [Pid -> Process] /\ A = [k \in Pid |-> A[k]]
      /\ \A k \in Pid : Quiet(k, proc[k], A[k])
  <2>1. \A k \in Pid : Quiet(k, proc[k], A[k])
    <3> SUFFICES ASSUME NEW k \in Pid PROVE Quiet(k, proc[k], A[k])
      OBVIOUS
    <3>1. proc[k] \in Process
      BY <1>2
    <3>2. CASE k \in T
      BY <3>1, <3>2, ApplySignalQuiet
    <3>3. CASE k \notin T
      BY <3>1, <3>3, QuietRefl
    <3> QED
      BY <3>2, <3>3
  <2> QED
    BY Zenon, <2>1 DEF Quiet
<1> HIDE DEF A
<1>4. /\ R \in [Pid -> Process] /\ R = [k \in Pid |-> R[k]]
      /\ \A k \in Pid : Quiet(k, A[k], R[k])
  <2>1. R = [k \in Pid |-> R[k]] /\ \A k \in Pid : Quiet(k, A[k], R[k])
    BY <1>3, ReparentQuiet
  <2> HIDE DEF R
  <2> QED
    BY <2>1 DEF Quiet
<1> HIDE DEF R
<1>5. /\ N \in [Pid -> Process] /\ N = [k \in Pid |-> N[k]]
      /\ \A k \in Pid : Quiet(k, R[k], N[k])
  <2>1. \A k \in Pid : Quiet(k, R[k], N[k])
    BY Zenon, <1>4, QueueSignalQuiet, QuietRefl, ChldAssumption
  <2> QED
    BY Zenon, <2>1 DEF Quiet
<1> HIDE DEF N
<1>6. \A k \in Pid : Quiet(k, proc[k], N[k])
  <2> SUFFICES ASSUME NEW k \in Pid PROVE Quiet(k, proc[k], N[k])
    OBVIOUS
  <2>1. Quiet(k, proc[k], R[k])
    BY <1>3, <1>4, QuietTrans
  <2> QED
    BY <1>5, <2>1, QuietTrans
<1>7. /\ Reached(N, timers) /\ Idles(N) \subseteq Idles(proc) /\ N[p].at = "user"
      /\ N[p] \in Process /\ Sound(p, N[p])
  <2>1. Reached(N, timers) /\ Idles(N) \subseteq Idles(proc)
    BY <1>2, <1>5, <1>6, QuietReached
  <2> QED
    BY Zenon, <1>2, <1>5, <1>6, <2>1 DEF Quiet, Reached, TableSound
<1> DEFINE r == N[p]
           z == [r EXCEPT !.at = "ret"]
<1>8. P = [N EXCEPT ![p] = z]
  OBVIOUS
<1>9. Moved(p, r, "ret", z)
  <2>1. r \in Process /\ Sound(p, r) /\ Off(r) /\ r.at \notin {"woke", "slept"}
    BY <1>7 DEF Off, AwaitPoint, SleepPoint
  <2>2. "ret" \in Point \ (AwaitPoint \cup SleepPoint)
    BY DEF Point, AwaitPoint, SleepPoint
  <2> HIDE DEF r
  <2> QED
    BY Zenon, <1>2, <2>1, <2>2, SoundMove, ConstantTypes
<1> HIDE DEF z
<1>10. z \in Process /\ Sound(p, z) /\ Keeps(N[p], z) /\ ~Waits(z)
  BY <1>9 DEF Moved
<1>11. Reached(P, timers) /\ Idles(P) \subseteq Idles(N) /\ P[p] = z
  BY Zenon, <1>2, <1>5, <1>7, <1>8, <1>10, KeepsOwn
<1>12. CpuPlaced(P[cur], "kernel")
  BY Zenon, <1>1, <1>10, <1>11 DEF CpuPlaced, Waits
<1> HIDE DEF P
<1>13. /\ Reached(proc', timers') /\ CpuPlaced(proc'[cur'], mode')
       /\ Idles(proc') \subseteq Idles(P)
  BY <1>1, <1>11, <1>12, ScheduleReached, ContinueReached
<1> QED
  BY Zenon, <1>1, <1>7, <1>11, <1>13, FinishIo

\* The timer interrupt: expiry, then a switch or the rearmed clockevent.
LEMMA TimerIrqWait ==
    ASSUME SchedInv, WaitInv, TimerIrq
    PROVE  WaitStep
<1> DEFINE P == ExpireDue(proc, timers)
           Q == NotDue(timers)
           q == IF quantum = 0 THEN Never ELSE quantum
           n == NextRunnable(P, table, cur)
<1>1. /\ UNCHANGED <<ready, pollq, nic, work>>
      /\ IF mode = "user" /\ n # NoPid THEN SwitchTo(P, Q, n)
         ELSE proc' = P /\ Rearm(P, Q, q) /\ mode' = IrqMode /\ cur' = cur
  BY DEF TimerIrq, io
<1>2. /\ timers \in SUBSET Entry /\ table \in Seq(Pid) /\ cur \in Pid
      /\ TableSound(proc, timers) /\ CpuPlaced(proc[cur], mode)
  BY DEF SchedInv, CpuInv, WaitInv
<1>3. /\ Reached(P, Q) /\ Idles(P) \subseteq Idles(proc)
      /\ \A p \in Pid : P[p].at = proc[p].at /\ (Waits(P[p]) => P[p] = proc[p])
  BY <1>2, ExpireReached
<1>4. Q \in SUBSET Entry
  BY <1>2 DEF NotDue
<1> HIDE DEF P, Q, q
<1>5. CASE mode = "user" /\ n # NoPid
  <2>1. n \in Pid /\ n # cur /\ P[n].state = "Runnable"
    BY <1>2, <1>5, NextRunnableFinds
  <2>2. SwitchTo(P, Q, n)
    BY <1>1, <1>5
  <2> HIDE DEF n
  <2>3. /\ Reached(proc', timers') /\ CpuPlaced(proc'[cur'], mode')
        /\ Idles(proc') \subseteq Idles(P)
    BY Zenon, <1>3, <1>4, <2>1, <2>2, SwitchReached
  <2> QED
    BY <1>1, <1>3, <2>3, FinishIo
<1>6. CASE ~(mode = "user" /\ n # NoPid)
  <2>1. proc' = P /\ timers' = DrainStale(P, Q) /\ mode' = IrqMode /\ cur' = cur
    BY <1>1, <1>6 DEF Rearm
  <2>2. Reached(proc', timers')
    BY <1>3, <1>4, <2>1, DrainReached
  <2>3. CpuPlaced(P[cur], IrqMode)
    BY Zenon, <1>2, <1>3 DEF CpuPlaced, IrqMode, Waits
  <2> QED
    BY <1>1, <1>3, <2>1, <2>2, <2>3, FinishIo
<1> QED
  BY <1>5, <1>6

\* The clock: a wait, its entry and its caller's deadline shrink together.
LEMMA TickWait ==
    ASSUME SchedInv, WaitInv, Tick
    PROVE  WaitStep
<1> DEFINE later(r) == [r EXCEPT !.timeout = Less(@), !.wait_deadline = Less(@)]
           sooner(e) == [e EXCEPT !.deadline = Less(@)]
<1>1. /\ timers' = {sooner(e) : e \in timers}
      /\ proc' = [p \in Pid |-> later(proc[p])]
      /\ UNCHANGED <<cur, mode, ready, pollq, nic, work>>
  BY Zenon DEF Tick, io
<1>2. ASSUME NEW p \in Pid
      PROVE  LET r == proc[p]  q == later(r)
             IN  /\ q \in Process /\ q.state = r.state /\ q.at = r.at
                 /\ q.pending_io = r.pending_io /\ q.wake_reason = r.wake_reason
                 /\ q.wait_token = r.wait_token /\ q.io_token = r.io_token
                 /\ q.reason = r.reason /\ q.signal_mask = r.signal_mask
                 /\ q.in_sigsuspend = r.in_sigsuspend /\ q.frames = r.frames
                 /\ q.timeout = Less(r.timeout)
                 /\ q.wait_deadline = Less(r.wait_deadline)
  <2> DEFINE r == proc[p]
             q == later(r)
  <2>1. r \in Process
    BY DEF SchedInv, CpuInv
  <2> HIDE DEF r
  <2>2. Less(r.timeout) \in Delay /\ Less(r.wait_deadline) \in Delay
    BY <2>1, LessMonotone DEF Process
  <2>3. q \in Process
    BY Zenon, <2>1, <2>2 DEF Process
  <2>4. /\ q.state = r.state /\ q.at = r.at
        /\ q.pending_io = r.pending_io /\ q.wake_reason = r.wake_reason
        /\ q.wait_token = r.wait_token /\ q.io_token = r.io_token
        /\ q.reason = r.reason /\ q.signal_mask = r.signal_mask
        /\ q.in_sigsuspend = r.in_sigsuspend /\ q.frames = r.frames
        /\ q.timeout = Less(r.timeout)
        /\ q.wait_deadline = Less(r.wait_deadline)
    BY Zenon, <2>1, <2>3 DEF Process
  <2> QED
    BY <2>3, <2>4 DEF r
<1>3. \A e \in Entry : /\ sooner(e) \in Entry /\ sooner(e).deadline = Less(e.deadline)
                       /\ sooner(e).pid = e.pid /\ sooner(e).token = e.token
                       /\ sooner(e).kind = e.kind
  BY LessMonotone DEF Entry
<1> HIDE DEF later, sooner
<1>4. Less(0) = 0
  BY DEF Less
<1>5. ASSUME NEW p \in Pid
      PROVE  Sound(p, proc'[p]) /\ proc'[p] \in Process
  <2> DEFINE r == proc[p]
             q == proc'[p]
  <2>1. q = later(r) /\ Sound(p, r)
    BY <1>1 DEF WaitInv, TableSound
  <2>2. /\ q \in Process /\ q.state = r.state /\ q.at = r.at
        /\ q.pending_io = r.pending_io /\ q.wake_reason = r.wake_reason
        /\ q.wait_token = r.wait_token /\ q.io_token = r.io_token
        /\ q.reason = r.reason /\ q.signal_mask = r.signal_mask
        /\ q.in_sigsuspend = r.in_sigsuspend /\ q.frames = r.frames
        /\ q.timeout = Less(r.timeout)
        /\ q.wait_deadline = Less(r.wait_deadline)
    BY Zenon, <1>2, <2>1
  <2> HIDE DEF r, q
  <2>3. Placed(q)
    BY <2>1, <2>2 DEF Sound, Placed
  <2>4. Nested(q)
    BY Zenon, <2>1, <2>2 DEF Sound, Nested
  <2>5. Sound(p, q)
    BY <1>4, <2>1, <2>2, <2>3, <2>4 DEF Sound, Truthful
  <2> QED
    BY Zenon, <2>2, <2>5 DEF q
<1>6. /\ timers \in SUBSET Entry /\ cur \in Pid /\ QueueSound(proc, timers)
      /\ CpuPlaced(proc[cur], mode)
  BY DEF SchedInv, CpuInv, WaitInv, TableSound
<1>7. \A p \in Pid : /\ proc'[p].state = proc[p].state /\ proc'[p].at = proc[p].at
                     /\ proc'[p].wait_token = proc[p].wait_token
                     /\ proc'[p].wake_reason = proc[p].wake_reason
                     /\ proc'[p].wait_deadline = Less(proc[p].wait_deadline)
  BY Zenon, <1>1, <1>2
<1>8. QueueSound(proc', timers')
  <2>1. \A e, f \in timers' : e.token = f.token => e = f
    <3> SUFFICES ASSUME NEW e \in timers, NEW f \in timers,
                        sooner(e).token = sooner(f).token
                 PROVE  sooner(e) = sooner(f)
      BY <1>1
    <3>1. e = f
      BY <1>3, <1>6 DEF QueueSound
    <3> QED
      BY <3>1
  <2>2. ASSUME NEW e \in timers, IsLive(proc', sooner(e))
        PROVE  /\ sooner(e).deadline = proc'[sooner(e).pid].wait_deadline
               /\ sooner(e).kind = KindAt(proc'[sooner(e).pid])
    <3>1. e \in Entry /\ e.pid \in Pid
      BY <1>6 DEF Entry
    <3>2. IsLive(proc, e)
      BY <1>3, <1>7, <2>2, <3>1 DEF IsLive
    <3>3. e.deadline = proc[e.pid].wait_deadline /\ e.kind = KindAt(proc[e.pid])
      BY <1>6, <3>2 DEF QueueSound
    <3> QED
      BY <1>3, <1>7, <3>1, <3>3 DEF KindAt
  <2>3. ASSUME NEW p \in Pid, proc'[p].state \in {"AwaitingIo", "Sleeping"},
               proc'[p].wait_token # 0
        PROVE  \E e \in timers' : e.pid = p /\ e.token = proc'[p].wait_token
    <3>1. \E e \in timers : e.pid = p /\ e.token = proc[p].wait_token
      BY Zenon, <1>6, <1>7, <2>3 DEF QueueSound
    <3>2. PICK e \in timers : e.pid = p /\ e.token = proc[p].wait_token
      BY <3>1
    <3>3. sooner(e) \in timers' /\ sooner(e).pid = p /\ sooner(e).token = proc'[p].wait_token
      BY <1>1, <1>3, <1>6, <1>7, <3>2
    <3> QED
      BY <3>3
  <2>4. ASSUME NEW g \in timers', IsLive(proc', g)
        PROVE  /\ g.deadline = proc'[g.pid].wait_deadline
               /\ g.kind = KindAt(proc'[g.pid])
    <3>1. PICK e \in timers : g = sooner(e)
      BY <1>1
    <3> QED
      BY Zenon, <2>2, <2>4, <3>1
  <2> QED
    BY Zenon, <2>1, <2>3, <2>4 DEF QueueSound
<1>9. Reached(proc', timers')
  <2>1. proc' \in [Pid -> Process]
    BY <1>1, <1>5
  <2> QED
    BY <1>5, <1>7, <1>8, <2>1 DEF Reached, TableSound
<1>10. CpuPlaced(proc'[cur'], mode')
  BY <1>1, <1>6, <1>7 DEF CpuPlaced
<1>11. Idles(proc') \subseteq Idles(proc)
  BY <1>7 DEF Idles
<1> QED
  BY <1>1, <1>9, <1>10, <1>11, FinishIo

------------------------------------------------------------------------------

\* Nobody waits after boot.
LEMMA InitWait == Init => WaitInv
<1> SUFFICES ASSUME Init PROVE WaitInv
  OBVIOUS
<1> USE DEF Init
<1> DEFINE s == NewProcess(Service, {}, "serve")
           i == [NewProcess(Service, {}, "user") EXCEPT !.state = "Running"]
           c == NewProcess(InitPid, {}, "user")
<1>1. /\ proc[Service] = s
      /\ \A p \in Pid \ {Service} : proc[p] \in {i, c, FreeProcess}
      /\ proc[InitPid] = i /\ InitPid \in Pid /\ Service \in Pid
  BY ConstantTypes, PidAssumption DEF Pid, Service, InitPid
<1>2. \A q \in {i, c, FreeProcess} :
         /\ q.at = "user" /\ q.state \in {"Runnable", "Running", "Free"}
         /\ q.wait_token = 0 /\ q.wake_reason = "none" /\ q.reason = "none"
         /\ q.frames = <<>> /\ ~q.in_sigsuspend /\ q.signal_mask \in SUBSET Sig
  BY DEF FreeProcess, NewProcess
<1>3. \A p \in Pid \ {Service} : Sound(p, proc[p])
  <2> HIDE DEF i, c, Init
  <2> QED
    BY Zenon, <1>1, <1>2, FreshSound
<1>4. /\ s.at = "serve" /\ s.state = "Runnable" /\ s.wait_token = 0
      /\ s.wake_reason = "none" /\ s.reason = "none" /\ s.frames = <<>>
      /\ s.signal_mask \in SUBSET Sig
  BY DEF NewProcess
<1>5. Sound(Service, s)
  <2> HIDE DEF s
  <2>1. Nested(s)
    BY <1>4, MaskNested
  <2> QED
    BY <1>4, <2>1 DEF Sound, Placed
<1> HIDE DEF s, i, c
<1>6. \A p \in Pid : ~Waits(proc[p])
  BY <1>1, <1>2, <1>4 DEF Waits
<1>7. TableSound(proc, timers)
  BY <1>1, <1>3, <1>5, <1>6 DEF TableSound, QueueSound, Waits
<1>8. CpuPlaced(proc[cur], mode)
  BY Zenon, <1>1, <1>2 DEF CpuPlaced
<1>9. NoLostWakeup
  BY <1>6 DEF NoLostWakeup, Waits
<1> QED
  BY <1>7, <1>8, <1>9 DEF WaitInv

\* A stuttering step.
LEMMA StutterWait ==
    ASSUME SchedInv, WaitInv, UNCHANGED vars
    PROVE  WaitStep
<1>1. Reached(proc, timers) /\ CpuPlaced(proc[cur], mode)
  BY Start
<1>2. proc' = proc /\ timers' = timers /\ cur' = cur /\ mode' = mode
      /\ UNCHANGED <<ready, pollq, nic, work>>
  BY DEF vars
<1>3. Reached(proc', timers') /\ CpuPlaced(proc'[cur'], mode')
      /\ Idles(proc') \subseteq Idles(proc)
  BY <1>1, <1>2
<1> QED
  BY <1>2, <1>3, FinishIo

\* Every step of userspace keeps the waits sound.
LEMMA UserStepWait ==
    ASSUME SchedInv, WaitInv, NEW p \in Pid, UserStep(p)
    PROVE  WaitStep
<1>1. CASE Yield(p) \/ Read(p) \/ Write(p) \/ WriteBroken(p) \/ Fork(p) \/ Sigreturn(p)
  BY <1>1, YieldWait, ReadWriteWait, WriteBrokenWait, ForkWait, SigreturnWait
<1>2. CASE \E d \in Timeouts : Poll(p, d)
  BY <1>2, PollWaits
<1>3. CASE \E d \in Timeouts \ {Never} : Nanosleep(p, d)
  BY <1>3, NanosleepWait
<1>4. CASE \E opts \in SUBSET {"nohang", "untraced"} : Wait4(p, opts)
  BY <1>4, Wait4Wait
<1>5. CASE \E how \in {"exit", "group", "fault"} : Exit(p, how)
  BY <1>5, ExitWait
<1>6. CASE \E T \in SUBSET (InTable(table) \ {Service}) :
             \E sig \in Sig \ {SIGCHLD} : T # {} /\ Kill(p, T, sig)
  <2>1. InTable(table) \subseteq Pid
    BY DEF SchedInv, InTable
  <2>2. PICK T \in SUBSET (Pid \ {Service}), sig \in Sig : Kill(p, T, sig)
    BY <1>6, <2>1
  <2> QED
    BY <2>2, KillWait
<1>7. CASE \E m \in Masks : Sigprocmask(p, m) \/ Sigsuspend(p, m)
  BY <1>7, SigprocmaskWait, SigsuspendWait
<1> QED
  BY <1>1, <1>2, <1>3, <1>4, <1>5, <1>6, <1>7 DEF UserStep

\* Every step of the kernel keeps the waits sound.
LEMMA KernelStepWait ==
    ASSUME SchedInv, WaitInv, NEW p \in Pid, KernelStep(p)
    PROVE  WaitStep
<1>1. CASE Ret(p) \/ AwaitResume(p) \/ AwaitIdle(p) \/ AwaitDrop(p)
  BY <1>1, RetWait, AwaitResumeWait, AwaitIdleWait, AwaitDropWait
<1>2. CASE PollWait(p) \/ PollWoke(p)
  BY <1>2, PollWaitWait, PollWokeWait
<1>3. CASE Block(p) \/ SleepResume(p) \/ SleepIdle(p) \/ SleepWoke(p)
  BY <1>3, BlockWait, SleepResumeWait, SleepIdleWait, SleepWokeWait
<1>4. CASE \E d \in NetDelays : \E changed \in BOOLEAN : Serve(p, d, changed)
  BY <1>4, ServeWait
<1>5. CASE ServeWoke(p) \/ Wait4Scan(p) \/ ExitIdle(p) \/ ExitedHalt(p)
  BY <1>5, ServeWokeWait, Wait4ScanWait, ExitIdleWait
<1> QED
  BY <1>1, <1>2, <1>3, <1>4, <1>5 DEF KernelStep

\* So does every step of the system.
LEMMA StepWait ==
    ASSUME SchedInv, WaitInv, [Next]_vars
    PROVE  WaitStep
<1>1. ASSUME NEW p \in Pid, UserStep(p) \/ KernelStep(p) PROVE WaitStep
  BY <1>1, UserStepWait, KernelStepWait
<1>2. CASE Irq
  BY <1>2, TtyIrqWait, NicIrqWait, TimerIrqWait DEF Irq
<1>3. CASE Tick
  BY <1>3, TickWait
<1>4. CASE UNCHANGED vars
  BY <1>4, StutterWait
<1> QED
  BY <1>1, <1>2, <1>3, <1>4 DEF Next
==============================================================================
