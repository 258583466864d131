----------------------------- MODULE SchedProofs -----------------------------
(***************************************************************************)
(* Proofs about Sched.tla, for any number of processes, signals, wait      *)
(* tokens and delays: its type invariant, that only the process on the CPU *)
(* is marked Running, and that the one-shot clockevent covers the quantum  *)
(* and every live deadline.                                                *)
(***************************************************************************)
EXTENDS ProcessProofs

\* P is a process table that a step may turn proc into without looking at the
\* clock: nobody but cur runs, nobody has a new wait token.
Outcome(P) ==
    /\ P \in [Pid -> Process]
    /\ \A p \in Pid \ {cur} : P[p].state # "Running"
    /\ \A p \in Pid : P[p].wait_token \in {0, proc[p].wait_token}

\* The table as it is, is a possible outcome of a step.
LEMMA SelfOutcome ==
    ASSUME CpuInv
    PROVE  Outcome(proc)
  BY DEF CpuInv, Outcome, RunningIsCurrent

(* A table in which every entry changed from outside.                        *)
LEMMA PassiveOutcome ==
    ASSUME CpuInv, NEW R, Outcome(R), NEW P \in [Pid -> Process],
           \A p \in Pid : Passive(R[p], P[p])
    PROVE  Outcome(P)
<1>1. \A p \in Pid : P[p].state = "Running" => R[p].state = "Running"
  BY DEF Passive
<1>2. \A p \in Pid : P[p].wait_token \in {0, R[p].wait_token}
  BY DEF Passive
<1> QED
  BY <1>1, <1>2 DEF Outcome

(* A table in which cur changed its own entry.                               *)
LEMMA OwnOutcome ==
    ASSUME CpuInv, NEW P, Outcome(P), NEW r, Owned(P[cur], r)
    PROVE  Outcome([P EXCEPT ![cur] = r])
  BY DEF CpuInv, Outcome, Owned

(* Entries that are live in an outcome were live before.                     *)
LEMMA OutcomeLive ==
    ASSUME CpuInv, NEW P, Outcome(P), NEW Q \in SUBSET timers
    PROVE  LiveEntries(P, Q) \subseteq LiveEntries(proc, timers)
<1> SUFFICES ASSUME NEW e \in Q, P[e.pid].wait_token = e.token
             PROVE  e \in timers /\ proc[e.pid].wait_token = e.token
  BY DEF LiveEntries, IsLive
<1>1. e.pid \in Pid /\ e.token # 0
  BY WaitsAssumption DEF CpuInv, Entry
<1> QED
  BY <1>1 DEF Outcome

\* Live entries stay those of the old table, so the armed clockevent still covers them.
LEMMA OutcomeCovers ==
    ASSUME CpuInv, NEW P, Outcome(P), NEW Q \in SUBSET timers
    PROVE  \A e \in LiveEntries(P, Q) : armed <= e.deadline
  BY OutcomeLive DEF CpuInv, ClockeventCovers

\* A step that keeps the CPU with cur and leaves the clock alone (Continue).
LEMMA ContinueInv ==
    ASSUME CpuInv, NEW P, Outcome(P), NEW m \in Mode, Continue(P, m)
    PROVE  CpuInv'
<1>1. /\ proc' = P /\ cur' = cur /\ mode' = m
      /\ timers' = timers /\ quantum' = quantum /\ armed' = armed
  BY DEF Continue
<1>2. RunningIsCurrent'
  BY <1>1 DEF Outcome, RunningIsCurrent
<1>3. ClockeventCovers'
  <2>1. \A e \in LiveEntries(P, timers) : armed <= e.deadline
    BY OutcomeCovers
  <2> QED
    BY <1>1, <2>1 DEF CpuInv, ClockeventCovers, LiveEntries, IsLive
<1> QED
  BY <1>1, <1>2, <1>3 DEF CpuInv, Outcome

\* clockevent::rearm arms no later than any live entry and the quantum.
LEMMA RearmInv ==
    ASSUME NEW P, NEW Q \in SUBSET Entry, NEW q \in Delay, Rearm(P, Q, q), proc' = P
    PROVE  /\ timers' \subseteq Entry /\ quantum' \in Delay /\ armed' \in Delay
           /\ ClockeventCovers'
<1>1. timers' = DrainStale(P, Q) /\ quantum' = q /\ armed' = EarliestDeadline(P, Q, q)
  BY DEF Rearm
<1>2. LiveEntries(P, timers') = LiveEntries(P, Q) /\ timers' \subseteq Entry
  BY <1>1, DrainStaleKeepsLive
<1>3. /\ armed' \in Delay /\ armed' <= q
      /\ \A e \in LiveEntries(P, Q) : armed' <= e.deadline
  BY Zenon, <1>1, EarliestDeadlineCovers
<1>4. LiveEntries(proc, timers)' = LiveEntries(P, timers')
  BY DEF LiveEntries, IsLive
<1> QED
  BY <1>1, <1>2, <1>3, <1>4 DEF ClockeventCovers

\* switch_by_index_guarded keeps one Running process and rearms.
LEMMA SwitchInv ==
    ASSUME CpuInv, table \in Seq(Pid), NEW P \in [Pid -> Process],
           \A p \in Pid \ {cur} : P[p].state # "Running",
           NEW Q \in SUBSET Entry, NEW n \in Pid, n # cur, SwitchTo(P, Q, n)
    PROVE  CpuInv'
<1> DEFINE S == [P EXCEPT ![cur].state = IF @ = "Running" THEN "Runnable" ELSE @,
                          ![n].state = "Running"]
           q == IF NextRunnable(S, table, n) # NoPid THEN Quantum ELSE Never
<1>1. /\ proc' = S /\ cur' = n /\ Rearm(S, Q, q)
      /\ mode' = IF S[n].at = "user" THEN "user" ELSE "kernel"
  BY DEF SwitchTo
<1>2. S \in [Pid -> Process] /\ \A p \in Pid \ {n} : S[p].state # "Running"
  <2>1. \A r \in Process, s \in State : [r EXCEPT !.state = s] \in Process
    BY Zenon DEF Process
  <2>2. {"Running", "Runnable"} \subseteq State /\ \A r \in Process : r.state \in State
    BY DEF State, Process
  <2>3. \A r \in Process, s \in State : [r EXCEPT !.state = s].state = s
    BY DEF Process
  <2> DEFINE s == IF P[cur].state = "Running" THEN "Runnable" ELSE P[cur].state
  <2>4. /\ S[n] = [P[n] EXCEPT !.state = "Running"]
        /\ S[cur] = [P[cur] EXCEPT !.state = s]
        /\ \A p \in Pid \ {n, cur} : S[p] = P[p]
        /\ DOMAIN S = Pid /\ S = [p \in Pid |-> S[p]]
    BY Zenon DEF CpuInv
  <2>5. S[cur] \in Process /\ S[cur].state # "Running"
    <3>1. P[cur] \in Process /\ s \in State /\ s # "Running"
      BY <2>2 DEF CpuInv
    <3> HIDE DEF s, S
    <3> QED
      BY <2>1, <2>3, <2>4, <3>1
  <2>6. S[n] \in Process
    BY <2>1, <2>2, <2>4
  <2> HIDE DEF S
  <2> QED
    BY Zenon, <2>4, <2>5, <2>6
<1>3. q \in Delay
  BY QuantumAssumption, DelayAssumption, ConstantTypes DEF Delay, Never
<1> HIDE DEF S, q
<1>4. /\ timers' \subseteq Entry /\ quantum' \in Delay /\ armed' \in Delay
      /\ ClockeventCovers'
  BY Zenon, <1>1, <1>3, RearmInv
<1>5. RunningIsCurrent'
  BY <1>1, <1>2 DEF RunningIsCurrent
<1>6. mode' \in Mode
  BY <1>1 DEF Mode
<1> QED
  BY <1>1, <1>2, <1>4, <1>5, <1>6 DEF CpuInv

\* schedule_now, whether it switches or not.
LEMMA ScheduleInv ==
    ASSUME CpuInv, table \in Seq(Pid), NEW P, Outcome(P), NEW R, Outcome(R),
           NEW m \in Mode, ScheduleNow(P, Continue(R, m))
    PROVE  CpuInv' /\ resched' \in BOOLEAN
<1> DEFINE n == NextRunnable(P, table, cur)
<1>1. /\ resched' = FALSE
      /\ IF n # NoPid THEN SwitchTo(P, timers, n) ELSE Continue(R, m)
  BY DEF ScheduleNow
<1>2. CASE n # NoPid
  <2>1. n \in Pid /\ n # cur
    BY <1>2, NextRunnableFinds
  <2>2. SwitchTo(P, timers, n)
    BY <1>1, <1>2
  <2> HIDE DEF n
  <2> QED
    BY Zenon, <1>1, <2>1, <2>2, SwitchInv DEF Outcome, CpuInv
<1>3. CASE n = NoPid
  BY Zenon, <1>1, <1>3, ContinueInv
<1> QED
  BY <1>2, <1>3

\* cond_resched, whether or not a reschedule is pending.
LEMMA CondReschedInv ==
    ASSUME CpuInv, table \in Seq(Pid), resched \in BOOLEAN, NEW P, Outcome(P),
           NEW m \in Mode, CondResched(P, m)
    PROVE  CpuInv' /\ resched' \in BOOLEAN
<1>1. CASE resched
  BY <1>1, ScheduleInv DEF CondResched
<1>2. CASE ~resched
  BY <1>2, ContinueInv DEF CondResched
<1> QED
  BY <1>1, <1>2

(* A step that keeps the queue and sets the clockevent no later than it was. *)
LEMMA OutcomeInv ==
    ASSUME CpuInv, NEW P, Outcome(P), proc' = P, cur' = cur, mode' \in Mode,
           timers' = timers, quantum' \in Delay, armed' \in Delay,
           armed' <= armed, armed' <= quantum'
    PROVE  CpuInv'
<1>1. RunningIsCurrent'
  BY DEF Outcome, RunningIsCurrent
<1>2. \A e \in LiveEntries(P, timers) : armed <= e.deadline /\ e.deadline \in Nat
  BY Zenon, OutcomeCovers, ConstantTypes DEF CpuInv, LiveEntries, Entry
<1>3. armed \in Nat /\ armed' \in Nat
  BY ConstantTypes DEF CpuInv
<1>4. \A e \in LiveEntries(P, timers) : armed' <= e.deadline
  BY <1>2, <1>3
<1>5. ClockeventCovers'
  BY <1>4 DEF ClockeventCovers, LiveEntries, IsLive
<1> QED
  BY <1>1, <1>5 DEF CpuInv, Outcome

(* A step in which cur queues a deadline under a fresh token.                *)
LEMMA PublishInv ==
    ASSUME CpuInv, NEW P, Outcome(P), NEW r \in Process, NEW d \in Delay,
           NEW t \in 1..MaxWaits, NEW kind \in {"Sleep", "IoTimeout"},
           r.wait_token = t, \A e \in timers : e.token # t,
           proc' = [P EXCEPT ![cur] = r], cur' = cur, mode' \in Mode,
           timers' = timers \cup {NewEntry(t, d, kind)},
           quantum' \in Delay, armed' \in Delay,
           armed' <= armed, armed' <= d, armed' <= quantum'
    PROVE  CpuInv'
<1>1. proc' \in [Pid -> Process] /\ RunningIsCurrent'
  BY DEF Outcome, RunningIsCurrent, CpuInv
<1>2. NewEntry(t, d, kind) \in Entry /\ NewEntry(t, d, kind).deadline = d
  BY DEF NewEntry, Entry, CpuInv
<1>3. \A e \in LiveEntries(P, timers) : armed <= e.deadline
  BY OutcomeCovers
<1>4. \A e \in timers : e.pid \in Pid /\ e.deadline \in Nat /\ e.token # t
  BY Zenon, ConstantTypes DEF CpuInv, Entry
<1>5. armed \in Nat /\ armed' \in Nat
  BY ConstantTypes DEF CpuInv
<1>6. ASSUME NEW e \in timers, IsLive(proc', e)
      PROVE  armed' <= e.deadline
  <2>1. e.pid # cur
    BY <1>4, <1>6 DEF IsLive, Outcome, CpuInv
  <2>2. e \in LiveEntries(P, timers)
    BY <1>4, <1>6, <2>1 DEF IsLive, LiveEntries, Outcome
  <2> QED
    BY <1>3, <1>4, <1>5, <2>2
<1>7. \A e \in timers' : IsLive(proc', e) => armed' <= e.deadline
  BY <1>2, <1>6
<1>8. ClockeventCovers'
  BY <1>7 DEF ClockeventCovers, LiveEntries, IsLive
<1> QED
  BY <1>1, <1>2, <1>8 DEF CpuInv

\* rearm_if_earlier yields the lesser of the two deadlines.
LEMMA EarlierLeast ==
    ASSUME NEW a \in Delay, NEW d \in Delay
    PROVE  Earlier(a, d) \in Delay /\ Earlier(a, d) <= a /\ Earlier(a, d) <= d
  BY DelayAssumption DEF Earlier, Delay, Never

(* await_io_until, whichever of its ways out it takes.                       *)
LEMMA AwaitInv ==
    ASSUME CpuInv, table \in Seq(Pid), resched \in BOOLEAN, NEW P, Outcome(P),
           NEW d \in Delay, NEW q \in Delay, NEW a \in Delay, a <= armed, a <= q,
           AwaitIo(P, d, q, a)
    PROVE  CpuInv' /\ resched' \in BOOLEAN
<1> DEFINE r == P[cur]
           free == FreeTokens(P, timers)
           timed == d # Never /\ free # {}
           t == IF timed THEN Least(free) ELSE 0
           b0 == IF timed THEN Publish(r, t, d) ELSE r
           b == [b0 EXCEPT !.state = "AwaitingIo", !.io_token = t]
           Q == IF timed THEN timers \cup {NewEntry(t, d, "IoTimeout")} ELSE timers
           n == NextRunnable(P, table, cur)
           w == [r EXCEPT !.pending_io = FALSE,
                          !.state = IF @ \in {"Runnable", "AwaitingIo"}
                                    THEN "Running" ELSE @]
<1>1. r \in Process /\ r.state \in State
  BY DEF Outcome, CpuInv, Process
<1>2. t \in Token /\ (timed => t \in 1..MaxWaits /\ \A e \in timers : e.token # t)
  BY FreeTokenFresh, ConstantTypes DEF Token
<1>3. b0 \in Process /\ b0.wait_token = IF timed THEN t ELSE r.wait_token
  <2> HIDE DEF t
  <2> QED
    BY <1>1, <1>2, PublishType
<1>4. /\ b \in Process /\ b.wait_token = b0.wait_token
      /\ \A p \in Point : /\ [b EXCEPT !.at = p] \in Process
                           /\ [b EXCEPT !.at = p].wait_token = b0.wait_token
  <2> HIDE DEF b0, t
  <2>1. "AwaitingIo" \in State
    BY DEF State
  <2>2. b \in Process /\ b.wait_token = b0.wait_token
    BY Zenon, <1>2, <1>3, <2>1 DEF Process
  <2> HIDE DEF b
  <2> QED
    BY <2>2 DEF Process
<1>5. Q \in SUBSET Entry
  <2>1. timed => NewEntry(t, d, "IoTimeout") \in Entry
    BY <1>2 DEF NewEntry, Entry, CpuInv
  <2> QED
    BY <2>1 DEF CpuInv
<1>6. {"awaitSwitched", "awaitIdle"} \subseteq Point /\ "kernel" \in Mode
  BY DEF Point, Mode
<1>7. CASE r.pending_io \/ r.state = "Runnable"
  <2>1. /\ proc' = [P EXCEPT ![cur] = TakeWakeReason(w)]
        /\ mode' = "kernel" /\ quantum' = q /\ armed' = a
        /\ cur' = cur /\ timers' = timers /\ resched' = resched
    BY <1>7 DEF AwaitIo
  <2>2. Owned(r, w) /\ w \in Process
    <3> DEFINE s == IF r.state \in {"Runnable", "AwaitingIo"} THEN "Running" ELSE r.state
    <3>1. s \in State /\ w = [r EXCEPT !.pending_io = FALSE, !.state = s]
      BY <1>1 DEF State
    <3> HIDE DEF r, s, w
    <3>2. Owned(r, [r EXCEPT !.pending_io = FALSE, !.state = s])
      BY Zenon, <1>1, <3>1, OwnUpdates
    <3> QED
      BY <3>1, <3>2 DEF Owned
  <2>3. Owned(r, TakeWakeReason(w))
    <3> HIDE DEF r, w
    <3> QED
      BY <1>1, <2>2, TakeWakeReasonOwned, OwnedTrans
  <2> HIDE DEF w
  <2>4. Outcome([P EXCEPT ![cur] = TakeWakeReason(w)])
    BY <2>3, OwnOutcome
  <2> QED
    BY Zenon, <1>6, <2>1, <2>4, OutcomeInv
<1>8. CASE ~(r.pending_io \/ r.state = "Runnable") /\ n # NoPid
  <2> DEFINE R == [P EXCEPT ![cur] = [b EXCEPT !.at = "awaitSwitched"]]
  <2>1. SwitchTo(R, Q, n) /\ resched' = resched
    BY <1>8 DEF AwaitIo
  <2>2. n \in Pid /\ n # cur
    BY <1>8, NextRunnableFinds
  <2> HIDE DEF b, Q, n
  <2>3. R \in [Pid -> Process] /\ \A p \in Pid \ {cur} : R[p].state # "Running"
    BY <1>4, <1>6 DEF Outcome, CpuInv
  <2> HIDE DEF R
  <2> QED
    BY <1>5, <2>1, <2>2, <2>3, SwitchInv
<1>9. CASE ~(r.pending_io \/ r.state = "Runnable") /\ n = NoPid
  <2> DEFINE c == [b EXCEPT !.at = "awaitIdle"]
  <2>1. /\ proc' = [P EXCEPT ![cur] = c]
        /\ mode' = "kernel" /\ quantum' = q /\ timers' = Q
        /\ armed' = IF timed THEN Earlier(a, d) ELSE a
        /\ cur' = cur /\ resched' = resched
    BY <1>9 DEF AwaitIo
  <2>2. c \in Process /\ c.wait_token = b0.wait_token
    <3> HIDE DEF b, b0
    <3> QED
      BY <1>4, <1>6
  <2> HIDE DEF c
  <2>3. CASE timed
    <3>1. /\ armed' \in Delay /\ armed' <= armed /\ armed' <= d /\ armed' <= q
      <4>1. armed' \in Delay /\ armed' <= a /\ armed' <= d
        BY <2>1, <2>3, EarlierLeast
      <4>2. armed' \in Nat /\ a \in Nat /\ armed \in Nat /\ q \in Nat
        BY <4>1, ConstantTypes DEF CpuInv
      <4> QED
        BY <4>1, <4>2
    <3>2. c.wait_token = t /\ timers' = timers \cup {NewEntry(t, d, "IoTimeout")}
      BY <1>3, <2>1, <2>2, <2>3
    <3>3. t \in 1..MaxWaits /\ \A e \in timers : e.token # t
      BY <1>2, <2>3
    <3> HIDE DEF t
    <3> QED
      BY Zenon, <1>6, <2>1, <2>2, <3>1, <3>2, <3>3, PublishInv
  <2>4. CASE ~timed
    <3>1. c.wait_token = r.wait_token /\ timers' = timers /\ armed' = a
      BY <1>3, <2>1, <2>2, <2>4
    <3>2. Outcome([P EXCEPT ![cur] = c])
      BY <2>2, <3>1, OwnOutcome DEF Owned
    <3> QED
      BY Zenon, <1>6, <2>1, <3>1, <3>2, OutcomeInv
  <2> QED
    BY <2>3, <2>4
<1> QED
  BY <1>7, <1>8, <1>9

------------------------------------------------------------------------------
(* Lemmas shared by the actions.                                             *)

\* A step that rewrites only the entry of cur is a possible outcome.
LEMMA OwnSet ==
    ASSUME CpuInv, NEW p, p = cur, NEW r, Owned(proc[p], r)
    PROVE  Outcome(Set(p, r))
  BY SelfOutcome, OwnOutcome DEF Set

\* A syscall that moves cur to another kernel point and nothing else.
LEMMA EnterInv ==
    ASSUME SchedInv, NEW p, p = cur, NEW r, Owned(proc[p], r), Enter(p, r)
    PROVE  CpuInv' /\ table' \in Seq(Pid) /\ resched' \in BOOLEAN
<1>1. Outcome(Set(p, r)) /\ "kernel" \in Mode
  BY OwnSet DEF SchedInv, Mode
<1> QED
  BY <1>1, ContinueInv DEF Enter, SchedInv

(* poll_wait_queue and WORK notifications: an outcome, and a clockevent that *)
(* also covers the quantum the wake may have armed.                          *)
LEMMA NotifyOutcome ==
    ASSUME CpuInv, NEW P, Outcome(P), NEW W
    PROVE  Outcome(Notify(P, W))
<1>1. \A p \in Pid : P[p] \in Process
  BY DEF Outcome
<1>2. \A p \in Pid : Passive(P[p], Notify(P, W)[p])
  BY <1>1, WakeProcessPassive, PassiveRefl DEF Notify
<1>3. Notify(P, W) \in [Pid -> Process]
  BY <1>2 DEF Notify, Passive
<1> QED
  BY <1>2, <1>3, PassiveOutcome

\* The quantum that wake_process arms is covered by rearm_if_earlier.
LEMMA QuantumAfterClock ==
    ASSUME CpuInv, NEW P, NEW W, NEW q, q = QuantumAfter(P, W), NEW a,
           a = IF q # quantum THEN Earlier(armed, q) ELSE armed
    PROVE  q \in Delay /\ a \in Delay /\ a <= armed /\ a <= q
<1>1. q \in Delay
  BY QuantumAssumption, DelayAssumption DEF QuantumAfter, CpuInv, Delay, Never
<1>2. armed \in Delay /\ armed <= armed /\ armed <= quantum
  BY ConstantTypes DEF CpuInv, ClockeventCovers
<1> QED
  BY <1>1, <1>2, EarlierLeast

\* notify_all on the poll queue, from a syscall or an interrupt.
LEMMA ReadinessInv ==
    ASSUME SchedInv, NEW P, Outcome(P), NEW m \in Mode, NEW now \in BOOLEAN,
           Readiness(P, m, now)
    PROVE  SchedInv'
<1> DEFINE q == QuantumAfter(P, pollq)
           a == IF q # quantum THEN Earlier(armed, q) ELSE armed
<1>1. CpuInv /\ Outcome(Notify(P, pollq))
  BY NotifyOutcome DEF SchedInv
<1>2. q \in Delay /\ a \in Delay /\ a <= armed /\ a <= q
  BY <1>1, QuantumAfterClock
<1>3. /\ ready' = now /\ pollq' = {} /\ proc' = Notify(P, pollq)
      /\ quantum' = q /\ armed' = a /\ mode' = m
      /\ UNCHANGED <<table, cur, timers, resched, nic, work>>
  BY DEF Readiness
<1> HIDE DEF q, a
<1>4. CpuInv'
  BY <1>1, <1>2, <1>3, OutcomeInv
<1> QED
  BY <1>3, <1>4 DEF SchedInv, IoOK

\* What every action lemma starts from.
LEMMA CurType ==
    ASSUME SchedInv
    PROVE  CpuInv /\ proc[cur] \in Process /\ Outcome(proc)
  BY SelfOutcome DEF SchedInv, CpuInv

\* The syscall exit path, with or without a signal to deliver.
LEMMA RetInv ==
    ASSUME SchedInv, NEW p \in Pid, Ret(p)
    PROVE  SchedInv'
<1> DEFINE r == [proc[p] EXCEPT !.at = "user", !.timeout = Never, !.options = {}]
           unblocked == r.pending_signals \ r.signal_mask
           f == IF unblocked = {} THEN r ELSE Deliver(r, Least(unblocked))
<1>1. /\ p = cur /\ CondResched(Set(p, f), "user")
      /\ UNCHANGED <<table, ready, pollq, nic, work>>
  BY DEF Ret, Kernel, io
<1>2. r \in Process /\ Owned(proc[p], r)
  <2>1. proc[p] \in Process
    BY DEF SchedInv, CpuInv
  <2>2. r \in Process
    BY Zenon, <2>1, PointModes, ConstantTypes DEF Process
  <2> QED
    BY <2>1, <2>2 DEF Owned, Process
<1>3. unblocked \in SUBSET Sig /\ unblocked \in SUBSET Nat
  <2> HIDE DEF r
  <2>1. r.pending_signals \in SUBSET Sig
    BY <1>2 DEF Process
  <2>2. Sig \in SUBSET Nat
    BY SigAssumption
  <2> QED
    BY Zenon, <2>1, <2>2
<1> HIDE DEF r, unblocked
<1>4. Owned(proc[p], f)
  <2>1. CASE unblocked = {}
    BY <1>2, <2>1
  <2>2. CASE unblocked # {}
    <3>1. Least(unblocked) \in Sig
      BY Zenon, <1>3, <2>2, LeastInSet
    <3>2. Owned(r, Deliver(r, Least(unblocked)))
      BY <1>2, <3>1, DeliverOwned
    <3> QED
      BY <1>2, <2>2, <3>2, OwnedTrans DEF SchedInv, CpuInv
  <2> QED
    BY <2>1, <2>2
<1> HIDE DEF f
<1>5. Outcome(Set(p, f))
  BY <1>1, <1>4, OwnSet DEF SchedInv
<1>6. CpuInv' /\ resched' \in BOOLEAN
  BY <1>1, <1>5, PointModes, CondReschedInv DEF SchedInv
<1> QED
  BY <1>1, <1>6 DEF SchedInv, IoOK

\* The invariant is kept by sched_yield.
LEMMA YieldInv ==
    ASSUME SchedInv, NEW p \in Pid, Yield(p)
    PROVE  SchedInv'
<1> DEFINE P == Set(p, [proc[p] EXCEPT !.at = "ret"])
<1>1. /\ p = cur /\ ScheduleNow(P, Continue(P, "kernel"))
      /\ UNCHANGED <<table, ready, pollq, nic, work>>
  BY DEF Yield, Syscall, io
<1>2. Outcome(P)
  BY Zenon, <1>1, CurType, PointModes, OwnUpdates, OwnSet
<1> HIDE DEF P
<1>3. CpuInv' /\ resched' \in BOOLEAN
  BY <1>1, <1>2, PointModes, ScheduleInv DEF SchedInv
<1> QED
  BY <1>1, <1>3 DEF SchedInv, IoOK

\* The invariant is kept by the resumption of await_io_until.
LEMMA AwaitResumeInv ==
    ASSUME SchedInv, NEW p \in Pid, AwaitResume(p)
    PROVE  SchedInv'
<1> DEFINE P == Set(p, Woken(proc[p]))
<1>1. /\ p = cur /\ CondResched(P, "kernel")
      /\ UNCHANGED <<table, ready, pollq, nic, work>>
  BY DEF AwaitResume, Kernel, io
<1>2. Outcome(P)
  BY <1>1, CurType, WokenOwned, OwnSet
<1> HIDE DEF P
<1>3. CpuInv' /\ resched' \in BOOLEAN
  BY <1>1, <1>2, PointModes, CondReschedInv DEF SchedInv
<1> QED
  BY <1>1, <1>3 DEF SchedInv, IoOK

\* The invariant is kept by a turn of await_io_until's HLT loop.
LEMMA AwaitIdleInv ==
    ASSUME SchedInv, NEW p \in Pid, AwaitIdle(p)
    PROVE  SchedInv'
<1> DEFINE next == IF resched THEN "awaitDrop" ELSE "awaitIdle"
           W == Set(p, Woken(proc[p]))
           P == Set(p, [proc[p] EXCEPT !.at = next])
<1>1. /\ p = cur
      /\ \/ CondResched(W, "kernel")
         \/ ScheduleNow(P, Continue(proc, "halt"))
      /\ UNCHANGED <<table, ready, pollq, nic, work>>
  BY DEF AwaitIdle, Idle, io
<1>2. Outcome(W)
  BY <1>1, CurType, WokenOwned, OwnSet
<1>3. Outcome(P)
  <2>1. next \in Point
    BY PointModes
  <2> HIDE DEF next
  <2> QED
    BY Zenon, <1>1, <2>1, CurType, OwnUpdates, OwnSet
<1> HIDE DEF P, W
<1>4. CpuInv' /\ resched' \in BOOLEAN
  BY <1>1, <1>2, <1>3, PointModes, CurType, CondReschedInv, ScheduleInv DEF SchedInv
<1> QED
  BY <1>1, <1>4 DEF SchedInv, IoOK

\* The invariant is kept by the resumption inside a PreemptGuard drop.
LEMMA AwaitDropInv ==
    ASSUME SchedInv, NEW p \in Pid, AwaitDrop(p)
    PROVE  SchedInv'
<1> DEFINE P == Set(p, [proc[p] EXCEPT !.at = "awaitIdle"])
<1>1. /\ p = cur /\ ScheduleNow(P, Continue(P, "halt"))
      /\ UNCHANGED <<table, ready, pollq, nic, work>>
  BY DEF AwaitDrop, Kernel, io
<1>2. Outcome(P)
  BY Zenon, <1>1, CurType, PointModes, OwnUpdates, OwnSet
<1> HIDE DEF P
<1>3. CpuInv' /\ resched' \in BOOLEAN
  BY <1>1, <1>2, PointModes, ScheduleInv DEF SchedInv
<1> QED
  BY <1>1, <1>3 DEF SchedInv, IoOK

\* The invariant is kept by the entry of poll.
LEMMA PollInv ==
    ASSUME SchedInv, NEW p \in Pid, NEW d \in Timeouts, Poll(p, d)
    PROVE  SchedInv'
<1> DEFINE a == IF ready THEN "ret" ELSE "poll"
<1>1. /\ p = cur /\ Enter(p, [proc[p] EXCEPT !.at = a, !.timeout = d])
      /\ UNCHANGED <<ready, pollq, nic, work>>
  BY DEF Poll, Syscall, io
<1>2. a \in Point /\ d \in Delay
  BY PointModes, TimeoutsAssumption, DelayAssumption DEF Delay, Never
<1> HIDE DEF a
<1>3. Owned(proc[p], [proc[p] EXCEPT !.at = a, !.timeout = d])
  BY Zenon, <1>1, <1>2, CurType, OwnUpdates
<1> QED
  BY <1>1, <1>3, EnterInv DEF SchedInv, IoOK

\* The invariant is kept by wait_for_ready up to its block.
LEMMA PollWaitInv ==
    ASSUME SchedInv, NEW p \in Pid, PollWait(p)
    PROVE  SchedInv'
<1>1. p = cur
  BY DEF PollWait, Kernel
<1>2. Owned(proc[p], [proc[p] EXCEPT !.at = "ret"])
  BY Zenon, <1>1, CurType, PointModes, OwnUpdates
<1>3. CASE Enter(p, [proc[p] EXCEPT !.at = "ret"]) /\ UNCHANGED io
  BY <1>1, <1>2, <1>3, EnterInv DEF SchedInv, IoOK, io
<1>4. CASE /\ Enter(p, [proc[p] EXCEPT !.at = "ret"]) /\ pollq' = pollq \ {p}
           /\ UNCHANGED <<ready, nic, work>>
  BY <1>1, <1>2, <1>4, EnterInv DEF SchedInv, IoOK
<1>5. CASE /\ AwaitIo(proc, proc[p].timeout, quantum, armed)
           /\ pollq' = Prepare(pollq, p) /\ UNCHANGED <<table, ready, nic, work>>
  <2>1. proc[p].timeout \in Delay /\ quantum \in Delay /\ armed \in Delay
    BY <1>1, CurType DEF CpuInv, Process
  <2>2. armed <= armed /\ armed <= quantum
    BY ConstantTypes DEF SchedInv, CpuInv, ClockeventCovers
  <2>3. CpuInv' /\ resched' \in BOOLEAN
    BY <1>5, <2>1, <2>2, CurType, AwaitInv DEF SchedInv
  <2>4. pollq' \subseteq Pid
    BY <1>5 DEF Prepare, SchedInv, IoOK
  <2> QED
    BY <1>5, <2>3, <2>4 DEF SchedInv, IoOK
<1> QED
  BY <1>3, <1>4, <1>5 DEF PollWait

\* The invariant is kept by wait_for_ready after its block.
LEMMA PollWokeInv ==
    ASSUME SchedInv, NEW p \in Pid, PollWoke(p)
    PROVE  SchedInv'
<1> DEFINE r == proc[p]
           done == \/ r.reason = "Signal"
                   \/ r.reason = "Event" /\ ready
                   \/ r.reason = "Deadline" /\ r.timeout = 0
           a == IF done THEN "ret" ELSE "poll"
<1>1. /\ p = cur /\ Enter(p, [proc[p] EXCEPT !.at = a, !.reason = "none"])
      /\ pollq' = pollq \ {p} /\ UNCHANGED <<ready, nic, work>>
  BY DEF PollWoke, Kernel
<1>2. a \in Point
  BY PointModes
<1> HIDE DEF a
<1>3. Owned(proc[p], [proc[p] EXCEPT !.at = a, !.reason = "none"])
  BY Zenon, <1>1, <1>2, CurType, PointModes, OwnUpdates
<1> QED
  BY <1>1, <1>3, EnterInv DEF SchedInv, IoOK

\* The invariant is kept by a read or write that changes readiness.
LEMMA ReadWriteInv ==
    ASSUME SchedInv, NEW p \in Pid, Read(p) \/ Write(p)
    PROVE  SchedInv'
<1> DEFINE P == Set(p, [proc[p] EXCEPT !.at = "ret"])
<1>1. p = cur /\ \E now \in BOOLEAN : Readiness(P, "kernel", now)
  BY Zenon DEF Read, Write, Syscall
<1>2. Outcome(P)
  BY Zenon, <1>1, CurType, PointModes, OwnUpdates, OwnSet
<1> HIDE DEF P
<1> QED
  BY <1>1, <1>2, PointModes, ReadinessInv

\* The invariant is kept by a write to a broken pipe.
LEMMA WriteBrokenInv ==
    ASSUME SchedInv, NEW p \in Pid, WriteBroken(p)
    PROVE  SchedInv'
<1> DEFINE r == [proc[p] EXCEPT !.at = "ret"]
           s == QueueSignal(r, SIGPIPE)
<1>1. /\ p = cur /\ SIGPIPE \in Sig /\ Enter(p, WakeProcess(s))
      /\ UNCHANGED <<ready, pollq, nic, work>>
  BY DEF WriteBroken, Syscall, io
<1>2. proc[p] \in Process /\ Owned(proc[p], r) /\ r \in Process
  BY Zenon, <1>1, CurType, PointModes, OwnUpdates DEF Owned
<1> HIDE DEF r
<1>3. Owned(r, s) /\ s \in Process
  BY <1>1, <1>2, QueueSignalPassive, PassiveOwned DEF Owned
<1> HIDE DEF s
<1>4. Owned(s, WakeProcess(s))
  BY <1>3, WakeProcessPassive, PassiveOwned
<1>5. Owned(proc[p], WakeProcess(s))
  BY <1>2, <1>3, <1>4, OwnedTrans
<1> QED
  BY <1>1, <1>5, EnterInv DEF SchedInv, IoOK

\* The invariant is kept by the entry of nanosleep.
LEMMA NanosleepInv ==
    ASSUME SchedInv, NEW p \in Pid, NEW d \in Timeouts, Nanosleep(p, d)
    PROVE  SchedInv'
<1>1. /\ p = cur /\ Enter(p, [proc[p] EXCEPT !.at = "sleep", !.timeout = d])
      /\ UNCHANGED <<ready, pollq, nic, work>>
  BY DEF Nanosleep, Syscall, io
<1>2. d \in Delay
  BY TimeoutsAssumption, DelayAssumption DEF Delay, Never
<1>3. Owned(proc[p], [proc[p] EXCEPT !.at = "sleep", !.timeout = d])
  BY Zenon, <1>1, <1>2, CurType, PointModes, OwnUpdates
<1> QED
  BY <1>1, <1>3, EnterInv DEF SchedInv, IoOK

\* The invariant is kept by block_current_until.
LEMMA BlockInv ==
    ASSUME SchedInv, NEW p \in Pid, Block(p)
    PROVE  SchedInv'
<1> DEFINE r == proc[p]
           free == FreeTokens(proc, timers)
           t == Least(free)
           z == [r EXCEPT !.state = "Sleeping"]
           S == Publish(z, t, r.timeout)
           Q == timers \cup {NewEntry(t, r.timeout, "Sleep")}
           n == NextRunnable(proc, table, p)
<1>1. p = cur /\ UNCHANGED <<table, ready, pollq, nic, work>>
  BY DEF Block, Kernel, io
<1>2. r \in Process /\ r.timeout \in Delay /\ CpuInv
  BY <1>1, CurType DEF Process
<1>3. CASE Enter(p, [r EXCEPT !.at = "ret"])
  <2>1. Owned(proc[p], [proc[p] EXCEPT !.at = "ret"])
    BY Zenon, <1>2, PointModes, OwnUpdates
  <2> QED
    BY <1>1, <1>3, <2>1, EnterInv DEF SchedInv, IoOK
<1>4. CASE /\ free # {} /\ resched' = FALSE
           /\ IF n # NoPid
              THEN SwitchTo(Set(p, [S EXCEPT !.at = "sleepSwitched"]), Q, n)
              ELSE /\ proc' = Set(p, [S EXCEPT !.at = "sleepIdle"])
                   /\ timers' = Q
                   /\ armed' = Earlier(armed, r.timeout)
                   /\ UNCHANGED <<cur, mode, quantum>>
  <2>1. t \in 1..MaxWaits /\ t \in Token /\ \A e \in timers : e.token # t
    BY <1>4, FreeTokenFresh, WaitsAssumption DEF Token
  <2> HIDE DEF t
  <2>2. S \in Process /\ S.wait_token = t
    <3>1. z \in Process
      BY <1>2 DEF Process, State
    <3> HIDE DEF z
    <3> QED
      BY <1>2, <2>1, <3>1, PublishType
  <2> HIDE DEF S
  <2>3. \A a \in Point : [S EXCEPT !.at = a] \in Process /\ [S EXCEPT !.at = a].wait_token = t
    BY <2>2 DEF Process
  <2>4. Q \in SUBSET Entry
    BY <1>1, <1>2, <2>1 DEF NewEntry, Entry, CpuInv
  <2>5. CASE n # NoPid
    <3> DEFINE R == Set(p, [S EXCEPT !.at = "sleepSwitched"])
    <3>1. SwitchTo(R, Q, n)
      BY <1>4, <2>5
    <3>2. n \in Pid /\ n # cur
      BY <1>1, <2>5, NextRunnableFinds DEF SchedInv
    <3>3. R \in [Pid -> Process] /\ \A k \in Pid \ {cur} : R[k].state # "Running"
      BY <1>1, <1>2, <2>3, PointModes DEF Set, CpuInv, RunningIsCurrent
    <3> HIDE DEF R, Q, n
    <3>4. CpuInv'
      BY <1>2, <2>4, <3>1, <3>2, <3>3, SwitchInv DEF SchedInv
    <3> QED
      BY Zenon, <1>1, <1>4, <3>4 DEF SchedInv, IoOK
  <2>6. CASE n = NoPid
    <3> DEFINE c == [S EXCEPT !.at = "sleepIdle"]
    <3>1. /\ proc' = [proc EXCEPT ![cur] = c]
          /\ timers' = timers \cup {NewEntry(t, r.timeout, "Sleep")}
          /\ armed' = Earlier(armed, r.timeout)
          /\ UNCHANGED <<cur, mode, quantum>>
      BY <1>1, <1>4, <2>6 DEF Set
    <3>2. c \in Process /\ c.wait_token = t
      BY <2>3, PointModes
    <3> HIDE DEF c
    <3>3. /\ armed' \in Delay /\ armed' <= armed /\ armed' <= r.timeout
          /\ armed' <= quantum /\ quantum \in Delay /\ mode \in Mode
      <4>1. armed' \in Delay /\ armed' <= armed /\ armed' <= r.timeout
        BY <1>2, <3>1, EarlierLeast DEF CpuInv
      <4>2. armed' \in Nat /\ armed \in Nat /\ quantum \in Nat /\ armed <= quantum
        BY <1>2, <4>1, ConstantTypes DEF CpuInv, ClockeventCovers
      <4> QED
        BY <1>2, <4>1, <4>2 DEF CpuInv
    <3>4. CpuInv'
      BY Zenon, <1>2, <2>1, <3>1, <3>2, <3>3, CurType, PublishInv
    <3> QED
      BY Zenon, <1>1, <1>4, <3>4 DEF SchedInv, IoOK
  <2> QED
    BY <2>5, <2>6
<1> QED
  BY Zenon, <1>3, <1>4 DEF Block

\* The invariant is kept by the resumption of block_current_until.
LEMMA SleepResumeInv ==
    ASSUME SchedInv, NEW p \in Pid, SleepResume(p)
    PROVE  SchedInv'
<1> DEFINE P == Set(p, ReadAndClearWakeReason(proc[p]))
<1>1. /\ p = cur /\ CondResched(P, "kernel")
      /\ UNCHANGED <<table, ready, pollq, nic, work>>
  BY DEF SleepResume, Kernel, io
<1>2. Outcome(P)
  BY <1>1, CurType, ReadAndClearOwned, OwnSet
<1> HIDE DEF P
<1>3. CpuInv' /\ resched' \in BOOLEAN
  BY <1>1, <1>2, PointModes, CondReschedInv DEF SchedInv
<1> QED
  BY <1>1, <1>3 DEF SchedInv, IoOK

\* The invariant is kept by a turn of idle_until_woken.
LEMMA SleepIdleInv ==
    ASSUME SchedInv, NEW p \in Pid, SleepIdle(p)
    PROVE  SchedInv'
<1> DEFINE P == Set(p, ReadAndClearWakeReason(proc[p]))
<1>1. /\ p = cur
      /\ CondResched(P, "kernel") \/ ScheduleNow(proc, Continue(proc, "halt"))
      /\ UNCHANGED <<table, ready, pollq, nic, work>>
  BY DEF SleepIdle, Idle, io
<1>2. Outcome(P)
  BY <1>1, CurType, ReadAndClearOwned, OwnSet
<1> HIDE DEF P
<1>3. CpuInv' /\ resched' \in BOOLEAN
  BY <1>1, <1>2, PointModes, CurType, CondReschedInv, ScheduleInv DEF SchedInv
<1> QED
  BY <1>1, <1>3 DEF SchedInv, IoOK

\* The invariant is kept by the end of sleep_until_deadline.
LEMMA SleepWokeInv ==
    ASSUME SchedInv, NEW p \in Pid, SleepWoke(p)
    PROVE  SchedInv'
<1> DEFINE a == IF proc[p].reason \in {"Deadline", "Event"} /\ proc[p].timeout # 0
                THEN "sleep" ELSE "ret"
<1>1. /\ p = cur /\ Enter(p, [proc[p] EXCEPT !.at = a, !.reason = "none"])
      /\ UNCHANGED <<ready, pollq, nic, work>>
  BY DEF SleepWoke, Kernel, io
<1>2. a \in Point
  BY PointModes
<1> HIDE DEF a
<1>3. Owned(proc[p], [proc[p] EXCEPT !.at = a, !.reason = "none"])
  BY Zenon, <1>1, <1>2, CurType, PointModes, OwnUpdates
<1> QED
  BY <1>1, <1>3, EnterInv DEF SchedInv, IoOK

\* The invariant is kept by a turn of the network service.
LEMMA ServeInv ==
    ASSUME SchedInv, NEW p \in Pid, NEW d \in NetDelays, NEW changed \in BOOLEAN,
           Serve(p, d, changed)
    PROVE  SchedInv'
<1> DEFINE q == QuantumAfter(proc, pollq)
           a == IF q # quantum THEN Earlier(armed, q) ELSE armed
<1>1. d \in Delay
  BY TimeoutsAssumption, DelayAssumption DEF Delay, Never
<1>2. nic' = FALSE /\ work' = TRUE /\ table' = table
  BY DEF Serve
<1>3. CASE changed
  <2>1. ready' = TRUE /\ pollq' = {} /\ AwaitIo(Notify(proc, pollq), d, q, a)
    BY <1>3 DEF Serve
  <2>2. q \in Delay /\ a \in Delay /\ a <= armed /\ a <= q
    BY CurType, QuantumAfterClock
  <2>3. Outcome(Notify(proc, pollq))
    BY CurType, NotifyOutcome
  <2> HIDE DEF q, a
  <2>4. CpuInv' /\ resched' \in BOOLEAN
    BY <1>1, <2>1, <2>2, <2>3, AwaitInv DEF SchedInv
  <2> QED
    BY Zenon, <1>2, <2>1, <2>4 DEF SchedInv, IoOK
<1>4. CASE ~changed
  <2>1. AwaitIo(proc, d, quantum, armed) /\ UNCHANGED <<ready, pollq>>
    BY <1>4 DEF Serve
  <2>2. quantum \in Delay /\ armed \in Delay /\ armed <= armed /\ armed <= quantum
    BY ConstantTypes DEF SchedInv, CpuInv, ClockeventCovers
  <2>3. CpuInv' /\ resched' \in BOOLEAN
    BY <1>1, <2>1, <2>2, CurType, AwaitInv DEF SchedInv
  <2> QED
    BY Zenon, <1>2, <2>1, <2>3 DEF SchedInv, IoOK
<1> QED
  BY <1>3, <1>4

\* The invariant is kept by the wake of the network service.
LEMMA ServeWokeInv ==
    ASSUME SchedInv, NEW p \in Pid, ServeWoke(p)
    PROVE  SchedInv'
<1>1. /\ p = cur /\ Enter(p, [proc[p] EXCEPT !.at = "serve", !.reason = "none"])
      /\ work' = FALSE /\ UNCHANGED <<ready, pollq, nic>>
  BY DEF ServeWoke, Kernel
<1>2. Owned(proc[p], [proc[p] EXCEPT !.at = "serve", !.reason = "none"])
  BY Zenon, <1>1, CurType, PointModes, OwnUpdates
<1> QED
  BY Zenon, <1>1, <1>2, EnterInv DEF SchedInv, IoOK

\* The invariant is kept by fork.
LEMMA ForkInv ==
    ASSUME SchedInv, NEW p \in Pid, Fork(p)
    PROVE  SchedInv'
<1> DEFINE F == {k \in Pid : proc[k].state = "Free"} \cup {NoPid}
           c == Least(F)
           N == NewProcess(p, proc[p].signal_mask, "user")
           P == [proc EXCEPT ![p].at = "ret", ![c] = N]
<1>1. /\ p = cur /\ c # NoPid /\ proc' = P /\ table' = Append(table, c)
      /\ mode' = "kernel"
      /\ UNCHANGED <<cur, timers, quantum, armed, resched, ready, pollq, nic, work>>
  BY DEF Fork, Syscall, io
<1>2. c \in Pid
  <2>1. F \in SUBSET Nat /\ F # {}
    BY PidAssumption DEF Pid, NoPid
  <2>2. c \in F
    <3> HIDE DEF F
    <3> QED
      BY <2>1, LeastInSet
  <2> QED
    BY <1>1, <2>2
<1> HIDE DEF c
<1>3. N \in Process /\ N.wait_token = 0 /\ N.state = "Runnable"
  <2>1. proc[p].signal_mask \in SUBSET Sig
    BY DEF SchedInv, CpuInv, Process
  <2> QED
    BY Zenon, <2>1, PointModes, NewProcessType DEF NewProcess
<1> HIDE DEF N
<1>4. Outcome([proc EXCEPT ![cur] = [proc[cur] EXCEPT !.at = "ret"]])
  BY Zenon, CurType, PointModes, OwnUpdates, OwnOutcome
<1>5. P = [[proc EXCEPT ![cur] = [proc[cur] EXCEPT !.at = "ret"]] EXCEPT ![c] = N]
  BY <1>1
<1>6. Outcome(P)
  <2> DEFINE A == [proc EXCEPT ![cur] = [proc[cur] EXCEPT !.at = "ret"]]
  <2>1. Outcome(A) /\ P = [A EXCEPT ![c] = N]
    BY <1>4, <1>5
  <2> HIDE DEF A, P
  <2> QED
    BY <1>2, <1>3, <2>1 DEF Outcome
<1> HIDE DEF P
<1>7. Continue(P, "kernel")
  BY <1>1 DEF Continue
<1>8. CpuInv'
  BY <1>6, <1>7, PointModes, ContinueInv DEF SchedInv
<1>9. table' \in Seq(Pid)
  BY <1>1, <1>2 DEF SchedInv
<1> QED
  BY <1>1, <1>8, <1>9 DEF SchedInv, IoOK

\* The invariant is kept by the entry of wait4.
LEMMA Wait4Inv ==
    ASSUME SchedInv, NEW p \in Pid, NEW opts \in SUBSET {"nohang", "untraced"},
           Wait4(p, opts)
    PROVE  SchedInv'
<1>1. /\ p = cur /\ Enter(p, [proc[p] EXCEPT !.at = "wait4", !.options = opts])
      /\ UNCHANGED <<ready, pollq, nic, work>>
  BY DEF Wait4, Syscall, io
<1>2. Owned(proc[p], [proc[p] EXCEPT !.at = "wait4", !.options = opts])
  BY Zenon, <1>1, CurType, PointModes, OwnUpdates
<1> QED
  BY <1>1, <1>2, EnterInv DEF SchedInv, IoOK

\* The invariant is kept by a turn of wait4's loop.
LEMMA Wait4ScanInv ==
    ASSUME SchedInv, NEW p \in Pid, Wait4Scan(p)
    PROVE  SchedInv'
<1> DEFINE r == proc[p]
           child(c) == proc[c].state # "Free" /\ proc[c].parent_pid = p
           stopped(c) == /\ "untraced" \in r.options
                         /\ proc[c].state = "Stopped" /\ ~proc[c].wait_reported
           hits == {k \in 1..Len(table) :
                       /\ child(table[k])
                       /\ proc[table[k]].state = "Dead" \/ stopped(table[k])}
           i == Least(hits)
           c == table[i]
           done == [r EXCEPT !.at = "ret"]
           D == [proc EXCEPT ![p] = done]
           W == Set(p, [r EXCEPT !.state = "Waiting"])
<1>1. p = cur /\ UNCHANGED <<ready, pollq, nic, work>>
  BY Zenon DEF Wait4Scan, Kernel, io
<1>2. Owned(proc[p], done) /\ Outcome(D) /\ CpuInv
  BY Zenon, <1>1, CurType, PointModes, OwnUpdates, OwnOutcome
<1>3. hits # {} => i \in 1..Len(table) /\ c \in Pid
  <2>1. hits \in SUBSET Nat /\ hits \in SUBSET (1..Len(table))
    OBVIOUS
  <2>2. hits # {} => i \in hits
    <3> HIDE DEF hits
    <3> QED
      BY <2>1, LeastInSet
  <2>3. \A k \in 1..Len(table) : table[k] \in Pid
    BY DEF SchedInv
  <2> HIDE DEF hits, i
  <2>4. hits # {} => i \in 1..Len(table)
    BY Zenon, <2>1, <2>2
  <2> QED
    BY <2>3, <2>4
<1>4. CASE /\ hits # {} /\ Continue([proc EXCEPT ![p] = done, ![c] = FreeProcess], "kernel")
           /\ table' = SubSeq(table, 1, i - 1) \o SubSeq(table, i + 1, Len(table))
           /\ resched' = resched
  <2> DEFINE P == [proc EXCEPT ![p] = done, ![c] = FreeProcess]
  <2> HIDE DEF hits, i, done
  <2>1. P = [D EXCEPT ![c] = FreeProcess]
    OBVIOUS
  <2>2. FreeProcess \in Process /\ FreeProcess.wait_token = 0 /\ FreeProcess.state = "Free"
    BY FreeProcessType DEF FreeProcess, NewProcess
  <2> HIDE DEF D, c
  <2>3. Outcome(P)
    BY Zenon, <1>2, <1>3, <1>4, <2>1, <2>2 DEF Outcome
  <2>4. table' \in Seq(Pid)
    BY <1>3, <1>4 DEF SchedInv
  <2> HIDE DEF P
  <2>5. CpuInv'
    BY <1>2, <1>4, <2>3, PointModes, ContinueInv DEF P
  <2> QED
    BY <1>1, <1>4, <2>4, <2>5 DEF SchedInv, IoOK
<1>5. CASE /\ hits # {}
           /\ Continue([proc EXCEPT ![p] = done, ![c].wait_reported = TRUE], "kernel")
           /\ UNCHANGED <<table, resched>>
  <2> DEFINE P == [proc EXCEPT ![p] = done, ![c].wait_reported = TRUE]
  <2> HIDE DEF hits, i, done
  <2>1. P = [D EXCEPT ![c] = [@ EXCEPT !.wait_reported = TRUE]]
    OBVIOUS
  <2>2. \A q \in Process : Passive(q, [q EXCEPT !.wait_reported = TRUE])
    <3> SUFFICES ASSUME NEW q \in Process PROVE Passive(q, [q EXCEPT !.wait_reported = TRUE])
      BY Zenon
    <3>1. [q EXCEPT !.wait_reported = TRUE] \in Process
      BY Zenon DEF Process
    <3> QED
      BY Zenon, <3>1 DEF Passive, Process
  <2> HIDE DEF D, c
  <2>3. Outcome(P)
    <3>1. c \in Pid /\ D \in [Pid -> Process]
      BY <1>2, <1>3, <1>5 DEF Outcome
    <3>2. Passive(D[c], [D[c] EXCEPT !.wait_reported = TRUE])
      BY <2>2, <3>1
    <3> QED
      BY Zenon, <1>2, <2>1, <3>1, <3>2 DEF Outcome, Passive
  <2> HIDE DEF P
  <2>4. CpuInv'
    BY <1>2, <1>5, <2>3, PointModes, ContinueInv DEF P
  <2> QED
    BY <1>1, <1>5, <2>4 DEF SchedInv, IoOK
<1>6. CASE Enter(p, done)
  BY <1>1, <1>2, <1>6, EnterInv DEF SchedInv, IoOK
<1>7. CASE table' = table /\ ScheduleNow(W, Continue(W, "kernel"))
  <2>1. Outcome(W)
    <3>1. "Waiting" \in State
      BY DEF State
    <3> QED
      BY Zenon, <1>1, <3>1, CurType, OwnUpdates, OwnSet
  <2> HIDE DEF W
  <2>2. CpuInv' /\ resched' \in BOOLEAN
    BY <1>2, <1>7, <2>1, PointModes, ScheduleInv DEF SchedInv
  <2> QED
    BY <1>1, <1>7, <2>2 DEF SchedInv, IoOK
<1> QED
  BY Zenon, <1>4, <1>5, <1>6, <1>7 DEF Wait4Scan

\* The invariant is kept by a turn of idle_until_runnable.
LEMMA ExitIdleInv ==
    ASSUME SchedInv, NEW p \in Pid, ExitIdle(p)
    PROVE  SchedInv'
<1>1. /\ ScheduleNow(proc, Continue(proc, "halt"))
      /\ UNCHANGED <<table, ready, pollq, nic, work>>
  BY DEF ExitIdle, io
<1>2. CpuInv' /\ resched' \in BOOLEAN
  BY <1>1, PointModes, CurType, ScheduleInv DEF SchedInv
<1> QED
  BY <1>1, <1>2 DEF SchedInv, IoOK

\* The invariant is kept by the halt of an exited process.
LEMMA ExitedHaltInv ==
    ASSUME SchedInv, NEW p \in Pid, ExitedHalt(p)
    PROVE  SchedInv'
<1>1. Continue(proc, "halt") /\ UNCHANGED <<table, resched, ready, pollq, nic, work>>
  BY DEF ExitedHalt, io
<1>2. CpuInv'
  BY <1>1, PointModes, CurType, ContinueInv
<1> QED
  BY <1>1, <1>2 DEF SchedInv, IoOK

\* The invariant is kept by exit, exit_group and terminate_current_by_signal.
LEMMA ExitInv ==
    ASSUME SchedInv, NEW p \in Pid, NEW how, Exit(p, how)
    PROVE  SchedInv'
<1> DEFINE parent == proc[p].parent_pid
           R == Reparent(proc, {p})
           w == IF how = "fault" THEN "killed" ELSE "exited"
           x == [ClearWait(R[p]) EXCEPT
                    !.state = "Dead", !.wake_reason = "none", !.at = "exited",
                    !.wait_status = w, !.wait_reported = FALSE]
           D == [R EXCEPT ![p] = x]
           told == QueueSignal(D[parent], SIGCHLD)
           y == IF how = "group" THEN told ELSE ForceWake(told)
           P == [D EXCEPT ![parent] = y]
           n == IF P[parent].state = "Runnable" THEN parent ELSE NextRunnable(P, table, p)
           I == [P EXCEPT ![p].at = "exitIdle"]
<1>1. /\ p = cur /\ UNCHANGED <<table, resched, ready, pollq, nic, work>>
      /\ IF n # NoPid THEN SwitchTo(P, timers, n)
         ELSE proc' = I /\ mode' = "kernel" /\ Rearm(I, timers, Never) /\ cur' = cur
  BY Zenon DEF Exit, Syscall, io
<1>2. proc \in [Pid -> Process] /\ parent \in Pid /\ CpuInv /\ Outcome(proc)
  BY Zenon, CurType DEF CpuInv, Process
<1>3. Outcome(R) /\ R \in [Pid -> Process]
  <2>1. R \in [Pid -> Process] /\ \A k \in Pid : Passive(proc[k], R[k])
    BY <1>2, ReparentPassive, ChldAssumption
  <2> HIDE DEF R
  <2> QED
    BY <1>2, <2>1, PassiveOutcome
<1> HIDE DEF R, parent
<1>4. Owned(R[p], x) /\ x.state = "Dead"
  <2>1. w \in Status
    BY DEF Status
  <2> HIDE DEF w
  <2> QED
    BY Zenon, <1>3, <2>1, ExitEntry
<1> HIDE DEF x
<1>5. Outcome(D) /\ D[p].state = "Dead" /\ D \in [Pid -> Process]
  <2>1. Outcome(D)
    BY Zenon, <1>1, <1>2, <1>3, <1>4, OwnOutcome
  <2> QED
    BY <1>3, <1>4, <2>1 DEF Outcome
<1> HIDE DEF D
<1>6. Passive(D[parent], y) /\ (D[parent].state = "Dead" => y.state = "Dead")
  <2>1. Passive(D[parent], told) /\ told \in Process
    BY <1>2, <1>5, QueueSignalPassive, ChldAssumption DEF Passive
  <2>2. D[parent].state = "Dead" => told.state = "Dead" /\ ForceWake(told).state = "Dead"
    BY <1>2, <1>5, DeadStays, ChldAssumption
  <2> HIDE DEF told
  <2>3. Passive(told, ForceWake(told))
    BY <2>1, ForceWakePassive
  <2>4. Passive(D[parent], ForceWake(told))
    BY <1>2, <1>5, <2>1, <2>3, PassiveTrans
  <2> QED
    BY <2>1, <2>2, <2>4
<1> HIDE DEF y
<1>7. Outcome(P) /\ P \in [Pid -> Process] /\ P[p].state = "Dead"
  <2>1. \A k \in Pid : Passive(D[k], P[k])
    BY <1>2, <1>5, <1>6, PassiveRefl
  <2>2. P \in [Pid -> Process]
    BY <1>2, <1>5, <1>6 DEF Passive
  <2>3. P[p].state = "Dead"
    BY <1>2, <1>5, <1>6
  <2> HIDE DEF P
  <2> QED
    BY <1>2, <1>5, <2>1, <2>2, <2>3, PassiveOutcome
<1> HIDE DEF P
<1>8. CASE n # NoPid
  <2>1. n \in Pid /\ n # cur
    <3>1. CASE P[parent].state = "Runnable"
      BY <1>1, <1>2, <1>7, <3>1
    <3>2. CASE P[parent].state # "Runnable"
      BY <1>1, <1>8, <3>2, NextRunnableFinds DEF SchedInv
    <3> QED
      BY <3>1, <3>2
  <2>2. SwitchTo(P, timers, n)
    BY <1>1, <1>8
  <2> HIDE DEF n
  <2>3. CpuInv'
    BY Zenon, <1>2, <1>7, <2>1, <2>2, SwitchInv DEF SchedInv, CpuInv, Outcome
  <2> QED
    BY <1>1, <2>3 DEF SchedInv, IoOK
<1>9. CASE n = NoPid
  <2>1. proc' = I /\ mode' = "kernel" /\ Rearm(I, timers, Never) /\ cur' = cur
    BY <1>1, <1>9
  <2>2. I = [P EXCEPT ![cur] = [@ EXCEPT !.at = "exitIdle"]]
    BY <1>1
  <2>3. Outcome(I)
    <3>1. Owned(P[cur], [P[cur] EXCEPT !.at = "exitIdle"])
      BY Zenon, <1>2, <1>7, PointModes, OwnUpdates DEF CpuInv
    <3> QED
      BY Zenon, <1>2, <1>7, <2>2, <3>1, OwnOutcome
  <2> HIDE DEF I
  <2>4. /\ timers' \subseteq Entry /\ quantum' \in Delay /\ armed' \in Delay
        /\ ClockeventCovers'
    BY <1>2, <2>1, ConstantTypes, RearmInv DEF CpuInv
  <2>5. RunningIsCurrent' /\ proc' \in [Pid -> Process]
    BY <2>1, <2>3 DEF Outcome, RunningIsCurrent
  <2>6. CpuInv'
    BY <1>2, <2>1, <2>4, <2>5, PointModes DEF CpuInv
  <2> QED
    BY Zenon, <1>1, <2>6 DEF SchedInv, IoOK
<1> QED
  BY <1>8, <1>9

\* The invariant is kept by kill.
LEMMA KillInv ==
    ASSUME SchedInv, NEW p \in Pid, NEW T \in SUBSET Pid, NEW sig \in Sig, Kill(p, T, sig)
    PROVE  SchedInv'
<1> DEFINE A == [k \in Pid |-> IF k \in T THEN ApplySignal(proc[k], sig) ELSE proc[k]]
           dead == {k \in T : NotifiesParent(sig) /\ A[k].state = "Dead"}
           R == Reparent(A, dead)
           parents == IF NotifiesParent(sig) THEN {proc[k].parent_pid : k \in T} ELSE {}
           N == [k \in Pid |-> IF k \in parents /\ R[k].state # "Free"
                               THEN QueueSignal(R[k], SIGCHLD) ELSE R[k]]
           P == [N EXCEPT ![p].at = "ret"]
<1>1. /\ p = cur /\ UNCHANGED <<table, ready, pollq, nic, work>>
      /\ IF P[p].state \in {"Dead", "Stopped"}
         THEN ScheduleNow(P, Continue(P, "kernel"))
         ELSE Continue(P, "kernel") /\ resched' = resched
  BY Zenon DEF Kill, Syscall, io
<1>2. proc \in [Pid -> Process] /\ CpuInv /\ Outcome(proc)
  BY CurType DEF CpuInv
<1>3. Outcome(A) /\ A \in [Pid -> Process]
  <2>1. \A k \in Pid : Passive(proc[k], A[k])
    BY <1>2, ApplySignalPassive, PassiveRefl
  <2>2. A \in [Pid -> Process]
    BY <2>1 DEF Passive
  <2> HIDE DEF A
  <2> QED
    BY <1>2, <2>1, <2>2, PassiveOutcome
<1> HIDE DEF A
<1>4. Outcome(R) /\ R \in [Pid -> Process]
  <2>1. R \in [Pid -> Process] /\ \A k \in Pid : Passive(A[k], R[k])
    BY <1>3, ReparentPassive, ChldAssumption
  <2> HIDE DEF R
  <2> QED
    BY <1>2, <1>3, <2>1, PassiveOutcome
<1> HIDE DEF R
<1>5. Outcome(N) /\ N \in [Pid -> Process]
  <2>1. \A k \in Pid : Passive(R[k], N[k])
    BY <1>4, QueueSignalPassive, PassiveRefl, ChldAssumption
  <2>2. N \in [Pid -> Process]
    BY <2>1 DEF Passive
  <2> HIDE DEF N
  <2> QED
    BY <1>2, <1>4, <2>1, <2>2, PassiveOutcome
<1> HIDE DEF N
<1>6. Outcome(P)
  <2>1. P = [N EXCEPT ![cur] = [N[cur] EXCEPT !.at = "ret"]]
    BY <1>1
  <2>2. Owned(N[cur], [N[cur] EXCEPT !.at = "ret"])
    BY Zenon, <1>2, <1>5, PointModes, OwnUpdates DEF CpuInv
  <2> HIDE DEF P
  <2> QED
    BY Zenon, <1>2, <1>5, <2>1, <2>2, OwnOutcome
<1> HIDE DEF P
<1>7. CpuInv' /\ resched' \in BOOLEAN
  BY <1>1, <1>2, <1>6, PointModes, ScheduleInv, ContinueInv DEF SchedInv
<1> QED
  BY <1>1, <1>7 DEF SchedInv, IoOK

\* The invariant is kept by rt_sigprocmask.
LEMMA SigprocmaskInv ==
    ASSUME SchedInv, NEW p \in Pid, NEW m \in Masks, Sigprocmask(p, m)
    PROVE  SchedInv'
<1>1. /\ p = cur /\ Enter(p, [proc[p] EXCEPT !.signal_mask = m, !.at = "ret"])
      /\ UNCHANGED <<ready, pollq, nic, work>>
  BY DEF Sigprocmask, Syscall, io
<1>2. m \in SUBSET Sig
  BY MasksAssumption
<1>3. Owned(proc[p], [proc[p] EXCEPT !.signal_mask = m, !.at = "ret"])
  BY Zenon, <1>1, <1>2, CurType, PointModes, OwnUpdates
<1> QED
  BY <1>1, <1>3, EnterInv DEF SchedInv, IoOK

\* The invariant is kept by rt_sigsuspend.
LEMMA SigsuspendInv ==
    ASSUME SchedInv, NEW p \in Pid, NEW m \in Masks, Sigsuspend(p, m)
    PROVE  SchedInv'
<1> DEFINE s == [proc[p] EXCEPT !.saved_mask = proc[p].signal_mask,
                                !.signal_mask = m, !.in_sigsuspend = TRUE,
                                !.at = "ret"]
           w == [s EXCEPT !.state = "SignalWait"]
<1>1. /\ p = cur /\ UNCHANGED <<table, ready, pollq, nic, work>>
      /\ \/ Continue(Set(p, s), "kernel") /\ resched' = resched
         \/ ScheduleNow(Set(p, w), Continue(Set(p, w), "kernel"))
  BY DEF Sigsuspend, Syscall, io
<1>2. proc[p] \in Process /\ proc[p].signal_mask \in SUBSET Sig /\ m \in SUBSET Sig
  BY MasksAssumption DEF SchedInv, CpuInv, Process
<1>3. Owned(proc[p], s) /\ s \in Process
  <2>1. s \in Process
    BY Zenon, <1>2, PointModes DEF Process
  <2> QED
    BY <1>2, <2>1 DEF Owned, Process
<1> HIDE DEF s
<1>4. Owned(proc[p], w)
  <2>1. Owned(s, w)
    BY Zenon, <1>3, OwnUpdates DEF State
  <2> QED
    BY <1>2, <1>3, <2>1, OwnedTrans
<1> HIDE DEF w
<1>5. Outcome(Set(p, s)) /\ Outcome(Set(p, w)) /\ CpuInv
  BY <1>1, <1>3, <1>4, OwnSet DEF SchedInv
<1>6. CpuInv' /\ resched' \in BOOLEAN
  BY <1>1, <1>5, PointModes, ScheduleInv, ContinueInv DEF SchedInv
<1> QED
  BY <1>1, <1>6 DEF SchedInv, IoOK

\* The invariant is kept by rt_sigreturn.
LEMMA SigreturnInv ==
    ASSUME SchedInv, NEW p \in Pid, Sigreturn(p)
    PROVE  SchedInv'
<1> DEFINE f == proc[p].frames
           r == [proc[p] EXCEPT !.signal_mask = f[Len(f)],
                                !.frames = SubSeq(f, 1, Len(f) - 1)]
<1>1. /\ p = cur /\ f # <<>> /\ CondResched(Set(p, r), "user")
      /\ UNCHANGED <<table, ready, pollq, nic, work>>
  BY DEF Sigreturn, io
<1>2. proc[p] \in Process /\ f \in Seq(SUBSET Sig)
  BY DEF SchedInv, CpuInv, Process
<1>3. f[Len(f)] \in SUBSET Sig /\ SubSeq(f, 1, Len(f) - 1) \in Seq(SUBSET Sig)
  <2> HIDE DEF f
  <2>1. Len(f) \in 1..Len(f)
    BY <1>1, <1>2
  <2> QED
    BY <1>2, <2>1
<1>4. Owned(proc[p], r)
  <2>1. \A m \in SUBSET Sig, g \in Seq(SUBSET Sig) :
          Owned(proc[p], [proc[p] EXCEPT !.signal_mask = m, !.frames = g])
    <3> SUFFICES ASSUME NEW m \in SUBSET Sig, NEW g \in Seq(SUBSET Sig)
                 PROVE  Owned(proc[p], [proc[p] EXCEPT !.signal_mask = m, !.frames = g])
      BY Zenon
    <3>1. [proc[p] EXCEPT !.signal_mask = m, !.frames = g] \in Process
      BY Zenon, <1>2 DEF Process
    <3> QED
      BY <1>2, <3>1 DEF Owned, Process
  <2> HIDE DEF f
  <2> QED
    BY Zenon, <1>3, <2>1
<1> HIDE DEF r
<1>5. Outcome(Set(p, r))
  BY <1>1, <1>4, OwnSet DEF SchedInv
<1>6. CpuInv' /\ resched' \in BOOLEAN
  BY <1>1, <1>5, PointModes, CondReschedInv DEF SchedInv
<1> QED
  BY <1>1, <1>6 DEF SchedInv, IoOK

\* The invariant is kept by the network interrupt.
LEMMA NicIrqInv ==
    ASSUME SchedInv, NicIrq
    PROVE  SchedInv'
<1> DEFINE W == IF work THEN {Service} ELSE {}
           q == QuantumAfter(proc, W)
           a == IF q # quantum THEN Earlier(armed, q) ELSE armed
<1>1. /\ nic' = TRUE /\ work' = FALSE /\ proc' = Notify(proc, W)
      /\ quantum' = q /\ armed' = a /\ mode' = IrqMode
      /\ UNCHANGED <<table, cur, timers, resched, ready, pollq>>
  BY DEF NicIrq
<1>2. CpuInv /\ Outcome(Notify(proc, W)) /\ IrqMode \in Mode
  BY CurType, NotifyOutcome, PointModes DEF IrqMode
<1>3. q \in Delay /\ a \in Delay /\ a <= armed /\ a <= q
  BY <1>2, QuantumAfterClock
<1> HIDE DEF W, q, a
<1>4. CpuInv'
  BY <1>1, <1>2, <1>3, OutcomeInv
<1> QED
  BY Zenon, <1>1, <1>4 DEF SchedInv, IoOK

\* The invariant is kept by the keyboard interrupt.
LEMMA TtyIrqInv ==
    ASSUME SchedInv, TtyIrq
    PROVE  SchedInv'
<1>1. Readiness(proc, IrqMode, TRUE) /\ IrqMode \in Mode
  BY Zenon, PointModes DEF TtyIrq, IrqMode
<1> QED
  BY Zenon, <1>1, CurType, ReadinessInv

\* The invariant is kept by the timer interrupt.
LEMMA TimerIrqInv ==
    ASSUME SchedInv, TimerIrq
    PROVE  SchedInv'
<1> DEFINE P == ExpireDue(proc, timers)
           Q == NotDue(timers)
           q == IF quantum = 0 THEN Never ELSE quantum
           n == NextRunnable(P, table, cur)
<1>1. /\ UNCHANGED <<table, ready, pollq, nic, work>>
      /\ IF mode = "user" /\ n # NoPid
         THEN SwitchTo(P, Q, n) /\ resched' = FALSE
         ELSE /\ proc' = P /\ Rearm(P, Q, q) /\ mode' = IrqMode
              /\ resched' = (mode # "user" /\ (resched \/ quantum = 0))
              /\ cur' = cur
  BY DEF TimerIrq, io
<1>2. Outcome(P)
  BY CurType, ExpireDuePassive, PassiveOutcome DEF CpuInv
<1>3. Q \in SUBSET Entry /\ q \in Delay
  BY ConstantTypes DEF NotDue, SchedInv, CpuInv
<1> HIDE DEF P, Q, q
<1>4. CASE mode = "user" /\ n # NoPid
  <2>1. n \in Pid /\ n # cur
    BY Zenon, <1>4, NextRunnableFinds DEF SchedInv
  <2>2. SwitchTo(P, Q, n) /\ resched' = FALSE
    BY <1>1, <1>4
  <2> HIDE DEF n
  <2>3. CpuInv'
    BY <1>2, <1>3, <2>1, <2>2, SwitchInv DEF SchedInv, Outcome
  <2> QED
    BY Zenon, <1>1, <2>2, <2>3 DEF SchedInv, IoOK
<1>5. CASE ~(mode = "user" /\ n # NoPid)
  <2>1. /\ proc' = P /\ Rearm(P, Q, q) /\ mode' = IrqMode
        /\ resched' \in BOOLEAN /\ cur' = cur
    BY Zenon, <1>1, <1>5
  <2>2. /\ timers' \subseteq Entry /\ quantum' \in Delay /\ armed' \in Delay
        /\ ClockeventCovers'
    BY <1>3, <2>1, RearmInv
  <2>3. RunningIsCurrent' /\ proc' \in [Pid -> Process] /\ mode' \in Mode
    BY <1>2, <2>1, PointModes DEF Outcome, RunningIsCurrent, IrqMode
  <2>4. CpuInv'
    BY <2>1, <2>2, <2>3 DEF SchedInv, CpuInv
  <2> QED
    BY <1>1, <2>1, <2>4 DEF SchedInv, IoOK
<1> QED
  BY <1>4, <1>5

\* The invariant is kept by the passing of time.
LEMMA TickInv ==
    ASSUME SchedInv, Tick
    PROVE  SchedInv'
<1> DEFINE later(r) == [r EXCEPT !.timeout = Less(@), !.wait_deadline = Less(@)]
           sooner(e) == [e EXCEPT !.deadline = Less(@)]
<1>1. /\ timers' = {sooner(e) : e \in timers}
      /\ proc' = [p \in Pid |-> later(proc[p])]
      /\ quantum' = Less(quantum) /\ armed' = Less(armed)
      /\ UNCHANGED <<table, cur, mode, resched, ready, pollq, nic, work>>
  BY Zenon DEF Tick, io
<1>2. \A r \in Process : later(r) \in Process /\ later(r).state = r.state
                           /\ later(r).wait_token = r.wait_token
  <2> SUFFICES ASSUME NEW r \in Process
               PROVE  later(r) \in Process /\ later(r).state = r.state
                      /\ later(r).wait_token = r.wait_token
    BY Zenon
  <2>1. Less(r.timeout) \in Delay /\ Less(r.wait_deadline) \in Delay
    BY LessMonotone DEF Process
  <2> QED
    BY Zenon, <2>1 DEF Process
<1>3. \A e \in Entry : sooner(e) \in Entry /\ sooner(e).deadline = Less(e.deadline)
                         /\ sooner(e).pid = e.pid /\ sooner(e).token = e.token
  BY LessMonotone DEF Entry
<1>4. /\ proc \in [Pid -> Process] /\ timers \in SUBSET Entry
      /\ quantum \in Delay /\ armed \in Delay /\ RunningIsCurrent /\ ClockeventCovers
  BY DEF SchedInv, CpuInv
<1> HIDE DEF later, sooner
<1>5. proc' \in [Pid -> Process] /\ RunningIsCurrent'
  BY <1>1, <1>2, <1>4 DEF RunningIsCurrent
<1>6. timers' \subseteq Entry /\ quantum' \in Delay /\ armed' \in Delay
  BY <1>1, <1>3, <1>4, LessMonotone
<1>7. ASSUME NEW e \in timers, IsLive(proc', sooner(e))
      PROVE  armed' <= sooner(e).deadline
  <2>1. e \in Entry /\ e.pid \in Pid /\ e.deadline \in Delay
    BY <1>4 DEF Entry
  <2>2. e \in LiveEntries(proc, timers)
    BY <1>1, <1>2, <1>3, <1>4, <1>7, <2>1 DEF LiveEntries, IsLive
  <2>3. armed <= e.deadline
    BY <1>4, <2>2 DEF ClockeventCovers
  <2> QED
    BY <1>1, <1>3, <1>4, <2>1, <2>3, LessMonotone
<1>8. armed' <= quantum'
  BY <1>1, <1>4, LessMonotone DEF ClockeventCovers
<1>9. ClockeventCovers'
  BY <1>1, <1>7, <1>8 DEF ClockeventCovers, LiveEntries, IsLive
<1> QED
  BY <1>1, <1>5, <1>6, <1>9 DEF SchedInv, CpuInv, IoOK

------------------------------------------------------------------------------

\* The state after boot satisfies the invariant.
LEMMA InitInv == Init => SchedInv
<1> SUFFICES ASSUME Init PROVE SchedInv
  OBVIOUS
<1> USE DEF Init
<1>1. table \in Seq(Pid)
  <2>1. Forked + 1 \in Nat /\ \A i \in 1..(Forked + 1) : i - 1 \in Pid
    BY PidAssumption, ForkedAssumption DEF Pid
  <2> QED
    BY <2>1
<1>2. /\ NewProcess(Service, {}, "serve") \in Process
      /\ NewProcess(Service, {}, "user") \in Process
      /\ NewProcess(InitPid, {}, "user") \in Process
  BY NewProcessType, ConstantTypes, PointModes
<1>3. /\ \A k \in Pid, a \in Point : NewProcess(k, {}, a).state = "Runnable"
      /\ FreeProcess.state = "Free"
      /\ [NewProcess(Service, {}, "user") EXCEPT !.state = "Running"] \in Process
  BY Zenon, <1>2 DEF NewProcess, FreeProcess, Process, State
<1>4. \A p \in Pid : proc[p] \in Process /\ (proc[p].state = "Running" => p = InitPid)
  BY <1>2, <1>3, FreeProcessType, ConstantTypes, PointModes
<1>5. proc \in [Pid -> Process] /\ RunningIsCurrent
  BY <1>4 DEF RunningIsCurrent
<1>6. ClockeventCovers
  BY ConstantTypes DEF ClockeventCovers, LiveEntries
<1> QED
  BY Zenon, <1>1, <1>5, <1>6, ConstantTypes, PointModes DEF SchedInv, CpuInv, IoOK

\* A stuttering step keeps the invariant.
LEMMA StutterInv ==
    ASSUME SchedInv, UNCHANGED vars
    PROVE  SchedInv'
  BY DEF vars, SchedInv, CpuInv, IoOK, RunningIsCurrent, ClockeventCovers,
         LiveEntries, IsLive

\* Every step of userspace keeps the invariant.
LEMMA UserStepInv ==
    ASSUME SchedInv, NEW p \in Pid, UserStep(p)
    PROVE  SchedInv'
<1>1. CASE Yield(p) \/ Read(p) \/ Write(p) \/ WriteBroken(p) \/ Fork(p) \/ Sigreturn(p)
  BY <1>1, YieldInv, ReadWriteInv, WriteBrokenInv, ForkInv, SigreturnInv
<1>2. CASE \E d \in Timeouts : Poll(p, d)
  BY <1>2, PollInv
<1>3. CASE \E d \in Timeouts \ {Never} : Nanosleep(p, d)
  BY <1>3, NanosleepInv
<1>4. CASE \E opts \in SUBSET {"nohang", "untraced"} : Wait4(p, opts)
  BY <1>4, Wait4Inv
<1>5. CASE \E how \in {"exit", "group", "fault"} : Exit(p, how)
  BY <1>5, ExitInv
<1>6. CASE \E T \in SUBSET (InTable(table) \ {Service}) :
             \E sig \in Sig \ {SIGCHLD} : T # {} /\ Kill(p, T, sig)
  <2>1. InTable(table) \subseteq Pid
    BY DEF SchedInv, InTable
  <2> QED
    BY <1>6, <2>1, KillInv
<1>7. CASE \E m \in Masks : Sigprocmask(p, m) \/ Sigsuspend(p, m)
  BY <1>7, SigprocmaskInv, SigsuspendInv
<1> QED
  BY <1>1, <1>2, <1>3, <1>4, <1>5, <1>6, <1>7 DEF UserStep

\* Every step of the kernel keeps the invariant.
LEMMA KernelStepInv ==
    ASSUME SchedInv, NEW p \in Pid, KernelStep(p)
    PROVE  SchedInv'
<1>1. CASE Ret(p) \/ AwaitResume(p) \/ AwaitIdle(p) \/ AwaitDrop(p)
  BY <1>1, RetInv, AwaitResumeInv, AwaitIdleInv, AwaitDropInv
<1>2. CASE PollWait(p) \/ PollWoke(p)
  BY <1>2, PollWaitInv, PollWokeInv
<1>3. CASE Block(p) \/ SleepResume(p) \/ SleepIdle(p) \/ SleepWoke(p)
  BY <1>3, BlockInv, SleepResumeInv, SleepIdleInv, SleepWokeInv
<1>4. CASE \E d \in NetDelays : \E changed \in BOOLEAN : Serve(p, d, changed)
  BY <1>4, ServeInv
<1>5. CASE ServeWoke(p) \/ Wait4Scan(p) \/ ExitIdle(p) \/ ExitedHalt(p)
  BY <1>5, ServeWokeInv, Wait4ScanInv, ExitIdleInv, ExitedHaltInv
<1> QED
  BY <1>1, <1>2, <1>3, <1>4, <1>5 DEF KernelStep

(* The invariant of the scheduler: every action of Sched.tla preserves it.   *)
THEOREM SchedInvariant == Spec => []SchedInv
<1>1. Init => SchedInv
  BY InitInv
<1>2. SchedInv /\ [Next]_vars => SchedInv'
  <2> SUFFICES ASSUME SchedInv, [Next]_vars PROVE SchedInv'
    OBVIOUS
  <2>1. ASSUME NEW p \in Pid, UserStep(p) \/ KernelStep(p) PROVE SchedInv'
    BY <2>1, UserStepInv, KernelStepInv
  <2>2. CASE Irq
    BY <2>2, TtyIrqInv, NicIrqInv, TimerIrqInv DEF Irq
  <2>3. CASE Tick
    BY <2>3, TickInv
  <2>4. CASE UNCHANGED vars
    BY <2>4, StutterInv
  <2> QED
    BY <2>1, <2>2, <2>3, <2>4 DEF Next
<1> QED
  BY <1>1, <1>2, PTL DEF Spec

(* Every variable keeps its type: no operation of the scheduler, the wait    *)
(* syscalls or the interrupt handlers builds an ill-formed table entry,      *)
(* queue entry or delay.                                                     *)
THEOREM TypeCorrect == Spec => []TypeOK
<1>1. SchedInv => TypeOK
  BY DEF SchedInv, CpuInv, IoOK, TypeOK
<1> QED
  BY <1>1, SchedInvariant, PTL

(* The condition that validate_pre_switch_owner checks before every switch   *)
(* holds: no process but the one that has the CPU is marked Running.         *)
THEOREM OnlyCurrentRuns == Spec => []RunningIsCurrent
<1>1. SchedInv => RunningIsCurrent
  BY DEF SchedInv, CpuInv
<1> QED
  BY <1>1, SchedInvariant, PTL

(* clockevent::rearm and rearm_if_earlier are called wherever they must be:  *)
(* the one-shot is never armed later than the quantum or than the deadline   *)
(* of a wait that is still live.                                             *)
THEOREM ClockeventNeverLate == Spec => []ClockeventCovers
<1>1. SchedInv => ClockeventCovers
  BY DEF SchedInv, CpuInv
<1> QED
  BY <1>1, SchedInvariant, PTL
==============================================================================
