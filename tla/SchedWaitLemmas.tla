--------------------------- MODULE SchedWaitLemmas ---------------------------
(***************************************************************************)
(* What the actions of Sched.tla do to the waits of the process table.     *)
(* Most write the entry of the process that runs and, through a wake or a  *)
(* signal, some others: "Keeps" says that an entry begins no wait, "Quiet" *)
(* that it was written by another process without ending or moving the     *)
(* call it is in.                                                          *)
(***************************************************************************)
EXTENDS ProcessProofs

\* The waits that a deadline can end, and the processes blocked for I/O.
Waits(r) == r.state \in {"AwaitingIo", "Sleeping"}

Idles(P) == {p \in Pid : P[p].state = "AwaitingIo"}

\* From r to q no wait begins, and one that goes on keeps its token.
KeepsWait(r, q) ==
    /\ q.wait_token # 0 => /\ q.wait_token = r.wait_token
                           /\ q.wait_deadline = r.wait_deadline
                           /\ KindAt(q) = KindAt(r)
    /\ Waits(q) => Waits(r)
    /\ q.state = "AwaitingIo" => r.state = "AwaitingIo"

\* Nor does a deadline wake r.
Keeps(r, q) ==
    /\ KeepsWait(r, q)
    /\ q.wake_reason = "Deadline" => r.wake_reason = "Deadline"

\* The queue stays in step with a table in which no wait began.
LEMMA KeepsQueue ==
    ASSUME NEW P, NEW R, NEW Q \in SUBSET Entry, QueueSound(P, Q),
           \A p \in Pid : KeepsWait(P[p], R[p])
    PROVE  QueueSound(R, Q)
<1>1. ASSUME NEW e \in Q, IsLive(R, e)
      PROVE  e.deadline = R[e.pid].wait_deadline /\ e.kind = KindAt(R[e.pid])
  <2>1. e.pid \in Pid /\ e.token # 0
    BY WaitsAssumption DEF Entry
  <2>2. /\ R[e.pid].wait_token = P[e.pid].wait_token
        /\ R[e.pid].wait_deadline = P[e.pid].wait_deadline
        /\ KindAt(R[e.pid]) = KindAt(P[e.pid])
    BY <1>1, <2>1 DEF KeepsWait, IsLive
  <2>3. IsLive(P, e)
    BY <1>1, <2>2 DEF IsLive
  <2> QED
    BY <2>2, <2>3 DEF QueueSound
<1>2. ASSUME NEW p \in Pid, Waits(R[p]), R[p].wait_token # 0
      PROVE  \E e \in Q : e.pid = p /\ e.token = R[p].wait_token
  <2>1. Waits(P[p]) /\ P[p].wait_token = R[p].wait_token
    BY <1>2 DEF KeepsWait
  <2> QED
    BY <1>2, <2>1 DEF QueueSound, Waits
<1> QED
  BY <1>1, <1>2 DEF QueueSound, Waits

\* A step may turn every entry into one that keeps it, and nobody new idles.
LEMMA KeepsReached ==
    ASSUME NEW P, NEW R \in [Pid -> Process], NEW Q \in SUBSET Entry, Reached(P, Q),
           \A p \in Pid : Keeps(P[p], R[p]) /\ Sound(p, R[p])
    PROVE  Reached(R, Q) /\ Idles(R) \subseteq Idles(P)
<1>1. QueueSound(R, Q)
  BY KeepsQueue DEF Reached, TableSound, Keeps
<1> QED
  BY <1>1 DEF Reached, TableSound, Keeps, KeepsWait, Idles

\* The same for a step that writes one entry.
LEMMA KeepsOwn ==
    ASSUME NEW P, NEW c \in Pid, NEW r \in Process, NEW Q \in SUBSET Entry,
           Reached(P, Q), Keeps(P[c], r), Sound(c, r)
    PROVE  /\ Reached([P EXCEPT ![c] = r], Q)
           /\ Idles([P EXCEPT ![c] = r]) \subseteq Idles(P)
<1> DEFINE R == [P EXCEPT ![c] = r]
<1>1. P \in [Pid -> Process] /\ R \in [Pid -> Process]
  BY DEF Reached
<1>2. \A p \in Pid : Keeps(P[p], P[p]) /\ Sound(p, P[p])
  BY DEF Keeps, KeepsWait, Reached, TableSound
<1>3. \A p \in Pid : R[p] = IF p = c THEN r ELSE P[p]
  BY <1>1
<1> HIDE DEF R
<1>4. \A p \in Pid : Keeps(P[p], R[p]) /\ Sound(p, R[p])
  BY <1>2, <1>3
<1> QED
  BY Zenon, <1>1, <1>4, KeepsReached DEF R

\* drain_stale drops no entry that a wait depends on.
LEMMA DrainReached ==
    ASSUME NEW P, NEW Q \in SUBSET Entry, Reached(P, Q)
    PROVE  Reached(P, DrainStale(P, Q))
<1>1. /\ DrainStale(P, Q) \subseteq Q
      /\ LiveEntries(P, DrainStale(P, Q)) = LiveEntries(P, Q)
  BY DrainStaleKeepsLive
<1>2. \A e \in Q : IsLive(P, e) => e \in DrainStale(P, Q)
  BY <1>1 DEF LiveEntries
<1>3. QueueSound(P, Q)
  BY DEF Reached, TableSound
<1>4. QueueSound(P, DrainStale(P, Q))
  BY <1>1, <1>2, <1>3 DEF QueueSound, IsLive
<1> QED
  BY <1>4 DEF Reached, TableSound

\* A process that is dispatched or made runnable stays in the call it is in.
LEMMA SoundState ==
    ASSUME NEW p, NEW r \in Process, Sound(p, r), NEW s \in {"Running", "Runnable"}
    PROVE  LET q == [r EXCEPT !.state = s]
           IN  q \in Process /\ Sound(p, q) /\ Keeps(r, q) /\ q.at = r.at /\ q.state = s
<1> DEFINE q == [r EXCEPT !.state = s]
<1>1. q \in Process
  <2>1. s \in State
    BY DEF State
  <2> QED
    BY Zenon, <2>1 DEF Process
<1>2. /\ q.state = s /\ q.at = r.at /\ q.pending_io = r.pending_io
      /\ q.wake_reason = r.wake_reason /\ q.wait_token = r.wait_token
      /\ q.wait_deadline = r.wait_deadline /\ q.timeout = r.timeout
      /\ q.io_token = r.io_token /\ q.reason = r.reason
      /\ q.signal_mask = r.signal_mask /\ q.in_sigsuspend = r.in_sigsuspend
      /\ q.frames = r.frames
  BY Zenon DEF Process
<1> HIDE DEF q
<1>3. Sound(p, q)
  BY Zenon, <1>2 DEF Sound, Placed, Nested, Truthful
<1>4. Keeps(r, q)
  BY <1>2 DEF Keeps, KeepsWait, Waits, KindAt
<1> QED
  BY <1>1, <1>2, <1>3, <1>4 DEF q

\* switch_by_index_guarded to a runnable process.
LEMMA SwitchReached ==
    ASSUME SchedInv, NEW P, NEW Q \in SUBSET Entry, Reached(P, Q),
           NEW n \in Pid, n # cur, P[n].state = "Runnable", SwitchTo(P, Q, n)
    PROVE  /\ Reached(proc', timers') /\ CpuPlaced(proc'[cur'], mode')
           /\ Idles(proc') \subseteq Idles(P)
<1> DEFINE s == IF P[cur].state = "Running" THEN "Runnable" ELSE P[cur].state
           S == [P EXCEPT ![cur].state = IF @ = "Running" THEN "Runnable" ELSE @,
                          ![n].state = "Running"]
           C == [P EXCEPT ![cur] = [P[cur] EXCEPT !.state = s]]
           N == [C EXCEPT ![n] = [P[n] EXCEPT !.state = "Running"]]
<1>1. /\ proc' = S /\ cur' = n /\ timers' = DrainStale(S, Q)
      /\ mode' = IF S[n].at = "user" THEN "user" ELSE "kernel"
  BY DEF SwitchTo, Rearm
<1>2. P \in [Pid -> Process] /\ cur \in Pid /\ P[cur] \in Process /\ P[n] \in Process
      /\ Sound(cur, P[cur]) /\ Sound(n, P[n])
  BY DEF Reached, TableSound, SchedInv, CpuInv
<1>3. S = N
  BY <1>2
<1>4. Reached(C, Q) /\ Idles(C) \subseteq Idles(P) /\ C[n] = P[n]
  <2>1. CASE P[cur].state = "Running"
    <3>1. s = "Runnable"
      BY <2>1
    <3>2. /\ [P[cur] EXCEPT !.state = s] \in Process
          /\ Sound(cur, [P[cur] EXCEPT !.state = s])
          /\ Keeps(P[cur], [P[cur] EXCEPT !.state = s])
      BY Zenon, <1>2, <3>1, SoundState
    <3> HIDE DEF s
    <3>3. C[n] = P[n]
      BY <1>2
    <3> QED
      BY Zenon, <1>2, <3>2, <3>3, KeepsOwn
  <2>2. CASE P[cur].state # "Running"
    <3>1. [P[cur] EXCEPT !.state = s] = P[cur]
      BY <1>2, <2>2 DEF Process
    <3>2. C = P
      BY <1>2, <3>1
    <3> QED
      BY Zenon, <3>2
  <2> QED
    BY Zenon, <2>1, <2>2
<1> HIDE DEF C
<1>5. LET r == [P[n] EXCEPT !.state = "Running"]
      IN  /\ r \in Process /\ Sound(n, r) /\ Keeps(C[n], r) /\ r.at = P[n].at
          /\ r.state = "Running"
  BY Zenon, <1>2, <1>4, SoundState
<1>6. Reached(N, Q) /\ Idles(N) \subseteq Idles(C)
  BY Zenon, <1>4, <1>5, KeepsOwn
<1>7. N[n].state = "Running" /\ N[n].at = P[n].at
  <2>1. N[n] = [P[n] EXCEPT !.state = "Running"]
    BY <1>4 DEF Reached
  <2> QED
    BY Zenon, <1>5, <2>1
<1> HIDE DEF N, S
<1>8. Reached(proc', timers')
  BY <1>1, <1>3, <1>6, DrainReached
<1> QED
  BY <1>1, <1>3, <1>4, <1>6, <1>7, <1>8 DEF CpuPlaced

\* The CPU stays with cur.
LEMMA ContinueReached ==
    ASSUME NEW P, Reached(P, timers), NEW m, CpuPlaced(P[cur], m), Continue(P, m)
    PROVE  /\ Reached(proc', timers') /\ CpuPlaced(proc'[cur'], mode')
           /\ Idles(proc') = Idles(P)
  BY DEF Continue

\* schedule_now, whether it switches or not.
LEMMA ScheduleReached ==
    ASSUME SchedInv, NEW P, Reached(P, timers), NEW R, Reached(R, timers),
           NEW m, CpuPlaced(R[cur], m), ScheduleNow(P, Continue(R, m))
    PROVE  /\ Reached(proc', timers') /\ CpuPlaced(proc'[cur'], mode')
           /\ Idles(proc') \subseteq Idles(P) \cup Idles(R)
<1> DEFINE n == NextRunnable(P, table, cur)
<1>1. IF n # NoPid THEN SwitchTo(P, timers, n) ELSE Continue(R, m)
  BY DEF ScheduleNow
<1>2. timers \in SUBSET Entry /\ table \in Seq(Pid)
  BY DEF SchedInv, CpuInv
<1>3. CASE n # NoPid
  <2>1. n \in Pid /\ n # cur /\ P[n].state = "Runnable"
    BY <1>2, <1>3, NextRunnableFinds
  <2>2. SwitchTo(P, timers, n)
    BY <1>1, <1>3
  <2> HIDE DEF n
  <2> QED
    BY <1>2, <2>1, <2>2, SwitchReached
<1>4. CASE n = NoPid
  BY <1>1, <1>4, ContinueReached
<1> QED
  BY <1>3, <1>4

\* cond_resched, whether or not a reschedule is pending.
LEMMA CondReschedReached ==
    ASSUME SchedInv, NEW P, Reached(P, timers), NEW m, CpuPlaced(P[cur], m),
           CondResched(P, m)
    PROVE  /\ Reached(proc', timers') /\ CpuPlaced(proc'[cur'], mode')
           /\ Idles(proc') \subseteq Idles(P)
<1>1. CASE resched
  BY <1>1, ScheduleReached DEF CondResched
<1>2. CASE ~resched
  BY <1>2, ContinueReached DEF CondResched
<1> QED
  BY <1>1, <1>2

\* cur waits under a token that no entry has.
LEMMA PublishReached ==
    ASSUME NEW P, Reached(P, timers), timers \in SUBSET Entry, NEW c \in Pid,
           NEW r \in Process, Sound(c, r), NEW e \in Entry, e.pid = c,
           e.token = r.wait_token, e.deadline = r.wait_deadline, e.kind = KindAt(r),
           \A f \in timers : f.token # e.token, r.wake_reason # "Deadline"
    PROVE  Reached([P EXCEPT ![c] = r], timers \cup {e})
<1> DEFINE R == [P EXCEPT ![c] = r]
           Q == timers \cup {e}
<1>1. P \in [Pid -> Process] /\ R \in [Pid -> Process] /\ Q \subseteq Entry
  BY DEF Reached
<1>2. \A p \in Pid : R[p] = IF p = c THEN r ELSE P[p]
  BY <1>1
<1>3. QueueSound(P, timers) /\ \A p \in Pid : Sound(p, P[p])
  BY DEF Reached, TableSound
<1> HIDE DEF R
<1>4. ASSUME NEW f \in Q, IsLive(R, f)
      PROVE  f.deadline = R[f.pid].wait_deadline /\ f.kind = KindAt(R[f.pid])
  <2>1. CASE f = e
    BY <1>2, <2>1
  <2>2. CASE f # e
    <3>1. f \in timers /\ f.pid \in Pid
      BY <1>1, <2>2 DEF Entry
    <3>2. f.pid # c
      BY <1>2, <1>4, <3>1 DEF IsLive
    <3> QED
      BY <1>2, <1>3, <1>4, <3>1, <3>2 DEF QueueSound, IsLive
  <2> QED
    BY <2>1, <2>2
<1>5. ASSUME NEW p \in Pid, R[p].state \in {"AwaitingIo", "Sleeping"}, R[p].wait_token # 0
      PROVE  \E f \in Q : f.pid = p /\ f.token = R[p].wait_token
  BY <1>2, <1>3, <1>5 DEF QueueSound
<1>6. \A f, g \in Q : f.token = g.token => f = g
  BY <1>3 DEF QueueSound
<1> HIDE DEF Q
<1>7. QueueSound(R, Q)
  BY <1>4, <1>5, <1>6 DEF QueueSound
<1>8. \A p \in Pid : Sound(p, R[p])
  BY <1>2, <1>3
<1>9. Reached(R, Q)
  BY <1>1, <1>2, <1>7, <1>8 DEF Reached, TableSound
<1> QED
  BY <1>9 DEF R, Q

------------------------------------------------------------------------------
(* What others do to the entry of a process.                                 *)

\* From r to q the place, the signal frames and a token that is kept are those
\* of r, and only a process that waits gets a reason to wake.
Quiet(p, r, q) ==
    /\ q \in Process
    /\ q.at = r.at /\ q.timeout = r.timeout /\ q.io_token = r.io_token
    /\ q.reason = r.reason /\ q.signal_mask = r.signal_mask
    /\ q.in_sigsuspend = r.in_sigsuspend /\ q.frames = r.frames
    /\ q.wait_token # 0 => /\ q.wait_token = r.wait_token
                           /\ q.wait_deadline = r.wait_deadline
    /\ q.state = "AwaitingIo" => r.state = "AwaitingIo" /\ q.pending_io = r.pending_io
    /\ q.state = "Sleeping" => r.state = "Sleeping"
    /\ q.wake_reason # r.wake_reason => Waits(r) /\ q.wake_reason # "Deadline"
    /\ p = Service /\ q.state \in {"Dead", "Free"} => r.state \in {"Dead", "Free"}

\* Quiet writes add up.
LEMMA QuietTrans ==
    ASSUME NEW p, NEW r, NEW q, NEW s, Quiet(p, r, q), Quiet(p, q, s)
    PROVE  Quiet(p, r, s)
  BY DEF Quiet, Waits

\* Leaving an entry alone is quiet.
LEMMA QuietRefl ==
    ASSUME NEW p, NEW r \in Process
    PROVE  Quiet(p, r, r)
  BY DEF Quiet

\* A quiet write keeps the entry sound and begins no wait.
LEMMA QuietSound ==
    ASSUME NEW p, NEW r, NEW q, Sound(p, r), Quiet(p, r, q)
    PROVE  Sound(p, q) /\ Keeps(r, q)
<1>1. Placed(q)
  BY DEF Sound, Placed, Quiet, Waits
<1>2. Nested(q)
  BY DEF Sound, Nested, Quiet
<1>3. Sound(p, q)
  BY <1>1, <1>2 DEF Sound, Truthful, Quiet
<1> QED
  BY <1>3 DEF Keeps, KeepsWait, Quiet, Waits, KindAt

\* A table in which every entry changed quietly is as sound as the old one.
LEMMA QuietReached ==
    ASSUME NEW P, NEW R, NEW Q \in SUBSET Entry, Reached(P, Q),
           R = [p \in Pid |-> R[p]], \A p \in Pid : Quiet(p, P[p], R[p])
    PROVE  Reached(R, Q) /\ Idles(R) \subseteq Idles(P)
<1>1. R \in [Pid -> Process]
  BY DEF Quiet
<1>2. \A p \in Pid : Keeps(P[p], R[p]) /\ Sound(p, R[p])
  BY QuietSound DEF Reached, TableSound
<1> QED
  BY <1>1, <1>2, KeepsReached

\* Only state, pending_io and wake_reason change in a wake.
LEMMA WakeQuiet ==
    ASSUME NEW p, NEW r \in Process, NEW s \in {"Runnable", "Stopped", "Dead"},
           p = Service => s # "Dead",
           NEW b \in BOOLEAN, NEW w \in {"Event", "Signal"}
    PROVE  /\ Quiet(p, r, [r EXCEPT !.state = s, !.pending_io = b])
           /\ Waits(r) => Quiet(p, r, [r EXCEPT !.state = s, !.wake_reason = w])
           /\ Waits(r) => Quiet(p, r, [r EXCEPT !.state = s, !.pending_io = b,
                                                !.wake_reason = w])
           /\ r.state # "AwaitingIo" => Quiet(p, r, [r EXCEPT !.pending_io = b])
<1>1. s \in State /\ w \in Reason /\ b \in BOOLEAN /\ w # "Deadline"
      /\ s \notin {"AwaitingIo", "Sleeping", "Free"}
  BY DEF State, Reason
<1> DEFINE q1 == [r EXCEPT !.state = s, !.pending_io = b]
           q2 == [r EXCEPT !.state = s, !.wake_reason = w]
           q3 == [r EXCEPT !.state = s, !.pending_io = b, !.wake_reason = w]
           q4 == [r EXCEPT !.pending_io = b]
           same(q) == /\ q.at = r.at /\ q.timeout = r.timeout /\ q.io_token = r.io_token
                      /\ q.reason = r.reason /\ q.signal_mask = r.signal_mask
                      /\ q.in_sigsuspend = r.in_sigsuspend /\ q.frames = r.frames
                      /\ q.wait_token = r.wait_token /\ q.wait_deadline = r.wait_deadline
<1>2. q1 \in Process /\ q2 \in Process /\ q3 \in Process /\ q4 \in Process
  BY Zenon, <1>1 DEF Process
<1>3. same(q1) /\ same(q2) /\ same(q3) /\ same(q4)
  BY Zenon DEF Process
<1>4. /\ q1.state = s /\ q2.state = s /\ q3.state = s /\ q4.state = r.state
      /\ q1.wake_reason = r.wake_reason /\ q4.wake_reason = r.wake_reason
      /\ q2.wake_reason = w /\ q3.wake_reason = w
  BY Zenon DEF Process
<1> HIDE DEF q1, q2, q3, q4
<1>5. Quiet(p, r, q1) /\ (Waits(r) => Quiet(p, r, q2))
  BY <1>1, <1>2, <1>3, <1>4 DEF Quiet
<1>6. (Waits(r) => Quiet(p, r, q3)) /\ (r.state # "AwaitingIo" => Quiet(p, r, q4))
  BY <1>1, <1>2, <1>3, <1>4 DEF Quiet
<1> QED
  BY <1>5, <1>6 DEF q1, q2, q3, q4

\* Forgetting a wait is quiet, and so is queueing a signal.
LEMMA ClearPendQuiet ==
    ASSUME NEW p, NEW r \in Process, NEW sig \in Sig
    PROVE  /\ Quiet(p, r, ClearWait(r)) /\ ClearWait(r).state = r.state
           /\ Quiet(p, r, [r EXCEPT !.pending_signals = @ \cup {sig}])
           /\ [r EXCEPT !.pending_signals = @ \cup {sig}].state = r.state
<1> DEFINE c == ClearWait(r)
           q == [r EXCEPT !.pending_signals = @ \cup {sig}]
<1>1. c \in Process
  BY ClearWaitPassive DEF Passive
<1>2. q \in Process
  BY PendPassive DEF Passive
<1>3. /\ c.at = r.at /\ c.timeout = r.timeout /\ c.io_token = r.io_token
      /\ c.reason = r.reason /\ c.signal_mask = r.signal_mask
      /\ c.in_sigsuspend = r.in_sigsuspend /\ c.frames = r.frames
      /\ c.wait_token = 0 /\ c.state = r.state /\ c.pending_io = r.pending_io
      /\ c.wake_reason = r.wake_reason
  BY Zenon DEF ClearWait, Process
<1>4. /\ q.at = r.at /\ q.timeout = r.timeout /\ q.io_token = r.io_token
      /\ q.reason = r.reason /\ q.signal_mask = r.signal_mask
      /\ q.in_sigsuspend = r.in_sigsuspend /\ q.frames = r.frames
      /\ q.wait_token = r.wait_token /\ q.state = r.state /\ q.pending_io = r.pending_io
      /\ q.wait_deadline = r.wait_deadline /\ q.wake_reason = r.wake_reason
  BY Zenon DEF Process
<1> HIDE DEF c, q
<1>5. Quiet(p, r, c) /\ Quiet(p, r, q)
  BY <1>1, <1>2, <1>3, <1>4 DEF Quiet
<1> QED
  BY <1>3, <1>4, <1>5 DEF c, q

\* Process::queue_signal is quiet.
LEMMA QueueSignalQuiet ==
    ASSUME NEW p, NEW r \in Process, NEW sig \in Sig
    PROVE  Quiet(p, r, QueueSignal(r, sig))
<1> DEFINE q == [r EXCEPT !.pending_signals = @ \cup {sig}]
<1>1. Quiet(p, r, q) /\ q.state = r.state /\ q \in Process
  BY ClearPendQuiet DEF Quiet
<1>2. /\ Quiet(p, q, ClearWait(q)) /\ ClearWait(q).state = q.state
      /\ ClearWait(q) \in Process
  <2> HIDE DEF q
  <2> QED
    BY Zenon, <1>1, ClearPendQuiet DEF Quiet
<1>3. \/ QueueSignal(r, sig) = q
      \/ QueueSignal(r, sig) = [q EXCEPT !.state = "Runnable", !.pending_io = FALSE]
      \/ /\ Waits(r)
         /\ QueueSignal(r, sig) = [ClearWait(q) EXCEPT !.state = "Runnable",
                                     !.pending_io = TRUE, !.wake_reason = "Signal"]
      \/ /\ Waits(r)
         /\ QueueSignal(r, sig) = [ClearWait(q) EXCEPT !.state = "Runnable",
                                     !.wake_reason = "Signal"]
  BY DEF QueueSignal, Waits
<1> HIDE DEF q
<1>4. Waits(r) => Waits(ClearWait(q))
  BY <1>1, <1>2 DEF Waits
<1>5. /\ Quiet(p, q, [q EXCEPT !.state = "Runnable", !.pending_io = FALSE])
      /\ Waits(r) => Quiet(p, ClearWait(q), [ClearWait(q) EXCEPT !.state = "Runnable",
                                     !.pending_io = TRUE, !.wake_reason = "Signal"])
      /\ Waits(r) => Quiet(p, ClearWait(q), [ClearWait(q) EXCEPT !.state = "Runnable",
                                     !.wake_reason = "Signal"])
  BY Zenon, <1>1, <1>2, <1>4, WakeQuiet
<1> QED
  BY <1>1, <1>2, <1>3, <1>5, QuietTrans

\* The forced wake of a parent is quiet.
LEMMA ForceWakeQuiet ==
    ASSUME NEW p, NEW r \in Process
    PROVE  Quiet(p, r, ForceWake(r))
  BY Zenon, WakeQuiet, QuietRefl DEF ForceWake

\* wake_process is quiet, and leaves nobody in await_io_until's sleep.
LEMMA WakeProcessQuiet ==
    ASSUME NEW p, NEW r \in Process
    PROVE  Quiet(p, r, WakeProcess(r)) /\ WakeProcess(r).state # "AwaitingIo"
<1>1. CASE r.state = "AwaitingIo"
  <2>1. WakeProcess(r) = [r EXCEPT !.state = "Runnable", !.pending_io = TRUE,
                                   !.wake_reason = "Event"]
    BY <1>1 DEF WakeProcess
  <2>2. WakeProcess(r).state = "Runnable"
    BY <2>1 DEF Process
  <2>3. Waits(r)
    BY <1>1 DEF Waits
  <2>4. Quiet(p, r, [r EXCEPT !.state = "Runnable", !.pending_io = TRUE,
                              !.wake_reason = "Event"])
    BY Zenon, <2>3, WakeQuiet
  <2> QED
    BY <2>1, <2>2, <2>4
<1>2. CASE r.state \in {"Dead", "Stopped", "Free"}
  <2>1. WakeProcess(r) = r
    BY <1>2 DEF WakeProcess
  <2> QED
    BY <1>2, <2>1, QuietRefl
<1>3. CASE r.state \notin {"AwaitingIo", "Dead", "Stopped", "Free"}
  <2>1. WakeProcess(r) = [r EXCEPT !.pending_io = TRUE]
    BY <1>3 DEF WakeProcess
  <2>2. WakeProcess(r).state = r.state
    BY <2>1 DEF Process
  <2>3. Quiet(p, r, [r EXCEPT !.pending_io = TRUE])
    <3>1. "Runnable" \in {"Runnable", "Stopped", "Dead"} /\ "Event" \in {"Event", "Signal"}
      OBVIOUS
    <3> QED
      BY Zenon, <1>3, <3>1, WakeQuiet
  <2> QED
    BY <1>3, <2>1, <2>2, <2>3
<1> QED
  BY <1>1, <1>2, <1>3

\* apply_signal_to_process is quiet; the network service is never a target.
LEMMA ApplySignalQuiet ==
    ASSUME NEW p, p # Service, NEW r \in Process, NEW sig \in Sig
    PROVE  Quiet(p, r, ApplySignal(r, sig))
<1> DEFINE mark(s, w) == [r EXCEPT !.state = s, !.wait_status = w,
                                   !.wait_reported = FALSE]
<1>1. ASSUME NEW s \in {"Runnable", "Stopped", "Dead"},
             NEW w \in {"continued", "stopped", "killed"}
      PROVE  Quiet(p, r, mark(s, w))
  <2>1. s \in State /\ w \in Status /\ s \notin {"AwaitingIo", "Sleeping", "Free"}
    BY DEF State, Status
  <2>2. mark(s, w) \in Process
    BY Zenon, <2>1 DEF Process
  <2> DEFINE q == mark(s, w)
  <2>3. /\ q.at = r.at /\ q.timeout = r.timeout /\ q.io_token = r.io_token
        /\ q.reason = r.reason /\ q.signal_mask = r.signal_mask
        /\ q.in_sigsuspend = r.in_sigsuspend /\ q.frames = r.frames
        /\ q.wait_token = r.wait_token /\ q.state = s
        /\ q.wait_deadline = r.wait_deadline /\ q.wake_reason = r.wake_reason
    BY Zenon DEF Process
  <2> HIDE DEF q
  <2> QED
    BY <2>1, <2>2, <2>3 DEF Quiet, q
<1>2. Quiet(p, r, mark("Runnable", "continued"))
  BY <1>1
<1>3. \/ ApplySignal(r, sig) = QueueSignal(r, sig)
      \/ ApplySignal(r, sig) = QueueSignal(mark("Runnable", "continued"), sig)
      \/ ApplySignal(r, sig) = mark("Stopped", "stopped")
      \/ ApplySignal(r, sig) = mark("Dead", "killed")
  BY DEF ApplySignal
<1>4. Quiet(p, r, mark("Stopped", "stopped")) /\ Quiet(p, r, mark("Dead", "killed"))
  BY <1>1
<1> HIDE DEF mark
<1>5. /\ Quiet(p, r, QueueSignal(r, sig))
      /\ Quiet(p, r, QueueSignal(mark("Runnable", "continued"), sig))
  <2>1. Quiet(p, mark("Runnable", "continued"),
              QueueSignal(mark("Runnable", "continued"), sig))
    BY Zenon, <1>2, QueueSignalQuiet DEF Quiet
  <2> QED
    BY <1>2, <2>1, QueueSignalQuiet, QuietTrans
<1> QED
  BY <1>3, <1>4, <1>5

\* reparent_children is quiet.
LEMMA ReparentQuiet ==
    ASSUME NEW P \in [Pid -> Process], NEW Dying
    PROVE  /\ Reparent(P, Dying) = [p \in Pid |-> Reparent(P, Dying)[p]]
           /\ \A p \in Pid : Quiet(p, P[p], Reparent(P, Dying)[p])
<1> DEFINE moved == {c \in DOMAIN P : P[c].state # "Free"
                                      /\ P[c].parent_pid \in Dying \ {InitPid}}
           R == [c \in DOMAIN P |-> IF c \in moved
                                    THEN [P[c] EXCEPT !.parent_pid = InitPid]
                                    ELSE P[c]]
           N == [R EXCEPT ![InitPid] = QueueSignal(@, SIGCHLD)]
<1>1. ASSUME NEW p, NEW r \in Process
      PROVE  Quiet(p, r, [r EXCEPT !.parent_pid = InitPid])
  <2> DEFINE q == [r EXCEPT !.parent_pid = InitPid]
  <2>1. q \in Process
    BY Zenon, ConstantTypes DEF Process
  <2>2. /\ q.at = r.at /\ q.timeout = r.timeout /\ q.io_token = r.io_token
        /\ q.reason = r.reason /\ q.signal_mask = r.signal_mask
        /\ q.in_sigsuspend = r.in_sigsuspend /\ q.frames = r.frames
        /\ q.wait_token = r.wait_token /\ q.state = r.state /\ q.pending_io = r.pending_io
        /\ q.wait_deadline = r.wait_deadline /\ q.wake_reason = r.wake_reason
    BY Zenon DEF Process
  <2> HIDE DEF q
  <2> QED
    BY <2>1, <2>2 DEF Quiet, q
<1>2. R \in [Pid -> Process] /\ \A p \in Pid : Quiet(p, P[p], R[p])
  <2>1. \A p \in Pid : Quiet(p, P[p], R[p])
    BY <1>1, QuietRefl
  <2> QED
    BY Zenon, <2>1 DEF Quiet
<1>3. Reparent(P, Dying) \in {R, N}
  BY DEF Reparent
<1>4. N \in [Pid -> Process] /\ \A p \in Pid : Quiet(p, P[p], N[p])
  <2> HIDE DEF R
  <2>1. \A p \in Pid : R[p] \in Process /\ Quiet(p, R[p], QueueSignal(R[p], SIGCHLD))
    BY <1>2, QueueSignalQuiet, ChldAssumption
  <2>2. \A p \in Pid : Quiet(p, P[p], QueueSignal(R[p], SIGCHLD))
    BY <1>2, <2>1, QuietTrans
  <2>3. \A p \in Pid : Quiet(p, P[p], N[p])
    BY <1>2, <2>2
  <2> QED
    BY Zenon, <1>2, <2>3 DEF Quiet
<1> QED
  <2> HIDE DEF R, N
  <2> QED
    BY <1>2, <1>3, <1>4

\* notify_all is quiet, and none of W is left in await_io_until's sleep.
LEMMA NotifyReached ==
    ASSUME NEW P, NEW Q \in SUBSET Entry, Reached(P, Q), NEW W
    PROVE  Reached(Notify(P, W), Q) /\ Idles(Notify(P, W)) \subseteq Idles(P) \ W
<1>1. P \in [Pid -> Process]
  BY DEF Reached
<1>2. \A p \in Pid : Notify(P, W)[p] = IF p \in W THEN WakeProcess(P[p]) ELSE P[p]
  BY DEF Notify
<1>3. \A p \in Pid : Quiet(p, P[p], Notify(P, W)[p])
  BY <1>1, <1>2, WakeProcessQuiet, QuietRefl
<1>4. Notify(P, W) = [p \in Pid |-> Notify(P, W)[p]]
  BY DEF Notify
<1>5. \A p \in Pid : p \in W => Notify(P, W)[p].state # "AwaitingIo"
  BY <1>1, <1>2, WakeProcessQuiet
<1>6. Reached(Notify(P, W), Q) /\ Idles(Notify(P, W)) \subseteq Idles(P)
  BY <1>3, <1>4, QuietReached
<1> QED
  BY <1>5, <1>6 DEF Idles

\* The expiry of the deadline of the current wait ends that wait.
LEMMA TimerWake ==
    ASSUME NEW p, NEW r \in Process, Sound(p, r), r.wait_token # 0, r.wait_deadline = 0,
           NEW q, q = WakeFromTimer(r, KindAt(r))
    PROVE  /\ Sound(p, q) /\ KeepsWait(r, q) /\ ~Waits(q) /\ q.at = r.at
           /\ q.wake_reason = "Deadline" => r.wake_reason = "Deadline" \/ r.wait_deadline = 0
<1>1. CASE ~Waits(r)
  <2>1. q = r
    BY <1>1 DEF WakeFromTimer, Waits
  <2> QED
    BY <1>1, <2>1 DEF KeepsWait, Waits
<1>2. CASE Waits(r)
  <2> DEFINE c == ClearWait(r)
  <2>1. c \in Process /\ c.wait_token = 0 /\ c.at = r.at /\ c.timeout = r.timeout
        /\ c.signal_mask = r.signal_mask /\ c.in_sigsuspend = r.in_sigsuspend
        /\ c.frames = r.frames /\ c.reason = r.reason
    <3>1. c \in Process
      BY ClearWaitPassive DEF Passive
    <3> QED
      BY Zenon, <3>1 DEF ClearWait, Process
  <2>2. \/ q = [c EXCEPT !.state = "Runnable", !.wake_reason = "Deadline"]
        \/ q = [c EXCEPT !.state = "Runnable", !.pending_io = TRUE,
                         !.wake_reason = "Deadline"]
    BY <1>2 DEF Waits, Sound, Placed, KindAt, WakeFromTimer, AwaitPoint, SleepPoint
  <2> HIDE DEF c
  <2>3. /\ q.wait_token = 0 /\ q.at = r.at /\ q.timeout = r.timeout
        /\ q.signal_mask = r.signal_mask /\ q.in_sigsuspend = r.in_sigsuspend
        /\ q.frames = r.frames /\ q.reason = r.reason
        /\ q.state = "Runnable" /\ q.wake_reason = "Deadline"
    BY ZenonT(40), <2>1, <2>2 DEF Process
  <2>4. r.at \in AwaitPoint \cup SleepPoint
    BY <1>2 DEF Waits, Sound, Placed
  <2>5. Placed(q) /\ Nested(q)
    BY Zenon, <2>3, <2>4 DEF Sound, Placed, Nested
  <2>6. Sound(p, q)
    BY <2>3, <2>5 DEF Sound, Truthful
  <2> QED
    BY <2>3, <2>6 DEF KeepsWait, Waits
<1> QED
  BY <1>1, <1>2

\* expire_due and process_deferred_expiry: every wait whose entry leaves the queue
\* ends, and only waits that are due get the reason Deadline.
LEMMA ExpireReached ==
    ASSUME SchedInv, TableSound(proc, timers)
    PROVE  LET E == ExpireDue(proc, timers)
           IN  /\ Reached(E, NotDue(timers)) /\ Idles(E) \subseteq Idles(proc)
               /\ \A p \in Pid : E[p].at = proc[p].at /\ (Waits(E[p]) => E[p] = proc[p])
<1> DEFINE E == ExpireDue(proc, timers)
           due(p) == {e \in LiveEntries(proc, timers) : e.pid = p /\ e.deadline = 0}
<1>1. proc \in [Pid -> Process] /\ timers \in SUBSET Entry /\ E \in [Pid -> Process]
  BY ExpireDuePassive DEF SchedInv, CpuInv
<1>2. \A p \in Pid : Sound(p, proc[p])
  BY DEF TableSound
<1>3. ASSUME NEW p \in Pid
      PROVE  /\ Sound(p, E[p]) /\ KeepsWait(proc[p], E[p]) /\ E[p].at = proc[p].at
             /\ Waits(E[p]) => E[p] = proc[p] /\ due(p) = {}
             /\ E[p].wake_reason = "Deadline" =>
                   proc[p].wake_reason = "Deadline" \/ proc[p].wait_deadline = 0
  <2>1. CASE due(p) = {}
    <3>1. E[p] = proc[p]
      BY Zenon, <1>1, <2>1 DEF ExpireDue
    <3> QED
      BY Zenon, <1>2, <2>1, <3>1 DEF KeepsWait
  <2>2. CASE due(p) # {}
    <3> DEFINE e == CHOOSE e \in LiveEntries(proc, timers) : e.pid = p /\ e.deadline = 0
    <3>1. e \in timers /\ IsLive(proc, e) /\ e.pid = p /\ e.deadline = 0
      BY <2>2 DEF LiveEntries
    <3>2. E[p] = WakeFromTimer(proc[p], e.kind)
      BY Zenon, <1>1, <2>2 DEF ExpireDue
    <3> HIDE DEF e, E
    <3>3. /\ proc[p].wait_deadline = 0 /\ e.kind = KindAt(proc[p])
          /\ proc[p].wait_token = e.token
      BY <3>1 DEF TableSound, QueueSound, IsLive
    <3>4. proc[p].wait_token # 0
      BY <1>1, <3>1, <3>3, WaitsAssumption DEF Entry
    <3>5. proc[p] \in Process /\ E[p] = WakeFromTimer(proc[p], KindAt(proc[p]))
      BY <1>1, <3>2, <3>3
    <3>6. Sound(p, proc[p])
      BY <1>2
    <3> QED
      BY Zenon, <3>3, <3>4, <3>5, <3>6, TimerWake
  <2> QED
    BY Zenon, <2>1, <2>2
<1> HIDE DEF E
<1>4. QueueSound(E, timers)
  BY <1>1, <1>3, KeepsQueue DEF TableSound
<1>5. ASSUME NEW p \in Pid, E[p].state \in {"AwaitingIo", "Sleeping"}, E[p].wait_token # 0
      PROVE  \E e \in NotDue(timers) : e.pid = p /\ e.token = E[p].wait_token
  <2>1. PICK e \in timers : e.pid = p /\ e.token = E[p].wait_token
    BY <1>4, <1>5 DEF QueueSound
  <2>2. E[p] = proc[p] /\ due(p) = {}
    BY Zenon, <1>3, <1>5 DEF Waits
  <2>3. e.deadline # 0
    BY <2>1, <2>2 DEF LiveEntries, IsLive
  <2> QED
    BY <2>1, <2>3 DEF NotDue
<1>6. QueueSound(E, NotDue(timers))
  BY Zenon, <1>4, <1>5 DEF QueueSound, NotDue
<1>7. Reached(E, NotDue(timers))
  BY <1>1, <1>3, <1>6 DEF Reached, TableSound
<1>8. Idles(E) \subseteq Idles(proc)
  BY <1>3 DEF Idles, Waits
<1> QED
  BY Zenon, <1>3, <1>7, <1>8 DEF E

------------------------------------------------------------------------------
(* What cur does to its own entry.                                           *)

\* The entry is not inside a wait.
Off(r) == r.at \notin AwaitPoint \cup SleepPoint

\* Outside of a wait an entry has no token, no reason to wake and a state that
\* is not that of a wait.
LEMMA OffRest ==
    ASSUME NEW p, NEW r, Sound(p, r), Off(r)
    PROVE  ~Waits(r) /\ r.wait_token = 0 /\ r.wake_reason = "none"
  BY DEF Sound, Placed, Off, Waits

\* A step of cur outside of its waits.
LEMMA OwnMove ==
    ASSUME NEW p, NEW r, Sound(p, r), NEW q, Off(q), ~Waits(q),
           q.wait_token = 0, q.wake_reason = "none", Nested(q),
           q.reason = "Deadline" => q.at \in {"woke", "slept"} /\ (p # Service => q.timeout = 0),
           p = Service => q.at \in {"serve", "woke"} /\ q.state \notin {"Dead", "Free"}
    PROVE  Sound(p, q) /\ Keeps(r, q)
  BY Zenon DEF Sound, Placed, Truthful, Off, Waits, Keeps, KeepsWait

\* A process blocks without a timeout.
LEMMA BlockReached ==
    ASSUME NEW P, NEW Q \in SUBSET Entry, Reached(P, Q), NEW c \in Pid,
           NEW r \in Process, Sound(c, r), r.wait_token = 0, r.wake_reason # "Deadline"
    PROVE  /\ Reached([P EXCEPT ![c] = r], Q)
           /\ Idles([P EXCEPT ![c] = r]) \subseteq Idles(P) \cup {c}
<1> DEFINE R == [P EXCEPT ![c] = r]
<1>1. P \in [Pid -> Process] /\ R \in [Pid -> Process]
  BY DEF Reached
<1>2. \A p \in Pid : R[p] = IF p = c THEN r ELSE P[p]
  BY <1>1
<1>3. QueueSound(P, Q) /\ \A p \in Pid : Sound(p, P[p])
  BY DEF Reached, TableSound
<1> HIDE DEF R
<1>4. \A e \in Q : e.pid \in Pid /\ e.token # 0
  BY WaitsAssumption DEF Entry
<1>5. QueueSound(R, Q)
  BY <1>2, <1>3, <1>4 DEF QueueSound, IsLive
<1>6. Reached(R, Q)
  BY Zenon, <1>1, <1>2, <1>3, <1>5 DEF Reached, TableSound
<1> QED
  BY <1>2, <1>6 DEF R, Idles

------------------------------------------------------------------------------
(* Signal frames.                                                            *)

\* Masks are finite, and one more caught signal makes one bigger by one.
LEMMA MaskCard ==
    ASSUME NEW m \in SUBSET Sig
    PROVE  /\ Cardinality(m \cap Caught) \in Nat
           /\ Cardinality(m \cap Caught) <= Cardinality(Caught)
           /\ Cardinality(Caught) \in Nat
           /\ \A sig \in Caught \ m :
                 Cardinality((m \cup {sig}) \cap Caught) = Cardinality(m \cap Caught) + 1
<1>1. IsFiniteSet(1..64)
  <2>1. 1 \in Int /\ 64 \in Int
    OBVIOUS
  <2> QED
    BY Zenon, <2>1, FS_Interval
<1>2. IsFiniteSet(Caught)
  <2>1. Caught \subseteq 1..64
    BY SigAssumption
  <2> QED
    BY Zenon, <1>1, <2>1, FS_Subset
<1>3. /\ IsFiniteSet(m \cap Caught) /\ Cardinality(m \cap Caught) <= Cardinality(Caught)
  <2>1. m \cap Caught \in SUBSET Caught
    OBVIOUS
  <2> QED
    BY <1>2, <2>1, FS_Subset
<1>4. Cardinality(m \cap Caught) \in Nat /\ Cardinality(Caught) \in Nat
  BY <1>2, <1>3, FS_CardinalityType
<1>5. ASSUME NEW sig \in Caught \ m
      PROVE  Cardinality((m \cup {sig}) \cap Caught) = Cardinality(m \cap Caught) + 1
  <2>1. (m \cup {sig}) \cap Caught = (m \cap Caught) \cup {sig} /\ sig \notin m \cap Caught
    OBVIOUS
  <2> QED
    BY <1>3, <2>1, FS_AddElement
<1> QED
  BY Zenon, <1>3, <1>4, <1>5

\* deliver_pending_signal pushes a frame only with its signal newly masked.
LEMMA DeliverNested ==
    ASSUME NEW r \in Process, Nested(r), NEW sig \in r.pending_signals \ r.signal_mask
    PROVE  LET q == Deliver(r, sig)
           IN  /\ Nested(q) /\ q \in Process /\ q.at = r.at /\ q.state = r.state
               /\ q.wait_token = r.wait_token /\ q.wake_reason = r.wake_reason
               /\ q.reason = r.reason
<1> DEFINE old == IF r.in_sigsuspend THEN r.saved_mask ELSE r.signal_mask
           d   == [r EXCEPT !.pending_signals = @ \ {sig}, !.in_sigsuspend = FALSE,
                            !.saved_mask = {}]
           q == Deliver(r, sig)
<1>1. /\ r.signal_mask \in SUBSET Sig /\ r.saved_mask \in SUBSET Sig /\ sig \in Sig
      /\ r.frames \in Seq(SUBSET Sig) /\ sig \notin r.signal_mask
  BY Zenon DEF Process
<1>2. old \in SUBSET Sig
  BY <1>1
<1>3. q \in Process
  BY <1>1, DeliverOwned DEF Owned
<1>4. d \in Process /\ d.signal_mask = r.signal_mask /\ d.frames = r.frames
      /\ d.in_sigsuspend = FALSE
      /\ d.at = r.at /\ d.state = r.state /\ d.wait_token = r.wait_token
      /\ d.wake_reason = r.wake_reason /\ d.reason = r.reason
  <2>1. r.pending_signals \ {sig} \in SUBSET Sig /\ {} \in SUBSET Sig
    BY DEF Process
  <2>2. d \in Process
    BY Zenon, <2>1 DEF Process
  <2> QED
    BY Zenon, <2>2 DEF Process
<1>5. q = IF sig \in Caught
          THEN [d EXCEPT !.signal_mask = @ \cup {sig}, !.frames = Append(@, old)]
          ELSE [d EXCEPT !.signal_mask = old]
  BY DEF Deliver
<1> HIDE DEF d, q
<1>6. /\ q.in_sigsuspend = FALSE
      /\ q.at = r.at /\ q.state = r.state /\ q.wait_token = r.wait_token
      /\ q.wake_reason = r.wake_reason /\ q.reason = r.reason
  BY Zenon, <1>4, <1>5 DEF Process
<1>7. Cardinality(old \cap Caught) >= Len(r.frames)
  <2>1. CASE r.in_sigsuspend
    <3>1. Len(r.frames) = 0
      BY <2>1 DEF Nested
    <3> HIDE DEF old
    <3> QED
      BY <1>2, <3>1, MaskCard
  <2>2. CASE ~r.in_sigsuspend
    BY <2>2 DEF Nested
  <2> QED
    BY <2>1, <2>2
<1> HIDE DEF old
<1>8. CASE sig \in Caught
  <2>1. q.signal_mask = r.signal_mask \cup {sig} /\ q.frames = Append(r.frames, old)
    BY Zenon, <1>4, <1>5, <1>8 DEF Process
  <2>2. Cardinality(q.signal_mask \cap Caught) = Cardinality(r.signal_mask \cap Caught) + 1
        /\ Cardinality(r.signal_mask \cap Caught) \in Nat
    BY Zenon, <1>1, <1>8, <2>1, MaskCard
  <2>3. /\ Len(q.frames) = Len(r.frames) + 1 /\ Len(r.frames) \in Nat
        /\ q.frames[Len(r.frames) + 1] = old
        /\ \A i \in 1..Len(r.frames) : q.frames[i] = r.frames[i]
    BY <1>1, <1>2, <2>1
  <2>4. \A i \in 1..Len(q.frames) : Cardinality(q.frames[i] \cap Caught) >= i - 1
    <3> SUFFICES ASSUME NEW i \in 1..Len(q.frames)
                 PROVE  Cardinality(q.frames[i] \cap Caught) >= i - 1
      BY Zenon
    <3>1. CASE i = Len(r.frames) + 1
      <4>1. i - 1 = Len(r.frames) /\ q.frames[i] = old
        BY <2>3, <3>1
      <4> QED
        BY <1>7, <4>1
    <3>2. CASE i # Len(r.frames) + 1
      <4>1. i \in 1..Len(r.frames)
        BY <2>3, <3>2
      <4> QED
        BY Zenon, <2>3, <4>1 DEF Nested
    <3> QED
      BY <3>1, <3>2
  <2>5. Cardinality(q.signal_mask \cap Caught) >= Len(q.frames)
    BY <2>2, <2>3 DEF Nested
  <2> QED
    BY <1>3, <1>6, <2>4, <2>5 DEF Nested, q
<1>9. CASE sig \notin Caught
  <2>1. q.signal_mask = old /\ q.frames = r.frames
    BY Zenon, <1>4, <1>5, <1>9 DEF Process
  <2> QED
    BY Zenon, <1>3, <1>6, <1>7, <2>1 DEF Nested, q
<1> QED
  BY Zenon, <1>8, <1>9

------------------------------------------------------------------------------
(* Steps.                                                                    *)

\* What a step keeps, and what it may never do.
WaitStep ==
    /\ WaitInv'
    /\ \A p \in Pid : proc'[p].wake_reason = "Deadline" /\ proc[p].wake_reason # "Deadline"
          => proc[p].wait_deadline = 0

\* A step that ends in a reachable table.
LEMMA Finish ==
    ASSUME Reached(proc', timers'), CpuPlaced(proc'[cur'], mode'),
           PollSlots > MaxPid =>
              \A p \in Idles(proc') : IF p = Service THEN work' /\ ~nic'
                                      ELSE p \in pollq' /\ ~ready'
    PROVE  WaitStep
<1>1. TableSound(proc, timers)'
  BY Zenon DEF Reached, TableSound, Sound, Placed, Truthful, Nested, QueueSound, IsLive, KindAt
<1>2. CpuPlaced(proc[cur], mode)'
  BY Zenon DEF CpuPlaced
<1>3. PollSlots > MaxPid => NoLostWakeup'
  BY DEF NoLostWakeup, Idles
<1> QED
  BY Zenon, <1>1, <1>2, <1>3 DEF WaitStep, WaitInv, Reached

\* A step that leaves the wait queues alone and starts no wait on them.
LEMMA FinishIo ==
    ASSUME WaitInv, Reached(proc', timers'), CpuPlaced(proc'[cur'], mode'),
           Idles(proc') \subseteq Idles(proc), UNCHANGED <<ready, pollq, nic, work>>
    PROVE  WaitStep
<1>1. PollSlots > MaxPid =>
              \A p \in Idles(proc') : IF p = Service THEN work' /\ ~nic'
                                      ELSE p \in pollq' /\ ~ready'
  BY Zenon DEF WaitInv, NoLostWakeup, Idles
<1> QED
  BY <1>1, Finish

\* q is entry r of p moved to point a, outside of a wait.
Moved(p, r, a, q) ==
    /\ q \in Process /\ Sound(p, q) /\ Keeps(r, q) /\ ~Waits(q)
    /\ q.at = a /\ q.state = r.state

\* cur goes on at another point of the kernel.
LEMMA SoundMove ==
    ASSUME NEW p, NEW r \in Process, Sound(p, r), Off(r),
           NEW a \in Point \ (AwaitPoint \cup SleepPoint), p = Service => a \in {"serve", "woke"},
           NEW d \in Delay, NEW o \in SUBSET {"nohang", "untraced"}
    PROVE  /\ r.at \notin {"woke", "slept"} =>
                 /\ Moved(p, r, a, [r EXCEPT !.at = a])
                 /\ Moved(p, r, a, [r EXCEPT !.at = a, !.timeout = d])
                 /\ Moved(p, r, a, [r EXCEPT !.at = a, !.options = o])
           /\ Moved(p, r, a, [r EXCEPT !.at = a, !.reason = "none"])
<1> DEFINE q1 == [r EXCEPT !.at = a]
           q2 == [r EXCEPT !.at = a, !.timeout = d]
           q3 == [r EXCEPT !.at = a, !.options = o]
           q4 == [r EXCEPT !.at = a, !.reason = "none"]
           same(q) == /\ q.state = r.state /\ q.wait_token = r.wait_token
                      /\ q.wake_reason = r.wake_reason /\ q.signal_mask = r.signal_mask
                      /\ q.in_sigsuspend = r.in_sigsuspend /\ q.frames = r.frames
                      /\ q.at = a
<1>1. q1 \in Process /\ q2 \in Process /\ q3 \in Process /\ q4 \in Process
  BY Zenon, PointModes DEF Process
<1>2. same(q1) /\ same(q2) /\ same(q3) /\ same(q4)
  BY Zenon DEF Process
<1>3. q1.reason = r.reason /\ q2.reason = r.reason /\ q3.reason = r.reason /\ q4.reason = "none"
  BY Zenon DEF Process
<1> HIDE DEF q1, q2, q3, q4
<1>4. ~Waits(r) /\ r.wait_token = 0 /\ r.wake_reason = "none" /\ Nested(r)
      /\ (r.reason = "Deadline" => r.at \in {"woke", "slept"})
      /\ (p = Service => r.state \notin {"Dead", "Free"})
  BY OffRest DEF Sound, Placed
<1>5. ASSUME NEW q, q \in Process, same(q), q.reason # "Deadline"
      PROVE  Moved(p, r, a, q)
  <2>1. Off(q) /\ ~Waits(q) /\ q.wait_token = 0 /\ q.wake_reason = "none" /\ Nested(q)
    BY Zenon, <1>4, <1>5 DEF Off, Waits, Nested
  <2>2. Sound(p, q) /\ Keeps(r, q)
    BY <1>4, <1>5, <2>1, OwnMove
  <2> QED
    BY <1>5, <2>1, <2>2 DEF Moved
<1>6. Moved(p, r, a, q4)
  BY Zenon, <1>1, <1>2, <1>3, <1>5
<1>7. r.at \notin {"woke", "slept"} => Moved(p, r, a, q1) /\ Moved(p, r, a, q2) /\ Moved(p, r, a, q3)
  BY <1>1, <1>2, <1>3, <1>4, <1>5
<1> QED
  BY <1>6, <1>7 DEF q1, q2, q3, q4

\* A syscall that moves cur to another kernel point and nothing else.
LEMMA EnterReached ==
    ASSUME SchedInv, WaitInv, NEW p, p = cur, NEW r \in Process, Sound(p, r),
           Keeps(proc[p], r), ~Waits(r), Enter(p, r)
    PROVE  /\ Reached(proc', timers') /\ CpuPlaced(proc'[cur'], mode')
           /\ Idles(proc') \subseteq Idles(proc) \ {p}
<1>1. Continue(Set(p, r), "kernel")
  BY DEF Enter
<1>2. Reached(Set(p, r), timers) /\ Idles(Set(p, r)) \subseteq Idles(proc)
  BY Zenon, Start, KeepsOwn DEF Set
<1>3. Set(p, r)[cur] = r
  BY Start DEF Set, Reached
<1>4. CpuPlaced(r, "kernel")
  BY DEF CpuPlaced, Waits
<1>5. p \notin Idles(Set(p, r))
  BY <1>3 DEF Idles, Waits
<1> QED
  BY <1>1, <1>2, <1>3, <1>4, <1>5, ContinueReached

\* await_io_until for cur, whichever of its ways out it takes.
LEMMA AwaitReached ==
    ASSUME SchedInv, NEW P, Reached(P, timers), P[cur].at \in {"poll", "serve"},
           NEW d \in Delay, cur # Service => d = P[cur].timeout,
           NEW q0, NEW a0, AwaitIo(P, d, q0, a0)
    PROVE  /\ Reached(proc', timers') /\ CpuPlaced(proc'[cur'], mode')
           /\ Idles(proc') \subseteq Idles(P) \cup {cur}
<1> DEFINE r == P[cur]
           free == FreeTokens(P, timers)
           timed == d # Never /\ free # {}
           t == IF timed THEN Least(free) ELSE 0
           b0 == IF timed THEN Publish(r, t, d) ELSE r
           b == [b0 EXCEPT !.state = "AwaitingIo", !.io_token = t]
           e == NewEntry(t, d, "IoTimeout")
           Q == IF timed THEN timers \cup {e} ELSE timers
           n == NextRunnable(P, table, cur)
           c(pt) == [b EXCEPT !.at = pt]
<1>1. /\ r \in Process /\ cur \in Pid /\ timers \in SUBSET Entry /\ P \in [Pid -> Process]
      /\ Sound(cur, r) /\ Off(r) /\ table \in Seq(Pid)
  BY DEF Reached, TableSound, SchedInv, CpuInv, Off, AwaitPoint, SleepPoint
<1>2. /\ ~Waits(r) /\ r.wait_token = 0 /\ r.wake_reason = "none" /\ Nested(r)
      /\ (cur = Service => r.state \notin {"Dead", "Free"}) /\ r.reason # "Deadline"
  BY Zenon, <1>1, OffRest DEF Sound, Placed
<1>3. t \in Token /\ (timed => t \in 1..MaxWaits /\ \A f \in timers : f.token # t)
      /\ (~timed => t = 0)
  BY SMTT(20), FreeTokenFresh, ConstantTypes DEF Token
<1>4. CASE r.pending_io \/ r.state = "Runnable"
  <2> DEFINE s == IF r.state \in {"Runnable", "AwaitingIo"} THEN "Running" ELSE r.state
             w == [r EXCEPT !.pending_io = FALSE, !.state = s]
             v == TakeWakeReason(w)
  <2>1. /\ proc' = [P EXCEPT ![cur] = v] /\ mode' = "kernel"
        /\ cur' = cur /\ timers' = timers
    BY <1>4 DEF AwaitIo
  <2>2. s \in State /\ s \notin {"AwaitingIo", "Sleeping"}
        /\ (cur = Service => s \notin {"Dead", "Free"})
    BY Zenon, <1>1, <1>2 DEF State, Process, Waits
  <2> HIDE DEF r, s
  <2>3. w \in Process /\ w.state = s /\ w.wake_reason = "none" /\ w.wait_token = 0
        /\ w.signal_mask = r.signal_mask /\ w.in_sigsuspend = r.in_sigsuspend
        /\ w.frames = r.frames
    <3>1. w \in Process
      BY Zenon, <1>1, <2>2 DEF Process
    <3> QED
      BY Zenon, <1>1, <1>2, <3>1 DEF Process
  <2> HIDE DEF w
  <2>4. v \in Process
    BY Zenon, <2>3, TakeWakeReasonOwned DEF Owned
  <2>5. /\ v.at = "woke" /\ v.state = s /\ v.wake_reason = "none" /\ v.wait_token = 0
        /\ v.signal_mask = r.signal_mask /\ v.in_sigsuspend = r.in_sigsuspend
        /\ v.frames = r.frames /\ v.reason = "Event"
    BY Zenon, <2>3 DEF Process, TakeWakeReason
  <2> HIDE DEF v
  <2>6. Off(v) /\ ~Waits(v) /\ Nested(v)
    BY Zenon, <1>2, <2>2, <2>5 DEF Off, Waits, Nested, AwaitPoint, SleepPoint
  <2>7. Sound(cur, v) /\ Keeps(r, v)
    BY Zenon, <1>1, <2>2, <2>5, <2>6, OwnMove
  <2>8. Reached([P EXCEPT ![cur] = v], timers) /\ Idles([P EXCEPT ![cur] = v]) \subseteq Idles(P)
    BY Zenon, <1>1, <2>4, <2>7, KeepsOwn DEF r
  <2>9. CpuPlaced(v, "kernel")
    BY <2>6 DEF CpuPlaced, Waits
  <2> QED
    BY Zenon, <1>1, <2>1, <2>8, <2>9
<1>5. ASSUME ~(r.pending_io \/ r.state = "Runnable"), NEW pt \in {"awaitSwitched", "awaitIdle"}
      PROVE  /\ c(pt) \in Process /\ Reached([P EXCEPT ![cur] = c(pt)], Q)
             /\ Idles([P EXCEPT ![cur] = c(pt)]) \subseteq Idles(P) \cup {cur}
             /\ c(pt).state = "AwaitingIo" /\ c(pt).at = pt
  <2>1. /\ b0 \in Process /\ b0.wait_token = t /\ (timed => b0.wait_deadline = d)
        /\ b0.wake_reason = "none" /\ b0.pending_io = r.pending_io
        /\ b0.signal_mask = r.signal_mask /\ b0.in_sigsuspend = r.in_sigsuspend
        /\ b0.frames = r.frames /\ b0.reason = r.reason /\ b0.timeout = r.timeout
    <3> HIDE DEF r, t
    <3>1. b0 \in Process
      BY <1>1, <1>3, PublishType
    <3>2. CASE timed
      BY Zenon, <1>1, <3>1, <3>2 DEF Process, Publish
    <3>3. CASE ~timed
      BY Zenon, <1>2, <1>3, <3>1, <3>3
    <3> QED
      BY Zenon, <3>2, <3>3
  <2>2. "AwaitingIo" \in State /\ pt \in Point /\ pt \in AwaitPoint /\ ~b0.pending_io
    BY Zenon, <1>5, <2>1 DEF State, Point, AwaitPoint
  <2> HIDE DEF b0, t
  <2> DEFINE z == c(pt)
  <2>3. b \in Process /\ b.wait_token = t /\ (timed => b.wait_deadline = d)
        /\ b.wake_reason = "none" /\ b.pending_io = b0.pending_io /\ b.state = "AwaitingIo"
        /\ b.signal_mask = r.signal_mask /\ b.in_sigsuspend = r.in_sigsuspend
        /\ b.frames = r.frames /\ b.reason = r.reason /\ b.timeout = r.timeout
        /\ b.io_token = t
    <3> HIDE DEF r
    <3>1. b \in Process
      BY Zenon, <1>3, <2>1, <2>2 DEF Process
    <3> QED
      BY Zenon, <2>1, <3>1 DEF Process
  <2> HIDE DEF b
  <2>4. z \in Process /\ z.wait_token = t /\ (timed => z.wait_deadline = d)
        /\ z.wake_reason = "none" /\ z.pending_io = b0.pending_io /\ z.state = "AwaitingIo"
        /\ z.signal_mask = r.signal_mask /\ z.in_sigsuspend = r.in_sigsuspend
        /\ z.frames = r.frames /\ z.reason = r.reason /\ z.timeout = r.timeout
        /\ z.io_token = t /\ z.at = pt
    <3> HIDE DEF r
    <3>1. z \in Process
      BY Zenon, <2>2, <2>3 DEF Process
    <3> QED
      BY Zenon, <2>3, <3>1 DEF Process
  <2> HIDE DEF z
  <2>5. Nested(z) /\ Placed(z)
    BY Zenon, <1>2, <2>2, <2>4 DEF Nested, Placed
  <2>6. cur # Service => Truthful(z)
    BY Zenon, <1>2, <1>3, <2>4 DEF Truthful
  <2>7. Sound(cur, z)
    BY <2>2, <2>4, <2>5, <2>6 DEF Sound
  <2>8. Idles([P EXCEPT ![cur] = z]) \subseteq Idles(P) \cup {cur}
    BY <1>1 DEF Idles
  <2>9. Reached([P EXCEPT ![cur] = z], Q)
    <3>1. CASE timed
      <4>1. /\ e \in Entry /\ e.pid = cur /\ e.token = t /\ e.deadline = d
            /\ e.kind = "IoTimeout"
        BY <1>1, <1>3, <3>1 DEF NewEntry, Entry
      <4>2. KindAt(z) = "IoTimeout"
        BY <2>2, <2>4 DEF KindAt
      <4> HIDE DEF e
      <4>3. \A f \in timers : f.token # e.token
        BY <1>3, <3>1, <4>1
      <4>4. Reached([P EXCEPT ![cur] = z], timers \cup {e})
        BY Zenon, <1>1, <2>4, <2>7, <3>1, <4>1, <4>2, <4>3, PublishReached
      <4> QED
        BY <3>1, <4>4
    <3>2. CASE ~timed
      <4>1. z.wait_token = 0 /\ z.wake_reason # "Deadline"
        BY <1>3, <2>4, <3>2
      <4>2. Reached([P EXCEPT ![cur] = z], timers)
        BY Zenon, <1>1, <2>4, <2>7, <4>1, BlockReached
      <4> QED
        BY <3>2, <4>2
    <3> QED
      BY <3>1, <3>2
  <2> QED
    BY Zenon, <2>4, <2>8, <2>9 DEF z
<1>6. Q \in SUBSET Entry
  <2>1. timed => e \in Entry
    BY <1>1, <1>3 DEF NewEntry, Entry
  <2> QED
    BY <1>1, <2>1
<1>7. CASE ~(r.pending_io \/ r.state = "Runnable") /\ n # NoPid
  <2> DEFINE R == [P EXCEPT ![cur] = c("awaitSwitched")]
  <2>1. SwitchTo(R, Q, n)
    BY <1>7 DEF AwaitIo
  <2>2. n \in Pid /\ n # cur /\ P[n].state = "Runnable"
    BY <1>1, <1>7, NextRunnableFinds
  <2>3. Reached(R, Q) /\ Idles(R) \subseteq Idles(P) \cup {cur}
    BY Zenon, <1>5, <1>7
  <2> HIDE DEF c, Q, n
  <2>4. R[n].state = "Runnable"
    BY <1>1, <2>2
  <2> HIDE DEF R
  <2> QED
    BY <1>6, <2>1, <2>2, <2>3, <2>4, SwitchReached
<1>8. CASE ~(r.pending_io \/ r.state = "Runnable") /\ n = NoPid
  <2> DEFINE z == c("awaitIdle")
  <2>1. /\ proc' = [P EXCEPT ![cur] = z] /\ mode' = "kernel" /\ timers' = Q /\ cur' = cur
    BY <1>8 DEF AwaitIo
  <2>2. /\ Reached([P EXCEPT ![cur] = z], Q)
        /\ Idles([P EXCEPT ![cur] = z]) \subseteq Idles(P) \cup {cur}
        /\ z.state = "AwaitingIo" /\ z.at = "awaitIdle"
    BY Zenon, <1>5, <1>8
  <2> HIDE DEF z, Q
  <2>3. CpuPlaced(z, "kernel")
    BY <2>2 DEF CpuPlaced
  <2> QED
    BY Zenon, <1>1, <2>1, <2>2, <2>3
<1> QED
  BY Zenon, <1>4, <1>7, <1>8

------------------------------------------------------------------------------
(* The end of a wait.                                                        *)

\* await_io_until returns: the token is withdrawn and the reason taken.
LEMMA WokenSound ==
    ASSUME NEW p, NEW r \in Process, Sound(p, r), r.at \in AwaitPoint,
           r.state \notin {"AwaitingIo", "Sleeping"}
    PROVE  LET q == Woken(r)
           IN  q \in Process /\ Sound(p, q) /\ Keeps(r, q) /\ ~Waits(q)
<1> DEFINE s == IF r.state = "Runnable" THEN "Running" ELSE r.state
           w == [r EXCEPT !.pending_io = FALSE, !.state = s]
           k == CancelOwned(w)
           q == Woken(r)
<1>1. s \in State /\ s \notin {"AwaitingIo", "Sleeping"}
      /\ (p = Service => s \notin {"Dead", "Free"})
  BY DEF State, Process, Sound
<1>2. q = TakeWakeReason(k) /\ q \in Process
  BY Zenon, WokenOwned DEF Woken, Owned
<1> HIDE DEF s
<1>3. w \in Process /\ w.state = s /\ w.wake_reason = r.wake_reason
      /\ w.wait_token = r.wait_token /\ w.io_token = r.io_token /\ w.timeout = r.timeout
      /\ w.signal_mask = r.signal_mask /\ w.in_sigsuspend = r.in_sigsuspend
      /\ w.frames = r.frames
  <2>1. w \in Process
    BY Zenon, <1>1 DEF Process
  <2> QED
    BY Zenon, <2>1 DEF Process
<1> HIDE DEF w
<1>4. k \in Process /\ k.state = s /\ k.wake_reason = r.wake_reason
      /\ k.wait_token = 0 /\ k.timeout = r.timeout
      /\ k.signal_mask = r.signal_mask /\ k.in_sigsuspend = r.in_sigsuspend
      /\ k.frames = r.frames
  <2>1. CASE r.wait_token = 0
    <3>1. k = w
      BY <1>3, <2>1 DEF CancelOwned
    <3> QED
      BY <1>3, <2>1, <3>1
  <2>2. CASE r.wait_token # 0
    <3>1. r.io_token = r.wait_token
      BY <2>2 DEF Sound, Placed, SleepPoint, AwaitPoint
    <3>2. k = ClearWait(w)
      BY <1>3, <2>2, <3>1 DEF CancelOwned
    <3>3. k \in Process
      BY <1>3, <3>2, ClearWaitPassive DEF Passive
    <3> QED
      BY Zenon, <1>3, <3>2, <3>3 DEF ClearWait, Process
  <2> QED
    BY <2>1, <2>2
<1> HIDE DEF k
<1>5. /\ q.at = "woke" /\ q.state = s /\ q.wake_reason = "none" /\ q.wait_token = 0
      /\ q.signal_mask = r.signal_mask /\ q.in_sigsuspend = r.in_sigsuspend
      /\ q.frames = r.frames /\ q.timeout = r.timeout
      /\ q.reason = IF r.wake_reason = "none" THEN "Event" ELSE r.wake_reason
  BY Zenon, <1>2, <1>4 DEF Process, TakeWakeReason
<1> HIDE DEF q
<1>6. Off(q) /\ ~Waits(q) /\ Nested(q)
  BY <1>1, <1>5 DEF Off, Waits, Nested, Sound, AwaitPoint, SleepPoint
<1>7. q.reason = "Deadline" /\ p # Service => q.timeout = 0
  BY <1>5 DEF Sound, Truthful
<1>8. Sound(p, q) /\ Keeps(r, q)
  BY <1>1, <1>5, <1>6, <1>7, OwnMove
<1> QED
  BY <1>2, <1>6, <1>8 DEF q

\* read_and_clear_wake_reason: the end of a sleep.
LEMMA SleptSound ==
    ASSUME NEW p, NEW r \in Process, Sound(p, r), r.at \in SleepPoint
    PROVE  LET q == ReadAndClearWakeReason(r)
           IN  q \in Process /\ Sound(p, q) /\ Keeps(r, q) /\ ~Waits(q)
<1> DEFINE c == ClearWait(r)
           q == ReadAndClearWakeReason(r)
<1>1. q \in Process
  BY ReadAndClearOwned DEF Owned
<1>2. p # Service
  BY DEF Sound, AwaitPoint, SleepPoint
<1>3. c \in Process /\ c.wait_token = 0 /\ c.timeout = r.timeout
      /\ c.signal_mask = r.signal_mask /\ c.in_sigsuspend = r.in_sigsuspend
      /\ c.frames = r.frames
  <2>1. c \in Process
    BY ClearWaitPassive DEF Passive
  <2> QED
    BY Zenon, <2>1 DEF ClearWait, Process
<1>4. q = [c EXCEPT
             !.reason = IF r.wake_reason # "none" THEN r.wake_reason
                        ELSE IF r.timeout = 0 THEN "Deadline" ELSE "Cancelled",
             !.wake_reason = "none", !.state = "Running", !.at = "slept"]
  BY DEF ReadAndClearWakeReason
<1> HIDE DEF c
<1>5. /\ q.at = "slept" /\ q.state = "Running" /\ q.wake_reason = "none"
      /\ q.wait_token = 0 /\ q.timeout = r.timeout
      /\ q.signal_mask = r.signal_mask /\ q.in_sigsuspend = r.in_sigsuspend
      /\ q.frames = r.frames
      /\ q.reason = IF r.wake_reason # "none" THEN r.wake_reason
                    ELSE IF r.timeout = 0 THEN "Deadline" ELSE "Cancelled"
  BY Zenon, <1>3, <1>4 DEF Process
<1> HIDE DEF q
<1>6. Off(q) /\ ~Waits(q) /\ Nested(q)
  BY <1>5 DEF Off, Waits, Nested, Sound, AwaitPoint, SleepPoint
<1>7. q.reason = "Deadline" => q.timeout = 0
  BY <1>2, <1>5 DEF Sound, Truthful
<1>8. Sound(p, q) /\ Keeps(r, q)
  BY <1>2, <1>5, <1>6, <1>7, OwnMove
<1> QED
  BY <1>1, <1>6, <1>8 DEF q

\* An entry that cur rewrote itself, and cond_resched behind it.
LEMMA OwnReached ==
    ASSUME SchedInv, WaitInv, NEW p, p = cur, NEW r \in Process, Sound(p, r),
           Keeps(proc[p], r), ~Waits(r)
    PROVE  /\ Reached(Set(p, r), timers) /\ Set(p, r)[cur] = r
           /\ Idles(Set(p, r)) \subseteq Idles(proc)
           /\ \A m : (m = "user" => r.at = "user") => CpuPlaced(Set(p, r)[cur], m)
<1>1. Reached(Set(p, r), timers) /\ Idles(Set(p, r)) \subseteq Idles(proc)
  BY Zenon, Start, KeepsOwn DEF Set
<1>2. Set(p, r)[cur] = r
  BY Start DEF Set, Reached
<1> QED
  BY <1>1, <1>2 DEF CpuPlaced, Waits

\* A process that moves outside of its waits, as an instance of SoundMove.
LEMMA CurMoves ==
    ASSUME SchedInv, WaitInv, NEW p, p = cur,
           proc[p].at \in {"user", "ret", "poll", "sleep", "wait4", "exitIdle", "exited"},
           NEW a \in {"user", "ret", "poll", "sleep", "wait4"},
           NEW d \in Delay, NEW o \in SUBSET {"nohang", "untraced"}
    PROVE  /\ Moved(p, proc[p], a, [proc[p] EXCEPT !.at = a])
           /\ Moved(p, proc[p], a, [proc[p] EXCEPT !.at = a, !.timeout = d])
           /\ Moved(p, proc[p], a, [proc[p] EXCEPT !.at = a, !.options = o])
           /\ p # Service
<1>1. /\ proc[p] \in Process /\ Sound(p, proc[p]) /\ Off(proc[p]) /\ p # Service
      /\ proc[p].at \notin {"woke", "slept"}
  BY Start DEF Off, AwaitPoint, SleepPoint, Sound
<1>2. a \in Point \ (AwaitPoint \cup SleepPoint) /\ (p = Service => a \in {"serve", "woke"})
  BY <1>1 DEF Point, AwaitPoint, SleepPoint
<1> QED
  BY Zenon, <1>1, <1>2, SoundMove

\* cur enters the kernel at another point.
LEMMA MoveReached ==
    ASSUME SchedInv, WaitInv, NEW p, p = cur, NEW a, NEW r, Moved(p, proc[p], a, r),
           Enter(p, r)
    PROVE  /\ Reached(proc', timers') /\ CpuPlaced(proc'[cur'], mode')
           /\ Idles(proc') \subseteq Idles(proc) \ {p}
  BY EnterReached DEF Moved

\* cur enters the kernel at another point and touches no wait queue.
LEMMA MoveWait ==
    ASSUME SchedInv, WaitInv, NEW p, p = cur, NEW a, NEW r, Moved(p, proc[p], a, r),
           Enter(p, r), UNCHANGED <<ready, pollq, nic, work>>
    PROVE  WaitStep
<1>1. /\ Reached(proc', timers') /\ CpuPlaced(proc'[cur'], mode')
      /\ Idles(proc') \subseteq Idles(proc) \ {p}
  BY MoveReached
<1> QED
  BY <1>1, FinishIo

\* cur enters the kernel at another point and leaves the queue that it waited on.
LEMMA LeaveWait ==
    ASSUME SchedInv, WaitInv, NEW p, p = cur, NEW a, NEW r, Moved(p, proc[p], a, r),
           Enter(p, r), pollq \ {p} \subseteq pollq', UNCHANGED <<ready, nic>>,
           p = Service \/ work' = work
    PROVE  WaitStep
<1>1. /\ Reached(proc', timers') /\ CpuPlaced(proc'[cur'], mode')
      /\ Idles(proc') \subseteq Idles(proc) \ {p}
  BY MoveReached
<1>2. PollSlots > MaxPid =>
        \A k \in Idles(proc') : IF k = Service THEN work' /\ ~nic'
                                ELSE k \in pollq' /\ ~ready'
  BY <1>1 DEF WaitInv, NoLostWakeup, Idles
<1> QED
  BY <1>1, <1>2, Finish

\* A process in await_io_until moves to another point of it.
LEMMA AwaitMove ==
    ASSUME NEW p, NEW r \in Process, Sound(p, r), r.at \in AwaitPoint, NEW a \in AwaitPoint
    PROVE  LET q == [r EXCEPT !.at = a]
           IN  q \in Process /\ Sound(p, q) /\ Keeps(r, q) /\ q.state = r.state /\ q.at = a
<1> DEFINE q == [r EXCEPT !.at = a]
<1>1. a \in Point
  BY DEF AwaitPoint, Point
<1>2. q \in Process
  BY Zenon, <1>1 DEF Process
<1>3. /\ q.state = r.state /\ q.at = a /\ q.pending_io = r.pending_io
      /\ q.wait_token = r.wait_token /\ q.wait_deadline = r.wait_deadline
      /\ q.io_token = r.io_token /\ q.wake_reason = r.wake_reason /\ q.reason = r.reason
      /\ q.timeout = r.timeout /\ q.signal_mask = r.signal_mask
      /\ q.in_sigsuspend = r.in_sigsuspend /\ q.frames = r.frames
  BY Zenon, <1>2 DEF Process
<1> HIDE DEF q
<1>4. Placed(q)
  BY <1>3 DEF Sound, Placed, AwaitPoint, SleepPoint
<1>5. Nested(q)
  BY <1>3 DEF Sound, Nested
<1>6. Sound(p, q)
  BY <1>3, <1>4, <1>5 DEF Sound, Truthful
<1>7. Keeps(r, q)
  BY <1>3 DEF Keeps, KeepsWait, KindAt, Waits
<1> QED
  BY <1>2, <1>3, <1>6, <1>7 DEF q

\* What others do to the entry of cur leaves it where the CPU needs it.
LEMMA QuietPlaced ==
    ASSUME NEW p, NEW r, NEW q, Quiet(p, r, q), NEW m, CpuPlaced(r, m)
    PROVE  CpuPlaced(q, m)
  BY DEF Quiet, CpuPlaced

\* The entry of cur behind a notification.
LEMMA NotifyPlaced ==
    ASSUME NEW P \in [Pid -> Process], cur \in Pid, NEW W, NEW m, CpuPlaced(P[cur], m)
    PROVE  CpuPlaced(Notify(P, W)[cur], m) /\ Notify(P, W)[cur].at = P[cur].at
           /\ Notify(P, W)[cur].timeout = P[cur].timeout
<1>1. Notify(P, W)[cur] = IF cur \in W THEN WakeProcess(P[cur]) ELSE P[cur]
  BY DEF Notify
<1>2. P[cur] \in Process
  OBVIOUS
<1>3. Quiet(cur, P[cur], Notify(P, W)[cur])
  BY <1>1, <1>2, WakeProcessQuiet, QuietRefl
<1> QED
  BY Zenon, <1>3, QuietPlaced DEF Quiet

\* poll_wait_queue().notify_all(): nobody who polls goes on waiting.
LEMMA ReadinessWait ==
    ASSUME SchedInv, WaitInv, NEW P, Reached(P, timers), Idles(P) \subseteq Idles(proc),
           NEW m, CpuPlaced(P[cur], m), NEW now, Readiness(P, m, now)
    PROVE  WaitStep
<1>1. /\ proc' = Notify(P, pollq) /\ mode' = m /\ cur' = cur /\ timers' = timers
      /\ nic' = nic /\ work' = work
  BY DEF Readiness
<1>2. P \in [Pid -> Process] /\ cur \in Pid /\ timers \in SUBSET Entry
  BY Start DEF Reached
<1>3. Reached(proc', timers') /\ Idles(proc') \subseteq Idles(P) \ pollq
  BY <1>1, <1>2, NotifyReached
<1>4. CpuPlaced(proc'[cur'], mode')
  BY <1>1, <1>2, NotifyPlaced
<1>5. PollSlots > MaxPid =>
        \A k \in Idles(proc') : IF k = Service THEN work' /\ ~nic'
                                ELSE k \in pollq' /\ ~ready'
  BY <1>1, <1>3 DEF WaitInv, NoLostWakeup, Idles
<1> QED
  BY <1>3, <1>4, <1>5, Finish

\* Two changes in a row.
LEMMA KeepsTrans ==
    ASSUME NEW r, NEW q, NEW s, Keeps(r, q), Keeps(q, s)
    PROVE  Keeps(r, s)
  BY DEF Keeps, KeepsWait, Waits

\* A table entry that has just been made or freed.
LEMMA FreshSound ==
    ASSUME NEW p, p # Service, NEW q, q.at = "user", q.state \in {"Runnable", "Running", "Free"},
           q.wait_token = 0, q.wake_reason = "none", q.reason = "none",
           q.frames = <<>>, ~q.in_sigsuspend, q.signal_mask \in SUBSET Sig
    PROVE  Sound(p, q) /\ \A r : Keeps(r, q)
<1>1. Len(q.frames) = 0 /\ Cardinality(q.signal_mask \cap Caught) \in Nat
  BY MaskCard
<1>2. Nested(q)
  BY <1>1 DEF Nested
<1>3. Placed(q) /\ Truthful(q)
  BY DEF Placed, Truthful
<1> QED
  BY <1>2, <1>3 DEF Sound, Keeps, KeepsWait, Waits

\* A mask that a process outside of handlers takes on.
LEMMA MaskNested ==
    ASSUME NEW q, q.frames = <<>>, q.signal_mask \in SUBSET Sig
    PROVE  Nested(q)
<1>1. Len(q.frames) = 0 /\ Cardinality(q.signal_mask \cap Caught) \in Nat
  BY MaskCard
<1> QED
  BY <1>1 DEF Nested

\* A table in which one entry was replaced by a fresh one.
LEMMA FreshReached ==
    ASSUME SchedInv, NEW P, Reached(P, timers), CpuPlaced(P[cur], "kernel"),
           NEW c \in Pid, c # Service, NEW q \in Process, q.at = "user",
           q.state \in {"Runnable", "Running", "Free"}, q.wait_token = 0,
           q.wake_reason = "none", q.reason = "none", q.frames = <<>>, ~q.in_sigsuspend
    PROVE  LET R == [P EXCEPT ![c] = q]
           IN  /\ Reached(R, timers) /\ Idles(R) \subseteq Idles(P)
               /\ CpuPlaced(R[cur], "kernel")
<1>1. q.signal_mask \in SUBSET Sig
  BY Zenon DEF Process
<1>2. Sound(c, q) /\ \A r : Keeps(r, q)
  BY <1>1, FreshSound
<1>3. Sound(c, q) /\ Keeps(P[c], q)
  BY <1>2
<1>4. timers \in SUBSET Entry /\ cur \in Pid /\ P \in [Pid -> Process]
  BY DEF SchedInv, CpuInv, Reached
<1>5. Reached([P EXCEPT ![c] = q], timers) /\ Idles([P EXCEPT ![c] = q]) \subseteq Idles(P)
  BY Zenon, <1>3, <1>4, KeepsOwn
<1>6. CpuPlaced([P EXCEPT ![c] = q][cur], "kernel")
  BY <1>4 DEF CpuPlaced
<1> QED
  BY Zenon, <1>5, <1>6
==============================================================================
