-------------------------- MODULE SchedFamilyLemmas --------------------------
(***************************************************************************)
(* What most actions of Sched.tla need to preserve FamilyInv, and the      *)
(* actions that change who is whose child or what the clock has made due:  *)
(* fork, wait4, the three ways to exit, the clock and its interrupt.       *)
(***************************************************************************)
EXTENDS ProcessProofs

------------------------------------------------------------------------------
(* What a step that starts and ends no process does to an entry.             *)

Kin(r, q) ==
    /\ q \in Process
    /\ q.parent_pid = r.parent_pid
    /\ (q.state = "Free") <=> (r.state = "Free")
    /\ (q.state = "Dead") <=> (r.state = "Dead")
    /\ (q.at \in ExitPoint) <=> (r.at \in ExitPoint)
    /\ q.state = "Stopped" => r.state = "Stopped"
    /\ q.state = "Waiting" => r.state = "Waiting" /\ q.at = r.at /\ q.options = r.options

\* Leaving an entry alone keeps the family.
LEMMA KinRefl ==
    ASSUME NEW r \in Process
    PROVE  Kin(r, r)
  BY DEF Kin

\* A step that changes every entry within its family keeps the family.
LEMMA KinFamily ==
    ASSUME NEW P, NEW t, FamilySound(P, t), NEW R, R = [p \in Pid |-> R[p]],
           \A p \in Pid : Kin(P[p], R[p])
    PROVE  FamilySound(R, t)
<1>1. R \in [Pid -> Process]
  BY DEF Kin
<1>2. \A p \in Pid : Lives(R[p])
  BY DEF Kin, FamilySound, Lives
<1>3. Listed(R, t)
  BY DEF Kin, FamilySound, Listed
<1>4. ASSUME NEW p \in Pid, R[p].state = "Waiting"
      PROVE  \E c \in Pid : R[c].state # "Free" /\ R[c].parent_pid = p
  <2>1. PICK c \in Pid : P[c].state # "Free" /\ P[c].parent_pid = p
    BY <1>4 DEF Kin, FamilySound, Family
  <2> QED  BY <2>1 DEF Kin
<1>5. \A p, c \in Pid : R[p].state = "Waiting" /\ R[c].parent_pid = p => R[c].state # "Dead"
  BY DEF Kin, FamilySound, Family
<1>6. ASSUME NEW p \in Pid \ {Service}, R[p].state # "Free"
      PROVE  R[p].parent_pid = InitPid \/ R[R[p].parent_pid].state \notin {"Free", "Dead"}
  <2>1. P[p].parent_pid = InitPid \/ P[P[p].parent_pid].state \notin {"Free", "Dead"}
    BY <1>6 DEF Kin, FamilySound, Family
  <2>2. R[p].parent_pid = P[p].parent_pid /\ P[p].parent_pid \in Pid
    BY DEF Kin, FamilySound, Process
  <2> QED  BY <2>1, <2>2 DEF Kin
<1>7. R[InitPid].state # "Free" /\ R[InitPid].parent_pid = Service
  BY ConstantTypes DEF Kin, FamilySound, Family
<1>8. \A p \in Pid \ {Service} : R[p].parent_pid # p
  BY DEF Kin, FamilySound, Family
<1> QED  BY <1>1, <1>2, <1>3, <1>4, <1>5, <1>6, <1>7, <1>8 DEF FamilySound, Family

\* The same for a step that changes the entry of cur only.
LEMMA KinSet ==
    ASSUME NEW P, NEW t, FamilySound(P, t), NEW c \in Pid, NEW r, Kin(P[c], r)
    PROVE  FamilySound([P EXCEPT ![c] = r], t)
<1> DEFINE R == [P EXCEPT ![c] = r]
<1>1. P \in [Pid -> Process]
  BY DEF FamilySound
<1>2. R = [p \in Pid |-> R[p]] /\ R[c] = r /\ \A p \in Pid \ {c} : R[p] = P[p]
  BY Zenon, <1>1
<1>3. ASSUME NEW p \in Pid  PROVE Kin(P[p], R[p])
  BY <1>1, <1>2, KinRefl
<1> HIDE DEF R
<1>4. FamilySound(R, t)
  BY <1>2, <1>3, KinFamily
<1> QED  BY <1>4 DEF R

\* What cur does to its own entry outside of wait4 and exit.
LEMMA OwnKin ==
    ASSUME NEW r, Lives(r), r.state # "Free", r.at \notin ExitPoint \cup {"wait4"},
           NEW q \in Process, q.parent_pid = r.parent_pid, q.at \notin ExitPoint,
           q.state \in {"Running", "Runnable", "Sleeping", "SignalWait", "AwaitingIo"}
                       \cup {r.state}
    PROVE  Kin(r, q)
  BY DEF Kin, Lives

\* find_next_runnable_index finds a runnable process if there is one but cur.
LEMMA NoneRunnable ==
    ASSUME NEW P, NEW t \in Seq(Pid), Listed(P, t), NEW c \in Pid, P[c].state # "Free",
           NextRunnable(P, t, c) = NoPid
    PROVE  \A p \in Pid \ {c} : P[p].state # "Runnable"
<1> DEFINE here == {i \in 1..Len(t) : t[i] = c}
           runnable == {i \in 1..Len(t) : P[t[i]].state = "Runnable"}
           after == {i \in runnable : \A h \in here : h < i}
           before == {i \in runnable : \A h \in here : i < h}
<1> SUFFICES ASSUME NEW p \in Pid \ {c}, P[p].state = "Runnable"  PROVE FALSE
  OBVIOUS
<1>1. PICK h \in 1..Len(t) : t[h] = c
  BY DEF Listed, InTable
<1>2. PICK k \in 1..Len(t) : t[k] = p
  BY DEF Listed, InTable
<1>3. here = {h}
  BY <1>1 DEF Listed
<1>4. k \in runnable /\ k # h
  BY <1>1, <1>2
<1>5. k \in after \/ k \in before
  BY <1>3, <1>4
<1>6. \A i \in 1..Len(t) : t[i] # NoPid
  BY PidAssumption DEF Pid, NoPid
<1>7. after \subseteq 1..Len(t) /\ before \subseteq 1..Len(t) /\ 1..Len(t) \subseteq Nat
  OBVIOUS
<1>8. after # {} => Least(after) \in after
  BY Zenon, <1>7, LeastInSet
<1>9. before # {} => Least(before) \in before
  BY Zenon, <1>7, LeastInSet
<1>10. NextRunnable(P, t, c) = CASE here # {} /\ after # {} -> t[Least(after)]
          [] here # {} /\ after = {} /\ before # {} -> t[Least(before)]
          [] OTHER -> NoPid
  BY DEF NextRunnable
<1> HIDE DEF here, runnable, after, before
<1>11. CASE after # {}
  BY <1>3, <1>6, <1>7, <1>8, <1>10, <1>11
<1>12. CASE after = {}
  BY <1>3, <1>5, <1>6, <1>7, <1>9, <1>10, <1>12
<1> QED  BY <1>11, <1>12

------------------------------------------------------------------------------
(* The ways a step ends.                                                     *)

\* switch_by_index_guarded: a quantum is armed unless nobody else can run.
LEMMA SwitchFamily ==
    ASSUME SchedInv, NEW P, FamilySound(P, table), NEW Q, NEW n \in Pid, n # cur,
           P[n].state = "Runnable", SwitchTo(P, Q, n), UNCHANGED table
    PROVE  FamilyInv'
<1> DEFINE o == [P[cur] EXCEPT !.state = IF @ = "Running" THEN "Runnable" ELSE @]
           r == [P[n] EXCEPT !.state = "Running"]
           S == [P EXCEPT ![cur].state = IF @ = "Running" THEN "Runnable" ELSE @,
                          ![n].state = "Running"]
           q == IF NextRunnable(S, table, n) # NoPid THEN Quantum ELSE Never
<1>1. proc' = S /\ cur' = n /\ quantum' = q
      /\ mode' = IF S[n].at = "user" THEN "user" ELSE "kernel"
  BY DEF SwitchTo, Rearm
<1>2. P \in [Pid -> Process] /\ cur \in Pid /\ table \in Seq(Pid)
  BY DEF FamilySound, SchedInv, CpuInv
<1>3. S[cur] = o /\ S[n] = r /\ \A p \in Pid \ {cur, n} : S[p] = P[p]
  BY <1>2
<1>4. "Runnable" \in State /\ "Running" \in State
  BY DEF State
<1>5. P[cur] \in Process /\ P[n] \in Process /\ Lives(P[n])
  BY <1>2 DEF FamilySound
<1>6. Kin(P[cur], o)
  <2>1. o \in Process
    BY <1>4, <1>5 DEF Process
  <2>2. /\ o.at = P[cur].at /\ o.parent_pid = P[cur].parent_pid
        /\ o.options = P[cur].options
        /\ o.state = IF P[cur].state = "Running" THEN "Runnable" ELSE P[cur].state
    BY <1>5 DEF Process
  <2> HIDE DEF o
  <2> QED  BY <2>1, <2>2 DEF Kin
<1>7. Kin(P[n], r) /\ r.state = "Running" /\ r.at = P[n].at
  <2>1. r \in Process
    BY <1>4, <1>5 DEF Process
  <2>2. r.at = P[n].at /\ r.parent_pid = P[n].parent_pid /\ r.state = "Running"
    BY <1>5 DEF Process
  <2> HIDE DEF r
  <2> QED  BY <2>1, <2>2 DEF Kin
<1>8. ASSUME NEW p \in Pid  PROVE Kin(P[p], S[p])
  BY <1>2, <1>3, <1>6, <1>7, KinRefl
<1>9. S = [p \in Pid |-> S[p]]
  BY Zenon, <1>2
<1> HIDE DEF S, o, r
<1>10. FamilySound(S, table)
  BY <1>8, <1>9, KinFamily
<1>11. CpuSound(S[n], mode')
  <2>1. S[n].at \notin ExitPoint
    BY <1>3, <1>5, <1>7 DEF Lives
  <2>2. S[n].state = "Running" /\ mode' \in {"user", "kernel"}
    BY <1>1, <1>3, <1>7
  <2> QED  BY <2>1, <2>2 DEF CpuSound, OnCpu, ExitPoint
<1>12. quantum' = Never => ~Held(S, n)
  <2> SUFFICES ASSUME quantum' = Never  PROVE ~Held(S, n)
    OBVIOUS
  <2>1. NextRunnable(S, table, n) = NoPid
    BY <1>1, QuantumAssumption, DelayAssumption DEF Never
  <2>2. S[n].state # "Free" /\ Listed(S, table)
    BY <1>3, <1>7, <1>10 DEF FamilySound
  <2> QED  BY <1>2, <2>1, <2>2, NoneRunnable DEF Held
<1> QED  BY <1>1, <1>10, <1>11, <1>12 DEF FamilyInv, Held

\* The CPU stays with cur.
LEMMA ContinueFamily ==
    ASSUME NEW P, FamilySound(P, table), NEW m, CpuSound(P[cur], m),
           quantum = Never /\ Held(P, cur) => resched' /\ m = "woken",
           Continue(P, m), UNCHANGED table
    PROVE  FamilyInv'
  BY DEF Continue, FamilyInv, Held

\* schedule_now, whether it switches or not.
LEMMA ScheduleFamily ==
    ASSUME SchedInv, NEW P, FamilySound(P, table), P[cur].state # "Free",
           NEW R, FamilySound(R, table), \A p \in Pid \ {cur} : R[p] = P[p],
           NEW m, CpuSound(R[cur], m), ScheduleNow(P, Continue(R, m)), UNCHANGED table
    PROVE  FamilyInv'
<1> DEFINE n == NextRunnable(P, table, cur)
<1>1. IF n # NoPid THEN SwitchTo(P, timers, n) ELSE Continue(R, m)
  BY DEF ScheduleNow
<1>2. table \in Seq(Pid) /\ cur \in Pid
  BY DEF SchedInv, CpuInv
<1>3. CASE n # NoPid
  <2>1. n \in Pid /\ n # cur /\ P[n].state = "Runnable"
    BY <1>2, <1>3, NextRunnableFinds
  <2> QED  BY <1>1, <1>3, <2>1, SwitchFamily
<1>4. CASE n = NoPid
  <2>1. \A p \in Pid \ {cur} : P[p].state # "Runnable"
    BY <1>2, <1>4, NoneRunnable DEF FamilySound
  <2>2. ~Held(R, cur)
    BY <2>1 DEF Held
  <2>3. Continue(R, m)
    BY <1>1, <1>4
  <2> QED  BY <2>2, <2>3, ContinueFamily
<1> QED  BY <1>3, <1>4

\* What every action lemma starts from.
LEMMA FamilyStart ==
    ASSUME SchedInv, FamilyInv
    PROVE  /\ cur \in Pid /\ proc \in [Pid -> Process] /\ proc[cur] \in Process
           /\ Lives(proc[cur]) /\ proc[cur].state # "Free"
           /\ mode # "woken" => ~(quantum = Never /\ Held(proc, cur))
           /\ quantum = Never /\ Held(proc, cur) => resched
           /\ \A r : Held(Set(cur, r), cur) <=> Held(proc, cur)
<1>1. cur \in Pid /\ proc \in [Pid -> Process] /\ proc[cur] \in Process
  BY DEF SchedInv, CpuInv
<1>2. ASSUME NEW r  PROVE Held(Set(cur, r), cur) <=> Held(proc, cur)
  <2>1. \A p \in Pid \ {cur} : Set(cur, r)[p] = proc[p]
    BY <1>1 DEF Set
  <2> QED  BY <2>1 DEF Held
<1> QED  BY <1>1, <1>2 DEF FamilyInv, FamilySound, CpuSound

\* cur moves to another point of the kernel.
LEMMA EnterFamily ==
    ASSUME SchedInv, FamilyInv, mode # "woken", NEW p, p = cur, NEW r, Kin(proc[p], r),
           CpuSound(r, "kernel"), Enter(p, r)
    PROVE  FamilyInv'
<1>1. Continue(Set(p, r), "kernel") /\ UNCHANGED table
  BY DEF Enter
<1>2. FamilySound(Set(p, r), table) /\ Set(p, r)[cur] = r
  BY FamilyStart, KinSet DEF FamilyInv, Set
<1> QED  BY <1>1, <1>2, FamilyStart, ContinueFamily

------------------------------------------------------------------------------
(* What cur does to its own entry.                                           *)

\* Where a process that has the CPU runs.
RunPoint == {"user", "ret", "poll", "woke", "sleep", "slept", "serve"}

\* q is entry r moved to point a by its process.
Goes(r, a, q) ==
    q \in Process /\ q.at = a /\ q.state = r.state /\ q.parent_pid = r.parent_pid

\* The simplest of them.
LEMMA GoesAt ==
    ASSUME NEW r \in Process, NEW a \in RunPoint \cup AwaitPoint \cup {"wait4"}
    PROVE  Goes(r, a, [r EXCEPT !.at = a])
<1>1. a \in Point
  BY DEF RunPoint, AwaitPoint, Point
<1>2. [r EXCEPT !.at = a] \in Process
  BY Zenon, <1>1, OwnUpdates DEF Owned
<1> QED  BY <1>2 DEF Goes, Process

\* A move of cur keeps the family, and cur in a state to have the CPU.
LEMMA GoesKin ==
    ASSUME NEW r, Lives(r), r.state # "Free", r.at \in RunPoint,
           "sigsuspend" \notin Ops => OnCpu(r),
           NEW a \in RunPoint \cup {"wait4"}, NEW q, Goes(r, a, q), NEW m,
           m \in {"user", "kernel"}
    PROVE  Kin(r, q) /\ CpuSound(q, m)
<1>1. Kin(r, q)
  BY OwnKin DEF Goes, RunPoint, ExitPoint
<1>2. CpuSound(q, m)
  BY DEF Goes, RunPoint, CpuSound, OnCpu, AwaitPoint
<1> QED  BY <1>1, <1>2

\* Where cur is when it runs.
LEMMA RunStart ==
    ASSUME SchedInv, WaitInv, FamilyInv, NEW p, p = cur,
           (mode = "kernel" /\ proc[p].at \in RunPoint) \/ mode = "user"
    PROVE  /\ p = cur /\ p \in Pid /\ mode \in {"user", "kernel"} /\ mode # "woken"
           /\ proc[p].at \in RunPoint /\ proc[p] \in Process /\ Lives(proc[p])
           /\ proc[p].state # "Free" /\ ("sigsuspend" \notin Ops => OnCpu(proc[p]))
<1>1. mode \in {"user", "kernel"}
  OBVIOUS
<1>2. proc[p].at \in RunPoint
  BY <1>1, Start DEF RunPoint
<1> QED  BY <1>1, <1>2, FamilyStart DEF FamilyInv, CpuSound

------------------------------------------------------------------------------
(* Wakes, and await_io_until.                                                *)

\* q is r or r made runnable by another process.
Roused(r, q) ==
    /\ q \in Process /\ q.parent_pid = r.parent_pid /\ q.at = r.at /\ q.options = r.options
    /\ \/ q.state = r.state
       \/ q.state = "Runnable"
          /\ r.state \in {"Waiting", "SignalWait", "AwaitingIo", "Sleeping"}

\* A wake keeps the family, and cur in a state to have the CPU.
LEMMA RousedKin ==
    ASSUME NEW r, NEW q, Roused(r, q)
    PROVE  Kin(r, q)
  BY DEF Roused, Kin

\* Process::queue_signal only rouses.
LEMMA SignalRouses ==
    ASSUME NEW r \in Process, NEW sig \in Sig
    PROVE  Roused(r, QueueSignal(r, sig))
           /\ (r.state = "Waiting" => QueueSignal(r, sig).state = "Runnable")
<1> DEFINE q == [r EXCEPT !.pending_signals = @ \cup {sig}]
           c == ClearWait(q)
           f(x) == /\ x.parent_pid = r.parent_pid /\ x.at = r.at /\ x.options = r.options
                   /\ {"state", "parent_pid", "at", "options"} \subseteq DOMAIN x
           s == QueueSignal(r, sig)
<1>1. s \in Process
  BY QueueSignalPassive DEF Passive
<1>2. f(q) /\ q.state = r.state
  BY DEF Process
<1> HIDE DEF q
<1>3. f(c) /\ c.state = r.state
  BY <1>2 DEF ClearWait
<1> HIDE DEF c
<1>4. CASE r.state \in {"Waiting", "SignalWait"}
  <2>1. s = [q EXCEPT !.state = "Runnable", !.pending_io = FALSE]
    BY <1>4 DEF QueueSignal, q
  <2>2. f(s) /\ s.state = "Runnable"
    BY <1>2, <2>1
  <2> QED  BY <1>1, <1>4, <2>2 DEF Roused
<1>5. CASE r.state = "AwaitingIo" /\ Interrupts(r, sig)
  <2>1. s = [c EXCEPT !.state = "Runnable", !.pending_io = TRUE, !.wake_reason = "Signal"]
    BY <1>5 DEF QueueSignal, q, c
  <2>2. f(s) /\ s.state = "Runnable"
    BY <1>3, <2>1
  <2> QED  BY <1>1, <1>5, <2>2 DEF Roused
<1>6. CASE r.state = "Sleeping" /\ Interrupts(r, sig)
  <2>1. s = [c EXCEPT !.state = "Runnable", !.wake_reason = "Signal"]
    BY <1>6 DEF QueueSignal, q, c
  <2>2. f(s) /\ s.state = "Runnable"
    BY <1>3, <2>1
  <2> QED  BY <1>1, <1>6, <2>2 DEF Roused
<1>7. CASE /\ r.state \notin {"Waiting", "SignalWait"}
           /\ ~(r.state = "AwaitingIo" /\ Interrupts(r, sig))
           /\ ~(r.state = "Sleeping" /\ Interrupts(r, sig))
  <2>1. s = q
    BY <1>7 DEF QueueSignal, q
  <2> QED  BY <1>1, <1>2, <1>7, <2>1 DEF Roused
<1> QED  BY <1>4, <1>5, <1>6, <1>7

\* So does the forced wake of a parent.
LEMMA ForceRouses ==
    ASSUME NEW r \in Process
    PROVE  Roused(r, ForceWake(r)) /\ (r.state = "Runnable" => ForceWake(r).state = "Runnable")
<1>1. ForceWake(r) \in Process
  BY ForceWakePassive DEF Passive
<1>2. CASE r.state \in {"Waiting", "SignalWait", "AwaitingIo"}
  <2>1. ForceWake(r) = [r EXCEPT !.state = "Runnable", !.pending_io = FALSE]
    BY <1>2 DEF ForceWake
  <2> QED  BY <1>1, <1>2, <2>1 DEF Roused, Process
<1>3. CASE r.state \notin {"Waiting", "SignalWait", "AwaitingIo"}
  <2>1. ForceWake(r) = r
    BY <1>3 DEF ForceWake
  <2> QED  BY <1>1, <2>1, <1>3 DEF Roused
<1> QED  BY <1>2, <1>3

\* wake_from_timer rouses whoever waits for a deadline, with that reason.
LEMMA TimerRouses ==
    ASSUME NEW r \in Process, NEW kind, NEW q, q = WakeFromTimer(r, kind)
    PROVE  /\ Roused(r, q)
           /\ q.state = "Runnable" /\ q.wake_reason = "Event" =>
                 r.state = "Runnable" /\ r.wake_reason = "Event"
           /\ q.state # r.state => r.state \in {"Sleeping", "AwaitingIo"}
<1> DEFINE c == ClearWait(r)
<1>1. q \in Process
  BY WakeFromTimerPassive DEF Passive
<1>2. /\ c.parent_pid = r.parent_pid /\ c.at = r.at /\ c.options = r.options
      /\ {"state", "parent_pid", "at", "options", "wake_reason"} \subseteq DOMAIN c
  BY DEF ClearWait, Process
<1>3. CASE kind = "Sleep" /\ r.state = "Sleeping"
  <2>1. q = [c EXCEPT !.state = "Runnable", !.wake_reason = "Deadline"]
    BY <1>3 DEF WakeFromTimer
  <2> HIDE DEF c
  <2> QED  BY Zenon, <1>1, <1>2, <1>3, <2>1 DEF Roused
<1>4. CASE kind = "IoTimeout" /\ r.state = "AwaitingIo"
  <2>1. q = [c EXCEPT !.state = "Runnable", !.pending_io = TRUE, !.wake_reason = "Deadline"]
    BY <1>4 DEF WakeFromTimer
  <2> HIDE DEF c
  <2> QED  BY Zenon, <1>1, <1>2, <1>4, <2>1 DEF Roused
<1>5. CASE ~(kind = "Sleep" /\ r.state = "Sleeping")
           /\ ~(kind = "IoTimeout" /\ r.state = "AwaitingIo")
  <2>1. q = r
    BY <1>5 DEF WakeFromTimer
  <2> QED  BY <1>1, <2>1 DEF Roused
<1> QED  BY <1>3, <1>4, <1>5

\* The timer interrupt: what it leaves without a quantum, it reschedules.
LEMMA TimerIrqFamily ==
    ASSUME SchedInv, WaitInv, FamilyInv, TimerIrq
    PROVE  FamilyInv'
<1> DEFINE P == ExpireDue(proc, timers)
           Q == NotDue(timers)
           q == IF quantum = 0 THEN Never ELSE quantum
           n == NextRunnable(P, table, cur)
<1>1. /\ mode # "kernel" /\ UNCHANGED table
      /\ IF mode = "user" /\ n # NoPid
         THEN SwitchTo(P, Q, n)
         ELSE /\ proc' = P /\ quantum' = q /\ mode' = IrqMode /\ cur' = cur
              /\ resched' = (mode # "user" /\ (resched \/ quantum = 0))
  BY DEF TimerIrq, Rearm
<1>2. proc \in [Pid -> Process] /\ cur \in Pid /\ table \in Seq(Pid) /\ mode \in Mode
      /\ resched \in BOOLEAN
  BY DEF SchedInv, CpuInv
<1>3. P \in [Pid -> Process]
  BY <1>2, ExpireDuePassive
<1>4. ASSUME NEW p \in Pid
      PROVE  P[p] = proc[p] \/ \E kind : P[p] = WakeFromTimer(proc[p], kind)
  BY Zenon, <1>2 DEF ExpireDue
<1> HIDE DEF P
<1>5. ASSUME NEW p \in Pid
      PROVE  /\ Roused(proc[p], P[p])
             /\ P[p].state = "Runnable" /\ P[p].wake_reason = "Event" =>
                   proc[p].state = "Runnable" /\ proc[p].wake_reason = "Event"
             /\ P[p].state # proc[p].state => proc[p].state \in {"Sleeping", "AwaitingIo"}
  <2>1. proc[p] \in Process
    BY <1>2
  <2>2. CASE P[p] = proc[p]
    BY <2>1, <2>2 DEF Roused
  <2>3. CASE \E kind : P[p] = WakeFromTimer(proc[p], kind)
    <3>1. PICK kind : P[p] = WakeFromTimer(proc[p], kind)
      BY <2>3
    <3> QED  BY <2>1, <3>1, TimerRouses
  <2> QED  BY <1>4, <2>2, <2>3
<1>6. FamilySound(P, table)
  <2>1. \A p \in Pid : Kin(proc[p], P[p])
    BY <1>5, RousedKin
  <2>2. P = [p \in Pid |-> P[p]]
    BY <1>3
  <2> QED  BY <2>1, <2>2, KinFamily DEF FamilyInv
<1>7. Held(P, cur) => Held(proc, cur)
  BY <1>5 DEF Held
<1>8. CASE mode = "user" /\ n # NoPid
  <2>1. n \in Pid /\ n # cur /\ P[n].state = "Runnable"
    BY <1>2, <1>8, NextRunnableFinds
  <2> HIDE DEF n, Q
  <2> QED  BY <1>1, <1>6, <1>8, <2>1, SwitchFamily
<1>9. CASE ~(mode = "user" /\ n # NoPid)
  <2>1. /\ proc' = P /\ quantum' = q /\ mode' = IrqMode /\ cur' = cur
        /\ resched' = (mode # "user" /\ (resched \/ quantum = 0))
    BY <1>1, <1>9
  <2>2. CpuSound(P[cur], IrqMode)
    <3>1. CpuSound(proc[cur], IrqMode)
      BY Zenon, <1>1, <1>2 DEF Mode, IrqMode, FamilyInv, CpuSound
    <3>2. /\ Roused(proc[cur], P[cur])
          /\ P[cur].state # proc[cur].state => proc[cur].state \in {"Sleeping", "AwaitingIo"}
      BY <1>2, <1>5
    <3> QED  BY <3>1, <3>2 DEF CpuSound, OnCpu, Roused
  <2>3. CASE mode = "user"
    <3>1. P[cur].state # "Free" /\ Listed(P, table)
      BY <1>6, <2>2 DEF CpuSound, FamilySound
    <3>2. ~Held(P, cur)
      BY <1>2, <1>9, <2>3, <3>1, NoneRunnable DEF Held
    <3> QED  BY <1>1, <1>6, <2>1, <2>2, <3>2 DEF FamilyInv, Held
  <2>4. CASE mode # "user"
    <3>1. mode' = "woken" /\ (resched' <=> resched \/ quantum = 0)
      BY Zenon, <2>1, <2>4 DEF IrqMode
    <3>2. quantum' = Never /\ Held(P, cur) => resched'
      BY <1>7, <2>1, <3>1, FamilyStart
    <3> QED  BY <1>1, <1>6, <2>1, <2>2, <3>1, <3>2 DEF FamilyInv, Held
  <2> QED  BY <2>3, <2>4
<1> QED  BY <1>8, <1>9

\* The clock advances: nobody's place or state changes.
LEMMA TickFamily ==
    ASSUME SchedInv, WaitInv, FamilyInv, Tick
    PROVE  FamilyInv'
<1>1. /\ proc' = [p \in Pid |-> [proc[p] EXCEPT !.timeout = Less(@), !.wait_deadline = Less(@)]]
      /\ quantum' = Less(quantum) /\ UNCHANGED <<table, cur, mode, resched>>
  BY Zenon DEF Tick
<1>2. proc \in [Pid -> Process] /\ cur \in Pid /\ quantum \in Delay
  BY DEF SchedInv, CpuInv
<1>3. \A d \in Delay : Less(d) \in Delay /\ (Less(d) = Never => d = Never)
  BY DelayAssumption DEF Less, Delay, Never
<1>4. ASSUME NEW p \in Pid
      PROVE  /\ Kin(proc[p], proc'[p]) /\ proc'[p].state = proc[p].state
             /\ proc'[p].wake_reason = proc[p].wake_reason /\ proc'[p].at = proc[p].at
  <2> DEFINE r == proc[p]
             t == Less(r.timeout)
             d == Less(r.wait_deadline)
             q == [r EXCEPT !.timeout = t, !.wait_deadline = d]
  <2>1. r \in Process /\ t \in Delay /\ d \in Delay
    BY <1>2, <1>3 DEF Process
  <2>2. proc'[p] = q
    BY Zenon, <1>1
  <2> HIDE DEF t, d
  <2>3. q \in Process
    BY Zenon, <2>1 DEF Process
  <2>4. /\ q.state = r.state /\ q.at = r.at /\ q.parent_pid = r.parent_pid
        /\ q.options = r.options /\ q.wake_reason = r.wake_reason
    BY <2>1 DEF Process
  <2> HIDE DEF q
  <2> QED  BY <2>2, <2>3, <2>4 DEF Kin
<1>5. proc' = [p \in Pid |-> proc'[p]]
  BY Zenon, <1>1
<1>6. FamilySound(proc', table)
  BY <1>4, <1>5, KinFamily DEF FamilyInv
<1>7. CpuSound(proc'[cur], mode)
  BY <1>2, <1>4 DEF FamilyInv, CpuSound, OnCpu
<1>8. Held(proc', cur) => Held(proc, cur)
  BY <1>4 DEF Held
<1>9. quantum' = Never => quantum = Never
  BY Zenon, <1>1, <1>2, <1>3
<1> QED  BY Zenon, <1>1, <1>6, <1>7, <1>8, <1>9 DEF FamilyInv, Held

------------------------------------------------------------------------------
(* Births and deaths.                                                        *)

\* The table after a fork.
LEMMA AppendListed ==
    ASSUME NEW t \in Seq(Pid), NEW P, Listed(P, t), NEW c \in Pid, P[c].state = "Free",
           NEW R, R[c].state # "Free",
           \A p \in Pid \ {c} : R[p].state = "Free" <=> P[p].state = "Free"
    PROVE  Listed(R, Append(t, c))
<1> DEFINE u == Append(t, c)
           n == Len(t)
<1>1. n \in Nat /\ Len(u) = n + 1 /\ u[n + 1] = c /\ \A i \in 1..n : u[i] = t[i]
  OBVIOUS
<1>2. \A i \in 1..(n + 1) : i \in 1..n \/ i = n + 1
  BY <1>1
<1>3. \A i \in 1..n : t[i] # c /\ i \in 1..(n + 1)
  BY DEF Listed, InTable
<1>4. n + 1 \in 1..(n + 1)
  BY <1>1
<1> HIDE DEF u, n
<1>5. \A i, j \in 1..Len(u) : u[i] = u[j] => i = j
  BY <1>1, <1>2, <1>3 DEF Listed, n
<1>6. \A p : p \in InTable(u) <=> p \in InTable(t) \/ p = c
  BY <1>1, <1>2, <1>3, <1>4 DEF InTable, n
<1> QED  BY <1>5, <1>6 DEF Listed, u

\* The elements of a concatenation.
LEMMA ConcatFields ==
    ASSUME NEW S, NEW a \in Seq(S), NEW b \in Seq(S)
    PROVE  /\ Len(a \o b) = Len(a) + Len(b)
           /\ \A k \in 1..(Len(a) + Len(b)) :
                 (a \o b)[k] = IF k <= Len(a) THEN a[k] ELSE b[k - Len(a)]
<1>1. Len(a \o b) = Len(a) + Len(b)
  OBVIOUS
<1>2. ASSUME NEW k \in 1..Len(a) PROVE (a \o b)[k] = a[k]
  OBVIOUS
<1>3. ASSUME NEW k \in 1..(Len(a) + Len(b)), k > Len(a) PROVE (a \o b)[k] = b[k - Len(a)]
  BY <1>3
<1>4. Len(a) \in Nat /\ Len(b) \in Nat
  OBVIOUS
<1> QED  BY <1>1, <1>2, <1>3, <1>4

\* The table after wait4 removed entry i.
LEMMA RemoveListed ==
    ASSUME NEW t \in Seq(Pid), NEW P, Listed(P, t), NEW i \in 1..Len(t),
           NEW R, R[t[i]].state = "Free",
           \A p \in Pid \ {t[i]} : R[p].state = "Free" <=> P[p].state = "Free"
    PROVE  Listed(R, SubSeq(t, 1, i - 1) \o SubSeq(t, i + 1, Len(t)))
<1> DEFINE n == Len(t)
           a == SubSeq(t, 1, i - 1)
           b == SubSeq(t, i + 1, n)
           u == a \o b
           at(k) == IF k < i THEN k ELSE k + 1
<1>1. n \in Nat /\ i \in Nat /\ 1 <= i /\ i <= n
  OBVIOUS
<1>2. a \in Seq(Pid) /\ Len(a) = i - 1 /\ \A k \in 1..(i - 1) : a[k] = t[k]
  BY <1>1
<1>3. b \in Seq(Pid) /\ Len(b) = n - i /\ \A k \in 1..(n - i) : b[k] = t[k + i]
  BY <1>1
<1> HIDE DEF a, b, n
<1>4. Len(u) = n - 1 /\ \A k \in 1..(n - 1) : u[k] = IF k <= i - 1 THEN a[k] ELSE b[k - (i - 1)]
  <2>1. /\ Len(u) = Len(a) + Len(b)
        /\ \A k \in 1..(Len(a) + Len(b)) :
              u[k] = IF k <= Len(a) THEN a[k] ELSE b[k - Len(a)]
    BY <1>2, <1>3, ConcatFields
  <2> HIDE DEF u
  <2>2. Len(a) + Len(b) = n - 1
    BY <1>1, <1>2, <1>3
  <2> QED  BY <1>2, <2>1, <2>2
<1> HIDE DEF u
<1>5. ASSUME NEW k \in 1..(n - 1)
      PROVE  u[k] = t[at(k)] /\ at(k) \in 1..n /\ at(k) # i
  <2>1. CASE k < i
    BY <1>1, <1>2, <1>4, <2>1
  <2>2. CASE k >= i
    <3>1. k - (i - 1) \in 1..(n - i) /\ k - (i - 1) + i = k + 1
      BY <1>1, <2>2
    <3>2. b[k - (i - 1)] = t[k + 1]
      BY <1>3, <3>1
    <3>3. u[k] = b[k - (i - 1)] /\ at(k) = k + 1 /\ k + 1 \in 1..n /\ k + 1 # i
      BY <1>1, <1>4, <2>2
    <3> QED  BY <3>2, <3>3
  <2> QED  BY <1>1, <2>1, <2>2
<1>6. \A k, m \in 1..(n - 1) : at(k) = at(m) => k = m
  BY <1>1
<1>7. \A m \in 1..n : m # i => \E k \in 1..(n - 1) : at(k) = m
  <2> SUFFICES ASSUME NEW m \in 1..n, m # i
               PROVE  \E k \in 1..(n - 1) : at(k) = m
    OBVIOUS
  <2> DEFINE k == IF m < i THEN m ELSE m - 1
  <2>1. k \in 1..(n - 1) /\ at(k) = m
    BY <1>1
  <2> QED  BY <2>1
<1> HIDE DEF at
<1>8. \A k, m \in 1..Len(u) : u[k] = u[m] => k = m
  BY <1>4, <1>5, <1>6 DEF Listed, n
<1>9. InTable(u) = InTable(t) \ {t[i]}
  <2>1. ASSUME NEW p \in InTable(u)
        PROVE  p \in InTable(t) \ {t[i]}
    BY <1>4, <1>5 DEF InTable, Listed, n
  <2>2. ASSUME NEW p \in InTable(t), p # t[i]
        PROVE  p \in InTable(u)
    <3>1. PICK m \in 1..n : p = t[m]
      BY DEF InTable, n
    <3>2. PICK k \in 1..(n - 1) : at(k) = m
      BY <1>7, <2>2, <3>1
    <3>3. u[k] = p /\ k \in 1..Len(u)
      BY <1>4, <1>5, <3>1, <3>2
    <3> QED  BY <3>3 DEF InTable
  <2> QED  BY <2>1, <2>2
<1>10. t[i] \in Pid
  OBVIOUS
<1> QED  BY Zenon, <1>8, <1>9, <1>10 DEF Listed, u, a, b, n

\* fork, clone, vfork: the child of a live process joins the table.
LEMMA ForkFamily ==
    ASSUME SchedInv, WaitInv, FamilyInv, NEW p \in Pid, Fork(p)
    PROVE  FamilyInv'
<1> DEFINE F == {k \in Pid : proc[k].state = "Free"} \cup {NoPid}
           c == Least(F)
           N == NewProcess(p, proc[p].signal_mask, "user")
           r == [proc[p] EXCEPT !.at = "ret"]
           P == [proc EXCEPT ![p].at = "ret", ![c] = N]
<1>1. /\ p = cur /\ mode = "user" /\ c # NoPid /\ proc' = P /\ mode' = "kernel"
      /\ table' = Append(table, c) /\ UNCHANGED <<cur, quantum, resched>>
  BY DEF Fork, Syscall
<1>2. c \in Pid /\ proc[c].state = "Free"
  <2>1. F \in SUBSET Nat /\ F # {}
    BY PidAssumption DEF Pid, NoPid
  <2>2. c \in F
    <3> HIDE DEF F
    <3> QED  BY <2>1, LeastInSet
  <2> QED  BY <1>1, <2>2
<1> HIDE DEF c
<1>3. /\ proc[p].state \notin {"Free", "Dead"} /\ proc[p] \in Process /\ proc[p].at = "user"
      /\ Lives(proc[p]) /\ proc \in [Pid -> Process] /\ ~(quantum = Never /\ Held(proc, cur))
  BY <1>1, Start, FamilyStart DEF Lives, ExitPoint
<1>4. /\ N \in Process /\ N.at = "user" /\ N.state = "Runnable" /\ N.parent_pid = p
      /\ N.wake_reason = "none"
  <2>1. proc[p].signal_mask \in SUBSET Sig
    BY Zenon, <1>3 DEF Process
  <2>2. N \in Process
    BY Zenon, <2>1, PointModes, NewProcessType
  <2> QED  BY Zenon, <2>2 DEF NewProcess
<1> HIDE DEF N
<1>5. Goes(proc[p], "ret", r)
  BY <1>3, GoesAt DEF RunPoint
<1>6. Kin(proc[p], r) /\ CpuSound(r, "kernel")
  <2>1. "ret" \in RunPoint \cup {"wait4"} /\ "user" \in RunPoint
    BY DEF RunPoint
  <2> QED  BY <1>1, <1>3, <1>5, <2>1, RunStart, GoesKin
<1>7. P = [Set(p, r) EXCEPT ![c] = N] /\ Set(p, r) \in [Pid -> Process]
  BY <1>3, <1>6 DEF Set, r, Kin
<1> HIDE DEF r
<1>8. FamilySound(Set(p, r), table) /\ Set(p, r)[p] = r /\ Set(p, r)[c].state = "Free"
      /\ p # c
  BY Zenon, <1>2, <1>3, <1>6, KinSet DEF FamilyInv, Set
<1> DEFINE S == Set(p, r)
<1>9. \A k \in Pid \ {c} : P[k] = S[k]
  BY Zenon, <1>7
<1>10. P[c] = N /\ P \in [Pid -> Process] /\ P[p] = r /\ r.state \notin {"Free", "Dead"}
  BY <1>2, <1>3, <1>4, <1>6, <1>7, <1>8 DEF Kin
<1> HIDE DEF P, S
<1>11. \A k \in Pid : Lives(P[k])
  BY <1>4, <1>8, <1>9, <1>10 DEF FamilySound, Lives, S, ExitPoint
<1>12. Listed(P, Append(table, c))
  <2>1. table \in Seq(Pid) /\ Listed(S, table) /\ S[c].state = "Free" /\ P[c].state # "Free"
    BY <1>4, <1>8, <1>10 DEF SchedInv, FamilySound, S
  <2> QED  BY <1>2, <1>9, <2>1, AppendListed
<1>13. Family(P)
  <2>1. ASSUME NEW k \in Pid, P[k].state = "Waiting"
        PROVE  \E d \in Pid : P[d].state # "Free" /\ P[d].parent_pid = k
    <3>1. S[k].state = "Waiting"
      BY <1>4, <1>9, <1>10, <2>1
    <3>2. PICK d \in Pid : S[d].state # "Free" /\ S[d].parent_pid = k
      BY <1>8, <3>1 DEF FamilySound, Family, S
    <3> QED  BY <1>8, <1>9, <3>2 DEF S
  <2>2. \A k, d \in Pid : P[k].state = "Waiting" /\ P[d].parent_pid = k => P[d].state # "Dead"
    BY <1>4, <1>8, <1>9, <1>10 DEF FamilySound, Family, S
  <2>3. ASSUME NEW k \in Pid \ {Service}, P[k].state # "Free"
        PROVE  P[k].parent_pid = InitPid \/ P[P[k].parent_pid].state \notin {"Free", "Dead"}
    <3>1. CASE k = c
      BY <1>4, <1>10, <3>1
    <3>2. CASE k # c
      <4>1. S[k].parent_pid = InitPid \/ S[S[k].parent_pid].state \notin {"Free", "Dead"}
        BY Zenon, <1>8, <1>9, <2>3, <3>2 DEF FamilySound, Family, S
      <4>2. S[k].parent_pid \in Pid
        BY <1>8 DEF FamilySound, Process, S
      <4> QED  BY <1>8, <1>9, <3>2, <4>1, <4>2 DEF S
    <3> QED  BY <3>1, <3>2
  <2>4. P[InitPid].state # "Free" /\ P[InitPid].parent_pid = Service
    BY <1>8, <1>9, ConstantTypes DEF FamilySound, Family, S
  <2>5. \A k \in Pid \ {Service} : P[k].parent_pid # k
    BY <1>4, <1>8, <1>9, <1>10 DEF FamilySound, Family, S
  <2> QED  BY <2>1, <2>2, <2>3, <2>4, <2>5 DEF Family
<1>14. Held(P, cur) => Held(proc, cur)
  BY <1>1, <1>2, <1>4, <1>9, <1>10 DEF Held, S, Set
<1> QED
  BY <1>1, <1>3, <1>6, <1>10, <1>11, <1>12, <1>13, <1>14 DEF FamilyInv, FamilySound, Held

\* The loop of wait4: a zombie is reaped by its parent, and a parent waits
\* only with a child and no zombie.
LEMMA Wait4ScanFamily ==
    ASSUME SchedInv, WaitInv, FamilyInv, NEW p \in Pid, Wait4Scan(p)
    PROVE  FamilyInv'
<1> DEFINE r == proc[p]
           child(c) == proc[c].state # "Free" /\ proc[c].parent_pid = p
           stopped(c) == /\ "untraced" \in r.options
                         /\ proc[c].state = "Stopped" /\ ~proc[c].wait_reported
           hits == {k \in 1..Len(table) :
                       /\ child(table[k])
                       /\ proc[table[k]].state = "Dead" \/ stopped(table[k])}
           i == Least(hits)
           c == table[i]
           done == [r EXCEPT !.at = "ret"]
           u == [r EXCEPT !.state = "Waiting"]
           P == [proc EXCEPT ![p] = done, ![c] = FreeProcess]
<1>1. p = cur /\ r.at = "wait4" /\ mode = "kernel"
  BY Zenon DEF Wait4Scan, Kernel
<1>2. /\ r \in Process /\ Lives(r) /\ r.state # "Free" /\ p # Service
      /\ ("sigsuspend" \notin Ops => OnCpu(r)) /\ ~(quantum = Never /\ Held(proc, cur))
      /\ proc \in [Pid -> Process] /\ FamilySound(proc, table) /\ table \in Seq(Pid)
  BY <1>1, Start, FamilyStart DEF FamilyInv, CpuSound, Sound, AwaitPoint, SchedInv
<1>3. Goes(r, "ret", done)
  BY <1>2, GoesAt DEF RunPoint
<1>4. r.state # "Dead" /\ done \in Process /\ done.at = "ret" /\ done.state = r.state
      /\ done.parent_pid = r.parent_pid
  BY <1>1, <1>2, <1>3 DEF Goes, Lives, ExitPoint
<1>5. r.state # "Waiting" => Kin(r, done) /\ CpuSound(done, "kernel")
  BY <1>1, <1>2, <1>4 DEF Kin, ExitPoint, CpuSound, OnCpu, Lives
<1>6. hits # {} => i \in 1..Len(table) /\ c \in Pid /\ child(c) /\ proc[c].state = "Dead"
  <2>1. hits \in SUBSET Nat /\ hits \in SUBSET (1..Len(table))
    OBVIOUS
  <2>2. hits # {} => i \in hits
    <3> HIDE DEF hits
    <3> QED  BY <2>1, LeastInSet
  <2>3. \A k \in 1..Len(table) : table[k] \in Pid
    BY <1>2
  <2>4. \A k \in Pid : proc[k].state # "Stopped"
    BY Zenon, <1>2 DEF FamilySound, Lives
  <2> HIDE DEF i
  <2> QED  BY <2>2, <2>3, <2>4
<1>7. hits = {} => \A k \in Pid : proc[k].parent_pid = p => proc[k].state # "Dead"
  <2> SUFFICES ASSUME hits = {}, NEW k \in Pid, proc[k].parent_pid = p, proc[k].state = "Dead"
               PROVE  FALSE
    OBVIOUS
  <2>1. PICK j \in 1..Len(table) : table[j] = k
    BY <1>2 DEF FamilySound, Listed, InTable
  <2>2. j \in hits
    BY <2>1
  <2> QED  BY <2>2
<1>8. r.state = "Waiting" => "nohang" \notin r.options /\ \E k \in Pid : child(k)
  BY Zenon, <1>2 DEF Lives, FamilySound, Family
<1>9. r.state = "Waiting" => hits = {}
  <2> SUFFICES ASSUME r.state = "Waiting", hits # {}
               PROVE  FALSE
    OBVIOUS
  <2>1. c \in Pid /\ proc[c].parent_pid = p /\ proc[c].state = "Dead"
    BY Zenon, <1>6
  <2> HIDE DEF hits, i
  <2> QED  BY Zenon, <1>2, <2>1 DEF FamilySound, Family
<1>10. CASE hits # {} /\ Continue(P, "kernel") /\ UNCHANGED resched
            /\ table' = SubSeq(table, 1, i - 1) \o SubSeq(table, i + 1, Len(table))
  <2>1. /\ c \in Pid /\ proc[c].parent_pid = p /\ proc[c].state = "Dead" /\ c # p
        /\ c # Service /\ i \in 1..Len(table)
    <3>1. \A k \in Pid : proc[k].state = "Dead" => k # Service
      BY DEF WaitInv, TableSound, Sound
    <3> HIDE DEF hits, i
    <3> QED  BY <1>4, <1>6, <1>10, <3>1
  <2>2. r.state # "Waiting"
    <3> HIDE DEF hits
    <3> QED  BY <1>9, <1>10
  <2>3. Continue(P, "kernel") /\ UNCHANGED resched
        /\ table' = SubSeq(table, 1, i - 1) \o SubSeq(table, i + 1, Len(table))
    BY Zenon, <1>10
  <2> HIDE DEF hits, i, done
  <2>4. FreeProcess \in Process /\ FreeProcess.state = "Free" /\ FreeProcess.parent_pid = Service
    BY FreeProcessType DEF FreeProcess, NewProcess
  <2> DEFINE S == Set(p, done)
  <2>5. FamilySound(S, table) /\ S[p] = done
    BY Zenon, <1>2, <1>5, <2>2, KinSet DEF Set
  <2>6. P = [S EXCEPT ![c] = FreeProcess] /\ S[c] = proc[c]
    BY <2>1 DEF Set
  <2> HIDE DEF S
  <2>7. /\ P[c] = FreeProcess /\ P \in [Pid -> Process] /\ P[p] = done
        /\ \A k \in Pid \ {c} : P[k] = S[k]
    BY Zenon, <2>1, <2>4, <2>5, <2>6 DEF FamilySound
  <2> HIDE DEF P, FreeProcess
  <2>8. \A k \in Pid : Lives(P[k])
    <3>1. Lives(FreeProcess)
      BY DEF FreeProcess, NewProcess, Lives, ExitPoint
    <3> QED  BY <2>5, <2>7, <3>1 DEF FamilySound
  <2>9. Listed(P, table')
    <3>1. Listed(S, table) /\ P[table[i]].state = "Free"
      BY <2>4, <2>5, <2>7 DEF FamilySound
    <3> QED  BY Zenon, <1>2, <2>1, <2>3, <2>7, <3>1, RemoveListed
  <2>10. Family(P)
    <3>1. ASSUME NEW k \in Pid, P[k].state = "Waiting"
          PROVE  \E d \in Pid : P[d].state # "Free" /\ P[d].parent_pid = k
      <4>1. S[k].state = "Waiting" /\ k # p
        BY <1>4, <2>2, <2>4, <2>7, <3>1
      <4>2. PICK d \in Pid : S[d].state # "Free" /\ S[d].parent_pid = k
        BY <2>5, <4>1 DEF FamilySound, Family
      <4> QED  BY <2>1, <2>6, <2>7, <4>1, <4>2
    <3>2. \A k, d \in Pid : P[k].state = "Waiting" /\ P[d].parent_pid = k => P[d].state # "Dead"
      BY <2>4, <2>5, <2>7 DEF FamilySound, Family
    <3>3. ASSUME NEW k \in Pid \ {Service}, P[k].state # "Free"
          PROVE  P[k].parent_pid = InitPid \/ P[P[k].parent_pid].state \notin {"Free", "Dead"}
      <4>1. P[k] = S[k]
        BY <2>4, <2>7, <3>3
      <4>2. S[k].parent_pid = InitPid \/ S[S[k].parent_pid].state \notin {"Free", "Dead"}
        BY <2>5, <3>3, <4>1 DEF FamilySound, Family
      <4>3. S[k].parent_pid \in Pid
        BY <2>5 DEF FamilySound, Process
      <4> QED  BY <2>1, <2>6, <2>7, <4>1, <4>2, <4>3
    <3>4. P[InitPid].state # "Free" /\ P[InitPid].parent_pid = Service
      <4>1. c # InitPid
        BY Zenon, <1>2, <2>1 DEF FamilySound, Family
      <4> QED  BY <2>5, <2>7, <4>1, ConstantTypes DEF FamilySound, Family
    <3>5. \A k \in Pid \ {Service} : P[k].parent_pid # k
      BY <2>4, <2>5, <2>7 DEF FamilySound, Family
    <3> QED  BY <3>1, <3>2, <3>3, <3>4, <3>5 DEF Family
  <2>11. ~(quantum = Never /\ Held(P, cur)) /\ CpuSound(P[cur], "kernel")
    <3>1. Held(P, cur) => Held(proc, cur)
      BY <1>1, <2>4, <2>7 DEF Held, S, Set
    <3> QED  BY Zenon, <1>1, <1>2, <1>5, <2>2, <2>7, <3>1
  <2>12. FamilySound(P, table')
    BY <2>7, <2>8, <2>9, <2>10 DEF FamilySound
  <2> QED  BY Zenon, <2>3, <2>11, <2>12 DEF FamilyInv, Continue, Held
<1>11. CASE hits = {} /\ Enter(p, done)
            /\ ("nohang" \in r.options \/ ~ \E k \in Pid : child(k))
  <2>1. r.state # "Waiting"
    BY <1>8, <1>11
  <2>2. Kin(r, done) /\ CpuSound(done, "kernel") /\ mode # "woken"
    BY <1>1, <1>5, <2>1
  <2> HIDE DEF done
  <2> QED  BY <1>1, <1>11, <2>2, EnterFamily
<1>12. CASE /\ hits = {} /\ "nohang" \notin r.options /\ \E k \in Pid : child(k)
            /\ UNCHANGED table /\ ScheduleNow(Set(p, u), Continue(Set(p, u), "kernel"))
  <2> DEFINE W == Set(p, u)
  <2>1. u \in Process /\ u.at = "wait4" /\ u.state = "Waiting" /\ u.options = r.options
        /\ u.parent_pid = r.parent_pid
    <3>1. "Waiting" \in State
      BY DEF State
    <3>2. u \in Process
      BY Zenon, <1>2, <3>1 DEF Process
    <3> QED  BY Zenon, <1>1, <1>2, <3>2 DEF Process
  <2> HIDE DEF u
  <2>2. /\ W \in [Pid -> Process] /\ W[p] = u /\ \A k \in Pid \ {p} : W[k] = proc[k]
    BY <1>2, <2>1 DEF Set
  <2>3. \A k \in Pid : proc[k].parent_pid = p => proc[k].state # "Dead"
    BY Zenon, <1>7, <1>12
  <2>4. PICK s \in Pid : proc[s].state # "Free" /\ proc[s].parent_pid = p
    BY <1>12
  <2>5. ScheduleNow(W, Continue(W, "kernel")) /\ UNCHANGED table
    BY <1>12
  <2> HIDE DEF W
  <2>6. \A k \in Pid : Lives(W[k])
    <3>1. "nohang" \notin u.options
      BY <1>12, <2>1
    <3>2. Lives(u)
      BY Zenon, <2>1, <3>1 DEF Lives, ExitPoint
    <3>3. \A k \in Pid : Lives(proc[k])
      BY Zenon, <1>2 DEF FamilySound
    <3> QED  BY Zenon, <2>2, <3>2, <3>3
  <2>7. Listed(W, table)
    BY <1>2, <2>1, <2>2 DEF FamilySound, Listed
  <2>8. \A k \in Pid : W[k].parent_pid = proc[k].parent_pid
                       /\ (W[k].state = "Free" <=> proc[k].state = "Free")
                       /\ (W[k].state = "Dead" <=> proc[k].state = "Dead")
    BY <1>2, <1>4, <2>1, <2>2
  <2>9. Family(W)
    <3>1. ASSUME NEW k \in Pid, W[k].state = "Waiting"
          PROVE  \E d \in Pid : W[d].state # "Free" /\ W[d].parent_pid = k
      <4>1. PICK d \in Pid : proc[d].state # "Free" /\ proc[d].parent_pid = k
        BY <1>2, <2>2, <2>4, <3>1 DEF FamilySound, Family
      <4> QED  BY <2>8, <4>1
    <3>2. \A k, d \in Pid : W[k].state = "Waiting" /\ W[d].parent_pid = k => W[d].state # "Dead"
      BY <1>2, <2>2, <2>3, <2>8 DEF FamilySound, Family
    <3>3. ASSUME NEW k \in Pid \ {Service}, W[k].state # "Free"
          PROVE  W[k].parent_pid = InitPid \/ W[W[k].parent_pid].state \notin {"Free", "Dead"}
      <4>1. /\ proc[k].parent_pid \in Pid
            /\ proc[k].parent_pid = InitPid
               \/ proc[proc[k].parent_pid].state \notin {"Free", "Dead"}
        BY Zenon, <1>2, <2>8, <3>3 DEF FamilySound, Family, Process
      <4> QED  BY <2>8, <4>1
    <3>4. W[InitPid].state # "Free" /\ W[InitPid].parent_pid = Service
      BY Zenon, <1>2, <2>8, ConstantTypes DEF FamilySound, Family
    <3>5. \A k \in Pid \ {Service} : W[k].parent_pid # k
      BY Zenon, <1>2, <2>8 DEF FamilySound, Family
    <3> QED  BY <3>1, <3>2, <3>3, <3>4, <3>5 DEF Family
  <2>10. FamilySound(W, table)
    BY <2>2, <2>6, <2>7, <2>9 DEF FamilySound
  <2>11. CpuSound(W[cur], "kernel") /\ W[cur].state # "Free"
    BY <1>1, <2>1, <2>2 DEF CpuSound, OnCpu, AwaitPoint
  <2> QED  BY <2>5, <2>10, <2>11, ScheduleFamily
<1>13. hits # {} => proc[c].state = "Dead"
  BY Zenon, <1>6
<1> QED
  BY Zenon, <1>10, <1>11, <1>12, <1>13 DEF Wait4Scan

\* reparent_children: what it does to each entry, and that a zombie it moves
\* rouses init.
LEMMA ReparentFields ==
    ASSUME NEW P \in [Pid -> Process], NEW p
    PROVE  LET R == Reparent(P, {p})
               moved(c) == P[c].state # "Free" /\ P[c].parent_pid = p /\ p # InitPid
           IN  /\ R \in [Pid -> Process]
               /\ \A c \in Pid :
                     /\ R[c].at = P[c].at /\ R[c].options = P[c].options
                     /\ R[c].parent_pid = IF moved(c) THEN InitPid ELSE P[c].parent_pid
                     /\ \/ R[c].state = P[c].state
                        \/ R[c].state = "Runnable"
                           /\ P[c].state \in {"Waiting", "SignalWait", "AwaitingIo", "Sleeping"}
                     /\ moved(c) /\ P[c].state = "Dead" => R[InitPid].state # "Waiting"
<1> DEFINE moved == {c \in DOMAIN P : P[c].state # "Free"
                                      /\ P[c].parent_pid \in {p} \ {InitPid}}
           f(r) == [r EXCEPT !.parent_pid = InitPid]
           M == [c \in DOMAIN P |-> IF c \in moved THEN f(P[c]) ELSE P[c]]
           q == QueueSignal(M[InitPid], SIGCHLD)
           R == Reparent(P, {p})
<1>1. R \in [Pid -> Process] /\ InitPid \in Pid
  BY ReparentPassive, ChldAssumption, ConstantTypes
<1>2. R = IF \E c \in moved : P[c].state = "Dead" THEN [M EXCEPT ![InitPid] = q] ELSE M
  BY DEF Reparent
<1> HIDE DEF R
<1>3. ASSUME NEW r \in Process
      PROVE  /\ f(r) \in Process /\ f(r).at = r.at /\ f(r).options = r.options
             /\ f(r).state = r.state /\ f(r).parent_pid = InitPid
  <2>1. f(r) \in Process
    BY ConstantTypes DEF Process
  <2> QED  BY <2>1 DEF Process
<1> HIDE DEF f
<1>4. ASSUME NEW c \in Pid
      PROVE  /\ M[c] \in Process /\ M[c].at = P[c].at /\ M[c].options = P[c].options
             /\ M[c].state = P[c].state
             /\ M[c].parent_pid = IF c \in moved THEN InitPid ELSE P[c].parent_pid
  BY <1>3
<1>5. M = [c \in Pid |-> M[c]] /\ \A c \in Pid : c \in moved <=>
        P[c].state # "Free" /\ P[c].parent_pid = p /\ p # InitPid
  OBVIOUS
<1> HIDE DEF M, moved
<1>6. Roused(M[InitPid], q) /\ (M[InitPid].state = "Waiting" => q.state = "Runnable")
  BY <1>1, <1>4, SignalRouses, ChldAssumption
<1> HIDE DEF q
<1>7. ASSUME NEW c \in Pid
      PROVE  R[c] = M[c] \/ Roused(M[c], R[c])
  BY <1>1, <1>2, <1>5, <1>6
<1>8. (\E c \in moved : P[c].state = "Dead") => R[InitPid].state # "Waiting"
  <2>1. q.state # "Waiting"
    BY <1>6 DEF Roused
  <2> QED  BY <1>1, <1>2, <1>5, <2>1
<1>9. ASSUME NEW c \in Pid
      PROVE  /\ R[c].at = P[c].at /\ R[c].options = P[c].options
             /\ R[c].parent_pid = IF c \in moved THEN InitPid ELSE P[c].parent_pid
             /\ \/ R[c].state = P[c].state
                \/ R[c].state = "Runnable"
                   /\ P[c].state \in {"Waiting", "SignalWait", "AwaitingIo", "Sleeping"}
  BY <1>4, <1>7 DEF Roused
<1> QED  BY Zenon, <1>1, <1>5, <1>8, <1>9 DEF R

\* What exit leaves in the table: p a zombie, its children init's, its parent
\* not in wait4.
LEMMA Bereaved ==
    ASSUME NEW t, NEW A, FamilySound(A, t), NEW p \in Pid \ {Service}, A[p].state # "Free",
           NEW P \in [Pid -> Process], P[p].state = "Dead", P[p].at = "exited",
           P[A[p].parent_pid].state # "Waiting",
           \A c \in Pid :
              /\ P[c].parent_pid = IF A[c].state # "Free" /\ A[c].parent_pid = p /\ p # InitPid
                                   THEN InitPid ELSE A[c].parent_pid
              /\ c # p => P[c].at = A[c].at /\ P[c].options = A[c].options
              /\ \/ c = p \/ P[c].state = A[c].state
                 \/ P[c].state = "Runnable"
                    /\ A[c].state \in {"Waiting", "SignalWait", "AwaitingIo", "Sleeping"}
              /\ A[c].state # "Free" /\ A[c].parent_pid = p /\ p # InitPid /\ A[c].state = "Dead"
                    => P[InitPid].state # "Waiting"
    PROVE  FamilySound(P, t)
<1>1. \A c \in Pid : Lives(P[c])
  BY ZenonT(40) DEF FamilySound, Lives, ExitPoint
<1>2. \A c \in Pid : (P[c].state = "Free" <=> A[c].state = "Free")
                     /\ (c # p => (P[c].state = "Dead" <=> A[c].state = "Dead"))
                     /\ (P[c].state = "Waiting" => c # p /\ A[c].state = "Waiting")
  BY Zenon
<1>3. Listed(P, t)
  BY <1>2 DEF FamilySound, Listed
<1>4. ASSUME NEW k \in Pid, P[k].state = "Waiting"
      PROVE  \E c \in Pid : P[c].state # "Free" /\ P[c].parent_pid = k
  <2>1. k # p /\ A[k].state = "Waiting"
    BY <1>2, <1>4
  <2>2. PICK c \in Pid : A[c].state # "Free" /\ A[c].parent_pid = k
    BY <2>1 DEF FamilySound, Family
  <2> QED  BY Zenon, <1>2, <2>1, <2>2
<1>5. ASSUME NEW k \in Pid, NEW c \in Pid, P[k].state = "Waiting", P[c].parent_pid = k,
             P[c].state = "Dead"
      PROVE  FALSE
  <2>1. k # p /\ A[k].state = "Waiting"
    BY Zenon, <1>2, <1>5
  <2>2. A[p].parent_pid # p
    BY DEF FamilySound, Family
  <2>3. c # p
    BY Zenon, <1>5, <2>2
  <2>4. A[c].state = "Dead"
    BY Zenon, <1>2, <1>5, <2>3
  <2>5. A[c].parent_pid # k
    BY <2>1, <2>4 DEF FamilySound, Family
  <2>6. A[c].state # "Free" /\ A[c].parent_pid = p /\ p # InitPid /\ k = InitPid
    BY Zenon, <1>5, <2>4, <2>5
  <2> QED  BY Zenon, <1>5, <2>4, <2>6
<1>6. ASSUME NEW c \in Pid \ {Service}, P[c].state # "Free"
      PROVE  P[c].parent_pid = InitPid \/ P[P[c].parent_pid].state \notin {"Free", "Dead"}
  <2>1. A[c].state # "Free" /\ A[c].parent_pid \in Pid
    BY <1>2, <1>6 DEF FamilySound, Process
  <2>2. A[c].parent_pid = InitPid \/ A[A[c].parent_pid].state \notin {"Free", "Dead"}
    BY <2>1 DEF FamilySound, Family
  <2>3. CASE A[c].parent_pid = p
    BY <2>1, <2>3
  <2>4. CASE A[c].parent_pid # p
    BY SMTT(20), <1>2, <2>1, <2>2, <2>4
  <2> QED  BY Zenon, <2>3, <2>4
<1>7. A[InitPid].state # "Free" /\ A[InitPid].parent_pid = Service /\ InitPid \in Pid
  BY ConstantTypes DEF FamilySound, Family
<1>8. P[InitPid].state # "Free" /\ P[InitPid].parent_pid = Service
  BY Zenon, <1>2, <1>7
<1>9. \A c \in Pid \ {Service} : P[c].parent_pid # c
  BY <1>7 DEF FamilySound, Family
<1> QED  BY Zenon, <1>1, <1>3, <1>4, <1>5, <1>6, <1>8, <1>9 DEF FamilySound, Family

\* exit, exit_group and terminate_current_by_signal: the parent hears of it, and
\* without anyone to run the exiting process idles on its own stack.
LEMMA ExitFamily ==
    ASSUME SchedInv, WaitInv, FamilyInv, NEW p \in Pid, NEW how, Exit(p, how)
    PROVE  FamilyInv'
<1> DEFINE parent == proc[p].parent_pid
           R == Reparent(proc, {p})
           w == IF how = "fault" THEN "killed" ELSE "exited"
           x == [ClearWait(R[p]) EXCEPT
                    !.state = "Dead", !.wake_reason = "none", !.at = "exited",
                    !.wait_status = w, !.wait_reported = FALSE]
           D == [R EXCEPT ![p] = x]
           told == QueueSignal(D[parent], SIGCHLD)
           y == IF how = "group" THEN told ELSE ForceWake(told)
           P == [D EXCEPT ![parent] = y]
           n == IF P[parent].state = "Runnable" THEN parent ELSE NextRunnable(P, table, p)
           I == [P EXCEPT ![p].at = "exitIdle"]
           moved(c) == proc[c].state # "Free" /\ proc[c].parent_pid = p /\ p # InitPid
<1>1. /\ p = cur /\ mode = "user" /\ UNCHANGED <<table, resched>>
      /\ IF n # NoPid THEN SwitchTo(P, timers, n)
         ELSE proc' = I /\ mode' = "kernel" /\ Rearm(I, timers, Never) /\ cur' = cur
  BY Zenon DEF Exit, Syscall
<1>2. /\ proc \in [Pid -> Process] /\ parent \in Pid /\ p # Service /\ table \in Seq(Pid)
      /\ FamilySound(proc, table) /\ proc[p].state # "Free" /\ parent # p
      /\ proc[p].state # "Dead"
  <2>1. /\ proc \in [Pid -> Process] /\ p # Service /\ proc[p].at = "user" /\ Lives(proc[p])
        /\ proc[p].state # "Free" /\ FamilySound(proc, table)
    BY Zenon, <1>1, Start, FamilyStart DEF FamilyInv
  <2>2. parent \in Pid
    BY Zenon, <2>1 DEF Process
  <2>3. parent # p
    BY <2>1 DEF FamilySound, Family
  <2> QED  BY <2>1, <2>2, <2>3 DEF SchedInv, Lives, ExitPoint
<1>3. /\ R \in [Pid -> Process]
      /\ \A c \in Pid :
            /\ R[c].at = proc[c].at /\ R[c].options = proc[c].options
            /\ R[c].parent_pid = IF moved(c) THEN InitPid ELSE proc[c].parent_pid
            /\ \/ R[c].state = proc[c].state
               \/ R[c].state = "Runnable"
                  /\ proc[c].state \in {"Waiting", "SignalWait", "AwaitingIo", "Sleeping"}
            /\ moved(c) /\ proc[c].state = "Dead" => R[InitPid].state # "Waiting"
  BY Zenon, <1>2, ReparentFields
<1> HIDE DEF R
<1>4. x \in Process /\ x.state = "Dead" /\ x.at = "exited" /\ x.parent_pid = R[p].parent_pid
  <2> DEFINE r == R[p]
  <2>1. w \in Status /\ r \in Process
    BY <1>3 DEF Status
  <2> HIDE DEF w, r
  <2>2. x = Exited(r, w)
    BY DEF Exited, r
  <2>3. x \in Process
    BY Zenon, <2>1, <2>2, ExitEntry DEF Owned, Exited
  <2>4. x.state = "Dead" /\ x.at = "exited" /\ x.parent_pid = r.parent_pid
    BY Zenon, <2>1, <2>2 DEF Exited, ClearWait, Process
  <2> QED  BY <2>3, <2>4 DEF r
<1> HIDE DEF x
<1>5. D \in [Pid -> Process] /\ D[p] = x /\ \A c \in Pid \ {p} : D[c] = R[c]
  BY <1>3, <1>4
<1> HIDE DEF D
<1>6. Roused(D[parent], y) /\ y.state # "Waiting"
  <2>1. D[parent] \in Process
    BY Zenon, <1>2, <1>5
  <2>2. Roused(D[parent], told) /\ told.state # "Waiting"
    BY SMTT(20), <2>1, SignalRouses, ChldAssumption DEF Roused
  <2> HIDE DEF told
  <2>3. Roused(told, ForceWake(told)) /\ told \in Process
    BY <2>2, ForceRouses DEF Roused
  <2> QED  BY Zenon, <2>2, <2>3 DEF Roused
<1> HIDE DEF y
<1>7. /\ P \in [Pid -> Process] /\ P[p] = x /\ P[parent].state # "Waiting"
      /\ \A c \in Pid : P[c] = D[c] \/ Roused(D[c], P[c])
  BY Zenon, <1>2, <1>5, <1>6 DEF Roused
<1> HIDE DEF P
<1>8. ASSUME NEW c \in Pid
      PROVE  /\ P[c].parent_pid = IF moved(c) THEN InitPid ELSE proc[c].parent_pid
             /\ c # p => P[c].at = proc[c].at /\ P[c].options = proc[c].options
             /\ \/ c = p \/ P[c].state = proc[c].state
                \/ P[c].state = "Runnable"
                   /\ proc[c].state \in {"Waiting", "SignalWait", "AwaitingIo", "Sleeping"}
             /\ moved(c) /\ proc[c].state = "Dead" => P[InitPid].state # "Waiting"
  <2>1. /\ P[c].parent_pid = D[c].parent_pid /\ P[c].at = D[c].at
        /\ P[c].options = D[c].options
        /\ \/ P[c].state = D[c].state
           \/ P[c].state = "Runnable"
              /\ D[c].state \in {"Waiting", "SignalWait", "AwaitingIo", "Sleeping"}
    <3>1. CASE P[c] = D[c]
      BY <3>1
    <3>2. CASE Roused(D[c], P[c])
      BY <3>2 DEF Roused
    <3> QED  BY Zenon, <1>7, <3>1, <3>2
  <2>2. D[c].parent_pid = R[c].parent_pid /\ (c # p => D[c] = R[c])
    BY <1>4, <1>5
  <2>3. P[InitPid].state = "Waiting" => R[InitPid].state = "Waiting"
    <3>1. P[InitPid].state = "Waiting" => D[InitPid].state = "Waiting"
      BY <1>7, ConstantTypes DEF Roused
    <3>2. D[InitPid].state = "Waiting" => R[InitPid].state = "Waiting"
      BY <1>4, <1>5, ConstantTypes
    <3> QED  BY <3>1, <3>2
  <2>4. /\ R[c].at = proc[c].at /\ R[c].options = proc[c].options
        /\ R[c].parent_pid = IF moved(c) THEN InitPid ELSE proc[c].parent_pid
        /\ \/ R[c].state = proc[c].state
           \/ R[c].state = "Runnable"
              /\ proc[c].state \in {"Waiting", "SignalWait", "AwaitingIo", "Sleeping"}
        /\ moved(c) /\ proc[c].state = "Dead" => R[InitPid].state # "Waiting"
    BY Zenon, <1>3
  <2> HIDE DEF moved
  <2>5. c # p => P[c].at = proc[c].at /\ P[c].options = proc[c].options
    BY Zenon, <2>1, <2>2, <2>4
  <2>6. \/ c = p \/ P[c].state = proc[c].state
        \/ P[c].state = "Runnable"
           /\ proc[c].state \in {"Waiting", "SignalWait", "AwaitingIo", "Sleeping"}
    BY <2>1, <2>2, <2>4
  <2> QED  BY Zenon, <2>1, <2>2, <2>3, <2>4, <2>5, <2>6
<1>9. FamilySound(P, table) /\ P[p].state = "Dead" /\ P[p].at = "exited"
  <2>1. P[p].state = "Dead" /\ P[p].at = "exited" /\ p \in Pid \ {Service}
    BY Zenon, <1>2, <1>4, <1>7
  <2>2. \A c \in Pid :
           /\ P[c].parent_pid = IF moved(c) THEN InitPid ELSE proc[c].parent_pid
           /\ c # p => P[c].at = proc[c].at /\ P[c].options = proc[c].options
           /\ \/ c = p \/ P[c].state = proc[c].state
              \/ P[c].state = "Runnable"
                 /\ proc[c].state \in {"Waiting", "SignalWait", "AwaitingIo", "Sleeping"}
           /\ moved(c) /\ proc[c].state = "Dead" => P[InitPid].state # "Waiting"
    <3> HIDE DEF moved
    <3> QED  BY Zenon, <1>8
  <2> QED  BY Zenon, <1>2, <1>7, <2>1, <2>2, Bereaved
<1>10. CASE n # NoPid
  <2>1. n \in Pid /\ n # cur /\ P[n].state = "Runnable"
    <3>1. CASE P[parent].state = "Runnable"
      BY <1>1, <1>2, <3>1
    <3>2. CASE P[parent].state # "Runnable"
      BY <1>1, <1>2, <1>10, <3>2, NextRunnableFinds
    <3> QED  BY Zenon, <3>1, <3>2
  <2>2. SwitchTo(P, timers, n)
    BY <1>1, <1>10
  <2> HIDE DEF n
  <2> QED  BY <1>1, <1>9, <2>1, <2>2, SwitchFamily
<1>11. CASE n = NoPid
  <2> DEFINE r == P[p]
             z == [r EXCEPT !.at = "exitIdle"]
  <2>1. proc' = I /\ mode' = "kernel" /\ cur' = cur
    BY <1>1, <1>11
  <2>2. NextRunnable(P, table, p) = NoPid
    BY <1>2, <1>11, ConstantTypes
  <2>3. I = [P EXCEPT ![p] = z]
    OBVIOUS
  <2>4. z \in Process /\ z.at = "exitIdle" /\ z.state = "Dead" /\ z.parent_pid = r.parent_pid
    <3>1. r \in Process /\ r.state = "Dead"
      BY <1>7, <1>9
    <3>2. "exitIdle" \in Point
      BY DEF Point
    <3> HIDE DEF r
    <3>3. z \in Process
      BY Zenon, <3>1, <3>2, OwnUpdates DEF Owned
    <3> QED  BY <3>1, <3>3 DEF Process
  <2>5. Kin(P[p], z)
    BY <1>9, <2>4 DEF Kin, ExitPoint
  <2> HIDE DEF z, n
  <2>6. FamilySound(I, table) /\ I[cur] = z /\ \A k \in Pid \ {cur} : I[k] = P[k]
    BY Zenon, <1>1, <1>7, <1>9, <2>3, <2>5, KinSet
  <2>7. \A k \in Pid \ {p} : P[k].state # "Runnable"
    BY <1>2, <1>9, <2>2, NoneRunnable DEF FamilySound
  <2> HIDE DEF I
  <2>8. ~Held(I, cur)
    BY Zenon, <1>1, <2>6, <2>7 DEF Held
  <2>9. CpuSound(I[cur], "kernel")
    BY <2>4, <2>6 DEF CpuSound, OnCpu, AwaitPoint
  <2> QED  BY Zenon, <1>1, <2>1, <2>6, <2>8, <2>9 DEF FamilyInv, Held
<1> QED  BY <1>10, <1>11

\* After boot init runs, its children are runnable, and no event woke anyone.
LEMMA InitFamily ==
    ASSUME Init, SchedInv
    PROVE  FamilyInv
<1> DEFINE s == NewProcess(Service, {}, "serve")
           i == [NewProcess(Service, {}, "user") EXCEPT !.state = "Running"]
           c == NewProcess(InitPid, {}, "user")
<1>1. /\ proc[Service] = s /\ proc[InitPid] = i
      /\ \A p \in Pid : p \in 2..Forked => proc[p] = c
      /\ \A p \in Pid : p \notin 0..Forked => proc[p] = FreeProcess
      /\ 0..Forked \subseteq Pid /\ Forked \in Nat /\ Forked >= 1
      /\ Service = 0 /\ InitPid = 1
      /\ cur = InitPid /\ mode = "user" /\ resched = FALSE
  BY ConstantTypes, PidAssumption, ForkedAssumption DEF Init, Pid, Service, InitPid
<1>2. \A p \in Pid : p = Service \/ p = InitPid \/ p \in 2..Forked \/ p \notin 0..Forked
  BY <1>1, ConstantTypes
<1>3. /\ s.state = "Runnable" /\ s.at = "serve" /\ s.parent_pid = Service /\ s.wake_reason = "none"
      /\ i.state = "Running" /\ i.at = "user" /\ i.parent_pid = Service
      /\ c.state = "Runnable" /\ c.at = "user" /\ c.parent_pid = InitPid
      /\ c.wake_reason = "none"
      /\ FreeProcess.state = "Free" /\ FreeProcess.at = "user"
      /\ FreeProcess.parent_pid = Service /\ FreeProcess.wake_reason = "none"
  BY DEF NewProcess, FreeProcess
<1>4. proc \in [Pid -> Process]
  BY DEF SchedInv, CpuInv
<1> HIDE DEF s, i, c
<1>5. \A p \in Pid : Lives(proc[p])
  BY <1>1, <1>2, <1>3 DEF Lives, ExitPoint
<1>6. \A p \in Pid : proc[p].state # "Free" <=> p \in 0..Forked
  BY <1>1, <1>2, <1>3
<1>7. Len(table) = Forked + 1 /\ \A k \in 1..(Forked + 1) : table[k] = k - 1
  BY <1>1 DEF Init
<1>8. Listed(proc, table)
  <2>1. \A a, b \in 1..Len(table) : table[a] = table[b] => a = b
    BY <1>1, <1>7
  <2>2. ASSUME NEW p \in 0..Forked PROVE p \in InTable(table)
    <3>1. p + 1 \in 1..(Forked + 1) /\ (p + 1) - 1 = p
      BY <1>1
    <3> QED  BY <1>7, <3>1 DEF InTable
  <2>3. \A p \in InTable(table) : p \in 0..Forked
    BY <1>1, <1>7 DEF InTable
  <2> QED  BY <1>6, <2>1, <2>2, <2>3 DEF Listed
<1>9. Family(proc)
  <2>1. \A p \in Pid : proc[p].state \notin {"Waiting", "Dead"}
    BY <1>1, <1>2, <1>3
  <2>2. ASSUME NEW p \in Pid \ {Service}, proc[p].state # "Free"
        PROVE  proc[p].parent_pid = InitPid
               \/ proc[proc[p].parent_pid].state \notin {"Free", "Dead"}
    BY <1>1, <1>2, <1>3, <1>6, <2>2
  <2>3. \A p \in Pid \ {Service} : proc[p].parent_pid # p
    BY <1>1, <1>2, <1>3
  <2> QED  BY <1>1, <1>3, <2>1, <2>2, <2>3 DEF Family
<1>10. CpuSound(proc[cur], mode) /\ ~Held(proc, cur)
  BY <1>1, <1>2, <1>3 DEF CpuSound, OnCpu, AwaitPoint, Held
<1> QED  BY <1>4, <1>5, <1>8, <1>9, <1>10 DEF FamilyInv, FamilySound
==============================================================================
