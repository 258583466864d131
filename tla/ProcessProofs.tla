---------------------------- MODULE ProcessProofs ----------------------------
(***************************************************************************)
(* Lemmas about the operators of Process.tla, what they return and what    *)
(* they leave alone, and about the entries that the actions of Sched.tla   *)
(* write.                                                                  *)
(***************************************************************************)
EXTENDS SchedInvariants, FiniteSetTheorems, TLAPS

(* A set of naturals that is not empty has a least element.  If it had none, *)
(* its lower bounds T would be closed under successor and miss some k; what  *)
(* is not in T could move down by one, and 0..k would fit into 0..(k - 1).   *)
LEMMA WellOrdered ==
    ASSUME NEW S \in SUBSET Nat, S # {}
    PROVE  \E x \in S : \A y \in S : x <= y
<1> SUFFICES ASSUME \A x \in S : \E y \in S : y < x PROVE FALSE
  OBVIOUS
<1> DEFINE T == {n \in Nat : \A s \in S : n <= s}
<1>1. /\ 0 \in T
      /\ \A n \in Nat : n \in T => n + 1 \in T
  OBVIOUS
<1>2. PICK k \in Nat : k \notin T
  <2>1. PICK s \in S : TRUE
    BY Zenon
  <2>2. s \in Nat /\ s \notin T
    <3>1. PICK y \in S : y < s
      OBVIOUS
    <3> QED
      BY <3>1
  <2> QED
    BY <2>2
<1> HIDE DEF T
<1>3. k # 0 /\ k - 1 \in Nat
  BY <1>1, <1>2
<1> DEFINE f == [n \in 0..k |-> IF n \in T THEN n ELSE n - 1]
<1>4. f \in [0..k -> 0..(k - 1)]
  <2> SUFFICES ASSUME NEW n \in 0..k
               PROVE  (IF n \in T THEN n ELSE n - 1) \in 0..(k - 1)
    OBVIOUS
  <2> QED
    BY <1>1, <1>2, <1>3
<1>5. \A x, y \in 0..k : f[x] = f[y] => x = y
  <2> SUFFICES ASSUME NEW x \in 0..k, NEW y \in 0..k, x \in T, y \notin T
               PROVE  x # y - 1
    OBVIOUS
  <2>1. y # 0 /\ y - 1 \in Nat
    BY <1>1
  <2>2. y - 1 \in T => y \in T
    BY <1>1, <2>1
  <2> QED
    BY <2>2
<1>6. /\ IsFiniteSet(0..k) /\ Cardinality(0..k) = k + 1
      /\ IsFiniteSet(0..(k - 1)) /\ Cardinality(0..(k - 1)) = k
  BY FS_Interval, <1>3
<1>7. \E x, y \in 0..k : x # y /\ f[x] = f[y]
  <2>1. Cardinality(0..(k - 1)) < Cardinality(0..k)
    BY <1>6
  <2> HIDE DEF f
  <2> QED
    BY Zenon, <1>4, <1>6, <2>1, FS_PigeonHole
<1> QED
  BY <1>5, <1>7

(* Least returns the least element: NextRunnable, FreeTokens and             *)
(* EarliestDeadline all pick with it.                                        *)
LEMMA LeastInSet ==
    ASSUME NEW S \in SUBSET Nat, S # {}
    PROVE  Least(S) \in S /\ \A y \in S : Least(S) <= y
<1>1. \E x \in S : \A y \in S : x <= y
  BY WellOrdered
<1> QED
  BY Zenon, <1>1 DEF Least

(* The constants the operators mention belong to their types.                *)
LEMMA ConstantTypes ==
    /\ 0 \in Token /\ Never \in Delay /\ 0 \in Delay /\ Delay \subseteq Nat
    /\ Token \subseteq Nat
    /\ Service \in Pid /\ InitPid \in Pid /\ NoPid \notin Pid /\ Pid \subseteq Nat
  BY PidAssumption, DelayAssumption, WaitsAssumption
  DEF Token, Delay, Never, Pid, Service, InitPid, NoPid

\* A fresh entry is well-formed.
LEMMA NewProcessType ==
    ASSUME NEW parent \in Pid, NEW mask \in SUBSET Sig, NEW at \in Point
    PROVE  NewProcess(parent, mask, at) \in Process
  BY ConstantTypes DEF NewProcess, Process, State, Status, Reason

\* The record that stands for an absent entry is well-formed.
LEMMA FreeProcessType == FreeProcess \in Process
<1>1. NewProcess(Service, {}, "user") \in Process
  BY NewProcessType, ConstantTypes DEF Point
<1> QED
  BY <1>1 DEF FreeProcess, Process, State

------------------------------------------------------------------------------
(* What may happen to a process from outside: it does not start to run and   *)
(* it gets no new wait token.                                                *)
Passive(r, q) ==
    /\ q \in Process
    /\ q.state = "Running" => r.state = "Running"
    /\ q.wait_token \in {0, r.wait_token}

\* Passive changes compose.
LEMMA PassiveTrans ==
    ASSUME NEW r \in Process, NEW q, NEW s, Passive(r, q), Passive(q, s)
    PROVE  Passive(r, s)
  BY DEF Passive

\* No change is a passive change.
LEMMA PassiveRefl ==
    ASSUME NEW r \in Process
    PROVE  Passive(r, r)
  BY DEF Passive

\* Withdrawing a token is passive.
LEMMA ClearWaitPassive ==
    ASSUME NEW r \in Process
    PROVE  Passive(r, ClearWait(r)) /\ ClearWait(r).state = r.state
<1>1. ClearWait(r) \in Process
  BY Zenon, ConstantTypes DEF ClearWait, Process
<1> QED
  BY <1>1 DEF Passive, ClearWait, Process

(* The updates that wakes and signals make.                                  *)
LEMMA WakePassive ==
    ASSUME NEW r \in Process, NEW s \in State, s # "Running",
           NEW b \in BOOLEAN, NEW w \in Reason
    PROVE  /\ Passive(r, [r EXCEPT !.state = s, !.pending_io = b])
           /\ Passive(r, [r EXCEPT !.state = s, !.wake_reason = w])
           /\ Passive(r, [r EXCEPT !.state = s, !.pending_io = b, !.wake_reason = w])
           /\ Passive(r, [r EXCEPT !.pending_io = b])
<1>1. /\ [r EXCEPT !.state = s, !.pending_io = b] \in Process
      /\ [r EXCEPT !.state = s, !.wake_reason = w] \in Process
      /\ [r EXCEPT !.state = s, !.pending_io = b, !.wake_reason = w] \in Process
      /\ [r EXCEPT !.pending_io = b] \in Process
  BY Zenon DEF Process
<1> QED
  BY Zenon, <1>1 DEF Passive, Process

\* Recording a signal is passive.
LEMMA PendPassive ==
    ASSUME NEW r \in Process, NEW sig \in Sig
    PROVE  Passive(r, [r EXCEPT !.pending_signals = @ \cup {sig}])
<1>1. [r EXCEPT !.pending_signals = @ \cup {sig}] \in Process
  BY DEF Process
<1> QED
  BY Zenon, <1>1 DEF Passive, Process

\* Process::queue_signal is passive.
LEMMA QueueSignalPassive ==
    ASSUME NEW r \in Process, NEW sig \in Sig
    PROVE  Passive(r, QueueSignal(r, sig))
<1> DEFINE q == [r EXCEPT !.pending_signals = @ \cup {sig}]
<1>1. Passive(r, q) /\ q \in Process
  BY PendPassive DEF Passive
<1>2. Passive(r, ClearWait(q)) /\ ClearWait(q) \in Process
  <2>1. Passive(q, ClearWait(q))
    BY <1>1, ClearWaitPassive
  <2> QED
    BY <1>1, <2>1, PassiveTrans DEF Passive
<1>3. "Runnable" \in State /\ "Signal" \in Reason
  BY DEF State, Reason
<1>4. /\ Passive(q, [q EXCEPT !.state = "Runnable", !.pending_io = FALSE])
      /\ Passive(ClearWait(q), [ClearWait(q) EXCEPT !.state = "Runnable",
                                     !.pending_io = TRUE, !.wake_reason = "Signal"])
      /\ Passive(ClearWait(q), [ClearWait(q) EXCEPT !.state = "Runnable",
                                     !.wake_reason = "Signal"])
  <2> HIDE DEF q
  <2> QED
    BY Zenon, <1>1, <1>2, <1>3, WakePassive
<1>5. \/ QueueSignal(r, sig) = q
      \/ QueueSignal(r, sig) = [q EXCEPT !.state = "Runnable", !.pending_io = FALSE]
      \/ QueueSignal(r, sig) = [ClearWait(q) EXCEPT !.state = "Runnable",
                                     !.pending_io = TRUE, !.wake_reason = "Signal"]
      \/ QueueSignal(r, sig) = [ClearWait(q) EXCEPT !.state = "Runnable",
                                     !.wake_reason = "Signal"]
  BY DEF QueueSignal
<1> QED
  <2> HIDE DEF q
  <2> QED
    BY <1>1, <1>2, <1>4, <1>5, PassiveTrans

\* The forced wake of a parent is passive.
LEMMA ForceWakePassive ==
    ASSUME NEW r \in Process
    PROVE  Passive(r, ForceWake(r))
<1>1. "Runnable" \in State /\ "Event" \in Reason
  BY DEF State, Reason
<1> QED
  BY Zenon, <1>1, WakePassive, PassiveRefl DEF ForceWake

\* wake_process is passive.
LEMMA WakeProcessPassive ==
    ASSUME NEW r \in Process
    PROVE  Passive(r, WakeProcess(r))
<1>1. "Runnable" \in State /\ "Event" \in Reason
  BY DEF State, Reason
<1> QED
  BY Zenon, <1>1, WakePassive, PassiveRefl DEF WakeProcess

\* wake_from_timer is passive.
LEMMA WakeFromTimerPassive ==
    ASSUME NEW r \in Process, NEW kind
    PROVE  Passive(r, WakeFromTimer(r, kind))
<1>1. "Runnable" \in State /\ "Deadline" \in Reason
  BY DEF State, Reason
<1>2. Passive(r, ClearWait(r)) /\ ClearWait(r) \in Process
  BY ClearWaitPassive DEF Passive
<1>3. /\ Passive(ClearWait(r), [ClearWait(r) EXCEPT !.state = "Runnable",
                                     !.wake_reason = "Deadline"])
      /\ Passive(ClearWait(r), [ClearWait(r) EXCEPT !.state = "Runnable",
                                     !.pending_io = TRUE, !.wake_reason = "Deadline"])
  BY Zenon, <1>1, <1>2, WakePassive
<1> QED
  BY <1>2, <1>3, PassiveTrans, PassiveRefl DEF WakeFromTimer

\* apply_signal_to_process is passive.
LEMMA ApplySignalPassive ==
    ASSUME NEW r \in Process, NEW sig \in Sig
    PROVE  Passive(r, ApplySignal(r, sig))
<1> DEFINE mark(s, w) == [r EXCEPT !.state = s, !.wait_status = w,
                                   !.wait_reported = FALSE]
<1>1. \A s \in State \ {"Running"}, w \in Status :
         Passive(r, mark(s, w)) /\ mark(s, w) \in Process
  <2> SUFFICES ASSUME NEW s \in State, s # "Running", NEW w \in Status
               PROVE  Passive(r, mark(s, w)) /\ mark(s, w) \in Process
    BY Zenon
  <2>1. mark(s, w) \in Process
    BY Zenon DEF Process
  <2> QED
    BY <2>1 DEF Passive, Process
<1>2. /\ {"Runnable", "Stopped", "Dead"} \subseteq State \ {"Running"}
      /\ {"continued", "stopped", "killed"} \subseteq Status
  BY DEF State, Status
<1>3. /\ Passive(r, QueueSignal(r, sig))
      /\ Passive(r, QueueSignal(mark("Runnable", "continued"), sig))
  <2> HIDE DEF mark
  <2>1. /\ Passive(r, mark("Runnable", "continued"))
        /\ mark("Runnable", "continued") \in Process
    BY <1>1, <1>2
  <2>2. Passive(mark("Runnable", "continued"),
                QueueSignal(mark("Runnable", "continued"), sig))
    BY <2>1, QueueSignalPassive
  <2> QED
    BY <2>1, <2>2, QueueSignalPassive, PassiveTrans
<1>4. \/ ApplySignal(r, sig) = QueueSignal(r, sig)
      \/ ApplySignal(r, sig) = QueueSignal(mark("Runnable", "continued"), sig)
      \/ ApplySignal(r, sig) = mark("Stopped", "stopped")
      \/ ApplySignal(r, sig) = mark("Dead", "killed")
  BY DEF ApplySignal
<1> QED
  <2> HIDE DEF mark
  <2> QED
    BY <1>1, <1>2, <1>3, <1>4

------------------------------------------------------------------------------
(* What a process does to its own entry without blocking anew.               *)
Owned(r, q) == q \in Process /\ q.wait_token \in {0, r.wait_token}

\* Changes by the owner compose.
LEMMA OwnedTrans ==
    ASSUME NEW r \in Process, NEW q, NEW s, Owned(r, q), Owned(q, s)
    PROVE  Owned(r, s)
  BY DEF Owned

\* What others may do to an entry, its owner may do too.
LEMMA PassiveOwned ==
    ASSUME NEW r \in Process, NEW q, Passive(r, q)
    PROVE  Owned(r, q)
  BY DEF Owned, Passive

\* deliver_pending_signal changes only the entry of its owner.
LEMMA DeliverOwned ==
    ASSUME NEW r \in Process, NEW sig \in Sig
    PROVE  Owned(r, Deliver(r, sig))
<1> DEFINE old == IF r.in_sigsuspend THEN r.saved_mask ELSE r.signal_mask
           d   == [r EXCEPT !.pending_signals = @ \ {sig}, !.in_sigsuspend = FALSE,
                            !.saved_mask = {}]
<1>1. old \in SUBSET Sig
  BY DEF Process
<1>2. d \in Process /\ d.wait_token = r.wait_token
  BY Zenon DEF Process
<1>3. \A q \in Process, m \in SUBSET Sig :
        /\ Owned(q, [q EXCEPT !.signal_mask = @ \cup {sig}, !.frames = Append(@, m)])
        /\ Owned(q, [q EXCEPT !.signal_mask = m])
  <2> SUFFICES ASSUME NEW q \in Process, NEW m \in SUBSET Sig
      PROVE /\ Owned(q, [q EXCEPT !.signal_mask = @ \cup {sig}, !.frames = Append(@, m)])
            /\ Owned(q, [q EXCEPT !.signal_mask = m])
    BY Zenon
  <2>1. q.signal_mask \cup {sig} \in SUBSET Sig /\ Append(q.frames, m) \in Seq(SUBSET Sig)
    BY DEF Process
  <2>2. \A f \in Seq(SUBSET Sig), k \in SUBSET Sig :
            [q EXCEPT !.signal_mask = k, !.frames = f] \in Process
    BY Zenon DEF Process
  <2>3. [q EXCEPT !.signal_mask = m] \in Process
    BY Zenon DEF Process
  <2> QED
    BY Zenon, <2>1, <2>2, <2>3 DEF Owned, Process
<1>4. \/ Deliver(r, sig) = [d EXCEPT !.signal_mask = @ \cup {sig}, !.frames = Append(@, old)]
      \/ Deliver(r, sig) = [d EXCEPT !.signal_mask = old]
  BY DEF Deliver
<1> QED
  <2> HIDE DEF d, old
  <2>1. Owned(d, Deliver(r, sig))
    BY Zenon, <1>1, <1>2, <1>3, <1>4
  <2> QED
    BY <1>2, <2>1 DEF Owned

\* cancel_owned only withdraws a token.
LEMMA CancelOwnedOwned ==
    ASSUME NEW r \in Process
    PROVE  Owned(r, CancelOwned(r))
  BY ClearWaitPassive DEF CancelOwned, Owned, Passive

\* take_wake_reason publishes no token.
LEMMA TakeWakeReasonOwned ==
    ASSUME NEW r \in Process
    PROVE  Owned(r, TakeWakeReason(r))
<1>1. /\ "woke" \in Point /\ {"none", "Event"} \subseteq Reason
      /\ 0 \in Token /\ r.wake_reason \in Reason
  BY ConstantTypes DEF Point, Reason, Process
<1>2. \A w \in Reason, v \in Reason, a \in Point, t \in Token :
        Owned(r, [r EXCEPT !.reason = w, !.wake_reason = v, !.at = a, !.io_token = t])
  <2> SUFFICES ASSUME NEW w \in Reason, NEW v \in Reason, NEW a \in Point, NEW t \in Token
               PROVE Owned(r, [r EXCEPT !.reason = w, !.wake_reason = v, !.at = a,
                                        !.io_token = t])
    BY Zenon
  <2>1. [r EXCEPT !.reason = w, !.wake_reason = v, !.at = a, !.io_token = t] \in Process
    BY Zenon DEF Process
  <2> QED
    BY <2>1 DEF Owned, Process
<1> QED
  BY Zenon, <1>1, <1>2 DEF TakeWakeReason

\* read_and_clear_wake_reason publishes no token.
LEMMA ReadAndClearOwned ==
    ASSUME NEW r \in Process
    PROVE  Owned(r, ReadAndClearWakeReason(r))
<1> DEFINE c == ClearWait(r)
<1>1. /\ "slept" \in Point /\ {"none", "Deadline", "Cancelled"} \subseteq Reason
      /\ "Running" \in State /\ r.wake_reason \in Reason
  BY DEF Point, Reason, State, Process
<1>2. c \in Process /\ Owned(r, c)
  BY ClearWaitPassive, PassiveOwned DEF Owned
<1>3. \A w \in Reason, v \in Reason, s \in State, a \in Point :
        Owned(c, [c EXCEPT !.reason = w, !.wake_reason = v, !.state = s, !.at = a])
  <2> HIDE DEF c
  <2> SUFFICES ASSUME NEW w \in Reason, NEW v \in Reason, NEW s \in State, NEW a \in Point
               PROVE Owned(c, [c EXCEPT !.reason = w, !.wake_reason = v, !.state = s,
                                        !.at = a])
    BY Zenon
  <2>1. [c EXCEPT !.reason = w, !.wake_reason = v, !.state = s, !.at = a] \in Process
    BY Zenon, <1>2 DEF Process
  <2> QED
    BY <1>2, <2>1 DEF Owned, Process
<1>4. Owned(c, ReadAndClearWakeReason(r))
  BY Zenon, <1>1, <1>3 DEF ReadAndClearWakeReason
<1> QED
  <2> HIDE DEF c
  <2> QED
    BY <1>2, <1>4, OwnedTrans

------------------------------------------------------------------------------
(* The deadline queue and the process table.                                 *)

(* earliest_deadline is a lower bound of the quantum and every live deadline. *)
LEMMA EarliestDeadlineCovers ==
    ASSUME NEW P, NEW Q \in SUBSET Entry, NEW q \in Delay
    PROVE  /\ EarliestDeadline(P, Q, q) \in Delay
           /\ EarliestDeadline(P, Q, q) <= q
           /\ \A e \in LiveEntries(P, Q) : EarliestDeadline(P, Q, q) <= e.deadline
<1> DEFINE D == {e.deadline : e \in LiveEntries(P, Q)} \cup {q}
<1>1. D \subseteq Delay /\ q \in D /\ \A e \in LiveEntries(P, Q) : e.deadline \in D
  BY DEF LiveEntries, Entry
<1>2. EarliestDeadline(P, Q, q) = Least(D)
  BY DEF EarliestDeadline
<1> QED
  <2> HIDE DEF D
  <2>1. D \in SUBSET Nat /\ D # {}
    BY <1>1, ConstantTypes
  <2>2. Least(D) \in D /\ \A y \in D : Least(D) <= y
    BY <2>1, LeastInSet
  <2> QED
    BY <1>1, <1>2, <2>2

(* drain_stale_head drops no live entry and adds none.                       *)
LEMMA DrainStaleKeepsLive ==
    ASSUME NEW P, NEW Q \in SUBSET Entry
    PROVE  /\ DrainStale(P, Q) \subseteq Q
           /\ LiveEntries(P, DrainStale(P, Q)) = LiveEntries(P, Q)
<1>1. \A e \in Q : e.deadline \in Delay
  BY DEF Entry
<1>2. \A d \in Delay : d <= d
  BY DelayAssumption DEF Delay, Never
<1> QED
  BY <1>1, <1>2 DEF DrainStale, LiveEntries

\* A free token is nobody's: publishing it makes no old entry live again.
LEMMA FreeTokenFresh ==
    ASSUME NEW P, NEW Q, FreeTokens(P, Q) # {}
    PROVE  /\ Least(FreeTokens(P, Q)) \in 1..MaxWaits
           /\ \A e \in Q : e.token # Least(FreeTokens(P, Q))
<1>1. FreeTokens(P, Q) \in SUBSET Nat
  BY WaitsAssumption DEF FreeTokens
<1>2. Least(FreeTokens(P, Q)) \in FreeTokens(P, Q)
  BY <1>1, LeastInSet
<1> QED
  BY <1>2 DEF FreeTokens

(* expire_due wakes processes, and does nothing else to them.                *)
LEMMA ExpireDuePassive ==
    ASSUME NEW P \in [Pid -> Process], NEW Q
    PROVE  /\ ExpireDue(P, Q) \in [Pid -> Process]
           /\ \A p \in Pid : Passive(P[p], ExpireDue(P, Q)[p])
<1>1. \A p \in Pid : \A kind : Passive(P[p], WakeFromTimer(P[p], kind))
  BY WakeFromTimerPassive
<1>2. \A p \in Pid : Passive(P[p], P[p])
  BY PassiveRefl
<1>3. \A p \in Pid : Passive(P[p], ExpireDue(P, Q)[p])
  BY <1>1, <1>2 DEF ExpireDue
<1> QED
  BY <1>3 DEF ExpireDue, Passive

(* reparent_children changes parents, and queues SIGCHLD on init.            *)
LEMMA ReparentPassive ==
    ASSUME NEW P \in [Pid -> Process], NEW Dying, SIGCHLD \in Sig
    PROVE  /\ Reparent(P, Dying) \in [Pid -> Process]
           /\ \A p \in Pid : Passive(P[p], Reparent(P, Dying)[p])
<1> DEFINE moved == {c \in DOMAIN P : P[c].state # "Free"
                                      /\ P[c].parent_pid \in Dying \ {InitPid}}
           R == [c \in DOMAIN P |-> IF c \in moved
                                    THEN [P[c] EXCEPT !.parent_pid = InitPid]
                                    ELSE P[c]]
           N == [R EXCEPT ![InitPid] = QueueSignal(@, SIGCHLD)]
<1>1. \A r \in Process : Passive(r, [r EXCEPT !.parent_pid = InitPid])
  <2> SUFFICES ASSUME NEW r \in Process
               PROVE  Passive(r, [r EXCEPT !.parent_pid = InitPid])
    OBVIOUS
  <2>1. [r EXCEPT !.parent_pid = InitPid] \in Process
    BY Zenon, ConstantTypes DEF Process
  <2> QED
    BY <2>1 DEF Passive, Process
<1>2. R \in [Pid -> Process] /\ \A p \in Pid : Passive(P[p], R[p])
  <2>1. \A p \in Pid : Passive(P[p], R[p])
    BY <1>1, PassiveRefl
  <2> QED
    BY <2>1 DEF Passive
<1>3. Reparent(P, Dying) \in {R, N}
  BY DEF Reparent
<1>4. N \in [Pid -> Process] /\ \A p \in Pid : Passive(P[p], N[p])
  <2> HIDE DEF R
  <2>1. \A p \in Pid : R[p] \in Process /\ Passive(R[p], QueueSignal(R[p], SIGCHLD))
    BY <1>2, QueueSignalPassive
  <2>2. \A p \in Pid : Passive(P[p], QueueSignal(R[p], SIGCHLD))
    BY <1>2, <2>1, PassiveTrans
  <2>3. \A p \in Pid : Passive(P[p], N[p])
    BY <1>2, <2>2
  <2> QED
    BY Zenon, <1>2, <2>3 DEF Passive
<1> QED
  <2> HIDE DEF R, N
  <2> QED
    BY <1>2, <1>3, <1>4

(* find_next_runnable_index finds a runnable process other than c, or none. *)
LEMMA NextRunnableFinds ==
    ASSUME NEW P, NEW t \in Seq(Pid), NEW c, NEW n, n = NextRunnable(P, t, c),
           n # NoPid
    PROVE  n \in Pid /\ n # c /\ P[n].state = "Runnable"
<1> DEFINE here == {i \in 1..Len(t) : t[i] = c}
           runnable == {i \in 1..Len(t) : P[t[i]].state = "Runnable"}
           after == {i \in runnable : \A h \in here : h < i}
           before == {i \in runnable : \A h \in here : i < h}
<1>1. \/ here # {} /\ after # {} /\ n = t[Least(after)]
      \/ here # {} /\ before # {} /\ n = t[Least(before)]
  BY Zenon DEF NextRunnable
<1>2. \A i \in runnable : t[i] \in Pid /\ P[t[i]].state = "Runnable"
  OBVIOUS
<1>3. after \in SUBSET Nat /\ before \in SUBSET Nat
  OBVIOUS
<1>4. \/ after # {} /\ n = t[Least(after)] /\ Least(after) \in after
      \/ before # {} /\ n = t[Least(before)] /\ Least(before) \in before
  <2> HIDE DEF after, before
  <2> QED
    BY <1>1, <1>3, LeastInSet
<1>5. \A i \in after \cup before : i \in runnable /\ i \notin here
  OBVIOUS
<1>6. \E i \in after \cup before : n = t[i]
  <2> HIDE DEF after, before
  <2> QED
    BY <1>4
<1> QED
  BY <1>2, <1>5, <1>6

------------------------------------------------------------------------------
(* What the proofs about Sched.tla share.                                   *)

(* Updates of an entry by its own process.                                   *)
LEMMA OwnUpdates ==
    ASSUME NEW r \in Process
    PROVE  /\ \A a \in Point : Owned(r, [r EXCEPT !.at = a])
           /\ \A s \in State : Owned(r, [r EXCEPT !.state = s])
           /\ \A b \in BOOLEAN, s \in State :
                 Owned(r, [r EXCEPT !.pending_io = b, !.state = s])
           /\ \A a \in Point, d \in Delay : Owned(r, [r EXCEPT !.at = a, !.timeout = d])
           /\ \A a \in Point, w \in Reason : Owned(r, [r EXCEPT !.at = a, !.reason = w])
           /\ \A a \in Point, o \in SUBSET {"nohang", "untraced"} :
                 Owned(r, [r EXCEPT !.at = a, !.options = o])
           /\ \A a \in Point, m \in SUBSET Sig :
                 Owned(r, [r EXCEPT !.signal_mask = m, !.at = a])
<1>1. ASSUME NEW a \in Point, NEW s \in State, NEW b \in BOOLEAN, NEW d \in Delay,
             NEW w \in Reason
      PROVE  /\ Owned(r, [r EXCEPT !.at = a])
             /\ Owned(r, [r EXCEPT !.state = s])
             /\ Owned(r, [r EXCEPT !.pending_io = b, !.state = s])
             /\ Owned(r, [r EXCEPT !.at = a, !.timeout = d])
             /\ Owned(r, [r EXCEPT !.at = a, !.reason = w])
  <2>1. /\ [r EXCEPT !.at = a] \in Process
        /\ [r EXCEPT !.state = s] \in Process
        /\ [r EXCEPT !.pending_io = b, !.state = s] \in Process
    BY Zenon DEF Process
  <2>2. /\ [r EXCEPT !.at = a, !.timeout = d] \in Process
        /\ [r EXCEPT !.at = a, !.reason = w] \in Process
    BY Zenon DEF Process
  <2> QED
    BY Zenon, <2>1, <2>2 DEF Owned, Process
<1>2. ASSUME NEW a \in Point, NEW o \in SUBSET {"nohang", "untraced"}, NEW m \in SUBSET Sig
      PROVE  /\ Owned(r, [r EXCEPT !.at = a, !.options = o])
             /\ Owned(r, [r EXCEPT !.signal_mask = m, !.at = a])
  <2>1. /\ [r EXCEPT !.at = a, !.options = o] \in Process
        /\ [r EXCEPT !.signal_mask = m, !.at = a] \in Process
    BY Zenon DEF Process
  <2> QED
    BY <2>1 DEF Owned, Process
<1>3. "user" \in Point /\ "none" \in Reason /\ "Running" \in State /\ Never \in Delay
  BY ConstantTypes DEF Point, Reason, State
<1> QED
  BY Zenon, <1>1, <1>2, <1>3

\* A published wait leaves a well-formed entry in the table.
LEMMA PublishType ==
    ASSUME NEW r \in Process, NEW t \in Token, NEW d \in Delay
    PROVE  Publish(r, t, d) \in Process /\ Publish(r, t, d).wait_token = t
<1>1. "none" \in Reason
  BY DEF Reason
<1> QED
  BY Zenon, <1>1 DEF Publish, Process

\* The end of await_io_until touches only the fields that its owner may.
LEMMA WokenOwned ==
    ASSUME NEW r \in Process
    PROVE  Owned(r, Woken(r))
<1> DEFINE s == IF r.state = "Runnable" THEN "Running" ELSE r.state
           w == [r EXCEPT !.pending_io = FALSE, !.state = s]
<1>1. s \in State
  BY DEF State, Process
<1>2. Owned(r, w) /\ w \in Process
  <2> HIDE DEF s
  <2> QED
    BY Zenon, <1>1, OwnUpdates DEF Owned
<1>3. Woken(r) = TakeWakeReason(CancelOwned(w))
  BY DEF Woken
<1> HIDE DEF w
<1>4. Owned(w, CancelOwned(w)) /\ CancelOwned(w) \in Process
  BY <1>2, CancelOwnedOwned DEF Owned
<1>5. Owned(CancelOwned(w), TakeWakeReason(CancelOwned(w)))
  BY <1>4, TakeWakeReasonOwned
<1> QED
  BY <1>2, <1>3, <1>4, <1>5, OwnedTrans

------------------------------------------------------------------------------
(* One lemma per group of actions: each preserves the invariant.             *)

\* The points, modes and reasons that the actions name are of their types.
LEMMA PointModes ==
    /\ {"user", "ret", "poll", "awaitIdle", "awaitDrop", "sleep", "sleepIdle",
        "sleepSwitched", "wait4", "serve", "exitIdle", "exited"} \subseteq Point
    /\ {"user", "kernel", "halt", "woken"} \subseteq Mode
    /\ "none" \in Reason
  BY DEF Point, Mode, Reason

(* The entry of a process that exits.                                        *)
LEMMA ExitEntry ==
    ASSUME NEW r \in Process, NEW w \in Status,
           NEW q, q = [ClearWait(r) EXCEPT !.state = "Dead", !.wake_reason = "none",
                          !.at = "exited", !.wait_status = w, !.wait_reported = FALSE]
    PROVE  Owned(r, q) /\ q.state = "Dead"
<1> DEFINE c == ClearWait(r)
<1>1. c \in Process /\ Owned(r, c)
  BY ClearWaitPassive, PassiveOwned DEF Owned
<1>2. q = [c EXCEPT !.state = "Dead", !.wake_reason = "none", !.at = "exited",
                    !.wait_status = w, !.wait_reported = FALSE]
  OBVIOUS
<1> HIDE DEF c
<1>3. "Dead" \in State /\ "none" \in Reason /\ "exited" \in Point
  BY DEF State, Reason, Point
<1>4. q \in Process
  <2> DEFINE u(s, v, a) == [c EXCEPT !.state = s, !.wake_reason = v, !.at = a,
                                     !.wait_status = w, !.wait_reported = FALSE]
  <2>1. \A s \in State, v \in Reason, a \in Point : u(s, v, a) \in Process
    BY <1>1, Zenon DEF Process
  <2>2. q = u("Dead", "none", "exited")
    BY <1>2
  <2> HIDE DEF u
  <2> QED
    BY <1>3, <2>1, <2>2
<1> QED
  BY Zenon, <1>1, <1>2, <1>4 DEF Owned, Process

\* A zombie stays one when SIGCHLD reaches it, also as its own parent.
LEMMA DeadStays ==
    ASSUME NEW r \in Process, r.state = "Dead", NEW sig \in Sig
    PROVE  QueueSignal(r, sig).state = "Dead" /\ ForceWake(QueueSignal(r, sig)).state = "Dead"
  BY DEF QueueSignal, ForceWake, Process

\* One tick preserves the order of two deadlines.
LEMMA LessMonotone ==
    /\ \A d \in Delay : Less(d) \in Delay
    /\ \A d, e \in Delay : d <= e => Less(d) <= Less(e)
  BY DelayAssumption DEF Less, Delay, Never

\* P is a table that a step may turn proc into, with queue Q.
Reached(P, Q) ==
    /\ P \in [Pid -> Process]
    /\ TableSound(P, Q)
    /\ \A p \in Pid : P[p].wake_reason = "Deadline" =>
          proc[p].wake_reason = "Deadline" \/ proc[p].wait_deadline = 0

\* The invariants give every action lemma its start.
LEMMA Start ==
    ASSUME SchedInv, WaitInv
    PROVE  /\ Reached(proc, timers) /\ timers \in SUBSET Entry
           /\ cur \in Pid /\ proc[cur] \in Process /\ Sound(cur, proc[cur])
           /\ CpuPlaced(proc[cur], mode)
           /\ mode = "user" => proc[cur].at = "user" /\ cur # Service
<1>1. Sound(cur, proc[cur]) /\ cur \in Pid /\ proc[cur] \in Process
  BY DEF SchedInv, CpuInv, WaitInv, TableSound
<1>2. mode = "user" => proc[cur].at = "user" /\ cur # Service
  BY Zenon, <1>1 DEF WaitInv, CpuPlaced, Sound, AwaitPoint
<1> QED
  BY <1>1, <1>2 DEF SchedInv, CpuInv, WaitInv, Reached

\* What exit() makes of the entry r of the caller.
Exited(r, w) ==
    [ClearWait(r) EXCEPT !.state = "Dead", !.wake_reason = "none", !.at = "exited",
                         !.wait_status = w, !.wait_reported = FALSE]

\* q is an entry that sleeps at point a until d, under token t.
Sleeper(p, t, d, a, q) ==
    /\ q \in Process /\ Sound(p, q) /\ q.state = "Sleeping" /\ q.at = a
    /\ q.wait_token = t /\ q.wait_deadline = d /\ q.wake_reason = "none"

\* The entry of a process that block_current_until puts to sleep.
LEMMA SleeperSound ==
    ASSUME NEW p, p # Service, NEW r \in Process, Sound(p, r), r.at = "sleep",
           NEW t \in 1..MaxWaits, NEW a \in SleepPoint
    PROVE  Sleeper(p, t, r.timeout, a,
                   [Publish([r EXCEPT !.state = "Sleeping"], t, r.timeout) EXCEPT !.at = a])
<1> DEFINE z == [r EXCEPT !.state = "Sleeping"]
           s == Publish(z, t, r.timeout)
           q == [s EXCEPT !.at = a]
<1>1. "Sleeping" \in State /\ a \in Point /\ t \in Token /\ r.timeout \in Delay
  BY WaitsAssumption DEF State, SleepPoint, Point, Token, Process
<1>2. z \in Process /\ z.state = "Sleeping" /\ z.reason = r.reason /\ z.timeout = r.timeout
      /\ z.signal_mask = r.signal_mask /\ z.in_sigsuspend = r.in_sigsuspend
      /\ z.frames = r.frames
  <2>1. z \in Process
    BY Zenon, <1>1 DEF Process
  <2> QED
    BY Zenon, <2>1 DEF Process
<1> HIDE DEF z
<1>3. s \in Process /\ s.state = "Sleeping" /\ s.reason = r.reason /\ s.timeout = r.timeout
      /\ s.signal_mask = r.signal_mask /\ s.in_sigsuspend = r.in_sigsuspend
      /\ s.frames = r.frames /\ s.wait_token = t /\ s.wait_deadline = r.timeout
      /\ s.wake_reason = "none"
  <2>1. s \in Process
    BY <1>1, <1>2, PublishType
  <2> QED
    BY Zenon, <1>2, <2>1 DEF Process, Publish
<1> HIDE DEF s
<1>4. q \in Process /\ q.state = "Sleeping" /\ q.reason = r.reason /\ q.timeout = r.timeout
      /\ q.signal_mask = r.signal_mask /\ q.in_sigsuspend = r.in_sigsuspend
      /\ q.frames = r.frames /\ q.wait_token = t /\ q.wait_deadline = r.timeout
      /\ q.wake_reason = "none" /\ q.at = a
  <2>1. q \in Process
    BY Zenon, <1>1, <1>3 DEF Process
  <2> QED
    BY Zenon, <1>3, <2>1 DEF Process
<1> HIDE DEF q
<1>5. r.reason # "Deadline" /\ Nested(r)
  BY DEF Sound, Placed
<1>6. Placed(q) /\ Nested(q) /\ Truthful(q)
  BY <1>4, <1>5 DEF Placed, Nested, Truthful
<1> QED
  BY <1>4, <1>6 DEF Sleeper, Sound, q, s, z
==============================================================================
