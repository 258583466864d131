------------------------------- MODULE Process -------------------------------
(***************************************************************************)
(* A process-table entry of the Twilight kernel, and the operations of     *)
(* sys/proc and sys/timer that read and write one entry or the deadline    *)
(* queue.  They are pure operators: a record in, a record out.  Sched.tla  *)
(* is the state machine that applies them.                                 *)
(*                                                                         *)
(* Times are relative: a deadline is the number of clock units left until  *)
(* it, 0 when it is due.  Only differences of monotonic_ns() matter to the *)
(* code, so nothing is lost and no horizon has to be chosen.               *)
(*                                                                         *)
(* A definition commented "Seeded fault" is a plausible wrong version of   *)
(* the one after it.  No specification uses it; README.md says which       *)
(* property it breaks when it takes that definition's place.               *)
(***************************************************************************)
EXTENDS Naturals, Sequences, FiniteSets

CONSTANTS
    MaxPid,     \* process ids are 0..MaxPid; 0 is the network service, 1 init
    Sig,        \* signal numbers in use
    Caught,     \* those with a user handler; the others have SIG_DFL
    MaxDelay,   \* longest timeout or sleep, in clock units
    MaxWaits    \* entries the deadline heap can grow to

ASSUME PidAssumption == MaxPid \in Nat /\ MaxPid >= 1
ASSUME SigAssumption == Sig \subseteq 1..64 /\ Caught \subseteq Sig \ {9, 19}
ASSUME DelayAssumption == MaxDelay \in Nat /\ MaxDelay >= 1
ASSUME WaitsAssumption == MaxWaits \in Nat

Pid == 0..MaxPid
Service == 0
InitPid == 1
NoPid == MaxPid + 1         \* "None" of an Option<index>

Never == MaxDelay + 1       \* ARMED_NONE, no quantum, or None of an Option<u64>
Delay == 0..Never
Token == 0..MaxWaits        \* wait tokens; 0 is None

\* The least element of a non-empty set of naturals.
Least(S) == CHOOSE x \in S : \A y \in S : x <= y

(***************************************************************************)
(* ProcessState, WakeReason, and where the process's kernel stack is:      *)
(* "user" it runs, or was preempted, in userspace; "ret" the syscall exit  *)
(* path; the others are points of the blocking syscalls named in Sched.    *)
(***************************************************************************)
State == {"Free", "Running", "Runnable", "Sleeping", "Waiting", "SignalWait",
          "AwaitingIo", "Stopped", "Dead"}
Reason == {"none", "Event", "Deadline", "Signal", "Cancelled"}
Point == {"user", "ret", "poll", "awaitSwitched", "awaitIdle", "awaitDrop",
          "woke", "sleep", "sleepSwitched", "sleepIdle", "slept", "wait4",
          "serve", "exitIdle", "exited"}
Status == {"none", "exited", "killed", "stopped", "continued"}

Process ==
    [state: State, at: Point, pending_io: BOOLEAN, wake_reason: Reason,
     wait_token: Token, wait_deadline: Delay,
     timeout: Delay,            \* deadline argument of the syscall in progress
     io_token: Token,           \* await_io_until's local io_token
     reason: Reason,            \* reason the blocking call returned
     options: SUBSET {"nohang", "untraced"},    \* of wait4
     pending_signals: SUBSET Sig, signal_mask: SUBSET Sig,
     saved_mask: SUBSET Sig, in_sigsuspend: BOOLEAN,
     frames: Seq(SUBSET Sig),   \* masks saved in signal frames on the user stack
     parent_pid: Pid, wait_status: Status, wait_reported: BOOLEAN]

\* A fresh entry, as Process::new and Process::fork build it.
NewProcess(parent, mask, at) ==
    [state |-> "Runnable", at |-> at, pending_io |-> FALSE,
     wake_reason |-> "none", wait_token |-> 0, wait_deadline |-> Never,
     timeout |-> Never, io_token |-> 0, reason |-> "none", options |-> {},
     pending_signals |-> {}, signal_mask |-> mask, saved_mask |-> {},
     in_sigsuspend |-> FALSE, frames |-> <<>>,
     parent_pid |-> parent, wait_status |-> "none", wait_reported |-> FALSE]

\* No entry of the process table has this id.
FreeProcess == [NewProcess(Service, {}, "user") EXCEPT !.state = "Free"]

------------------------------------------------------------------------------
(* Signals                                                                 *)

SIGPIPE == 13
SIGCHLD == 17
SIGCONT == 18
is_fatal_default == {1, 2, 3, 9, SIGPIPE, 14, 15}
is_stop_default == 19..22

\* Process::signal_interrupts_sleep: unmasked, and caught or not default-ignored.
Interrupts(r, sig) ==
    /\ sig \notin r.signal_mask
    /\ sig \in Caught \/ sig # SIGCHLD

\* Process::has_sleep_interrupting_signal.
HasInterrupting(r) == \E sig \in r.pending_signals : Interrupts(r, sig)

\* The wait token and its metadata are withdrawn; the queue entry goes stale.
ClearWait(r) == [r EXCEPT !.wait_token = 0, !.wait_deadline = Never]

\* Seeded fault: the signal is only recorded, nobody is woken.
QueueSignalPends(r, sig) == [r EXCEPT !.pending_signals = @ \cup {sig}]

\* Process::queue_signal.
QueueSignal(r, sig) ==
    LET q == [r EXCEPT !.pending_signals = @ \cup {sig}]
    IN  CASE r.state \in {"Waiting", "SignalWait"} ->
                [q EXCEPT !.state = "Runnable", !.pending_io = FALSE]
          [] r.state = "AwaitingIo" /\ Interrupts(r, sig) ->
                [ClearWait(q) EXCEPT !.state = "Runnable", !.pending_io = TRUE,
                                     !.wake_reason = "Signal"]
          [] r.state = "Sleeping" /\ Interrupts(r, sig) ->
                [ClearWait(q) EXCEPT !.state = "Runnable",
                                     !.wake_reason = "Signal"]
          [] OTHER -> q

\* What exit() and terminate_current_by_signal() do to the parent after
\* queue_signal(SIGCHLD): a parent still blocked is forced runnable.
ForceWake(r) ==
    IF r.state \in {"Waiting", "SignalWait", "AwaitingIo"}
    THEN [r EXCEPT !.state = "Runnable", !.pending_io = FALSE]
    ELSE r

\* apply_signal_to_process returns the parent to notify for these.
NotifiesParent(sig) ==
    sig = SIGCONT \/ sig \in (is_stop_default \cup is_fatal_default) \ Caught

\* Seeded fault: SIGCONT puts a stopped poller back into its wait.
ApplySignalResumes(r, sig) ==
    CASE sig = SIGCONT /\ r.state = "Stopped" ->
            [r EXCEPT !.state = IF r.io_token # 0 THEN "AwaitingIo" ELSE "Runnable"]
      [] sig \in is_stop_default \ Caught ->
            [r EXCEPT !.state = "Stopped", !.wait_status = "stopped"]
      [] OTHER -> QueueSignal(r, sig)

\* apply_signal_to_process.
ApplySignal(r, sig) ==
    CASE sig = SIGCONT ->
            QueueSignal(IF r.state = "Stopped"
                        THEN [r EXCEPT !.state = "Runnable",
                                       !.wait_status = "continued",
                                       !.wait_reported = FALSE]
                        ELSE r, sig)
      [] sig \in is_stop_default \ Caught ->
            [r EXCEPT !.state = "Stopped", !.wait_status = "stopped",
                      !.wait_reported = FALSE]
      [] sig \in is_fatal_default \ Caught ->
            [r EXCEPT !.state = "Dead", !.wait_status = "killed",
                      !.wait_reported = FALSE]
      [] OTHER -> QueueSignal(r, sig)

\* Seeded fault: the handler runs with its own signal unmasked.
DeliverUnmasked(r, sig) ==
    LET old == IF r.in_sigsuspend THEN r.saved_mask ELSE r.signal_mask
        d   == [r EXCEPT !.pending_signals = @ \ {sig}, !.in_sigsuspend = FALSE]
    IN  IF sig \in Caught THEN [d EXCEPT !.frames = Append(@, old)]
        ELSE [d EXCEPT !.signal_mask = old]

\* deliver_pending_signal taking signal sig: dropped when it has no handler,
\* otherwise a frame with the mask to restore is pushed and the handler runs.
\* (saved_mask is not read again before it is set, so its value is forgotten.)
Deliver(r, sig) ==
    LET old == IF r.in_sigsuspend THEN r.saved_mask ELSE r.signal_mask
        d   == [r EXCEPT !.pending_signals = @ \ {sig}, !.in_sigsuspend = FALSE,
                         !.saved_mask = {}]
    IN  IF sig \in Caught
        THEN [d EXCEPT !.signal_mask = @ \cup {sig}, !.frames = Append(@, old)]
        ELSE [d EXCEPT !.signal_mask = old]

------------------------------------------------------------------------------
(* Wakes                                                                   *)

\* wake_process, without the quantum it may arm.
WakeProcess(r) ==
    CASE r.state = "AwaitingIo" ->
            [r EXCEPT !.state = "Runnable", !.pending_io = TRUE,
                      !.wake_reason = "Event"]
      [] r.state \in {"Dead", "Stopped", "Free"} -> r
      [] OTHER -> [r EXCEPT !.pending_io = TRUE]

\* wake_from_timer for an entry whose token the process publishes.
WakeFromTimer(r, kind) ==
    CASE kind = "Sleep" /\ r.state = "Sleeping" ->
            [ClearWait(r) EXCEPT !.state = "Runnable", !.wake_reason = "Deadline"]
      [] kind = "IoTimeout" /\ r.state = "AwaitingIo" ->
            [ClearWait(r) EXCEPT !.state = "Runnable", !.pending_io = TRUE,
                                 !.wake_reason = "Deadline"]
      [] OTHER -> r

\* Seeded fault: the timeout of a wait that an event ended is not cancelled.
CancelOwnedLazy(r) == r

\* cancel_owned(io_token): clears the published token only if it is this wait's.
CancelOwned(r) ==
    IF r.io_token # 0 /\ r.wait_token = r.io_token THEN ClearWait(r) ELSE r

\* take_wake_reason: the published reason, or Event.
TakeWakeReason(r) ==
    [r EXCEPT !.reason = IF r.wake_reason = "none" THEN "Event" ELSE r.wake_reason,
              !.wake_reason = "none", !.at = "woke", !.io_token = 0]

\* Seeded fault: the woken sleeper is not marked Running again.
ReadAndClearKeepsState(r) ==
    [ClearWait(r) EXCEPT
        !.reason = IF r.wake_reason # "none" THEN r.wake_reason ELSE "Deadline",
        !.wake_reason = "none", !.at = "slept"]

\* read_and_clear_wake_reason: the published reason, or Deadline if it has
\* passed, or Cancelled.
ReadAndClearWakeReason(r) ==
    [ClearWait(r) EXCEPT
        !.reason = IF r.wake_reason # "none" THEN r.wake_reason
                   ELSE IF r.timeout = 0 THEN "Deadline" ELSE "Cancelled",
        !.wake_reason = "none", !.state = "Running", !.at = "slept"]

------------------------------------------------------------------------------
(* The deadline queue, as the set of its entries.  P is the process table. *)

Entry == [pid: Pid, deadline: Delay, token: 1..MaxWaits, kind: {"Sleep", "IoTimeout"}]

\* Seeded fault: the token is not compared, any wait of the process will do.
IsLiveAny(P, e) == P[e.pid].wait_token # 0

\* is_live_wait.
IsLive(P, e) == P[e.pid].wait_token = e.token
LiveEntries(P, Q) == {e \in Q : IsLive(P, e)}

\* Tokens never repeat.  A token that no entry and no process refers to is as
\* good as new, so the tokens of dead waits are used again.
FreeTokens(P, Q) ==
    {t \in 1..MaxWaits : /\ \A e \in Q : e.token # t
                         /\ \A p \in DOMAIN P : P[p].wait_token # t}

\* TimerQueue::drain_stale_head: stale entries ahead of the first live one go.
DrainStale(P, Q) ==
    {e \in Q : \E l \in LiveEntries(P, Q) : l.deadline <= e.deadline}

\* clockevent::earliest_deadline; Never when there is none.
EarliestDeadline(P, Q, quantum) ==
    Least({e.deadline : e \in LiveEntries(P, Q)} \cup {quantum})

\* Seeded fault: an entry is popped one unit before it is due.
NotDueEarly(Q) == {e \in Q : e.deadline > 1}

\* pop_due until the head is not due: every due entry leaves the queue.
NotDue(Q) == {e \in Q : e.deadline # 0}

\* expire_due and process_deferred_expiry: the live due entries wake their owner.
ExpireDue(P, Q) ==
    [p \in DOMAIN P |->
        IF \E e \in LiveEntries(P, Q) : e.pid = p /\ e.deadline = 0
        THEN WakeFromTimer(P[p], (CHOOSE e \in LiveEntries(P, Q) :
                                    e.pid = p /\ e.deadline = 0).kind)
        ELSE P[p]]

------------------------------------------------------------------------------
(* The process table                                                       *)

\* find_next_runnable_index: round robin over the table order, from the entry
\* after cur and around to the one before it; none if cur is not in the table.
NextRunnable(P, t, cur) ==
    LET here == {i \in 1..Len(t) : t[i] = cur}
        runnable == {i \in 1..Len(t) : P[t[i]].state = "Runnable"}
        after == {i \in runnable : \A h \in here : h < i}
        before == {i \in runnable : \A h \in here : i < h}
    IN  CASE here # {} /\ after # {} -> t[Least(after)]
          [] here # {} /\ after = {} /\ before # {} -> t[Least(before)]
          [] OTHER -> NoPid

\* Seeded fault: the children are left with the dead parent.
ReparentNone(P, Dying) == P

\* reparent_children for every process of Dying: children go to init, which
\* gets SIGCHLD if a zombie is among them.
Reparent(P, Dying) ==
    LET moved == {c \in DOMAIN P : P[c].state # "Free"
                                   /\ P[c].parent_pid \in Dying \ {InitPid}}
        R == [c \in DOMAIN P |-> IF c \in moved
                                 THEN [P[c] EXCEPT !.parent_pid = InitPid]
                                 ELSE P[c]]
    IN  IF \E c \in moved : P[c].state = "Dead"
        THEN [R EXCEPT ![InitPid] = QueueSignal(@, SIGCHLD)]
        ELSE R
==============================================================================
