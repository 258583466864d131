-------------------------------- MODULE Sched --------------------------------
(***************************************************************************)
(* The scheduler of the Twilight kernel with the syscalls that block on    *)
(* it: poll, nanosleep, wait4, rt_sigsuspend, the network service of       *)
(* PID 0, and what wakes them: device and timer interrupts, signals, the   *)
(* exit of a child.                                                        *)
(*                                                                         *)
(* One CPU.  Syscalls run with IF clear and are not preempted, so a step   *)
(* of this module is the code between two points where the CPU is handed   *)
(* to another process, halts or returns to userspace; interrupts fire only *)
(* when IF is set: in userspace and in the HLT loops.  A process that gave *)
(* the CPU away inside a syscall remembers where in its field "at".        *)
(***************************************************************************)
EXTENDS Process

CONSTANTS
    Forked,     \* init and its children at the start are 1..Forked
    Quantum,    \* QUANTUM_NS, in clock units
    PollSlots,  \* WAIT_QUEUE_CAPACITY of the poll wait queue
    Masks,      \* signal masks that processes ask for
    Timeouts,   \* timeouts of poll and nanosleep; Never: poll without one
    NetDelays,  \* what the network stack answers for its next deadline
    Ops         \* the syscalls and interrupt sources this instance exercises

ASSUME ForkedAssumption == Forked \in 1..MaxPid
ASSUME QuantumAssumption == Quantum \in 1..MaxDelay
ASSUME SlotsAssumption == PollSlots \in Nat
ASSUME MasksAssumption == Masks \subseteq SUBSET Sig
ASSUME TimeoutsAssumption == Timeouts \subseteq 1..Never /\ NetDelays \subseteq 1..Never
ASSUME ChldAssumption == SIGCHLD \in Sig

VARIABLES
    table,      \* PROCESS_TABLE.proc_list: the order of the entries
    proc,       \* the entries
    cur,        \* PID: the process that has the CPU
    mode,       \* what the CPU does: see Mode
    timers,     \* TIMER_QUEUE
    quantum,    \* QUANTUM_DEADLINE
    armed,      \* ARMED_DEADLINE of the one-shot clockevent
    resched,    \* NEED_RESCHED
    ready,      \* the descriptor that processes poll is readable
    pollq,      \* POLL_WAIT_QUEUE
    nic,        \* a received frame waits in the network device
    work        \* WORK holds the service as a waiter

clock == <<timers, quantum, armed>>
io == <<ready, pollq, nic, work>>
vars == <<table, proc, cur, mode, timers, quantum, armed, resched, ready,
          pollq, nic, work>>

\* In userspace; in the kernel with IF clear; in HLT; behind HLT with IF still set.
Mode == {"user", "kernel", "halt", "woken"}

InTable(t) == {t[i] : i \in 1..Len(t)}

\* After boot: init runs and has forked its children; PID 0 is left runnable
\* on the boot stack by ProcessTable::run and no quantum is armed.
Init ==
    /\ table = [i \in 1..(Forked + 1) |-> i - 1]
    /\ proc = [p \in Pid |->
                CASE p = Service -> NewProcess(Service, {}, "serve")
                  [] p = InitPid ->
                        [NewProcess(Service, {}, "user") EXCEPT !.state = "Running"]
                  [] p \in 2..Forked -> NewProcess(InitPid, {}, "user")
                  [] OTHER -> FreeProcess]
    /\ cur = InitPid /\ mode = "user"
    /\ timers = {} /\ quantum = Never /\ armed = Never /\ resched = FALSE
    /\ ready = FALSE /\ pollq = {} /\ nic = FALSE /\ work = FALSE

------------------------------------------------------------------------------
(* Scheduler                                                               *)

\* Seeded fault: only the quantum is programmed, not the deadline queue.
RearmQuantum(P, Q, q) ==
    /\ timers' = DrainStale(P, Q)
    /\ quantum' = q
    /\ armed' = q

\* clockevent::rearm for process table P, queue Q and quantum q.
Rearm(P, Q, q) ==
    /\ timers' = DrainStale(P, Q)
    /\ quantum' = q
    /\ armed' = EarliestDeadline(P, Q, q)

\* Seeded fault: the process that loses the CPU stays marked Running.
SwitchToKeepsRunning(P, Q, n) ==
    LET S == [P EXCEPT ![n].state = "Running"]
        q == IF NextRunnable(S, table, n) # NoPid THEN Quantum ELSE Never
    IN  /\ proc' = S
        /\ cur' = n
        /\ mode' = IF S[n].at = "user" THEN "user" ELSE "kernel"
        /\ Rearm(S, Q, q)

\* Seeded fault: a switch arms no quantum.
SwitchToNoQuantum(P, Q, n) ==
    LET S == [P EXCEPT ![cur].state = IF @ = "Running" THEN "Runnable" ELSE @,
                       ![n].state = "Running"]
    IN  /\ proc' = S
        /\ cur' = n
        /\ mode' = IF S[n].at = "user" THEN "user" ELSE "kernel"
        /\ Rearm(S, Q, Never)

\* switch_by_index_guarded: the CPU goes from cur to n, whose quantum is armed
\* iff another process is runnable.
SwitchTo(P, Q, n) ==
    LET S == [P EXCEPT ![cur].state = IF @ = "Running" THEN "Runnable" ELSE @,
                       ![n].state = "Running"]
        q == IF NextRunnable(S, table, n) # NoPid THEN Quantum ELSE Never
    IN  /\ proc' = S
        /\ cur' = n
        /\ mode' = IF S[n].at = "user" THEN "user" ELSE "kernel"
        /\ Rearm(S, Q, q)

\* schedule_now: P is the table if it switches, otherwise Else applies.
ScheduleNow(P, Else) ==
    LET n == NextRunnable(P, table, cur)
    IN  /\ resched' = FALSE
        /\ IF n # NoPid THEN SwitchTo(P, timers, n) ELSE Else

\* The CPU stays with cur; the process table becomes P.
Continue(P, m) ==
    /\ proc' = P
    /\ mode' = m
    /\ UNCHANGED <<cur, timers, quantum, armed>>

\* cond_resched at the end of a step that leaves cur in mode m.
CondResched(P, m) ==
    IF resched THEN ScheduleNow(P, Continue(P, m))
    ELSE Continue(P, m) /\ UNCHANGED resched

Set(p, r) == [proc EXCEPT ![p] = r]

\* A syscall from process p, and a kernel step of p resumed at point a.
Syscall(op, p) ==
    /\ op \in Ops /\ cur = p /\ mode = "user"
Kernel(p, a) ==
    /\ cur = p /\ mode = "kernel" /\ proc[p].at = a
Idle(p, a) ==
    /\ cur = p /\ mode \in {"kernel", "woken"} /\ proc[p].at = a

\* Process p enters the kernel at point r.at, or leaves it through "ret".
Enter(p, r) ==
    /\ Continue(Set(p, r), "kernel")
    /\ UNCHANGED <<table, resched>>

\* wake_process for every process of W: an I/O wake of another process arms a
\* quantum when none is armed.
Notify(P, W) == [p \in Pid |-> IF p \in W THEN WakeProcess(P[p]) ELSE P[p]]
\* Seeded fault: the wake arms no quantum.
QuantumKept(P, W) == quantum
QuantumAfter(P, W) ==
    IF quantum = Never /\ \E p \in W \ {cur} : P[p].state = "AwaitingIo"
    THEN Quantum ELSE quantum

\* Seeded fault: a clockevent that is armed already is left as it is.
EarlierIfIdle(a, d) == IF a = Never THEN d ELSE a

\* rearm_if_earlier.
Earlier(a, d) == IF d < a THEN d ELSE a

\* syscall_handler's exit: the lowest unblocked signal is delivered, then
\* cond_resched.
Ret(p) ==
    LET r == [proc[p] EXCEPT !.at = "user", !.timeout = Never, !.options = {}]
        unblocked == r.pending_signals \ r.signal_mask
    IN  /\ Kernel(p, "ret")
        /\ CondResched(Set(p, IF unblocked = {} THEN r ELSE Deliver(r, Least(unblocked))),
                       "user")
        /\ UNCHANGED <<table, io>>

\* sched_yield.
Yield(p) ==
    LET P == Set(p, [proc[p] EXCEPT !.at = "ret"])
    IN  /\ Syscall("yield", p)
        /\ UNCHANGED <<table, io>>
        /\ ScheduleNow(P, Continue(P, "kernel"))

------------------------------------------------------------------------------
(* await_io_until                                                          *)

\* The published token, deadline and entry of a wait that ends in d units.
Publish(r, t, d) ==
    [r EXCEPT !.wait_token = t, !.wait_deadline = d, !.wake_reason = "none"]
NewEntry(t, d, kind) == [pid |-> cur, deadline |-> d, token |-> t, kind |-> kind]

\* Loop top of await_io_until(d) for cur, with process table P, quantum q and
\* clockevent a: a wake that came first is honoured, otherwise cur blocks, with
\* a timeout unless the queue cannot take another entry.
AwaitIo(P, d, q, a) ==
    LET r == P[cur]
        free == FreeTokens(P, timers)
        timed == d # Never /\ free # {}
        t == IF timed THEN Least(free) ELSE 0
        b == [(IF timed THEN Publish(r, t, d) ELSE r)
                EXCEPT !.state = "AwaitingIo", !.io_token = t]
        Q == IF timed THEN timers \cup {NewEntry(t, d, "IoTimeout")} ELSE timers
        n == NextRunnable(P, table, cur)
    IN  IF r.pending_io \/ r.state = "Runnable"
        THEN /\ proc' = [P EXCEPT ![cur] = TakeWakeReason(
                    [r EXCEPT !.pending_io = FALSE,
                              !.state = IF @ \in {"Runnable", "AwaitingIo"}
                                        THEN "Running" ELSE @])]
             /\ mode' = "kernel" /\ quantum' = q /\ armed' = a
             /\ UNCHANGED <<cur, timers, resched>>
        ELSE IF n # NoPid
        THEN /\ SwitchTo([P EXCEPT ![cur] = [b EXCEPT !.at = "awaitSwitched"]], Q, n)
             /\ UNCHANGED resched
        ELSE /\ proc' = [P EXCEPT ![cur] = [b EXCEPT !.at = "awaitIdle"]]
             /\ mode' = "kernel" /\ quantum' = q /\ timers' = Q
             /\ armed' = IF timed THEN Earlier(a, d) ELSE a
             /\ UNCHANGED <<cur, resched>>

\* The wait of r is over: its token is cancelled and the reason taken.
Woken(r) ==
    TakeWakeReason(CancelOwned(
        [r EXCEPT !.pending_io = FALSE,
                  !.state = IF @ = "Runnable" THEN "Running" ELSE @]))

\* Switched back to after await_io_until gave the CPU away.
AwaitResume(p) ==
    /\ Kernel(p, "awaitSwitched")
    /\ CondResched(Set(p, Woken(proc[p])), "kernel")
    /\ UNCHANGED <<table, io>>

\* One turn of the HLT loop: return if woken, else run a peer, else halt.  A
\* reschedule request is honoured when the PreemptGuard drops, between the
\* check and the HLT.
AwaitIdle(p) ==
    LET r == proc[p]
        woken == r.pending_io \/ r.state = "Runnable"
        next == IF resched THEN "awaitDrop" ELSE "awaitIdle"
    IN  /\ Idle(p, "awaitIdle")
        /\ \/ woken /\ CondResched(Set(p, Woken(r)), "kernel")
           \/ ~woken /\ ScheduleNow(Set(p, [r EXCEPT !.at = next]),
                                    Continue(proc, "halt"))
        /\ UNCHANGED <<table, io>>

\* Resumed inside the drop of the PreemptGuard: schedule_now, then HLT.
AwaitDrop(p) ==
    LET P == Set(p, [proc[p] EXCEPT !.at = "awaitIdle"])
    IN  /\ Kernel(p, "awaitDrop")
        /\ ScheduleNow(P, Continue(P, "halt"))
        /\ UNCHANGED <<table, io>>

------------------------------------------------------------------------------
(* poll, read, write                                                       *)

\* poll after its first scan, with a timeout of d units (Never: infinite).
Poll(p, d) ==
    /\ Syscall("poll", p)
    /\ Enter(p, [proc[p] EXCEPT !.at = IF ready THEN "ret" ELSE "poll",
                                !.timeout = d])
    /\ UNCHANGED io

\* prepare_current; no slot is free: the caller stays off the queue.
Prepare(q, p) == IF Cardinality(q) < PollSlots THEN q \cup {p} ELSE q

\* wait_for_ready up to await_io_until.
PollWait(p) ==
    /\ Kernel(p, "poll")
    /\ \/ /\ HasInterrupting(proc[p]) \/ proc[p].timeout = 0
          /\ Enter(p, [proc[p] EXCEPT !.at = "ret"])
          /\ UNCHANGED io
       \/ /\ ~HasInterrupting(proc[p]) /\ proc[p].timeout # 0
          /\ UNCHANGED <<table, ready, nic, work>>
          /\ IF ready
             THEN /\ Enter(p, [proc[p] EXCEPT !.at = "ret"])
                  /\ pollq' = pollq \ {p}
             ELSE /\ AwaitIo(proc, proc[p].timeout, quantum, armed)
                  /\ pollq' = Prepare(pollq, p)

\* wait_for_ready after await_io_until: unregister, then act on the reason.
PollWoke(p) ==
    LET r == proc[p]
        done == \/ r.reason = "Signal"
                \/ r.reason = "Event" /\ ready
                \/ r.reason = "Deadline" /\ r.timeout = 0
    IN  /\ p # Service /\ Kernel(p, "woke")
        /\ Enter(p, [r EXCEPT !.at = IF done THEN "ret" ELSE "poll",
                          !.reason = "none"])
        /\ pollq' = pollq \ {p}
        /\ UNCHANGED <<ready, nic, work>>

\* Seeded fault: notify_one instead of notify_all.
ReadinessNotifyOne(P, m, now) ==
    LET W == IF pollq = {} THEN {} ELSE {Least(pollq)}
        q == QuantumAfter(P, W)
    IN  /\ ready' = now /\ pollq' = pollq \ W
        /\ proc' = Notify(P, W)
        /\ quantum' = q
        /\ armed' = IF q # quantum THEN Earlier(armed, q) ELSE armed
        /\ mode' = m
        /\ UNCHANGED <<table, cur, timers, resched, nic, work>>

\* The descriptor fills or drains: poll_wait_queue().notify_all().
Readiness(P, m, now) ==
    LET q == QuantumAfter(P, pollq)
    IN  /\ ready' = now /\ pollq' = {}
        /\ proc' = Notify(P, pollq)
        /\ quantum' = q
        /\ armed' = IF q # quantum THEN Earlier(armed, q) ELSE armed
        /\ mode' = m
        /\ UNCHANGED <<table, cur, timers, resched, nic, work>>

\* A read that empties the descriptor, and a write that fills it.
Read(p) ==
    /\ Syscall("read", p) /\ ready
    /\ Readiness(Set(p, [proc[p] EXCEPT !.at = "ret"]), "kernel", FALSE)
Write(p) ==
    /\ Syscall("write", p)
    /\ Readiness(Set(p, [proc[p] EXCEPT !.at = "ret"]), "kernel", TRUE)

\* A write whose reader is gone: proc::queue_signal(self, SIGPIPE).
WriteBroken(p) ==
    /\ Syscall("epipe", p) /\ SIGPIPE \in Sig
    /\ Enter(p, WakeProcess(QueueSignal([proc[p] EXCEPT !.at = "ret"], SIGPIPE)))
    /\ UNCHANGED io

------------------------------------------------------------------------------
(* nanosleep                                                               *)

Nanosleep(p, d) ==
    /\ Syscall("sleep", p)
    /\ Enter(p, [proc[p] EXCEPT !.at = "sleep", !.timeout = d])
    /\ UNCHANGED io

\* block_current_until: return if due or interrupted, otherwise publish the
\* wait, reprogram the clockevent and give the CPU away or idle.
Block(p) ==
    LET r == proc[p]
        free == FreeTokens(proc, timers)
        t == Least(free)
        S == Publish([r EXCEPT !.state = "Sleeping"], t, r.timeout)
        Q == timers \cup {NewEntry(t, r.timeout, "Sleep")}
        n == NextRunnable(proc, table, p)
    IN  /\ Kernel(p, "sleep")
        /\ UNCHANGED <<table, io>>
        /\ \/ /\ r.timeout = 0 \/ HasInterrupting(r) \/ free = {}
              /\ Enter(p, [r EXCEPT !.at = "ret"])
           \/ /\ r.timeout # 0 /\ ~HasInterrupting(r) /\ free # {}
              /\ resched' = FALSE
              /\ IF n # NoPid
                 THEN SwitchTo(Set(p, [S EXCEPT !.at = "sleepSwitched"]), Q, n)
                 ELSE /\ proc' = Set(p, [S EXCEPT !.at = "sleepIdle"])
                      /\ timers' = Q
                      /\ armed' = Earlier(armed, r.timeout)
                      /\ UNCHANGED <<cur, mode, quantum>>

\* Switched back to: read_and_clear_wake_reason.
SleepResume(p) ==
    /\ Kernel(p, "sleepSwitched")
    /\ CondResched(Set(p, ReadAndClearWakeReason(proc[p])), "kernel")
    /\ UNCHANGED <<table, io>>

\* One turn of idle_until_woken.
SleepIdle(p) ==
    LET r == proc[p]
        over == r.wake_reason # "none" \/ r.wait_deadline \in {0, Never}
    IN  /\ Idle(p, "sleepIdle")
        /\ \/ over /\ CondResched(Set(p, ReadAndClearWakeReason(r)), "kernel")
           \/ ~over /\ ScheduleNow(proc, Continue(proc, "halt"))
        /\ UNCHANGED <<table, io>>

\* sleep_until_deadline: sleep again after a wake that came too early.
SleepWoke(p) ==
    LET r == proc[p]
        again == r.reason \in {"Deadline", "Event"} /\ r.timeout # 0
    IN  /\ Kernel(p, "slept")
        /\ Enter(p, [r EXCEPT !.at = IF again THEN "sleep" ELSE "ret",
                          !.reason = "none"])
        /\ UNCHANGED io

------------------------------------------------------------------------------
(* The network service, PID 0                                              *)

\* One turn of run(): register on WORK, pump the device, block until the next
\* protocol deadline d.  A socket that changed state is reported to pollers.
Serve(p, d, changed) ==
    /\ p = Service /\ Kernel(p, "serve")
    /\ changed => nic
    /\ nic' = FALSE /\ work' = TRUE
    /\ UNCHANGED table
    /\ IF changed
       THEN LET q == QuantumAfter(proc, pollq)
            IN  /\ ready' = TRUE /\ pollq' = {}
                /\ AwaitIo(Notify(proc, pollq), d, q,
                           IF q # quantum THEN Earlier(armed, q) ELSE armed)
       ELSE /\ AwaitIo(proc, d, quantum, armed)
            /\ UNCHANGED <<ready, pollq>>

ServeWoke(p) ==
    /\ p = Service /\ Kernel(p, "woke")
    /\ Enter(p, [proc[p] EXCEPT !.at = "serve", !.reason = "none"])
    /\ work' = FALSE
    /\ UNCHANGED <<ready, pollq, nic>>

------------------------------------------------------------------------------
(* fork, wait4, exit                                                       *)

\* The child goes to the end of the table.  An id that wait4 freed is used again,
\* as it is once NEXT_PID has wrapped.
Fork(p) ==
    LET c == Least({k \in Pid : proc[k].state = "Free"} \cup {NoPid})
    IN  /\ Syscall("fork", p)
        /\ c # NoPid
        /\ proc' = [proc EXCEPT
                      ![p].at = "ret",
                      ![c] = NewProcess(p, proc[p].signal_mask, "user")]
        /\ table' = Append(table, c)
        /\ mode' = "kernel"
        /\ UNCHANGED <<cur, timers, quantum, armed, resched, io>>

Wait4(p, opts) ==
    /\ Syscall("wait4", p)
    /\ Enter(p, [proc[p] EXCEPT !.at = "wait4", !.options = opts])
    /\ UNCHANGED io

\* One turn of wait4's loop: reap the first zombie, or report the first newly
\* stopped child, in table order; fail without children; else wait.
Wait4Scan(p) ==
    LET r == proc[p]
        child(c) == proc[c].state # "Free" /\ proc[c].parent_pid = p
        stopped(c) == /\ "untraced" \in r.options
                      /\ proc[c].state = "Stopped" /\ ~proc[c].wait_reported
        hits == {k \in 1..Len(table) :
                    /\ child(table[k])
                    /\ proc[table[k]].state = "Dead" \/ stopped(table[k])}
        i == Least(hits)
        c == table[i]
        done == [r EXCEPT !.at = "ret"]
    IN  /\ Kernel(p, "wait4")
        /\ UNCHANGED io
        /\ \/ /\ hits # {} /\ proc[c].state = "Dead"
              /\ Continue([proc EXCEPT ![p] = done, ![c] = FreeProcess], "kernel")
              /\ table' = SubSeq(table, 1, i - 1) \o SubSeq(table, i + 1, Len(table))
              /\ UNCHANGED resched
           \/ /\ hits # {} /\ proc[c].state # "Dead"
              /\ Continue([proc EXCEPT ![p] = done, ![c].wait_reported = TRUE],
                          "kernel")
              /\ UNCHANGED <<table, resched>>
           \/ /\ hits = {}
              /\ "nohang" \in r.options \/ ~ \E k \in Pid : child(k)
              /\ Enter(p, done)
           \/ /\ hits = {}
              /\ "nohang" \notin r.options /\ \E k \in Pid : child(k)
              /\ UNCHANGED table
              /\ LET W == Set(p, [r EXCEPT !.state = "Waiting"])
                 IN  ScheduleNow(W, Continue(W, "kernel"))

\* exit ("exit"), exit_group ("group") and terminate_current_by_signal ("fault"):
\* children to init, entry dead, parent told, CPU to the parent if it is
\* runnable, else to the next process, else idle.
Exit(p, how) ==
    LET parent == proc[p].parent_pid
        R == Reparent(proc, {p})
        D == [R EXCEPT ![p] = [ClearWait(@) EXCEPT
                  !.state = "Dead", !.wake_reason = "none", !.at = "exited",
                  !.wait_status = IF how = "fault" THEN "killed" ELSE "exited",
                  !.wait_reported = FALSE]]
        told == QueueSignal(D[parent], SIGCHLD)
        P == [D EXCEPT ![parent] = IF how = "group" THEN told ELSE ForceWake(told)]
        n == IF P[parent].state = "Runnable" THEN parent
             ELSE NextRunnable(P, table, p)
    IN  /\ Syscall(how, p)
        /\ UNCHANGED <<table, resched, io>>
        /\ IF n # NoPid THEN SwitchTo(P, timers, n)
           ELSE LET I == [P EXCEPT ![p].at = "exitIdle"]
                IN  /\ proc' = I
                    /\ mode' = "kernel"
                    /\ Rearm(I, timers, Never)
                    /\ UNCHANGED cur

\* One turn of idle_until_runnable.
ExitIdle(p) ==
    /\ Idle(p, "exitIdle")
    /\ ScheduleNow(proc, Continue(proc, "halt"))
    /\ UNCHANGED <<table, io>>

\* The loop { halt() } behind the last switch of an exited process.
ExitedHalt(p) ==
    /\ Idle(p, "exited")
    /\ Continue(proc, "halt")
    /\ UNCHANGED <<table, resched, io>>

------------------------------------------------------------------------------
(* Signals                                                                 *)

\* kill(pid, sig) for the targets T: apply to each, adopt the children of the
\* dead, tell the parents, and give the CPU away if that hit the caller.
Kill(p, T, sig) ==
    LET A == [k \in Pid |-> IF k \in T THEN ApplySignal(proc[k], sig) ELSE proc[k]]
        dead == {k \in T : NotifiesParent(sig) /\ A[k].state = "Dead"}
        R == Reparent(A, dead)
        parents == IF NotifiesParent(sig) THEN {proc[k].parent_pid : k \in T} ELSE {}
        N == [k \in Pid |-> IF k \in parents /\ R[k].state # "Free"
                            THEN QueueSignal(R[k], SIGCHLD) ELSE R[k]]
        P == [N EXCEPT ![p].at = "ret"]
    IN  /\ Syscall("kill", p)
        /\ UNCHANGED <<table, io>>
        /\ IF P[p].state \in {"Dead", "Stopped"}
           THEN ScheduleNow(P, Continue(P, "kernel"))
           ELSE Continue(P, "kernel") /\ UNCHANGED resched

\* rt_sigprocmask(SIG_SETMASK, m), outside of handlers.
Sigprocmask(p, m) ==
    /\ Syscall("sigprocmask", p) /\ proc[p].frames = <<>>
    /\ Enter(p, [proc[p] EXCEPT !.signal_mask = m, !.at = "ret"])
    /\ UNCHANGED io

\* Seeded fault: a signal that is pending already is not looked at.
SigsuspendNoCheck(p, m) ==
    LET W == Set(p, [proc[p] EXCEPT !.saved_mask = proc[p].signal_mask,
                                    !.signal_mask = m, !.in_sigsuspend = TRUE,
                                    !.at = "ret", !.state = "SignalWait"])
    IN  /\ Syscall("sigsuspend", p) /\ proc[p].frames = <<>>
        /\ UNCHANGED <<table, io>>
        /\ ScheduleNow(W, Continue(W, "kernel"))

\* rt_sigsuspend(m), outside of handlers: EINTR also if no process could run.
Sigsuspend(p, m) ==
    LET s == [proc[p] EXCEPT !.saved_mask = proc[p].signal_mask,
                             !.signal_mask = m, !.in_sigsuspend = TRUE,
                             !.at = "ret"]
        W == Set(p, [s EXCEPT !.state = "SignalWait"])
    IN  /\ Syscall("sigsuspend", p) /\ proc[p].frames = <<>>
        /\ UNCHANGED <<table, io>>
        /\ IF s.pending_signals \ m # {}
           THEN Continue(Set(p, s), "kernel") /\ UNCHANGED resched
           ELSE ScheduleNow(W, Continue(W, "kernel"))

\* rt_sigreturn: the mask of the last frame comes back; no signal is delivered.
Sigreturn(p) ==
    LET f == proc[p].frames
        r == [proc[p] EXCEPT !.signal_mask = f[Len(f)],
                             !.frames = SubSeq(f, 1, Len(f) - 1)]
    IN  /\ cur = p /\ mode = "user" /\ f # <<>>
        /\ CondResched(Set(p, r), "user")
        /\ UNCHANGED <<table, io>>

------------------------------------------------------------------------------
(* Interrupts and time                                                     *)

IrqMode == IF mode = "user" THEN "user" ELSE "woken"

\* Keyboard or serial input.
TtyIrq ==
    /\ "tty" \in Ops /\ mode # "kernel"
    /\ Readiness(proc, IrqMode, TRUE)

\* A received frame: service::request() is WORK.notify_one().
NicIrq ==
    LET W == IF work THEN {Service} ELSE {}
        q == QuantumAfter(proc, W)
    IN  /\ "nic" \in Ops /\ mode # "kernel"
        /\ nic' = TRUE /\ work' = FALSE
        /\ proc' = Notify(proc, W)
        /\ quantum' = q
        /\ armed' = IF q # quantum THEN Earlier(armed, q) ELSE armed
        /\ mode' = IrqMode
        /\ UNCHANGED <<table, cur, timers, resched, ready, pollq>>

\* The one-shot fires: handle_timer_event (quantum, expiry, rearm) and, if it
\* interrupted userspace, schedule_now.
TimerIrq ==
    LET P == ExpireDue(proc, timers)
        Q == NotDue(timers)
        q == IF quantum = 0 THEN Never ELSE quantum
        n == NextRunnable(P, table, cur)
    IN  /\ mode # "kernel" /\ armed = 0
        /\ UNCHANGED <<table, io>>
        /\ IF mode = "user" /\ n # NoPid
           THEN SwitchTo(P, Q, n) /\ resched' = FALSE
           ELSE /\ proc' = P
                /\ Rearm(P, Q, q)
                /\ mode' = IrqMode
                /\ resched' = (mode # "user" /\ (resched \/ quantum = 0))
                /\ UNCHANGED cur

\* Seeded fault: a deadline that is due keeps counting down.
LessUnderflow(d) == IF d = Never THEN d ELSE d - 1

\* The clocksource advances by one unit, whatever the CPU does.
Less(d) == IF d \in {0, Never} THEN d ELSE d - 1
Tick ==
    /\ \/ quantum # Less(quantum) \/ armed # Less(armed)
       \/ \E e \in timers : e.deadline # Less(e.deadline)
       \/ \E p \in Pid : \/ proc[p].timeout # Less(proc[p].timeout)
                         \/ proc[p].wait_deadline # Less(proc[p].wait_deadline)
    /\ timers' = {[e EXCEPT !.deadline = Less(@)] : e \in timers}
    /\ proc' = [p \in Pid |-> [proc[p] EXCEPT !.timeout = Less(@),
                                              !.wait_deadline = Less(@)]]
    /\ quantum' = Less(quantum) /\ armed' = Less(armed)
    /\ UNCHANGED <<table, cur, mode, resched, io>>

------------------------------------------------------------------------------

\* What the process that has the CPU does in userspace.
UserStep(p) ==
    \/ Yield(p) \/ Read(p) \/ Write(p) \/ WriteBroken(p) \/ Fork(p) \/ Sigreturn(p)
    \/ \E d \in Timeouts : Poll(p, d)
    \/ \E d \in Timeouts \ {Never} : Nanosleep(p, d)
    \/ \E opts \in SUBSET {"nohang", "untraced"} : Wait4(p, opts)
    \/ \E how \in {"exit", "group", "fault"} : Exit(p, how)
    \/ \E T \in SUBSET (InTable(table) \ {Service}) :
          \E sig \in Sig \ {SIGCHLD} :
             T # {} /\ Kill(p, T, sig)
    \/ \E m \in Masks : Sigprocmask(p, m) \/ Sigsuspend(p, m)

\* What the kernel does on behalf of the process that has the CPU.
KernelStep(p) ==
    \/ Ret(p) \/ AwaitResume(p) \/ AwaitIdle(p) \/ AwaitDrop(p)
    \/ PollWait(p) \/ PollWoke(p)
    \/ Block(p) \/ SleepResume(p) \/ SleepIdle(p) \/ SleepWoke(p)
    \/ \E d \in NetDelays : \E changed \in BOOLEAN : Serve(p, d, changed)
    \/ ServeWoke(p) \/ Wait4Scan(p) \/ ExitIdle(p) \/ ExitedHalt(p)

Irq == TtyIrq \/ NicIrq \/ TimerIrq

Next == (\E p \in Pid : UserStep(p) \/ KernelStep(p)) \/ Irq \/ Tick

\* The CPU executes kernel code until it halts or returns; the clock advances;
\* a pending timer interrupt is delivered as soon as IF is set.
Fairness ==
    /\ WF_vars(\E p \in Pid : KernelStep(p))
    /\ WF_vars(Tick)
    /\ SF_vars(TimerIrq)

Spec == Init /\ [][Next]_vars
FairSpec == Spec /\ Fairness

------------------------------------------------------------------------------
(* Properties                                                              *)

\* Every variable has its type; in particular no deadline runs below 0 and no
\* process record holds a token that the queue does not hand out.
TypeOK ==
    /\ table \in Seq(Pid)
    /\ proc \in [Pid -> Process]
    /\ cur \in Pid
    /\ mode \in Mode
    /\ timers \subseteq Entry
    /\ quantum \in Delay /\ armed \in Delay
    /\ resched \in BOOLEAN /\ ready \in BOOLEAN /\ nic \in BOOLEAN /\ work \in BOOLEAN
    /\ pollq \subseteq Pid

\* validate_pre_switch_owner: no process other than the one that has the CPU is
\* marked Running, so no switch is ever refused for that.
RunningIsCurrent == \A p \in Pid : proc[p].state = "Running" => p = cur

\* validate_running_owner: userspace runs as a process marked Running.
UserIsRunning == mode = "user" => proc[cur].state = "Running"

Blocked(p) == proc[p].state \in {"Sleeping", "AwaitingIo"}
KindOf(p) == IF proc[p].state = "Sleeping" THEN "Sleep" ELSE "IoTimeout"

\* A process blocked with a token has its entry, with its deadline and kind, in
\* the queue: block_current_until and await_io_until never wait for a timeout
\* that expiry has already consumed or that was never queued.
TimedWaitQueued ==
    \A p \in Pid : Blocked(p) /\ proc[p].wait_token # 0 =>
        \E e \in timers : /\ e.pid = p /\ e.token = proc[p].wait_token
                          /\ e.deadline = proc[p].wait_deadline
                          /\ e.kind = KindOf(p)

\* The timeout of a process inside await_io_until stays queued until it, or a
\* wake, ends the wait.
InAwait(p) == proc[p].at \in {"awaitSwitched", "awaitIdle", "awaitDrop"}
AwaitTimeoutQueued ==
    \A p \in Pid : InAwait(p) /\ proc[p].wait_token # 0 /\ ~proc[p].pending_io =>
        \E e \in timers : e.pid = p /\ e.token = proc[p].wait_token

\* The clockevent is armed no later than the earliest live deadline and the
\* quantum: an insertion cannot hide behind a later event.
ClockeventCovers ==
    /\ \A e \in LiveEntries(proc, timers) : armed <= e.deadline
    /\ armed <= quantum

\* No lost wakeup: a process blocked in poll is registered on the wait queue
\* and the descriptor is not readable; the service blocked in run() is
\* registered on WORK and no frame waits.
NoLostWakeup ==
    \A p \in Pid : proc[p].state = "AwaitingIo" =>
        IF p = Service THEN work /\ ~nic ELSE p \in pollq /\ ~ready

\* A process that an event made runnable never waits behind userspace that no
\* quantum bounds: wake_process arms one, and no later step drops it too early.
IoWokenHasBoundary ==
    mode = "user" /\ quantum = Never =>
        \A p \in Pid \ {cur} :
            ~(proc[p].state = "Runnable" /\ proc[p].wake_reason = "Event")

\* No process sleeps through a signal: one that nanosleep or poll would return
\* EINTR for, or one that rt_sigsuspend waits for, is never pending while the
\* process is still blocked.
SignalNotSleptThrough ==
    \A p \in Pid :
        /\ Blocked(p) => ~HasInterrupting(proc[p])
        /\ p # cur /\ proc[p].state = "SignalWait" =>
                proc[p].pending_signals \subseteq proc[p].signal_mask

\* A handler is not re-entered for the signal it handles: frames never nest
\* deeper than there are caught signals.
HandlerNotNested ==
    \A p \in Pid : Len(proc[p].frames) <= Cardinality(Caught)

\* A parent blocked in wait4 has no zombie child, nor one that stopped and is
\* still to be reported when it asked for those.
NoLostChild ==
    \A p, c \in Pid :
        proc[p].state = "Waiting" /\ proc[c].parent_pid = p =>
            /\ proc[c].state # "Dead"
            /\ ~ /\ "untraced" \in proc[p].options
                 /\ proc[c].state = "Stopped" /\ ~proc[c].wait_reported

\* Stop, continue and kill, of a process in any state, leave every wait sound: a
\* published wait stays queued, no signal is slept through, and parents in wait4
\* learn of what happened.
StopsSound == TimedWaitQueued /\ SignalNotSleptThrough /\ NoLostChild

\* Nobody is orphaned: the parent of a process is in the table, and it is not a
\* zombie unless it is init, so every zombie has somebody to reap it.
AdoptedByInit ==
    \A p \in Pid \ {Service} : proc[p].state # "Free" =>
        \/ proc[p].parent_pid = InitPid
        \/ proc[proc[p].parent_pid].state \notin {"Free", "Dead"}

\* A Deadline wake is given only when the deadline of the current wait is due:
\* an entry left over from an earlier wait never wakes a later one.
NoEarlyDeadline ==
    [][\A p \in Pid :
        proc'[p].wake_reason = "Deadline" /\ proc[p].wake_reason # "Deadline"
            => proc[p].wait_deadline = 0]_vars

\* The reason a blocking call returns with is true: Deadline means that the
\* deadline the caller asked for has passed.
DeadlineTruthful ==
    \A p \in Pid \ {Service} : proc[p].reason = "Deadline" => proc[p].timeout = 0

\* A dead process is never scheduled again: its entry stays until it is reaped.
DeadStaysDead ==
    [][\A p \in Pid : proc[p].state = "Dead" => proc'[p].state \in {"Dead", "Free"}]_vars

\* A process blocked with a timeout is eventually woken.
TimedWaitWakes ==
    \A p \in Pid : (Blocked(p) /\ proc[p].wait_token # 0) ~> ~Blocked(p)

\* A poll of a readable descriptor returns, by a wake, a timeout or a new poll.
ReadyPollReturns ==
    \A p \in Pid \ {Service} : (Blocked(p) /\ ready) ~> (~Blocked(p) \/ ~ready)

\* Once a quantum is armed every runnable process gets the CPU.
RoundRobin ==
    \A p \in Pid : (proc[p].state = "Runnable" /\ quantum # Never)
                    ~> (cur = p \/ proc[p].state # "Runnable")

\* Every runnable process gets the CPU.
NoStarvation ==
    \A p \in Pid : (proc[p].state = "Runnable") ~> (cur = p \/ proc[p].state # "Runnable")
==============================================================================
