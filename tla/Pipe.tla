--------------------------------- MODULE Pipe ---------------------------------
(***************************************************************************)
(* File descriptors, pipes and poll.  Processes share open file            *)
(* descriptions through dup, fork and clone; a pipe end is dropped with    *)
(* the last reference to it, a reference on the kernel stack of a blocked  *)
(* call included.  A system call runs without interleaving until it        *)
(* blocks in await_io (the kernel is not preemptible), so each action is a *)
(* call up to its return or its sleep, or the resumption of a sleeper.     *)
(***************************************************************************)
EXTENDS Naturals, FiniteSets, FiniteSetsExt

CONSTANTS
    FdProcs,    \* processes and threads
    Pipes,      \* pipes
    MaxFd,      \* descriptors of a process (the table grows without limit)
    PipeCap,    \* PIPE_CAPACITY = PIPE_BUF
    IoLens,     \* lengths of reads and writes
    PollFds,    \* descriptor sets passed to poll
    SelectFds,  \* pairs of readfds and writefds passed to select
    QCap,       \* WAIT_QUEUE_CAPACITY
    MaxTableOps \* descriptor operations, forks, execs and signals in a behaviour

ASSUME PipeSizes == /\ MaxFd \in Nat \ {0} /\ PipeCap \in Nat \ {0} /\ QCap \in Nat
                    /\ MaxTableOps \in Nat
                    /\ IoLens \subseteq Nat \ {0}
                    /\ PollFds \subseteq SUBSET (0..MaxFd - 1)
                    /\ \A s \in SelectFds : s[1] \cup s[2] \subseteq 0..MaxFd - 1

VARIABLES
    ps,         \* descriptor tables, status flags, pipes and wait queues
    pcall,      \* the call a process sleeps in
    plive,      \* processes that are not dead
    psig,       \* processes with a caught signal pending
    ptab        \* descriptor operations, forks, execs and signals so far

pipeVars == <<ps, pcall, plive, psig, ptab>>

Ends == {"r", "w"}
PFile == Pipes \X Ends          \* a pipe has one open file description per end
Fd == 0..MaxFd - 1
NoEntry == [file |-> <<>>, cloexec |-> FALSE]
FdEntry == {NoEntry} \cup [file: PFile, cloexec: BOOLEAN]
PipeState ==
    [fdt: [FdProcs -> [Fd -> FdEntry]], nb: SUBSET PFile, buf: [Pipes -> 0..PipeCap],
     readers: [Pipes -> 0..1], writers: [Pipes -> 0..1],
     rq: [Pipes -> SUBSET FdProcs], wq: [Pipes -> SUBSET FdProcs],
     pollq: SUBSET FdProcs, pend: SUBSET FdProcs]
Idle == [op |-> "none"]
PCall == {Idle} \cup [op: {"read", "write"}, file: PFile, len: IoLens]
                \cup [op: {"poll"}, want: SUBSET (Fd \X {"in", "out"})]

------------------------------------------------------------------------------
(* Wait queues                                                             *)

\* prepare_current: queued, unless the slab is full.
PQueue(q, p) == IF Cardinality(q) < QCap THEN q \cup {p} ELSE q

\* notify_all on a queue: every waiter is woken and leaves it.
NotifyReaders(s, i) == [s EXCEPT !.pend = @ \cup s.rq[i], !.rq[i] = {}]
NotifyWriters(s, i) == [s EXCEPT !.pend = @ \cup s.wq[i], !.wq[i] = {}]
NotifyPoll(s) == [s EXCEPT !.pend = @ \cup s.pollq, !.pollq = {}]

------------------------------------------------------------------------------
(* References to open files                                                *)

\* Somebody refers to the file: a descriptor, or a call that was entered.
Referenced(s, calls, f) ==
    \/ \E p \in FdProcs, fd \in Fd : s.fdt[p][fd].file = f
    \/ \E p \in FdProcs : calls[p].op \in {"read", "write"} /\ calls[p].file = f

\* Seeded fault: the other side is not told.
DropEndsQuiet(s, gone) ==
    [s EXCEPT !.readers = [i \in Pipes |-> IF <<i, "r">> \in gone THEN 0 ELSE @[i]],
              !.writers = [i \in Pipes |-> IF <<i, "w">> \in gone THEN 0 ELSE @[i]]]

\* Seeded fault: a write end counts as a reader.
DropEndsSwapped(s, gone) ==
    [s EXCEPT !.readers = [i \in Pipes |-> IF <<i, "w">> \in gone THEN 0 ELSE @[i]],
              !.rq = [i \in Pipes |-> {}], !.wq = [i \in Pipes |-> {}], !.pollq = {},
              !.pend = UNION {s.rq[i] \cup s.wq[i] : i \in Pipes} \cup s.pollq \cup @]

\* PipeEnd::drop of each end of a set: it is counted off, saturating, and its
\* pipe notifies the three queues.
DropEnds(s, gone) ==
    LET touched == {f[1] : f \in gone}
        woken == UNION {s.rq[i] \cup s.wq[i] : i \in touched}
    IN  IF gone = {} THEN s ELSE
        [s EXCEPT
           !.readers = [i \in Pipes |-> IF <<i, "r">> \in gone /\ @[i] > 0 THEN @[i] - 1 ELSE @[i]],
           !.writers = [i \in Pipes |-> IF <<i, "w">> \in gone /\ @[i] > 0 THEN @[i] - 1 ELSE @[i]],
           !.rq = [i \in Pipes |-> IF i \in touched THEN {} ELSE @[i]],
           !.wq = [i \in Pipes |-> IF i \in touched THEN {} ELSE @[i]],
           !.pollq = {},
           !.pend = @ \cup woken \cup s.pollq]

\* The ends whose last reference goes away in a step are dropped in it.
Gone(s, calls) == {f \in PFile : Referenced(ps, pcall, f) /\ ~Referenced(s, calls, f)}

Settle(s, calls) == DropEnds(s, Gone(s, calls))

\* One step of process p: new state of the kernel and of the call p is in.
Step(p, s, call) ==
    LET calls == [pcall EXCEPT ![p] = call]
    IN  ps' = Settle(s, calls) /\ pcall' = calls

\* Back in user mode a caught signal is delivered.
Return(p, s) ==
    /\ Step(p, s, Idle)
    /\ psig' = psig \ {p}
    /\ UNCHANGED plive

Sleep(p, s, call) == Step(p, s, call) /\ UNCHANGED <<plive, psig>>

Ready(p) == p \in plive /\ pcall[p] = Idle      \* p is in user mode

------------------------------------------------------------------------------
(* The descriptor table                                                    *)

FreeFds(s, p) == {fd \in Fd : s.fdt[p][fd] = NoEntry}

\* install_fd at the lowest free descriptor not below lo.
InstallFd(s, p, entry, lo) ==
    [s EXCEPT !.fdt[p][Min({fd \in FreeFds(s, p) : fd >= lo})] = entry]

\* pipe2: a new pipe, its read end installed first.
Pipe2(p, i, cloexec, nonblock) ==
    LET entry(e) == [file |-> <<i, e>>, cloexec |-> cloexec]
        new == [ps EXCEPT !.buf[i] = 0, !.readers[i] = 1, !.writers[i] = 1,
                          !.nb = (@ \ {<<i, e>> : e \in Ends}) \cup
                                 (IF nonblock THEN {<<i, e>> : e \in Ends} ELSE {})]
    IN  /\ Ready(p) /\ Cardinality(FreeFds(ps, p)) >= 2
        /\ \A e \in Ends : ~Referenced(ps, pcall, <<i, e>>)
        /\ Return(p, InstallFd(InstallFd(new, p, entry("r"), 0), p, entry("w"), 0))

\* fcntl(F_DUPFD) and fcntl(F_DUPFD_CLOEXEC); dup is the first from 0.
DupFd(p, fd, lo, cloexec) ==
    /\ Ready(p) /\ ps.fdt[p][fd] # NoEntry
    /\ \E x \in FreeFds(ps, p) : x >= lo
    /\ Return(p, InstallFd(ps, p, [ps.fdt[p][fd] EXCEPT !.cloexec = cloexec], lo))

Dup(p, fd) == DupFd(p, fd, 0, FALSE)

\* dup3: the entry that was at newfd is dropped.
Dup3(p, oldfd, newfd, cloexec) ==
    /\ Ready(p) /\ ps.fdt[p][oldfd] # NoEntry /\ oldfd # newfd
    /\ Return(p, [ps EXCEPT !.fdt[p][newfd] = [ps.fdt[p][oldfd] EXCEPT !.cloexec = cloexec]])

Dup2(p, oldfd, newfd) == Dup3(p, oldfd, newfd, FALSE)

CloseFd(p, fd) ==
    /\ Ready(p) /\ ps.fdt[p][fd] # NoEntry
    /\ Return(p, [ps EXCEPT !.fdt[p][fd] = NoEntry])

\* fcntl(F_SETFD) and fcntl(F_SETFL)
SetFd(p, fd, cloexec) ==
    /\ Ready(p) /\ ps.fdt[p][fd] # NoEntry
    /\ Return(p, [ps EXCEPT !.fdt[p][fd].cloexec = cloexec])

SetFl(p, fd, nonblock) ==
    LET f == ps.fdt[p][fd].file
    IN  /\ Ready(p) /\ ps.fdt[p][fd] # NoEntry
        /\ Return(p, [ps EXCEPT !.nb = IF nonblock THEN @ \cup {f} ELSE @ \ {f}])

\* fork and clone: the child has a copy of the table, a thread too.
ForkFds(p, c) ==
    /\ Ready(p) /\ c \notin plive /\ pcall[c] = Idle
    /\ Step(p, [ps EXCEPT !.fdt[c] = ps.fdt[p], !.pend = @ \ {c}], Idle)
    /\ plive' = plive \cup {c}
    /\ psig' = psig \ {p, c}

\* exec: descriptors marked close-on-exec are dropped.
Exec(p) ==
    /\ Ready(p)
    /\ Return(p, [ps EXCEPT !.fdt[p] =
                    [fd \in Fd |-> IF @[fd].cloexec THEN NoEntry ELSE @[fd]]])

NoFds == [fd \in Fd |-> NoEntry]

\* exit, or a fatal signal: close_all_fds.  A process that dies in a call keeps
\* the reference its kernel stack holds: the stack is never unwound.
Die(p) ==
    /\ p \in plive
    /\ plive' = plive \ {p}
    /\ ps' = Settle([ps EXCEPT !.fdt[p] = NoFds], pcall)
    /\ UNCHANGED <<pcall, psig>>

\* Another process queues a caught signal: a sleeper is woken.
SignalProc(p) ==
    /\ p \in plive /\ p \notin psig
    /\ psig' = psig \cup {p}
    /\ ps' = IF pcall[p] = Idle THEN ps ELSE [ps EXCEPT !.pend = @ \cup {p}]
    /\ UNCHANGED <<pcall, plive>>

------------------------------------------------------------------------------
(* Reads and writes                                                        *)

CanWrite(s, i, len) ==
    IF len <= PipeCap THEN PipeCap - s.buf[i] >= len ELSE s.buf[i] < PipeCap

\* What a write puts in the pipe: an atomic one all, another what fits.
WriteCount(s, i, len) == IF len <= PipeCap THEN len ELSE Min({len, PipeCap - s.buf[i]})

\* The body of PipeEnd::read's loop, in kernel state s.
ReadLoop(p, s, f, len, nonblock) ==
    LET i == f[1]
        n == Min({len, s.buf[i]})
    IN  IF s.buf[i] > 0
        THEN Return(p, NotifyPoll(NotifyWriters([s EXCEPT !.buf[i] = @ - n], i)))
        ELSE IF s.writers[i] = 0 \/ nonblock \/ p \in psig THEN Return(p, s)
        ELSE Sleep(p, [s EXCEPT !.rq[i] = PQueue(@, p)],
                   [op |-> "read", file |-> f, len |-> len])

\* The body of PipeEnd::write's loop.
WriteLoop(p, s, f, len, nonblock) ==
    LET i == f[1]
        n == WriteCount(s, i, len)
    IN  IF s.readers[i] = 0 THEN Return(p, s)
        ELSE IF CanWrite(s, i, len)
        THEN Return(p, NotifyPoll(NotifyReaders([s EXCEPT !.buf[i] = @ + n], i)))
        ELSE IF nonblock \/ p \in psig THEN Return(p, s)
        ELSE Sleep(p, [s EXCEPT !.wq[i] = PQueue(@, p)],
                   [op |-> "write", file |-> f, len |-> len])

PipeRead(p, fd, len) ==
    LET f == ps.fdt[p][fd].file
    IN  /\ Ready(p) /\ ps.fdt[p][fd] # NoEntry /\ f[2] = "r"
        /\ ReadLoop(p, ps, f, len, f \in ps.nb)

PipeWrite(p, fd, len) ==
    LET f == ps.fdt[p][fd].file
    IN  /\ Ready(p) /\ ps.fdt[p][fd] # NoEntry /\ f[2] = "w"
        /\ WriteLoop(p, ps, f, len, f \in ps.nb)

\* await_io returns: finish_wait, the check for signals, and the loop again.
Woke(p, op) == p \in plive /\ p \in ps.pend /\ pcall[p].op = op

ReadResume(p) ==
    LET c == pcall[p]
        s == [ps EXCEPT !.pend = @ \ {p}, !.rq[c.file[1]] = @ \ {p}]
    IN  /\ Woke(p, "read")
        /\ IF p \in psig THEN Return(p, s) ELSE ReadLoop(p, s, c.file, c.len, FALSE)

WriteResume(p) ==
    LET c == pcall[p]
        s == [ps EXCEPT !.pend = @ \ {p}, !.wq[c.file[1]] = @ \ {p}]
    IN  /\ Woke(p, "write")
        /\ IF p \in psig THEN Return(p, s) ELSE WriteLoop(p, s, c.file, c.len, FALSE)

------------------------------------------------------------------------------
(* poll, ppoll and select                                                  *)

\* PipeEnd::poll, asked for event ev: readable, writable, or, asked for or not,
\* the other side is gone.
EndReady(s, f, ev) ==
    \/ f[2] = "r" /\ (s.writers[f[1]] = 0 \/ (ev = "in" /\ s.buf[f[1]] > 0))
    \/ f[2] = "w" /\ (s.readers[f[1]] = 0 \/ (ev = "out" /\ s.buf[f[1]] < PipeCap))

\* poll_fd_set finds one of the descriptors ready; a bad descriptor is.
PollReady(s, p, want) ==
    \E w \in want : LET e == s.fdt[p][w[1]]
                    IN  e # NoEntry => EndReady(s, e.file, w[2])

\* The body of wait_for_ready's loop: publish, scan again, sleep.
PollLoop(p, s, want) ==
    IF p \in psig \/ PollReady(s, p, want) THEN Return(p, s)
    ELSE Sleep(p, [s EXCEPT !.pollq = PQueue(@, p)], [op |-> "poll", want |-> want])

\* The first scan, then the loop; a timeout of zero returns at once.
PipePoll(p, want) ==
    /\ Ready(p)
    /\ IF PollReady(ps, p, want) THEN Return(p, ps) ELSE PollLoop(p, ps, want)

\* select: a descriptor of readfds or exceptfds is asked for input, one of
\* writefds for output.
PipeSelect(p, readfds, writefds) ==
    PipePoll(p, (readfds \X {"in"}) \cup (writefds \X {"out"}))

PollResume(p) ==
    /\ Woke(p, "poll")
    /\ PollLoop(p, [ps EXCEPT !.pend = @ \ {p}, !.pollq = @ \ {p}], pcall[p].want)

\* The deadline of the wait expires.
PollTimeout(p) ==
    /\ p \in plive /\ pcall[p].op = "poll"
    /\ Return(p, [ps EXCEPT !.pend = @ \ {p}, !.pollq = @ \ {p}])

------------------------------------------------------------------------------

PipeInit ==
    /\ ps = [fdt |-> [p \in FdProcs |-> NoFds], nb |-> {},
             buf |-> [i \in Pipes |-> 0], readers |-> [i \in Pipes |-> 0],
             writers |-> [i \in Pipes |-> 0],
             rq |-> [i \in Pipes |-> {}], wq |-> [i \in Pipes |-> {}],
             pollq |-> {}, pend |-> {}]
    /\ pcall = [p \in FdProcs |-> Idle]
    /\ \E p \in FdProcs : plive = {p}
    /\ psig = {}
    /\ ptab = 0

TableOps(p) ==
    \/ \E i \in Pipes, c, n \in BOOLEAN : Pipe2(p, i, c, n)
    \/ \E fd, lo \in Fd, c \in BOOLEAN : DupFd(p, fd, lo, c)
    \/ \E fd \in Fd : Dup(p, fd)
    \/ \E a, b \in Fd, c \in BOOLEAN : Dup3(p, a, b, c)
    \/ \E a, b \in Fd : Dup2(p, a, b)
    \/ \E fd \in Fd, c \in BOOLEAN : SetFd(p, fd, c)
    \/ \E fd \in Fd, n \in BOOLEAN : SetFl(p, fd, n)
    \/ \E c \in FdProcs : ForkFds(p, c)
    \/ Exec(p)
    \/ SignalProc(p)

InputOutput(p) ==
    \/ \E fd \in Fd : CloseFd(p, fd)
    \/ Die(p)
    \/ \E fd \in Fd, n \in IoLens : PipeRead(p, fd, n)
    \/ \E fd \in Fd, n \in IoLens : PipeWrite(p, fd, n)
    \/ ReadResume(p)
    \/ WriteResume(p)
    \/ \E fds \in PollFds : PipePoll(p, fds \X {"in", "out"})
    \/ \E s \in SelectFds : PipeSelect(p, s[1], s[2])
    \/ PollResume(p)
    \/ PollTimeout(p)

PipeNext ==
    \E p \in FdProcs : \/ ptab < MaxTableOps /\ TableOps(p) /\ ptab' = ptab + 1
                       \/ InputOutput(p) /\ UNCHANGED ptab

PipeSpec == PipeInit /\ [][PipeNext]_pipeVars

------------------------------------------------------------------------------
(* Properties                                                              *)

\* Counts, queues and tables stay in range: a buffer never exceeds PIPE_CAPACITY
\* and an end is counted at most once.
PipeTypeOK ==
    /\ ps \in PipeState
    /\ pcall \in [FdProcs -> PCall]
    /\ plive \subseteq FdProcs /\ psig \subseteq FdProcs
    /\ ptab \in 0..MaxTableOps

\* No wake-up is lost between the three wait queues: a process that sleeps, and
\* that nobody has woken, has nothing to do.  A reader faces an empty pipe that
\* still has a writer, a writer a pipe without the room it asked for that still
\* has a reader, and none of the descriptors of a poller is ready.
SleepersHaveNothing ==
    \A p \in plive \ ps.pend :
        LET c == pcall[p]
        IN  /\ c.op = "read" => ps.buf[c.file[1]] = 0 /\ ps.writers[c.file[1]] > 0
            /\ c.op = "write" => ps.readers[c.file[1]] > 0 /\ ~CanWrite(ps, c.file[1], c.len)
            /\ c.op = "poll" => ~PollReady(ps, p, c.want)
            /\ c # Idle => p \notin psig

\* Drop runs once, for the right side and never early: an end counts as open
\* exactly as long as a descriptor or a call in progress refers to it.
EndsCounted ==
    \A i \in Pipes : /\ ps.readers[i] = IF Referenced(ps, pcall, <<i, "r">>) THEN 1 ELSE 0
                     /\ ps.writers[i] = IF Referenced(ps, pcall, <<i, "w">>) THEN 1 ELSE 0

\* docs/system/daemon_processes.md: "EOF (a zero-length read) after all write-side
\* references close and buffered data is consumed", so a process sleeps in read
\* only while some live process could still write.
ReaderHasWriter ==
    \A p \in plive \ ps.pend : pcall[p].op = "read" =>
        \E q \in plive :
            \/ \E fd \in Fd : ps.fdt[q][fd].file = <<pcall[p].file[1], "w">>
            \/ pcall[q].op = "write" /\ pcall[q].file[1] = pcall[p].file[1]
==============================================================================
