------------------------------ MODULE UnixSocket ------------------------------
(***************************************************************************)
(* AF_UNIX sockets.  A socket object is shared by the descriptors of       *)
(* several processes, by calls in progress and by the messages that carry  *)
(* it (SCM_RIGHTS); it is closed with the last of these handles.  As in    *)
(* Pipe, a call is one step up to its return or its sleep.                 *)
(* The connection's refcount is left out: both branches of close() that    *)
(* test it close the same two channels.                                    *)
(***************************************************************************)
EXTENDS Naturals, FiniteSets, Sequences, SequencesExt

CONSTANTS
    UProcs,     \* processes
    USocks,     \* socket objects
    Conns,      \* stream connections
    Addrs,      \* socket pathnames
    ChanCap,    \* CHANNEL_CAPACITY
    MsgLens,    \* lengths of reads and writes
    UWaitCap,   \* WAIT_QUEUE_CAPACITY
    NoSock, NoConn, NoAddr, NoProc, \* None
    MaxUnixOps  \* calls and signals in a behaviour

ASSUME UnixSizes == /\ ChanCap \in Nat \ {0} /\ UWaitCap \in Nat /\ MaxUnixOps \in Nat
                    /\ MsgLens \subseteq Nat \ {0}
                    /\ NoSock \notin USocks /\ NoConn \notin Conns
                    /\ NoAddr \notin Addrs /\ NoProc \notin UProcs

VARIABLES
    us,         \* sockets, channels, registry, socket files, descriptors, queues
    ucall,      \* the call a process sleeps in
    ulive,      \* processes that are not dead
    usig,       \* processes with a caught signal pending
    uspin,      \* the process that loops in the kernel, unable to sleep
    uops

unixVars == <<us, ucall, ulive, usig, uspin, uops>>

Msg == [len: Nat, rights: SUBSET USocks]
FreeSock == [typ |-> "free", role |-> "Unbound", open |-> FALSE, bound |-> NoAddr,
             owns |-> FALSE, conn |-> NoConn, rh |-> 0, wh |-> 0, backlog |-> <<>>,
             accq |-> {}, dq |-> <<>>, drq |-> {}, dpeer |-> NoSock]
\* closed: close_both was called (history; shutdown sets rc and wc alone)
FreshChan == [msgs |-> <<>>, rq |-> {}, wq |-> {}, rc |-> FALSE, wc |-> FALSE,
              closed |-> FALSE]
UIdle == [op |-> "none"]
UCall == {UIdle} \cup [op: {"hung"}]
    \cup [op: {"recv"}, sock: USocks, conn: Conns, half: {0, 1}, len: MsgLens, keep: BOOLEAN]
    \cup [op: {"send"}, sock: USocks, conn: Conns, half: {0, 1}, len: MsgLens,
          rights: SUBSET USocks]
    \cup [op: {"accept"}, sock: USocks]
    \cup [op: {"drecv"}, sock: USocks, keep: BOOLEAN]
    \cup [op: {"poll"}, want: SUBSET (USocks \X {"in", "out"})]

------------------------------------------------------------------------------
(* Wait queues and channels                                                *)

WaitOn(q, p) == IF Cardinality(q) < UWaitCap THEN q \cup {p} ELSE q

WakePoll(u) == [u EXCEPT !.pend = @ \cup u.pollq, !.pollq = {}]
WakeReaders(u, c, h) == [u EXCEPT !.pend = @ \cup u.ch[c][h].rq, !.ch[c][h].rq = {}]
WakeWriters(u, c, h) == [u EXCEPT !.pend = @ \cup u.ch[c][h].wq, !.ch[c][h].wq = {}]
WakeAccept(u, s) == [u EXCEPT !.pend = @ \cup u.sk[s].accq, !.sk[s].accq = {}]
WakeDgram(u, s) == [u EXCEPT !.pend = @ \cup u.sk[s].drq, !.sk[s].drq = {}]

Buffered(chan) == FoldLeft(LAMBDA n, m : n + m.len, 0, chan.msgs)

\* Seeded fault: the sleepers of a channel are not woken when it closes.
CloseBothQuiet(u, c, h) ==
    WakePoll([u EXCEPT !.ch[c][h].rc = TRUE, !.ch[c][h].wc = TRUE, !.ch[c][h].closed = TRUE])

\* Channel::close_both
CloseBoth(u, c, h) ==
    WakePoll(WakeWriters(WakeReaders(
        [u EXCEPT !.ch[c][h].rc = TRUE, !.ch[c][h].wc = TRUE, !.ch[c][h].closed = TRUE],
        c, h), c, h))

------------------------------------------------------------------------------
(* The life of a socket object                                             *)

InFlight(u) ==
    UNION {UNION {m.rights : m \in ToSet(u.ch[c][h].msgs)} : c \in Conns, h \in {0, 1}} \cup
    UNION {UNION {m.rights : m \in ToSet(u.sk[s].dq)} : s \in USocks}

\* handle_refs > 0: a descriptor, a call or a message refers to the open file.
Held(u, calls, s) ==
    \/ \E p \in UProcs : s \in u.own[p]
    \/ \E p \in UProcs : /\ calls[p].op \notin {"none", "poll", "hung"}
                         /\ \/ calls[p].sock = s
                            \/ calls[p].op = "send" /\ s \in calls[p].rights
    \/ s \in InFlight(u)

\* Seeded fault: whoever has the name registered loses it.
UnregisterAny(u, s) ==
    LET a == u.sk[s].bound
    IN  IF u.sk[s].bound # NoAddr THEN [u EXCEPT !.reg[a] = NoSock] ELSE u

\* close() removes the name only if this socket owns the binding and is the one
\* registered.
Unregister(u, s) ==
    LET a == u.sk[s].bound
    IN  IF u.sk[s].owns /\ u.reg[a] = s THEN [u EXCEPT !.reg[a] = NoSock] ELSE u

\* UnixSocket::close
CloseSocket(u, s) ==
    LET k == u.sk[s]
        unbound == Unregister(u, s)
        shut == [unbound EXCEPT !.sk[s].owns = FALSE, !.sk[s].conn = NoConn,
                                !.sk[s].role = "Unbound", !.sk[s].open = FALSE]
        woken == WakeDgram(WakeAccept(shut, s), s)
        told == IF k.dpeer \in USocks THEN WakeDgram(woken, k.dpeer) ELSE woken
    IN  IF k.conn = NoConn THEN told ELSE CloseBoth(CloseBoth(told, k.conn, k.wh), k.conn, k.rh)

\* Socket states and connections nothing points to are freed, with the messages
\* and the pending connections they hold.
Sweep(u, calls) ==
    LET roots == {s \in USocks : u.sk[s].open \/ \E a \in Addrs : u.reg[a] = s}
        kept == roots \cup UNION {ToSet(u.sk[s].backlog) : s \in roots}
        conns == {u.sk[s].conn : s \in kept} \cup
                 {calls[p].conn : p \in {q \in UProcs : calls[q].op \in {"recv", "send"}}}
    IN  [u EXCEPT
           !.sk = [s \in USocks |-> IF s \notin kept THEN FreeSock
                                    ELSE IF @[s].dpeer # NoSock /\ @[s].dpeer \notin kept
                                         THEN [@[s] EXCEPT !.dpeer = NoProc] ELSE @[s]],
           !.ch = [c \in Conns |-> IF c \in conns THEN @[c]
                                   ELSE [h \in {0, 1} |-> FreshChan]],
           !.file = [a \in Addrs |-> IF @[a] \in USocks \ kept THEN NoProc ELSE @[a]]]

RECURSIVE SettleSockets(_, _)
SettleSockets(u, calls) ==
    LET gone == {s \in USocks : u.sk[s].open /\ ~Held(u, calls, s)}
    IN  IF gone = {} THEN Sweep(u, calls)
        ELSE LET s == CHOOSE x \in gone : TRUE
             IN  SettleSockets(Sweep(CloseSocket(u, s), calls), calls)

UStep(p, u, call) ==
    LET calls == [ucall EXCEPT ![p] = call]
    IN  us' = SettleSockets(u, calls) /\ ucall' = calls

UReturn(p, u) ==
    UStep(p, u, UIdle) /\ usig' = usig \ {p} /\ UNCHANGED <<ulive, uspin>>

USleep(p, u, call) == UStep(p, u, call) /\ UNCHANGED <<ulive, usig, uspin>>

UReady(p) == p \in ulive /\ ucall[p] = UIdle
Has(p, s) == UReady(p) /\ s \in us.own[p]

\* A new object s, owned by p.
NewSock(u, p, s, k, nonblock) ==
    [u EXCEPT !.sk[s] = [k EXCEPT !.open = TRUE], !.own[p] = @ \cup {s},
              !.nb = IF nonblock THEN @ \cup {s} ELSE @ \ {s}]

IsFree(u, s) == u.sk[s].typ = "free"
NoUser(c) == \A s \in USocks : us.sk[s].conn # c
FreeConn(c) == NoUser(c) /\ \A p \in UProcs : ucall[p].op \in {"recv", "send"} => ucall[p].conn # c

------------------------------------------------------------------------------
(* Creation, names and connections                                         *)

SysSocket(p, s, typ, nonblock) ==
    /\ UReady(p) /\ IsFree(us, s)
    /\ UReturn(p, NewSock(us, p, s, [FreeSock EXCEPT !.typ = typ], nonblock))

\* UnixSocket::pair: two streams over one connection, or two datagram sockets
\* that know each other.
Pair(u, p, l, r, typ, c, nonblock) ==
    LET stream == typ = "stream"
        end(peer, rh) == [FreeSock EXCEPT !.typ = typ, !.role = "Connected",
                            !.conn = IF stream THEN c ELSE NoConn,
                            !.rh = IF stream THEN rh ELSE 0,
                            !.wh = IF stream THEN 1 - rh ELSE 0,
                            !.dpeer = IF stream THEN NoSock ELSE peer]
    IN  NewSock(NewSock(u, p, l, end(r, 1), nonblock), p, r, end(l, 0), nonblock)

SysSocketPair(p, l, r, typ, c, nonblock) ==
    /\ UReady(p) /\ l # r /\ IsFree(us, l) /\ IsFree(us, r) /\ FreeConn(c)
    /\ UReturn(p, Pair(us, p, l, r, typ, c, nonblock))

\* UnixSocket::bind; the socket's role is not tested.
BindName(u, s, a) ==
    [u EXCEPT !.reg[a] = s, !.sk[s].role = "Bound", !.sk[s].bound = a, !.sk[s].owns = TRUE]

\* bind: the socket file is made first, and removed when the registry refuses.
SysBind(p, s, a) ==
    /\ Has(p, s) /\ us.file[a] = NoSock
    /\ UReturn(p, IF us.reg[a] # NoSock THEN us
                  ELSE BindName([us EXCEPT !.file[a] = s], s, a))

SysListen(p, s) ==
    /\ Has(p, s) /\ us.sk[s].typ = "stream" /\ us.sk[s].role = "Bound"
    /\ UReturn(p, [us EXCEPT !.sk[s].role = "Listening"])

\* UnixSocket::connect: the accepted end n waits in the backlog of listener l.
\* Whoever sleeps in accept is woken, whoever polls the listener is not.
Link(u, s, l, c, n) ==
    LET end == [FreeSock EXCEPT !.typ = "stream", !.role = "Connected", !.conn = c,
                                !.rh = 0, !.wh = 1]
        queued == [u EXCEPT !.sk[n] = end, !.sk[l].backlog = Append(@, n)]
    IN  [WakeAccept(queued, l) EXCEPT !.sk[s].conn = c, !.sk[s].rh = 1, !.sk[s].wh = 0,
                                      !.sk[s].role = "Connected"]

SysConnect(p, s, a, c, n) ==
    /\ Has(p, s) /\ us.sk[s].typ = "stream" /\ us.sk[s].role \in {"Unbound", "Bound"}
    /\ us.reg[a] # NoSock /\ us.sk[us.reg[a]].role = "Listening"
    /\ FreeConn(c) /\ IsFree(us, n)
    /\ UReturn(p, Link(us, s, us.reg[a], c, n))

\* The accepted socket has the listener's address and does not own it.
Accepted(u, s, n) ==
    [u EXCEPT !.sk[s].backlog = Tail(@), !.sk[n].bound = u.sk[s].bound]

\* The new descriptor of the accepted socket n.
TakeAccepted(p, u, s) ==
    LET n == Head(u.sk[s].backlog)
    IN  UReturn(p, NewSock(Accepted(u, s, n), p, n, Accepted(u, s, n).sk[n], FALSE))

Acceptor(u, s) == u.sk[s].typ = "stream" /\ u.sk[s].role = "Listening"

\* try_accept_new
TryAcceptNew(p, u, s) ==
    IF Acceptor(u, s) /\ u.sk[s].backlog # <<>> THEN TakeAccepted(p, u, s) ELSE UReturn(p, u)

\* The body of accept_new's loop.
AcceptLoop(p, u, s) ==
    IF ~Acceptor(u, s) THEN UReturn(p, u)
    ELSE IF u.sk[s].backlog # <<>> THEN TakeAccepted(p, u, s)
    ELSE IF p \in usig THEN UReturn(p, u)
    ELSE USleep(p, [u EXCEPT !.sk[s].accq = WaitOn(@, p)], [op |-> "accept", sock |-> s])

SysAccept(p, s) ==
    Has(p, s) /\ IF s \in us.nb THEN TryAcceptNew(p, us, s) ELSE AcceptLoop(p, us, s)

UWoke(p, op) == p \in ulive /\ p \in us.pend /\ ucall[p].op = op

AcceptResume(p) ==
    LET s == ucall[p].sock
    IN  /\ UWoke(p, "accept")
        /\ AcceptLoop(p, [us EXCEPT !.pend = @ \ {p}, !.sk[s].accq = @ \ {p}], s)

------------------------------------------------------------------------------
(* Streams                                                                 *)

RECURSIVE Drain(_, _)
\* Up to n bytes of a queue of messages: what is left, and the files received.
Drain(msgs, n) ==
    IF msgs = <<>> \/ n = 0 THEN [left |-> msgs, rights |-> {}]
    ELSE LET m == Head(msgs)
             rest == Drain(Tail(msgs), n - m.len)
         IN  IF m.len <= n THEN [left |-> rest.left, rights |-> m.rights \cup rest.rights]
             ELSE [left |-> <<[len |-> m.len - n, rights |-> {}]>> \o Tail(msgs),
                   rights |-> m.rights]

\* copyout_scm_rights: the files received become descriptors, or are dropped
\* when the control buffer is too small.
InstallRights(u, p, rights, keep) == [u EXCEPT !.own[p] = IF keep THEN @ \cup rights ELSE @]

\* stream_recv_impl's loop.  recvmsg keeps the files; read, and recvmsg with too
\* small a control buffer, drop them.
RecvLoop(p, u, call, nonblock) ==
    LET c == call.conn
        h == call.half
        got == Drain(u.ch[c][h].msgs, call.len)
        taken == InstallRights([u EXCEPT !.ch[c][h].msgs = got.left], p, got.rights, call.keep)
    IN  IF u.ch[c][h].msgs # <<>> THEN UReturn(p, WakePoll(WakeWriters(taken, c, h)))
        ELSE IF u.ch[c][h].rc \/ nonblock \/ p \in usig THEN UReturn(p, u)
        ELSE USleep(p, [u EXCEPT !.ch[c][h].rq = WaitOn(@, p)], call)

\* The room a write waits for: a short one goes in whole, a long one in part.
CanSend(chan, len) ==
    IF len <= ChanCap THEN ChanCap >= Buffered(chan) + len ELSE Buffered(chan) < ChanCap

\* What a write puts in the channel: all of it, or what fits.
Enqueued(chan, len) == IF len <= ChanCap THEN len ELSE ChanCap - Buffered(chan)

\* stream_write_impl's loop, up to the decision to sleep.
SendNow(u, call) ==
    LET c == call.conn
        h == call.half
        m == [len |-> Enqueued(u.ch[c][h], call.len), rights |-> call.rights]
    IN  IF u.ch[c][h].wc THEN u
        ELSE WakePoll(WakeReaders([u EXCEPT !.ch[c][h].msgs = Append(@, m)], c, h))

SendBlocks(u, call) ==
    LET chan == u.ch[call.conn][call.half] IN ~chan.wc /\ ~CanSend(chan, call.len)

SendLoop(p, u, call, nonblock) ==
    IF ~SendBlocks(u, call) THEN UReturn(p, SendNow(u, call))
    ELSE IF nonblock \/ p \in usig THEN UReturn(p, u)
    ELSE USleep(p, [u EXCEPT !.ch[call.conn][call.half].wq = WaitOn(@, p)], call)

StreamUp(s) == us.sk[s].typ = "stream" /\ us.sk[s].role = "Connected"
RecvCall(s, len, keep) ==
    [op |-> "recv", sock |-> s, conn |-> us.sk[s].conn, half |-> us.sk[s].rh, len |-> len,
     keep |-> keep]
SendCall(s, len, rights) ==
    [op |-> "send", sock |-> s, conn |-> us.sk[s].conn, half |-> us.sk[s].wh, len |-> len,
     rights |-> rights]

\* write(buf, false) under the open file's lock.  The lock counts as disabled
\* preemption, so SchedulerGuard::try_enter refuses, await_io returns at once and
\* the loop spins.
SendLocked(p, s, len) ==
    LET call == SendCall(s, len, {})
    IN  IF SendBlocks(us, call) /\ p \notin usig
        THEN uspin' = p /\ UNCHANGED <<us, ucall, ulive, usig>>
        ELSE UReturn(p, IF SendBlocks(us, call) THEN us ELSE SendNow(us, call))

\* Only an interrupt that queues a signal ends the loop.
SpinSignalled(p) ==
    /\ uspin = p /\ ucall[p].op # "hung"
    /\ uspin' = NoProc
    /\ UNCHANGED <<us, ucall, ulive, usig>>

RecvResume(p) ==
    LET c == ucall[p]
    IN  /\ UWoke(p, "recv")
        /\ RecvLoop(p, [us EXCEPT !.pend = @ \ {p}, !.ch[c.conn][c.half].rq = @ \ {p}], c, FALSE)

SendResume(p) ==
    LET c == ucall[p]
    IN  /\ UWoke(p, "send")
        /\ SendLoop(p, [us EXCEPT !.pend = @ \ {p}, !.ch[c.conn][c.half].wq = @ \ {p}], c, FALSE)

\* shutdown: SHUT_RD wakes nobody, SHUT_WR the readers of the other end.
SysShutdown(p, s, rd, wr) ==
    LET k == us.sk[s]
        a == IF rd THEN [us EXCEPT !.ch[k.conn][k.rh].rc = TRUE] ELSE us
        b == IF wr THEN WakePoll(WakeReaders([a EXCEPT !.ch[k.conn][k.wh].wc = TRUE],
                                             k.conn, k.wh)) ELSE a
    IN  /\ Has(p, s) /\ k.typ = "stream" /\ k.conn # NoConn /\ (rd \/ wr)
        /\ UReturn(p, b)

------------------------------------------------------------------------------
(* Datagrams                                                               *)

\* The queue has no limit, so the length of a datagram does not matter.
Dgram(rights) == [len |-> 1, rights |-> rights]

Deliver(u, t, m) == WakePoll(WakeDgram([u EXCEPT !.sk[t].dq = Append(@, m)], t))

\* send_to_msg: the receiver is looked up by name.  Its state is locked when the
\* sender's is: a socket that sends to its own name waits for itself.
DgramSendTo(p, s, a, m) ==
    LET t == us.reg[a]
    IN  /\ t # NoSock /\ us.sk[t].typ = "dgram"
        /\ IF t # s THEN UReturn(p, Deliver(us, t, m))
           ELSE /\ uspin' = p
                /\ ucall' = [ucall EXCEPT ![p] = [op |-> "hung"]]
                /\ UNCHANGED <<us, ulive, usig>>

\* send_to_peer: the other end of a pair, unless it is closed.
DgramSend(p, s, m) ==
    LET t == us.sk[s].dpeer
    IN  /\ t \in USocks /\ us.sk[t].role # "Unbound"
        /\ UReturn(p, Deliver(us, t, m))

\* dgram_recv_msg_impl, recv_from: a closed peer is not looked at.
DgramLoop(p, u, s, keep, nonblock) ==
    LET m == Head(u.sk[s].dq)
    IN  IF u.sk[s].dq # <<>>
        THEN UReturn(p, InstallRights([u EXCEPT !.sk[s].dq = Tail(@)], p, m.rights, keep))
        ELSE IF nonblock \/ p \in usig THEN UReturn(p, u)
        ELSE USleep(p, [u EXCEPT !.sk[s].drq = WaitOn(@, p)],
                    [op |-> "drecv", sock |-> s, keep |-> keep])

DgramResume(p) ==
    LET c == ucall[p]
    IN  /\ UWoke(p, "drecv")
        /\ DgramLoop(p, [us EXCEPT !.pend = @ \ {p}, !.sk[c.sock].drq = @ \ {p}],
                     c.sock, c.keep, FALSE)

------------------------------------------------------------------------------
(* The calls that move data                                                *)

\* recv_msg and read.  keep: the files that come with the data are installed.
RecvMsg(p, s, len, keep) ==
    /\ Has(p, s)
    /\ IF us.sk[s].typ = "dgram" THEN DgramLoop(p, us, s, keep, s \in us.nb)
       ELSE StreamUp(s) /\ RecvLoop(p, us, RecvCall(s, len, keep), s \in us.nb)

SysRead(p, s, len) == RecvMsg(p, s, len, FALSE)

\* recvmsg; too small a control buffer drops the files.
SysRecvMsg(p, s, len, keep) == RecvMsg(p, s, len, keep)

SysRecvFrom(p, s, len) == RecvMsg(p, s, len, FALSE)

\* send_msg and write to the peer.
SendMsg(p, s, len, rights) ==
    /\ Has(p, s)
    /\ IF us.sk[s].typ = "dgram" THEN DgramSend(p, s, Dgram(rights))
       ELSE StreamUp(s) /\ SendLoop(p, us, SendCall(s, len, rights), s \in us.nb)

SysWrite(p, s, len) == SendMsg(p, s, len, {})

\* sendmsg; a stream ignores the destination, NoAddr is none.
SysSendMsg(p, s, len, rights, dest) ==
    /\ Has(p, s) /\ rights \subseteq us.own[p]
    /\ IF us.sk[s].typ = "dgram" /\ dest # NoAddr
       THEN DgramSendTo(p, s, dest, Dgram(rights))
       ELSE SendMsg(p, s, len, rights)

\* sendto, under the lock of the open file; with a destination the sender's type
\* is not looked at.
SysSendTo(p, s, len, dest) ==
    /\ Has(p, s)
    /\ IF dest # NoAddr THEN DgramSendTo(p, s, dest, Dgram({}))
       ELSE IF us.sk[s].typ = "dgram" THEN DgramSend(p, s, Dgram({}))
       ELSE StreamUp(s) /\ SendLocked(p, s, len)

------------------------------------------------------------------------------
(* Poll                                                                    *)

PeerClosed(u, s) ==
    LET t == u.sk[s].dpeer IN t # NoSock /\ (t \notin USocks \/ u.sk[t].role = "Unbound")

\* UnixSocket::poll and poll_fd_set: e is POLLIN or POLLOUT; hangup and error
\* are always reported.
SockReady(u, s, e) ==
    LET k == u.sk[s]
        rch == u.ch[k.conn][k.rh]
        wch == u.ch[k.conn][k.wh]
    IN  IF k.typ = "dgram"
        THEN \/ e = "in" /\ k.dq # <<>>
             \/ e = "out" /\ (k.role # "Unbound" \/ k.dpeer = NoSock)
             \/ k.role = "Unbound" \/ PeerClosed(u, s)
        ELSE IF k.role = "Listening" THEN e = "in" /\ k.backlog # <<>>
        ELSE /\ k.conn # NoConn
             /\ \/ e = "in" /\ rch.msgs # <<>>
                \/ e = "out" /\ ~wch.wc /\ Buffered(wch) < ChanCap
                \/ rch.rc \/ wch.wc

AnyReady(u, p, want) == \E w \in want : w[1] \notin u.own[p] \/ SockReady(u, w[1], w[2])

UnixPollLoop(p, u, want) ==
    IF p \in usig \/ AnyReady(u, p, want) THEN UReturn(p, u)
    ELSE USleep(p, [u EXCEPT !.pollq = WaitOn(@, p)], [op |-> "poll", want |-> want])

UnixPoll(p, want) ==
    /\ UReady(p) /\ \A w \in want : w[1] \in us.own[p]
    /\ IF AnyReady(us, p, want) THEN UReturn(p, us) ELSE UnixPollLoop(p, us, want)

UnixPollResume(p) ==
    /\ UWoke(p, "poll")
    /\ UnixPollLoop(p, [us EXCEPT !.pend = @ \ {p}, !.pollq = @ \ {p}], ucall[p].want)

------------------------------------------------------------------------------
(* Descriptors, processes and socket files                                 *)

CloseSock(p, s) == Has(p, s) /\ UReturn(p, [us EXCEPT !.own[p] = @ \ {s}])

UnixFork(p, c) ==
    /\ UReady(p) /\ c \notin ulive /\ ucall[c] = UIdle
    /\ UStep(p, [us EXCEPT !.own[c] = us.own[p], !.pend = @ \ {c}], UIdle)
    /\ ulive' = ulive \cup {c} /\ usig' = usig \ {p, c} /\ UNCHANGED uspin

\* The kernel stack of a process that dies in a call is never unwound.
UnixDie(p) ==
    /\ p \in ulive
    /\ ulive' = ulive \ {p}
    /\ us' = SettleSockets([us EXCEPT !.own[p] = {}], ucall)
    /\ UNCHANGED <<ucall, usig, uspin>>

UnixSignal(p) ==
    /\ p \in ulive /\ p \notin usig
    /\ usig' = usig \cup {p}
    /\ us' = IF ucall[p] = UIdle THEN us ELSE [us EXCEPT !.pend = @ \cup {p}]
    /\ UNCHANGED <<ucall, ulive, uspin>>

\* unlink: the file and the registered name go.
UnlinkPath(p, a) ==
    /\ UReady(p) /\ us.file[a] # NoSock
    /\ UReturn(p, [us EXCEPT !.file[a] = NoSock, !.reg[a] = NoSock])

\* rename: the file goes to another directory, the registry keeps the old name.
RenamePath(p, a) ==
    /\ UReady(p) /\ us.file[a] # NoSock
    /\ UReturn(p, [us EXCEPT !.file[a] = NoSock])

------------------------------------------------------------------------------

NoSocks == [sk |-> [s \in USocks |-> FreeSock],
            ch |-> [c \in Conns |-> [h \in {0, 1} |-> FreshChan]],
            reg |-> [a \in Addrs |-> NoSock], file |-> [a \in Addrs |-> NoSock],
            own |-> [p \in UProcs |-> {}], nb |-> {}, pollq |-> {}, pend |-> {}]

\* A server that listens on a, and a client with a socket.
ServerUp(p, q, l, s, a) ==
    LET k == [FreeSock EXCEPT !.typ = "stream"]
        up == NewSock(NewSock(NoSocks, p, l, k, FALSE), q, s, k, FALSE)
    IN  [up EXCEPT !.sk[l].role = "Listening", !.sk[l].bound = a, !.sk[l].owns = TRUE,
                   !.reg[a] = l, !.file[a] = l]

\* A parent and the child it forked after socketpair.
PairUp(p, q, l, r, typ, c) ==
    [Pair(NoSocks, p, l, r, typ, c, FALSE) EXCEPT !.own[q] = {l, r}]

\* No sockets yet, a server and a client, or the two ends of a pair: the system
\* after boot, or after the calls that set up the usual uses of a socket.
UnixInit ==
    /\ ucall = [p \in UProcs |-> UIdle]
    /\ \/ us = NoSocks /\ \E p \in UProcs : ulive = {p}
       \/ \E p, q \in UProcs, l, s \in USocks, a \in Addrs :
             p # q /\ l # s /\ us = ServerUp(p, q, l, s, a) /\ ulive = {p, q}
       \/ \E p, q \in UProcs, l, r \in USocks, c \in Conns, t \in {"stream", "dgram"} :
             p # q /\ l # r /\ us = PairUp(p, q, l, r, t, c) /\ ulive = {p, q}
    /\ usig = {} /\ uspin = NoProc /\ uops = 0

SocketOps(p) ==
    \/ \E s \in USocks, t \in {"stream", "dgram"}, n \in BOOLEAN : SysSocket(p, s, t, n)
    \/ \E l, r \in USocks, t \in {"stream", "dgram"}, c \in Conns, n \in BOOLEAN :
          SysSocketPair(p, l, r, t, c, n)
    \/ \E s \in USocks, a \in Addrs : SysBind(p, s, a)
    \/ \E s \in USocks : SysListen(p, s)
    \/ \E s, n \in USocks, a \in Addrs, c \in Conns : SysConnect(p, s, a, c, n)
    \/ \E s \in USocks : SysAccept(p, s)
    \/ \E c \in UProcs : UnixFork(p, c)
    \/ UnixSignal(p)
    \/ \E a \in Addrs : UnlinkPath(p, a)
    \/ \E a \in Addrs : RenamePath(p, a)
    \/ \E s \in USocks, rd, wr \in BOOLEAN : SysShutdown(p, s, rd, wr)
    \/ UnixDie(p)

Rights == {{}} \cup {{s} : s \in USocks}

TransferOps(p) ==
    \/ \E s \in USocks, n \in MsgLens :
          SysRead(p, s, n) \/ SysRecvFrom(p, s, n) \/ SysWrite(p, s, n)
    \/ \E s \in USocks, n \in MsgLens, k \in BOOLEAN : SysRecvMsg(p, s, n, k)
    \/ \E s \in USocks, n \in MsgLens, r \in Rights, a \in Addrs \cup {NoAddr} :
          SysSendMsg(p, s, n, r, a)
    \/ \E s \in USocks, n \in MsgLens, a \in Addrs \cup {NoAddr} : SysSendTo(p, s, n, a)
    \/ \E s \in USocks, e \in {"in", "out"} : UnixPoll(p, {<<s, e>>})
    \/ \E s \in USocks : CloseSock(p, s)

UResume(p) ==
    AcceptResume(p) \/ RecvResume(p) \/ SendResume(p) \/ DgramResume(p) \/ UnixPollResume(p)

UnixNext ==
    \E p \in UProcs :
        \/ uspin = NoProc /\ uops < MaxUnixOps /\ uops' = uops + 1
           /\ (SocketOps(p) \/ TransferOps(p))
        \/ uspin = NoProc /\ UResume(p) /\ UNCHANGED uops
        \/ SpinSignalled(p) /\ UNCHANGED uops

UnixSpec == UnixInit /\ [][UnixNext]_unixVars

------------------------------------------------------------------------------
(* Properties                                                              *)

\* Channels stay within CHANNEL_CAPACITY, and roles, names and queues in range.
UnixTypeOK ==
    /\ \A s \in USocks :
         LET k == us.sk[s]
         IN  /\ k.typ \in {"free", "stream", "dgram"}
             /\ k.role \in {"Unbound", "Bound", "Listening", "Connected"}
             /\ k.bound \in Addrs \cup {NoAddr} /\ k.conn \in Conns \cup {NoConn}
             /\ k.backlog \in Seq(USocks) /\ k.dpeer \in USocks \cup {NoSock, NoProc}
             /\ k.accq \subseteq UProcs /\ k.drq \subseteq UProcs
    /\ \A c \in Conns, h \in {0, 1} : Buffered(us.ch[c][h]) <= ChanCap
    /\ us.reg \in [Addrs -> USocks \cup {NoSock}]
    /\ us.own \in [UProcs -> SUBSET USocks]
    /\ ucall \in [UProcs -> UCall]
    /\ ulive \subseteq UProcs /\ usig \subseteq UProcs /\ uspin \in UProcs \cup {NoProc}

\* No wake-up of a blocking socket call is lost: a process that sleeps, and that
\* nobody has woken, has nothing to receive and no closed peer to learn of, no
\* room to write, no connection to accept, no datagram and no signal.
SocketSleepers ==
    \A p \in ulive \ us.pend :
        LET c == ucall[p]
        IN  /\ c.op = "recv" => LET ch == us.ch[c.conn][c.half] IN ch.msgs = <<>> /\ ~ch.closed
            /\ c.op = "send" => LET ch == us.ch[c.conn][c.half]
                                IN  ~ch.closed /\ ~CanSend(ch, c.len)
            /\ c.op = "accept" => us.sk[c.sock].backlog = <<>>
            /\ c.op = "drecv" => us.sk[c.sock].dq = <<>>
            /\ c.op \notin {"none", "hung"} => p \notin usig

\* A name keeps reaching the socket that was bound to it: as long as the socket
\* file that bind made exists and the socket is open, the registry maps the name
\* to it, whatever other sockets with the same address (accepted ones, or an
\* earlier owner of the name) are closed in the meantime.
BindingKept ==
    \A a \in Addrs : us.file[a] \in USocks /\ us.sk[us.file[a]].open => us.reg[a] = us.file[a]

\* docs/kernel/unix_sockets_ipc.md: "`POLLIN` when data or accepted connections
\* are queued", "`POLLHUP` when the peer has closed": a process that sleeps in
\* poll has no ready socket.
UnixPollersHaveNothing ==
    \A p \in ulive \ us.pend : ucall[p].op = "poll" => ~AnyReady(us, p, ucall[p].want)

\* docs/kernel/unix_sockets_ipc.md: "`POLLHUP` when the peer has closed": a
\* connected stream socket whose other end is gone reads end of file.
PeerSeesClose ==
    \A s \in USocks : us.sk[s].open /\ us.sk[s].conn # NoConn =>
        \/ us.ch[us.sk[s].conn][us.sk[s].rh].rc
        \/ \E t \in USocks \ {s} : us.sk[t].conn = us.sk[s].conn

\* service.rs:1089: "Never carry the fd-table lock into await_io()."  No process
\* loops in the kernel, unable to sleep.
KernelSleeps == uspin = NoProc

\* Sockets, channels and the name registry are well formed and names stay bound.
NamesBound == UnixTypeOK /\ BindingKept
==============================================================================
