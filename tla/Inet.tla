-------------------------------- MODULE Inet --------------------------------
(***************************************************************************)
(* Internet sockets: TcpSocket and UdpSocket (sys/net/socket), the         *)
(* blocking policy of sys/syscall/net_io.rs over SOCKET_WAIT, the socket   *)
(* calls of sys/syscall/service.rs for AF_INET, and the life of a TCP      *)
(* connection after its descriptor is gone (detach, pump, closing_slot).   *)
(*                                                                         *)
(* A call is atomic up to its sleep.  The protocol stack is smoltcp: its   *)
(* sockets change state as packets arrive and timers expire while the      *)
(* network service pumps it.  A buffer is the number of units in it;       *)
(* FinWait1, FinWait2 and Closing are one state, FinWait.                  *)
(***************************************************************************)
EXTENDS Integers, FiniteSets, SequencesExt, Sequences

CONSTANTS
    IProcs,      \* processes
    Files,       \* open files, at most one per descriptor slot (bound)
    NHandles,    \* socket handles SOCKETS can hold (bound)
    Ports,       \* ports given to bind
    BufCap,      \* capacity of a socket buffer
    ClosingMax,  \* MAX_CLOSING
    MaxInetOps   \* socket calls, forks, deaths and signals (bound)

ASSUME InetSizes ==
    /\ {NHandles, BufCap, ClosingMax} \subseteq Nat \ {0} /\ MaxInetOps \in Nat

VARIABLES
    ns,     \* sock: SOCKETS; file: the open files; own: the files each process has a
            \* descriptor for; ports: GLOBAL_PORT_MAP; closing:
            \* the handles of CLOSING by their deadlines; queue: SOCKET_WAIT;
            \* woken: sleepers that were woken
    icall,  \* the call each process is in
    ilive,  \* processes that have not died
    isig,   \* processes with a signal that interrupts a sleep
    shut,   \* handles closed by shutdown while a descriptor refers to them (history)
    iops

inetVars == <<ns, icall, ilive, isig, shut, iops>>

Handle == 1..NHandles
NoHandle == 0
INone == [op |-> "none", file |-> 0]
FreeHandle == [kind |-> "none", st |-> "Closed", rx |-> 0, tx |-> 0]
FreeFile == [kind |-> "none", handle |-> NoHandle, bound |-> 0, lport |-> 0, remote |-> FALSE]
Blocking == {"read", "write", "sendto", "accept", "connect"}

LiveHandles(s) == {h \in Handle : s.sock[h].kind # "none"}
FileReferenced(s, calls, f) == \E p \in IProcs : f \in s.own[p] \/ calls[p].file = f

------------------------------------------------------------------------------
(* smoltcp, as the sockets use it (external)                               *)

Handshake == {"SynSent", "SynReceived"}
Connected == {"Established", "CloseWait"}
MayRecv(k) == k.st \in {"Established", "FinWait"} \/ k.rx > 0
MaySend(k) == k.st \in Connected

\* close(): what a socket does about its FIN.
TcpClose(k) ==
    [k EXCEPT !.st = CASE @ \in {"Listen", "SynSent"} -> "Closed"
                       [] @ \in {"SynReceived", "Established"} -> "FinWait"
                       [] @ = "CloseWait" -> "LastAck"
                       [] OTHER -> @]

Listening == [FreeHandle EXCEPT !.kind = "tcp", !.st = "Listen"]

\* A packet or a timer of one socket: the socket afterwards.
TcpEvents(k) ==
    CASE k.st = "Listen"      -> {[k EXCEPT !.st = "SynReceived"]}
      [] k.st = "SynReceived" -> {[k EXCEPT !.st = "Established"], [k EXCEPT !.st = "Listen"]}
      [] k.st = "SynSent"     -> {[k EXCEPT !.st = "Established"], [k EXCEPT !.st = "Closed"]}
      [] k.st = "Established" ->
            {[k EXCEPT !.rx = @ + 1], [k EXCEPT !.tx = @ - 1],
             [k EXCEPT !.st = "CloseWait"], [k EXCEPT !.st = "Closed"]}
      [] k.st = "CloseWait"   -> {[k EXCEPT !.tx = @ - 1], [k EXCEPT !.st = "Closed"]}
      [] k.st = "FinWait"     ->
            {[k EXCEPT !.rx = @ + 1], [k EXCEPT !.tx = @ - 1], [k EXCEPT !.st = "Closed"]}
            \cup (IF k.tx = 0 THEN {[k EXCEPT !.st = "TimeWait"]} ELSE {})
      [] k.st = "LastAck"     ->
            {[k EXCEPT !.tx = @ - 1]} \cup (IF k.tx = 0 THEN {[k EXCEPT !.st = "Closed"]} ELSE {})
      [] k.st = "TimeWait"    -> {[k EXCEPT !.st = "Closed"]}
      [] OTHER                -> {}

StackEvents(k) ==
    {e \in IF k.kind = "tcp" THEN TcpEvents(k)
           ELSE {[k EXCEPT !.tx = @ - 1]} \cup (IF k.st = "Open" THEN {[k EXCEPT !.rx = @ + 1]} ELSE {})
        : e.rx \in 0..BufCap /\ e.tx \in 0..BufCap}

------------------------------------------------------------------------------
(* The end of a descriptor                                                 *)

RemoveHandle(s, h) == [s EXCEPT !.sock[h] = FreeHandle]

\* closing_slot: the places of CLOSING that a completed connection still holds.
Reclaimable(s) ==
    {i \in 1..Len(s.closing) : s.sock[s.closing[i]].st \in {"Closed", "TimeWait"}}

\* Seeded fault: no completed connection makes room for the new one.
DetachAborts(s, h) ==
    LET t == [s EXCEPT !.sock[h] = TcpClose(@)]
    IN  IF t.sock[h].st # "Closed" /\ Len(t.closing) < ClosingMax
        THEN [t EXCEPT !.closing = Append(@, h)]
        ELSE RemoveHandle(t, h)

\* detach(): the connection closes; a closed one is removed, another waits in
\* CLOSING, if need be in place of the completed one that is oldest there; if all of
\* them drain it is aborted.
Detach(s, h) ==
    LET t == [s EXCEPT !.sock[h] = TcpClose(@)]
        i == Min(Reclaimable(t))
    IN  IF t.sock[h].st = "Closed" THEN RemoveHandle(t, h)
        ELSE IF Len(t.closing) < ClosingMax THEN [t EXCEPT !.closing = Append(@, h)]
        ELSE IF Reclaimable(t) = {} THEN RemoveHandle(t, h)
        ELSE [RemoveHandle(t, t.closing[i]) EXCEPT !.closing = Append(RemoveAt(@, i), h)]

\* Drop for TcpSocket and for UdpSocket, of an open file nothing refers to any more.
DropTcp(s, h) == Detach(s, h)
DropUdp(s, h) == RemoveHandle(s, h)
DropFile(f, s) ==
    LET h == s.file[f].handle
    IN  [IF s.file[f].kind = "tcp" THEN DropTcp(s, h) ELSE DropUdp(s, h) EXCEPT !.file[f] = FreeFile]

DropAll(s, calls) ==
    FoldSet(DropFile, s, {f \in Files : s.file[f].kind # "none" /\ ~FileReferenced(s, calls, f)})

------------------------------------------------------------------------------
(* One attempt of a socket operation: what it answers and what it leaves   *)

Answer(s, res) == [s |-> s, res |-> res]

\* UdpSocket::bind: an open socket stays as it is.
UdpOpen(s, f) == [s EXCEPT !.sock[s.file[f].handle].st = "Open"]

UdpRecv(s, f) ==
    LET h == s.file[f].handle
        t == UdpOpen(s, f)
    IN  IF s.sock[h].rx > 0 THEN Answer([t EXCEPT !.sock[h].rx = @ - 1], "ok")
        ELSE Answer(t, "again")

TcpRead(s, f) ==
    LET h == s.file[f].handle
        k == s.sock[h]
    IN  IF k.st \in Handshake THEN Answer(s, "again")
        ELSE IF k.rx > 0 THEN Answer([s EXCEPT !.sock[h].rx = @ - 1], "ok")
        ELSE IF ~MayRecv(k) THEN Answer(s, "ok") ELSE Answer(s, "again")

TryRead(s, f) == IF s.file[f].kind = "udp" THEN UdpRecv(s, f) ELSE TcpRead(s, f)

\* A datagram needs a destination, given (dest) or connected.
UdpSend(s, f, dest) ==
    LET h == s.file[f].handle
        t == UdpOpen(s, f)
    IN  IF ~dest /\ ~s.file[f].remote THEN Answer(s, "err")
        ELSE IF s.sock[h].tx < BufCap THEN Answer([t EXCEPT !.sock[h].tx = @ + 1], "ok")
        ELSE Answer(t, "again")

TcpWrite(s, f) ==
    LET h == s.file[f].handle
        k == s.sock[h]
    IN  IF k.st \in Handshake THEN Answer(s, "again")
        ELSE IF MaySend(k) /\ k.tx < BufCap THEN Answer([s EXCEPT !.sock[h].tx = @ + 1], "ok")
        ELSE IF ~MaySend(k) THEN Answer(s, "err") ELSE Answer(s, "again")

TryWrite(s, f, dest) == IF s.file[f].kind = "udp" THEN UdpSend(s, f, dest) ELSE TcpWrite(s, f)

\* A reset listener listens again; a completed handshake leaves with its handle, and
\* a new handle listens.
TryAccept(s, f) ==
    LET h == s.file[f].handle
        t == IF s.sock[h].st = "Closed" THEN [s EXCEPT !.sock[h] = Listening] ELSE s
        n == Min(Handle \ LiveHandles(t))
    IN  IF s.file[f].lport = 0 THEN Answer(s, "err")
        ELSE IF t.sock[h].st \notin Connected THEN Answer(t, "again")
        ELSE Answer([t EXCEPT !.sock[n] = Listening, !.file[f].handle = n], "ok")

ConnectStatus(s, f) ==
    LET st == s.sock[s.file[f].handle].st
    IN  Answer(s, IF st \in Connected THEN "ok" ELSE IF st \in Handshake THEN "again" ELSE "err")

UdpPoll(k, event) == IF event = "read" THEN k.rx > 0 ELSE k.tx < BufCap

\* What a listener and a stream report ready.
TcpPoll(k, listener, event) ==
    IF listener THEN event = "read" /\ k.st \in Connected
    ELSE /\ k.st \notin Handshake
         /\ IF event = "read" THEN k.rx > 0 \/ ~MayRecv(k)
            ELSE MaySend(k) => k.tx < BufCap

\* SocketFile::poll.
SockPoll(s, f, event) ==
    LET k == s.sock[s.file[f].handle]
    IN  IF k.kind = "udp" THEN UdpPoll(k, event) ELSE TcpPoll(k, s.file[f].lport # 0, event)

Attempt(s, op, f) ==
    CASE op = "read"    -> TryRead(s, f)
      [] op = "write"   -> TryWrite(s, f, FALSE)
      [] op = "sendto"  -> TryWrite(s, f, TRUE)
      [] op = "accept"  -> TryAccept(s, f)
      [] op = "connect" -> ConnectStatus(s, f)

------------------------------------------------------------------------------
(* Calls                                                                   *)

IReady(p) == p \in ilive /\ icall[p] = INone

\* A call of p ends, or goes on as c, with the kernel in state s.
ICall(p, s, c) ==
    LET calls == [icall EXCEPT ![p] = c]
    IN  icall' = calls /\ ns' = DropAll(s, calls)

\* A pending signal is delivered on the way back to the program.
IReturn(p, s) ==
    /\ ICall(p, [s EXCEPT !.queue = @ \ {p}, !.woken = @ \ {p}], INone)
    /\ isig' = isig \ {p}

\* accept4: the connection gets a file and a descriptor of p; without a free
\* descriptor it is dropped again.
InstallAccepted(s, p, h, room) ==
    LET free == {f \in Files : s.file[f].kind = "none"}
    IN  IF ~room THEN Detach(s, h)
        ELSE LET f == Min(free)
             IN  [s EXCEPT !.file[f] = [FreeFile EXCEPT !.kind = "tcp", !.handle = h],
                           !.own[p] = @ \cup {f}]

\* One turn of net_io::retry: publish, attempt, return or sleep.  expired is the
\* deadline of a connect.
Retry(p, s, op, f, nonblock, expired) ==
    LET a == Attempt(s, op, f)
        h == s.file[f].handle
    IN  IF a.res = "ok" /\ op = "accept"
        THEN \E room \in BOOLEAN :
                /\ room => \E g \in Files : s.file[g].kind = "none"
                /\ IReturn(p, InstallAccepted(a.s, p, h, room))
        ELSE IF a.res # "again" \/ nonblock \/ p \in isig \/ expired THEN IReturn(p, a.s)
        ELSE /\ ICall(p, [a.s EXCEPT !.queue = @ \cup {p}, !.woken = @ \ {p}],
                      [op |-> op, file |-> f])
             /\ UNCHANGED isig

\* The calls that only wait: read, write, sendto, recvfrom, accept4.
Transfer(p, f, op, nonblock) ==
    /\ IReady(p) /\ f \in ns.own[p]
    /\ op = "accept" => Cardinality(LiveHandles(ns)) < NHandles
    /\ Retry(p, ns, op, f, nonblock, FALSE)
    /\ UNCHANGED <<ilive, shut>>

\* A woken sleeper tries again; a connect may have run out of time.
Again(p, expired) ==
    LET c == icall[p]
    IN  /\ p \in ilive /\ c # INone
        /\ p \in ns.woken \/ expired
        /\ expired => c.op = "connect"
        /\ c.op = "accept" => Cardinality(LiveHandles(ns)) < NHandles
        /\ Retry(p, [ns EXCEPT !.queue = @ \ {p}], c.op, c.file, FALSE, expired)
        /\ UNCHANGED <<ilive, shut>>

\* A call that never sleeps, with outcome s.
Call(p, s) ==
    /\ IReturn(p, s)
    /\ UNCHANGED ilive

Socket(p, kind) ==
    LET f == Min({g \in Files : ns.file[g].kind = "none"})
        h == Min(Handle \ LiveHandles(ns))
    IN  /\ IReady(p)
        /\ \E g \in Files : ns.file[g].kind = "none"
        /\ Cardinality(LiveHandles(ns)) < NHandles
        /\ Call(p, [ns EXCEPT
              !.sock[h] = [FreeHandle EXCEPT !.kind = kind],
              !.file[f] = [FreeFile EXCEPT !.kind = kind, !.handle = h],
              !.own[p] = @ \cup {f}])
        /\ UNCHANGED shut

\* bind: a port once bound is never given out again.
Bind(p, f, port) ==
    LET b == [ns EXCEPT !.ports = @ \cup {port}, !.file[f].bound = port]
    IN  /\ IReady(p) /\ f \in ns.own[p]
        /\ Call(p, IF port \in ns.ports THEN ns
                   ELSE IF ns.file[f].kind = "udp" THEN UdpOpen(b, f) ELSE b)
        /\ UNCHANGED shut

TcpListen(s, f) ==
    [s EXCEPT !.sock[s.file[f].handle] = Listening, !.file[f].lport = s.file[f].bound]

\* listen: refused by the stack when the socket is in use.
Listen(p, f) ==
    LET h == ns.file[f].handle
        ok == ns.file[f].kind = "tcp" /\ ns.file[f].bound # 0
              /\ ns.sock[h].st \in {"Closed", "Listen"}
    IN  /\ IReady(p) /\ f \in ns.own[p]
        /\ Call(p, IF ok THEN TcpListen(ns, f) ELSE ns)
        /\ UNCHANGED shut

\* UdpSocket::connect and TcpSocket::start_connect.
UdpConnect(s, f) == [UdpOpen(s, f) EXCEPT !.file[f].remote = TRUE]
StartConnect(s, f) ==
    [s EXCEPT !.sock[s.file[f].handle] = [FreeHandle EXCEPT !.kind = "tcp", !.st = "SynSent"]]

\* connect: a datagram socket takes a peer; a stream starts its handshake, once, and
\* waits for it unless the descriptor does not block.
ConnectTo(p, f, nonblock) ==
    /\ IReady(p) /\ f \in ns.own[p]
    /\ IF ns.file[f].kind = "udp" THEN Call(p, UdpConnect(ns, f))
       ELSE IF ns.sock[ns.file[f].handle].st # "Closed" THEN Call(p, ns)
       ELSE IF nonblock THEN Call(p, StartConnect(ns, f))
       ELSE Retry(p, StartConnect(ns, f), "connect", f, FALSE, FALSE) /\ UNCHANGED ilive
    /\ UNCHANGED shut

\* close() of either socket: the handle stays.
SockClose(k) == IF k.kind = "tcp" THEN TcpClose(k) ELSE [FreeHandle EXCEPT !.kind = "udp"]

\* shutdown, whatever the direction: the stack closes the socket; no sleeper is told.
Shutdown(p, f) ==
    LET h == ns.file[f].handle
    IN  /\ IReady(p) /\ f \in ns.own[p]
        /\ Call(p, [ns EXCEPT !.sock[h] = SockClose(@)])
        /\ shut' = shut \cup {h}

\* poll() of a listener that was reset makes it listen again.
PollRelistens(p, f) ==
    LET h == ns.file[f].handle
    IN  /\ IReady(p) /\ f \in ns.own[p]
        /\ ns.file[f].lport # 0 /\ ns.sock[h].st = "Closed"
        /\ Call(p, [ns EXCEPT !.sock[h] = Listening])
        /\ UNCHANGED shut

CloseSocketFd(p, f) ==
    /\ IReady(p) /\ f \in ns.own[p]
    /\ Call(p, [ns EXCEPT !.own[p] = @ \ {f}])
    /\ UNCHANGED shut

InetFork(p, c) ==
    /\ IReady(p) /\ c \notin ilive /\ icall[c] = INone
    /\ ns' = [ns EXCEPT !.own[c] = ns.own[p]]
    /\ ilive' = ilive \cup {c} /\ isig' = isig \ {c}
    /\ UNCHANGED <<icall, shut>>

\* The kernel stack of a process that dies in a call is never unwound: the call
\* keeps its reference.
InetDie(p) ==
    /\ p \in ilive
    /\ ilive' = ilive \ {p}
    /\ ns' = DropAll([ns EXCEPT !.own[p] = {}], icall)
    /\ UNCHANGED <<icall, isig, shut>>

InetSignal(p) ==
    /\ p \in ilive \ isig
    /\ isig' = isig \cup {p}
    /\ ns' = IF icall[p] = INone THEN ns ELSE [ns EXCEPT !.woken = @ \cup {p}]
    /\ UNCHANGED <<icall, ilive, shut>>

------------------------------------------------------------------------------
(* The network service                                                     *)

Reaped(s, expired) ==
    LET gone == {h \in ToSet(s.closing) : h \in expired \/ s.sock[h].st = "Closed"}
    IN  [s EXCEPT !.sock = [h \in Handle |-> IF h \in gone THEN FreeHandle ELSE @[h]],
                  !.closing = SelectSeq(@, LAMBDA h : h \notin gone)]

\* Seeded fault: one sleeper is told of a change instead of all.
PumpEndOne(s, expired, changed) ==
    LET t == Reaped(s, expired)
        one == IF t.queue = {} THEN {} ELSE {CHOOSE p \in t.queue : TRUE}
    IN  IF changed THEN [t EXCEPT !.woken = @ \cup one, !.queue = @ \ one] ELSE t

\* The end of pump: closing connections that are closed or past their deadline go;
\* every sleeper is told of a change.
PumpEnd(s, expired, changed) ==
    LET t == Reaped(s, expired)
    IN  IF changed THEN [t EXCEPT !.woken = @ \cup t.queue, !.queue = {}] ELSE t

\* A pump in which the stack handles an event of one socket.
PumpEvent(h, k) ==
    /\ k \in StackEvents(ns.sock[h])
    /\ ns' = PumpEnd([ns EXCEPT !.sock[h] = k], {}, TRUE)
    /\ UNCHANGED <<icall, ilive, isig, shut>>

\* A pump in which nothing happens but time: the oldest closing connection expires.
PumpExpiry ==
    /\ ns.closing # <<>>
    /\ ns' = PumpEnd(ns, {Head(ns.closing)}, FALSE)
    /\ UNCHANGED <<icall, ilive, isig, shut>>

------------------------------------------------------------------------------
NoSockets ==
    [sock |-> [h \in Handle |-> FreeHandle], file |-> [f \in Files |-> FreeFile],
     own |-> [p \in IProcs |-> {}], ports |-> {}, closing |-> <<>>, queue |-> {}, woken |-> {}]

\* Nothing is open, or a server already listens.
InetInit ==
    /\ \E p \in IProcs :
         /\ ilive = {p}
         /\ \/ ns = NoSockets
            \/ \E port \in Ports :
                 ns = [NoSockets EXCEPT
                    !.sock[1] = Listening, !.own[p] = {Min(Files)}, !.ports = {port},
                    !.file[Min(Files)] = [kind |-> "tcp", handle |-> 1, bound |-> port,
                                          lport |-> port, remote |-> FALSE]]
    /\ icall = [p \in IProcs |-> INone]
    /\ isig = {} /\ shut = {} /\ iops = 0

ProcStep(p) ==
    \/ \E kind \in {"tcp", "udp"} : Socket(p, kind)
    \/ \E f \in Files :
         \/ \E port \in Ports : Bind(p, f, port)
         \/ Listen(p, f)
         \/ \E nonblock \in BOOLEAN : ConnectTo(p, f, nonblock)
         \/ \E op \in {"read", "write", "sendto", "accept"}, nonblock \in BOOLEAN :
               Transfer(p, f, op, nonblock)
         \/ Shutdown(p, f) \/ CloseSocketFd(p, f) \/ PollRelistens(p, f)
    \/ \E c \in IProcs : InetFork(p, c)
    \/ InetDie(p) \/ InetSignal(p)

InetNext ==
    \/ iops < MaxInetOps /\ iops' = iops + 1 /\ \E p \in IProcs : ProcStep(p)
    \/ /\ iops' = iops
       /\ \/ \E p \in IProcs, expired \in BOOLEAN : Again(p, expired)
          \/ \E h \in Handle : \E k \in StackEvents(ns.sock[h]) : PumpEvent(h, k)
          \/ PumpExpiry

InetSpec == InetInit /\ [][InetNext]_inetVars

------------------------------------------------------------------------------
(* Properties                                                              *)

\* Every part of the socket model has its type.
InetTypeOK ==
    /\ \A h \in Handle : /\ ns.sock[h].kind \in {"none", "tcp", "udp"}
                         /\ {ns.sock[h].rx, ns.sock[h].tx} \subseteq 0..BufCap
    /\ \A f \in Files : ns.file[f].handle \in Handle \cup {NoHandle}
    /\ Len(ns.closing) <= ClosingMax /\ ns.ports \subseteq Ports
    /\ ns.queue \cup ns.woken \cup ilive \cup isig \subseteq IProcs
    /\ ns.queue \cap ns.woken \cap ilive \subseteq isig
    /\ iops \in 0..MaxInetOps

\* A handle of SOCKETS has one owner, an open file or a slot of CLOSING, from the
\* time it is added until it is removed: accept swaps handles, detach moves one and
\* may evict another, and none is lost, removed twice or used after its removal.
HandlesOwned ==
    \A h \in Handle :
        LET files == {f \in Files : ns.file[f].kind # "none" /\ ns.file[f].handle = h}
            slots == {i \in DOMAIN ns.closing : ns.closing[i] = h}
        IN  Cardinality(files) + Cardinality(slots) = IF h \in LiveHandles(ns) THEN 1 ELSE 0

Draining == {"Established", "CloseWait", "FinWait", "LastAck"}

\* A connection that still has data or a FIN to deliver is given up only when its
\* time in CLOSING is over, or when every slot there holds another that drains.
TeardownKept ==
    [][ \A h \in Handle :
          LET detached == h \in ToSet(ns.closing)
          IN  /\ ns.sock[h].kind = "tcp" /\ ns.sock[h].st \in Draining
              /\ ns'.sock[h].kind = "none"
              => \/ detached /\ ToSet(ns'.closing) \subseteq ToSet(ns.closing)
                 \/ /\ ~detached /\ Len(ns'.closing) = ClosingMax
                    /\ \A k \in ToSet(ns'.closing) : ns'.sock[k].st \in Draining ]_ns

\* No wake-up is lost: a process asleep in SOCKET_WAIT, and not yet woken, would only
\* find EAGAIN again, unless somebody shut the socket down under it, or it reads or
\* writes on a listener.
InetSleepers ==
    Cardinality(LiveHandles(ns)) < NHandles =>
    \A p \in ilive \ ns.woken :
        LET c == icall[p]
        IN  /\ c # INone /\ ns.file[c.file].handle \notin shut
            /\ c.op = "accept" \/ ns.file[c.file].lport = 0
            => Attempt(ns, c.op, c.file).res = "again"

\* poll agrees with the call it announces: it reports a descriptor ready exactly when
\* an accept, a read or a send on it would not wait.
PollAgrees ==
    Cardinality(LiveHandles(ns)) < NHandles =>
    \A f \in {g \in Files : ns.file[g].kind # "none"} :
        LET listener == ns.file[f].lport # 0
            ready(op) == Attempt(ns, op, f).res # "again"
        IN  /\ SockPoll(ns, f, "read") = ready(IF listener THEN "accept" ELSE "read")
            /\ ~listener => SockPoll(ns, f, "write") = ready("sendto")

\* docs/networking.md: "Dropping the last TCP file reference asks smoltcp to close
\* and transfers the handle to deferred service", so a connection that no living
\* process has a descriptor for is closing.
OrphansClose ==
    \A f \in Files : ns.file[f].kind = "tcp" =>
        \E p \in ilive : f \in ns.own[p] \/ icall[p].file = f

\* The sockets are sound: handles have one owner; readiness is neither missed nor
\* invented, as sleepers have nothing to do and poll announces what a call would find.
SocketsSound == InetTypeOK /\ HandlesOwned /\ InetSleepers /\ PollAgrees
=============================================================================
