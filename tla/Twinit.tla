------------------------------- MODULE Twinit -------------------------------
(***************************************************************************)
(* PID 1: the supervision loop of twinit, its restart policy, the log      *)
(* pipes of its services, the control socket and the bootstrap broker that *)
(* starts on-demand services and hands connections over to them.           *)
(*                                                                         *)
(* The loop is sequential; services, clients and the clock move between    *)
(* any two of its steps.  Requests are a kind and a target; output is a    *)
(* sequence of units, each a whole line or the start of one.               *)
(***************************************************************************)
EXTENDS Integers, Sequences, FiniteSets, SequencesExt

CONSTANTS
    Services,       \* the service table
    NoService,      \* the service of an adopted child
    RestartPolicy,  \* service -> "never" | "on-failure" | "always"
    OnDemand,       \* services with txpc.on_demand (these have a txpc name)
    Named,          \* services with a txpc name
    BootClients,    \* processes that use the bootstrap socket
    Trusted,        \* clients that every policy admits
    CtlClients,     \* users of the control socket
    RestartLimit, RestartWindow, OnDemandTimeout,
    LogReadBudget,  \* reads of a log pipe per drain
    LogCap,         \* units a pipe holds
    MaxPid,         \* bound: processes ever forked
    MaxClock,       \* bound: the clock
    MaxWorld        \* bound: steps of services, clients and the clock

ASSUME TwinitSizes ==
    /\ RestartPolicy \in [Services -> {"never", "on-failure", "always"}]
    /\ OnDemand \subseteq Named /\ Named \subseteq Services
    /\ Trusted \subseteq BootClients
    /\ {RestartLimit, RestartWindow, OnDemandTimeout, LogCap, MaxPid, MaxClock,
         MaxWorld} \subseteq Nat
    /\ LogReadBudget \in Nat /\ LogReadBudget > LogCap

VARIABLES
    sv,         \* ServiceState of each service
    kids,       \* unreaped children: pid -> [svc, end]
    kidLogs,    \* services whose log pipe a descendant also holds
    twPc,       \* where the loop is
    bq, taken,  \* connections at the bootstrap listener; those accepted
    req,        \* what each bootstrap connection carries
    pend,       \* pending_connects
    answer,     \* the reply each client got
    cq, ctl,    \* control socket: queue, and what each client did
    tclock, lastPid,
    restarts,   \* history: restarts of each service at each time
    lostLines,  \* history: whole lines that nobody will read
    worldSteps  \* how many there were

twVars == <<sv, kids, kidLogs, twPc, bq, taken, req, pend, answer, cq, ctl,
            tclock, lastPid, restarts, lostLines, worldSteps>>

NoPid == 0
Requesters == BootClients \cup Services
Requests == [kind : {"connect", "register", "nofd", "junk"}, target : Named, pid : {NoPid}]
NoReq == [kind |-> "none", target |-> CHOOSE s \in Services : TRUE, pid |-> NoPid]
Closed == [NoReq EXCEPT !.kind = "closed"]

NewService == [pid |-> NoPid, status |-> "stopped", count |-> 0, since |-> 0,
               disabled |-> FALSE, log |-> FALSE, buf |-> FALSE, reg |-> NoPid,
               out |-> <<>>]

-----------------------------------------------------------------------------
(* Log pipes *)

\* One drain reads at most LogReadBudget units; at end of file the rest of a
\* line is forwarded too and the reader dropped.
DrainLog(s, x) ==
    LET n == IF Len(x.out) < LogReadBudget THEN Len(x.out) ELSE LogReadBudget
        eof == /\ Len(x.out) < LogReadBudget
               /\ s \notin kidLogs
               /\ \A p \in DOMAIN kids : kids[p].svc = s => kids[p].end # "live"
        partial == IF n = 0 THEN x.buf ELSE x.out[n] = "part"
    IN IF ~x.log THEN x
       ELSE [x EXCEPT !.out = SubSeq(@, n + 1, Len(@)),
                      !.buf = partial /\ ~eof,
                      !.log = ~eof]

Lines(out) == Cardinality({i \in 1..Len(out) : out[i] = "line"})

-----------------------------------------------------------------------------
(* Starting, ending and restarting a service *)

\* The parent's side of start_service; forked is the child, or NoPid if fork
\* failed.  A new pipe replaces the old one and both buffers are cleared.
StartService(x, forked) ==
    IF x.disabled \/ x.pid # NoPid THEN x
    ELSE IF forked = NoPid THEN [x EXCEPT !.status = "failed"]
    ELSE [x EXCEPT !.pid = forked, !.status = "running", !.log = TRUE,
                   !.buf = FALSE, !.out = <<>>]

Forks == {NoPid} \cup (IF lastPid < MaxPid THEN {lastPid + 1} ELSE {})

RestartRequired(s, end) ==
    \/ RestartPolicy[s] = "always"
    \/ RestartPolicy[s] = "on-failure" /\ end # "ok"

RecordRestart(x) ==
    LET over == tclock - x.since > RestartWindow
        c == IF over THEN 0 ELSE x.count
    IN [x EXCEPT !.since = IF over THEN tclock ELSE @,
                 !.count = IF c >= RestartLimit THEN c ELSE c + 1]

MayRestart(x) ==
    \/ tclock - x.since > RestartWindow
    \/ x.count < RestartLimit

\* handle_child_exit up to the restart decision: forget the process and its
\* registration.
HandleExit(s, end) == [sv[s] EXCEPT !.pid = NoPid, !.reg = NoPid,
    !.status = IF end = "ok" THEN "exited" ELSE "failed"]

ExitDrain(s, x) == DrainLog(s, x)

ReapOne ==
    /\ twPc = "reap"
    /\ \E p \in DOMAIN kids, forked \in Forks :
        LET s == kids[p].svc
            x == ExitDrain(s, HandleExit(s, kids[p].end))
            again == RestartRequired(s, kids[p].end)
            ok == again /\ MayRestart(x)
            y == IF again THEN [RecordRestart(x) EXCEPT !.disabled = ~ok] ELSE x
            z == IF ok THEN StartService(y, forked) ELSE y
            rest == [q \in DOMAIN kids \ {p} |-> kids[q]]
        IN /\ kids[p].end # "live" /\ s # NoService
           /\ ~ok => forked = NoPid
           /\ sv' = [sv EXCEPT ![s] = z]
           /\ kids' = IF z.pid = NoPid THEN rest
                      ELSE [q \in DOMAIN rest \cup {forked} |->
                              IF q = forked THEN [svc |-> s, end |-> "live"] ELSE rest[q]]
           /\ lastPid' = IF z.pid = NoPid THEN lastPid ELSE forked
           /\ restarts' = [restarts EXCEPT ![s][tclock] = @ + (IF ok THEN 1 ELSE 0)]
           /\ lostLines' = [lostLines EXCEPT ![s] = @ + Lines(x.out) - Lines(z.out)]
           /\ kidLogs' = IF z.pid = NoPid THEN kidLogs ELSE kidLogs \ {s}
    /\ UNCHANGED <<twPc, bq, taken, req, pend, answer, cq, ctl, tclock>>

ReapUnknown ==
    /\ twPc = "reap"
    /\ \E p \in DOMAIN kids :
        /\ kids[p].svc = NoService
        /\ kids' = [q \in DOMAIN kids \ {p} |-> kids[q]]
    /\ UNCHANGED <<sv, kidLogs, twPc, bq, taken, req, pend, answer, cq, ctl, tclock,
                   lastPid, restarts, lostLines>>

ReapNone ==
    /\ twPc = "reap" /\ \A p \in DOMAIN kids : kids[p].end = "live"
    /\ twPc' = "control"
    /\ UNCHANGED <<sv, kids, kidLogs, bq, taken, req, pend, answer, cq, ctl, tclock,
                   lastPid, restarts, lostLines>>

-----------------------------------------------------------------------------
(* The control socket: each client is served to the end before the next.
   read_line blocks until the client has written its line or gone. *)

ControlClient ==
    /\ twPc = "control" /\ cq # <<>>
    /\ ctl[Head(cq)] \in {"wrote", "gone"}
    /\ ctl' = [ctl EXCEPT ![Head(cq)] = "served"] /\ cq' = Tail(cq)
    /\ UNCHANGED <<sv, kids, kidLogs, twPc, bq, taken, req, pend, answer, tclock,
                   lastPid, restarts, lostLines>>

ControlDone ==
    /\ twPc = "control" /\ cq = <<>>
    /\ twPc' = "handle" /\ taken' = bq /\ bq' = <<>>
    /\ UNCHANGED <<sv, kids, kidLogs, req, pend, answer, cq, ctl, tclock, lastPid,
                   restarts, lostLines>>

-----------------------------------------------------------------------------
(* The bootstrap broker *)

\* handle_register: the name must be that of the service whose recorded pid
\* the peer has, and nobody may have registered yet.
Register(p, target) ==
    LET owner == {s \in Services : sv[s].pid = p}
    IN IF \E s \in owner : s \in Named /\ s = target /\ sv[s].reg = NoPid
       THEN [sv EXCEPT ![target].reg = p] ELSE sv

\* complete_connect: policy, then a socket pair whose one end goes to the
\* service and whose other end to the client.
CompleteConnect(c, s) ==
    IF c \notin Trusted THEN "denied"
    ELSE IF sv[s].reg \notin DOMAIN kids \/ kids[sv[s].reg].end # "live"
         THEN "failed" ELSE "ok"

Pending(c, s) == [client |-> c, target |-> s, created |-> tclock]

\* handle_connect for a name in the table.
HandleConnect(c, s) ==
    \/ /\ s \notin Named \/ (sv[s].reg = NoPid /\ s \notin OnDemand)
       /\ answer' = [answer EXCEPT ![c] = "notfound"]
       /\ UNCHANGED <<sv, kids, kidLogs, lastPid, pend, lostLines>>
    \/ /\ s \in Named /\ sv[s].reg # NoPid
       /\ answer' = [answer EXCEPT ![c] = CompleteConnect(c, s)]
       /\ UNCHANGED <<sv, kids, kidLogs, lastPid, pend, lostLines>>
    \/ /\ s \in OnDemand /\ sv[s].reg = NoPid
       /\ \E forked \in Forks :
          LET x == IF sv[s].pid = NoPid THEN StartService(sv[s], forked) ELSE sv[s]
              new == x.pid # sv[s].pid
          IN /\ ~new => forked = NoPid
             /\ sv' = [sv EXCEPT ![s] = x]
             /\ kids' = IF ~new THEN kids
                        ELSE [q \in DOMAIN kids \cup {forked} |->
                                IF q = forked THEN [svc |-> s, end |-> "live"] ELSE kids[q]]
             /\ lastPid' = IF new THEN forked ELSE lastPid
             /\ kidLogs' = IF new THEN kidLogs \ {s} ELSE kidLogs
             /\ lostLines' = [lostLines EXCEPT ![s] = @ + Lines(sv[s].out) - Lines(x.out)]
             /\ IF x.pid = NoPid
                THEN answer' = [answer EXCEPT ![c] = "notfound"] /\ UNCHANGED pend
                ELSE pend' = Append(pend, Pending(c, s)) /\ UNCHANGED answer

\* handle_client for the first accepted connection.  recvmsg blocks until
\* the client has sent something or gone.
HandleClient ==
    /\ twPc = "handle" /\ taken # <<>>
    /\ LET r == Head(taken) m == req[r] IN
        /\ m # NoReq
        /\ taken' = Tail(taken)
        /\ req' = [req EXCEPT ![r] = NoReq]
        /\ \/ /\ m.kind \in {"closed", "junk", "nofd"}
              /\ answer' = IF r \in BootClients
                           THEN [answer EXCEPT ![r] = IF m = Closed THEN "gone" ELSE "error"]
                           ELSE answer
              /\ UNCHANGED <<sv, kids, kidLogs, lastPid, pend, lostLines>>
           \/ /\ m.kind = "register"
              /\ sv' = IF r \in Services THEN Register(m.pid, m.target) ELSE sv
              /\ answer' = IF r \in BootClients
                           THEN [answer EXCEPT ![r] = "denied"] ELSE answer
              /\ UNCHANGED <<kids, kidLogs, lastPid, pend, lostLines>>
           \/ /\ m.kind = "connect" /\ r \in BootClients
              /\ HandleConnect(r, m.target)
    /\ UNCHANGED <<twPc, bq, cq, ctl, tclock, restarts>>

\* drain_pending answers an entry that is too old, whose service ended or
\* whose service registered.
Settled(e) ==
    \/ tclock - e.created >= OnDemandTimeout
    \/ sv[e.target].reg # NoPid \/ sv[e.target].pid = NoPid

Reply(e) ==
    IF tclock - e.created >= OnDemandTimeout \/ sv[e.target].reg = NoPid
    THEN "notfound" ELSE CompleteConnect(e.client, e.target)

\* Seeded fault: answers entries and keeps them.
StillPendingAll == pend

StillPending == SelectSeq(pend, LAMBDA e : ~Settled(e))

DrainPending ==
    /\ twPc = "handle" /\ taken = <<>>
    /\ twPc' = "logs"
    /\ pend' = StillPending
    /\ answer' = [c \in BootClients |->
          IF \E i \in 1..Len(pend) : pend[i].client = c /\ Settled(pend[i])
          THEN Reply(pend[CHOOSE i \in 1..Len(pend) : pend[i].client = c])
          ELSE answer[c]]
    /\ UNCHANGED <<sv, kids, kidLogs, bq, taken, req, cq, ctl, tclock, lastPid,
                   restarts, lostLines>>

DrainServiceLogs ==
    /\ twPc = "logs"
    /\ twPc' = "sleep"
    /\ sv' = [s \in Services |-> DrainLog(s, sv[s])]
    /\ UNCHANGED <<kids, kidLogs, bq, taken, req, pend, answer, cq, ctl, tclock,
                   lastPid, restarts, lostLines>>

SleepOver ==
    /\ twPc = "sleep" /\ twPc' = "reap"
    /\ UNCHANGED <<sv, kids, kidLogs, bq, taken, req, pend, answer, cq, ctl, tclock,
                   lastPid, restarts, lostLines>>

-----------------------------------------------------------------------------
(* The world around it *)

Alive(s) == sv[s].pid \in DOMAIN kids /\ kids[sv[s].pid].end = "live"

\* A service writes to its log pipe; it sleeps while the pipe is full.
ServiceWrites(s, u) ==
    /\ Alive(s) /\ sv[s].log /\ Len(sv[s].out) < LogCap
    /\ sv' = [sv EXCEPT ![s].out = Append(@, u)]
    /\ UNCHANGED <<kids, kidLogs, twPc, bq, taken, req, pend, answer, cq, ctl,
                   tclock, lastPid, restarts, lostLines>>

\* It forks a descendant that keeps the pipe open, or the descendant ends.
Descendant(s) ==
    /\ s \in kidLogs \/ Alive(s)
    /\ kidLogs' = IF s \in kidLogs THEN kidLogs \ {s} ELSE kidLogs \cup {s}
    /\ UNCHANGED <<sv, kids, twPc, bq, taken, req, pend, answer, cq, ctl, tclock,
                   lastPid, restarts, lostLines>>

\* A descendant that outlived its parent ends as a child of PID 1.
OrphanEnds ==
    /\ lastPid < MaxPid /\ lastPid' = lastPid + 1
    /\ kids' = [q \in DOMAIN kids \cup {lastPid + 1} |->
                  IF q \in DOMAIN kids THEN kids[q] ELSE [svc |-> NoService, end |-> "ok"]]
    /\ UNCHANGED <<sv, kidLogs, twPc, bq, taken, req, pend, answer, cq, ctl, tclock,
                   restarts, lostLines>>

ServiceEnds(s, end) ==
    /\ Alive(s)
    /\ kids' = [kids EXCEPT ![sv[s].pid].end = end]
    /\ UNCHANGED <<sv, kidLogs, twPc, bq, taken, req, pend, answer, cq, ctl, tclock,
                   lastPid, restarts, lostLines>>

\* A named service sends REGISTER with its end of a socket pair.
ServiceRegisters(s) ==
    /\ Alive(s) /\ s \in Named /\ req[s] = NoReq
    /\ \A i \in 1..Len(taken) : taken[i] # s
    /\ req' = [req EXCEPT ![s] = [kind |-> "register", target |-> s, pid |-> sv[s].pid]]
    /\ bq' = Append(bq, s)
    /\ UNCHANGED <<sv, kids, kidLogs, twPc, taken, pend, answer, cq, ctl, tclock,
                   lastPid, restarts, lostLines>>

\* A client connects, and later sends its request or goes away.
ClientConnects(c) ==
    /\ answer[c] = "idle"
    /\ answer' = [answer EXCEPT ![c] = "waits"]
    /\ bq' = Append(bq, c)
    /\ UNCHANGED <<sv, kids, kidLogs, twPc, taken, req, pend, cq, ctl, tclock,
                   lastPid, restarts, lostLines>>

ClientSends(c, m) ==
    /\ answer[c] = "waits" /\ req[c] = NoReq /\ Contains(bq \o taken, c)
    /\ req' = [req EXCEPT ![c] = m]
    /\ UNCHANGED <<sv, kids, kidLogs, twPc, bq, taken, pend, answer, cq, ctl, tclock,
                   lastPid, restarts, lostLines>>

CtlConnects(c) ==
    /\ ctl[c] = "idle"
    /\ ctl' = [ctl EXCEPT ![c] = "open"] /\ cq' = Append(cq, c)
    /\ UNCHANGED <<sv, kids, kidLogs, twPc, bq, taken, req, pend, answer, tclock,
                   lastPid, restarts, lostLines>>

CtlActs(c, a) ==
    /\ ctl[c] = "open"
    /\ ctl' = [ctl EXCEPT ![c] = a]
    /\ UNCHANGED <<sv, kids, kidLogs, twPc, bq, taken, req, pend, answer, cq, tclock,
                   lastPid, restarts, lostLines>>

ClockTick ==
    /\ tclock < MaxClock /\ tclock' = tclock + 1
    /\ UNCHANGED <<sv, kids, kidLogs, twPc, bq, taken, req, pend, answer, cq, ctl,
                   lastPid, restarts, lostLines>>

\* main: every service that is not on demand has been started.
TwinitInit ==
    LET up == Services \ OnDemand
        pid == CHOOSE f \in [up -> 1..Cardinality(up)] :
                  \A s, t \in up : s # t => f[s] # f[t]
    IN /\ sv = [s \in Services |-> IF s \in up THEN StartService(NewService, pid[s])
                                   ELSE NewService]
       /\ kids = [p \in 1..Cardinality(up) |->
                    [svc |-> CHOOSE s \in up : pid[s] = p, end |-> "live"]]
       /\ lastPid = Cardinality(up)
       /\ kidLogs = {} /\ twPc = "reap" /\ bq = <<>> /\ taken = <<>>
       /\ req = [r \in Requesters |-> NoReq]
       /\ pend = <<>> /\ answer = [c \in BootClients |-> "idle"]
       /\ cq = <<>> /\ ctl = [c \in CtlClients |-> "idle"]
       /\ tclock = 0
       /\ restarts = [s \in Services |-> [t \in 0..MaxClock |-> 0]]
       /\ lostLines = [s \in Services |-> 0] /\ worldSteps = 0

Supervise ==
    \/ ReapOne \/ ReapUnknown \/ ReapNone \/ ControlClient \/ ControlDone \/ HandleClient
    \/ DrainPending \/ DrainServiceLogs \/ SleepOver

World ==
    \/ \E s \in Services :
        \/ \E u \in {"line", "part"} : ServiceWrites(s, u)
        \/ Descendant(s)
        \/ \E end \in {"ok", "bad"} : ServiceEnds(s, end)
        \/ ServiceRegisters(s)
    \/ \E c \in BootClients :
        \/ ClientConnects(c)
        \/ \E m \in Requests \cup {Closed} : ClientSends(c, m)
    \/ \E c \in CtlClients :
        \/ CtlConnects(c)
        \/ \E a \in {"wrote", "gone"} : CtlActs(c, a)
    \/ ClockTick \/ OrphanEnds

TwinitNext ==
    \/ Supervise /\ UNCHANGED worldSteps
    \/ worldSteps < MaxWorld /\ worldSteps' = worldSteps + 1 /\ World

TwinitSpec == TwinitInit /\ [][TwinitNext]_twVars

-----------------------------------------------------------------------------
(* Properties *)

\* Types of the state.
TwinitTypeOK ==
    /\ \A s \in Services :
        /\ sv[s].pid \in {NoPid} \cup DOMAIN kids /\ sv[s].reg \in 0..MaxPid
        /\ sv[s].status \in {"stopped", "running", "exited", "failed"}
        /\ sv[s].count \in 0..RestartLimit /\ Len(sv[s].out) <= LogCap
    /\ twPc \in {"reap", "control", "handle", "logs", "sleep"}
    /\ \A c \in BootClients :
         answer[c] \in {"idle", "waits", "ok", "denied", "failed", "error", "notfound", "gone"}
    /\ lastPid <= MaxPid

\* The table is right about processes: every unreaped child is the recorded
\* process of its service, so no service ever runs twice, and a registration
\* always belongs to that process and never to one that was reaped.
TableSound ==
    /\ \A p \in DOMAIN kids : kids[p].svc # NoService => sv[kids[p].svc].pid = p
    /\ \A s \in Services : sv[s].reg \in {NoPid, sv[s].pid}

\* A client that asked is in exactly one place until it has its answer, and
\* in none afterwards: in the listener's queue, among the accepted
\* connections or in the pending list.  So no client is forgotten, and none
\* is answered twice.
AnsweredOnce ==
    \A c \in BootClients :
        Len(SelectSeq(bq \o taken, LAMBDA r : r = c))
          + Len(SelectSeq(pend, LAMBDA e : e.client = c))
        = IF answer[c] = "waits" THEN 1 ELSE 0

\* Crash-loop protection: windows are consecutive and not sliding, so over any
\* stretch as long as one window a service is restarted at most twice
\* RESTART_LIMIT times.
RestartsBounded ==
    \A s \in Services, t \in 0..MaxClock :
        LET span == {u \in 0..MaxClock : t <= u /\ u <= t + RestartWindow}
            sum[S \in SUBSET span] ==
                IF S = {} THEN 0
                ELSE LET u == CHOOSE v \in S : TRUE IN restarts[s][u] + sum[S \ {u}]
        IN sum[span] <= 2 * RestartLimit

\* No whole line that a service wrote is dropped when its pipe is replaced,
\* because the pipe was read to the end when the process was reaped.
NoLineLost == \A s \in Services : lostLines[s] = 0

\* control.rs:70, of accepting: "so the supervision loop is never stalled".  Here
\* for the whole loop: it comes back to reaping whatever the clients do.
FairSupervision == TwinitSpec /\ WF_twVars(Supervise /\ UNCHANGED worldSteps)
NeverStalled == []<>(twPc = "reap")

\* Supervision is sound: one process for each service, one answer for each client,
\* a bounded number of restarts, and no line of a log lost.
ServicesSound == TwinitTypeOK /\ TableSound /\ AnsweredOnce /\ RestartsBounded /\ NoLineLost
=============================================================================
