-------------------------------- MODULE Xhci --------------------------------
(***************************************************************************)
(* The xHCI host controller driver (driver/usb/xhci/xhci.rs) and USB mass  *)
(* storage on top of it: the commands and control transfers that bring up  *)
(* the devices at boot, and the SCSI commands of a disk, each a command    *)
(* wrapper, its data and a status wrapper over two bulk endpoints.         *)
(*                                                                         *)
(* Everything is polled: the driver queues a descriptor, rings a doorbell  *)
(* and polls the event ring until something for that endpoint arrives or   *)
(* the wait times out.  An event is never matched with the descriptor it   *)
(* is for, and a descriptor whose wait timed out stays queued.  The        *)
(* controller and the disk run on their own.                               *)
(***************************************************************************)
EXTENDS Integers, Sequences, FiniteSets, SequencesExt, FiniteSetsExt

CONSTANTS XPlugs,     \* what may sit in the ports: functions 1..n -> kind
          XRingN,     \* descriptors of a bulk endpoint's ring before its link
          XCtlN,      \* the same for control: no boot uses them all
          XBufs,      \* frames a data buffer may get
          NoXBuf,     \* no buffer
          XLbas,      \* blocks read
          NoLba,      \* of a command that names no block
          MaxTur,     \* TEST UNIT READY is tried this often
          MaxXReads,  \* bound: reads
          MaxXFaults  \* bound: time-outs, stalls and failed commands

ASSUME XSizes ==
    /\ \A p \in XPlugs : /\ DOMAIN p \subseteq Nat
                         /\ \A i \in DOMAIN p : p[i] \in {"none", "msc", "other"}
    /\ XRingN \in Nat \ {0} /\ XCtlN \in Nat \ {0} /\ MaxTur \in Nat \ {0}
    /\ MaxXReads \in Nat /\ MaxXFaults \in Nat

VARIABLES xd,       \* the driver
          xh,       \* the controller's queues, the disk and the data buffers
          xFaults
xhciVars == <<xd, xh, xFaults>>

XSlots == 1..2
XPipes == XSlots \X {"ep0", "out", "in"}
NoSlot == 0

(* What poll_ports does on a port with a device, in order: enable_slot and *)
(* address_device; the descriptors that try_attach_device reads to detect  *)
(* what it is; init_msc_device.  The steps marked Optional may fail.       *)
PortSteps == <<"enable", "address">>
AttachSteps == <<"get", "get", "get">>
MscSteps == <<"get", "get", "set", "set", "set", "set", "cfgout", "cfgin",
              "inquiry", "ready", "sense", "capacity">>
XSteps == PortSteps \o AttachSteps \o MscSteps
Optional == {9, 10, 11, 14, 16}
Detected == Len(PortSteps) + Len(AttachSteps)

(* Bytes a SCSI command moves to the host, and the size of a status        *)
(* wrapper.                                                                *)
DataLen(op) == CASE op = "inquiry"  -> 36
                 [] op = "ready"    -> 0
                 [] op = "sense"    -> 18
                 [] op = "capacity" -> 8
                 [] op = "read"     -> 512
CswLen == 13

ZeroBuf == <<"zero">>
NoRead == <<"none">>

(* A transfer ring: the descriptors with their cycle bits, the link's      *)
(* cycle bit, and where the driver and the controller are in it.           *)
NewRing(n) == [trbs |-> [i \in 1..n |-> [cyc |-> 0]], link |-> 1,
               index |-> 1, cycle |-> 1, deq |-> 1, ccs |-> 1]
RingLen(r) == Len(r.trbs)

XInit ==
    /\ \E p \in XPlugs :
         xd = [pc |-> "step", plug |-> p, port |-> 1, step |-> 1, turs |-> 0,
               slot |-> NoSlot, slots |-> [s \in XSlots |-> 0], dev |-> NoSlot,
               tag |-> 1, op |-> "none", lba |-> NoLba, phase |-> "none", pipe |-> <<1, "ep0">>,
               buf |-> NoXBuf, data |-> ZeroBuf, seen |-> FALSE, cc |-> 0, cslot |-> NoSlot,
               status |-> [q \in XPipes |-> 0], ret |-> NoRead, reads |-> 0,
               late |-> FALSE]
    /\ xh = [cmds |-> <<>>, events |-> <<>>, next |-> 1,
             port |-> [s \in XSlots |-> 0], on |-> {}, halted |-> {},
             ring |-> [q \in XPipes |-> NewRing(IF q[2] = "ep0" THEN XCtlN ELSE XRingN)],
             phase |-> "cmd", tag |-> 0, op |-> "none", lba |-> NoLba, st |-> 0,
             mem |-> [b \in XBufs |-> ZeroBuf]]
    /\ xFaults = 0

-----------------------------------------------------------------------------
(* push_ring_trb: past the last descriptor the driver starts over with the *)
(* other cycle bit, and gives the link that bit too.                       *)
PushRingTrb(r, t) ==
    LET wrap == r.index > RingLen(r)
        i == IF wrap THEN 1 ELSE r.index
        c == IF wrap THEN 1 - r.cycle ELSE r.cycle
    IN [r EXCEPT !.index = i + 1, !.cycle = c, !.link = IF wrap THEN c ELSE @,
                 !.trbs[i] = t @@ [cyc |-> c]]

(* poll_event_ring takes every event there is.  A command's completion is  *)
(* just "a command completed"; a transfer's is kept per endpoint, the last *)
(* one replacing the others.                                               *)
TakeEvent(w, e) ==
    IF e.kind = "cmd" THEN [w EXCEPT !.seen = TRUE, !.cc = e.cc, !.cslot = e.slot]
    ELSE [w EXCEPT !.status[e.pipe] = e.cc]
PollEventRing(w) == FoldLeft(TakeEvent, w, xh.events)

-----------------------------------------------------------------------------
(* Where each outcome of a step leads.                                     *)
XNextPort(w) == [w EXCEPT !.pc = "step", !.port = @ + 1, !.step = 1, !.turs = 0,
                          !.slot = NoSlot]
StepDone(w, ok) ==
    LET go(n) == [w EXCEPT !.pc = "step", !.step = n]
    IN CASE w.step = 15 -> IF ok THEN go(17) ELSE [go(16) EXCEPT !.turs = @ + 1]
         [] w.step = 16 -> IF w.turs < MaxTur THEN go(15) ELSE go(17)
         [] w.step = 17 -> IF ok THEN XNextPort([w EXCEPT !.dev = w.slot])
                           ELSE XNextPort(w)
         [] w.step = Detected /\ ok /\ w.plug[w.port] # "msc" -> XNextPort(w)
         [] OTHER -> IF ok \/ w.step \in Optional THEN go(w.step + 1)
                     ELSE XNextPort(w)
OpDone(w, ok) ==
    IF w.op = "read"
    THEN [w EXCEPT !.pc = "idle", !.ret = IF ok THEN <<"ok", w.lba, w.data>> ELSE NoRead]
    ELSE StepDone(w, ok)

(* A port with nothing in it, and the end of poll_ports.                   *)
SkipPort ==
    /\ xd.pc = "step" /\ xd.port \in DOMAIN xd.plug /\ xd.plug[xd.port] = "none"
    /\ xd' = XNextPort(xd)
    /\ UNCHANGED <<xh, xFaults>>
PortsDone ==
    /\ xd.pc = "step" /\ xd.port \notin DOMAIN xd.plug
    /\ xd' = [xd EXCEPT !.pc = "idle"]
    /\ UNCHANGED <<xh, xFaults>>
AtStep(ops) ==
    /\ xd.pc = "step" /\ xd.port \in DOMAIN xd.plug /\ xd.plug[xd.port] # "none"
    /\ XSteps[xd.step] \in ops

(* enable_slot, address_device and ensure_bulk_endpoint forget the last    *)
(* completion, queue their command and wait for one.                       *)
BeforeCommand(w) == [w EXCEPT !.seen = FALSE]
PushCmd(op) ==
    /\ AtStep({op})
    /\ xd' = [BeforeCommand(xd) EXCEPT !.pc = "cmd", !.op = op]
    /\ xh' = [xh EXCEPT !.cmds = Append(@, [op |-> op, slot |-> xd.slot, port |-> xd.port])]
    /\ UNCHANGED xFaults
EnableSlot == PushCmd("enable")
AddressDevice == PushCmd("address")
EnsureBulkEndpoint == PushCmd("cfgout") \/ PushCmd("cfgin")

(* What a completed command leaves: enable_slot the slot the event names,  *)
(* address_device the slot's state with its endpoints.                     *)
SlotEnabled(w, ok) == StepDone([w EXCEPT !.slot = IF ok THEN w.cslot ELSE NoSlot], ok)
DeviceAddressed(w, ok) ==
    StepDone(IF ok THEN [w EXCEPT !.slots[w.slot] = w.port] ELSE w, ok)
CommandResult(w) ==
    CASE w.op = "enable"  -> SlotEnabled(w, w.cc = 1 /\ w.cslot # NoSlot)
      [] w.op = "address" -> DeviceAddressed(w, w.cc = 1)
      [] OTHER            -> StepDone(w, w.cc = 1)
CommandWait ==
    /\ xd.pc = "cmd" /\ (xh.events # <<>> \/ xd.seen)
    /\ LET w == PollEventRing(xd) IN xd' = IF w.seen THEN CommandResult(w) ELSE w
    /\ xh' = [xh EXCEPT !.events = <<>>]
    /\ UNCHANGED xFaults
CommandTimeout ==
    /\ xd.pc = "cmd" /\ xFaults < MaxXFaults
    /\ xd' = StepDone([xd EXCEPT !.late = TRUE], FALSE)
    /\ xFaults' = xFaults + 1
    /\ UNCHANGED xh

-----------------------------------------------------------------------------
(* control_transfer_ep0: the endpoint's status is cleared, the setup, data *)
(* and status stages are queued, the doorbell rung.                        *)
ControlTransfer ==
    /\ AtStep({"get", "set"}) /\ xd.slots[xd.slot] # 0
    /\ LET q == <<xd.slot, "ep0">>
           stages == IF XSteps[xd.step] = "get" THEN <<"setup", "data", "status">>
                     ELSE <<"setup", "status">>
       IN /\ xd' = [xd EXCEPT !.pc = "xfer", !.op = XSteps[xd.step], !.phase = "ctl",
                              !.pipe = q, !.status[q] = 0]
          /\ xh' = [xh EXCEPT !.ring[q] =
                      FoldLeft(LAMBDA r, s : PushRingTrb(r, [stage |-> s]), @, stages)]
    /\ UNCHANGED xFaults

(* Seeded fault: an endpoint's old status is not cleared.                  *)
BulkStatusKept(w, q) == w

(* bulk_transfer up to its wait: the status is cleared and a buffer, taken *)
(* wherever the allocator finds one, is queued.                            *)
BulkStatus(w, q) == [w EXCEPT !.status[q] = 0]
Bulk(w, h, dir, b, content, len) ==
    LET q == <<IF w.op = "read" THEN w.dev ELSE w.slot, dir>> IN
    /\ xd' = [BulkStatus(w, q) EXCEPT !.pc = "xfer", !.pipe = q, !.buf = b]
    /\ xh' = [h EXCEPT !.mem[b] = content,
                       !.ring[q] = PushRingTrb(@, [stage |-> "normal", buf |-> b, len |-> len])]

(* msc_bot_command.  The command wrapper goes out with the next tag; then  *)
(* the data, if any, and the status wrapper come in.                       *)
SendCbw(w, h) ==
    \E b \in XBufs :
        Bulk([w EXCEPT !.phase = "cbw", !.tag = @ + 1, !.data = ZeroBuf], h, "out", b,
             <<"cbw", w.tag, w.op, w.lba>>, 31)
BotCommand ==
    /\ AtStep({"inquiry", "ready", "sense", "capacity"})
    /\ SendCbw([xd EXCEPT !.op = XSteps[xd.step], !.lba = NoLba], xh)
    /\ UNCHANGED xFaults
MscRead ==
    /\ xd.pc = "idle" /\ xd.dev # NoSlot /\ xd.reads < MaxXReads
    /\ \E lba \in XLbas :
         SendCbw([xd EXCEPT !.op = "read", !.lba = lba, !.reads = @ + 1, !.ret = NoRead], xh)
    /\ UNCHANGED xFaults

(* The status wrapper must carry the signature and this command's tag.     *)
CswGood(w, csw) == csw[1] = "csw" /\ csw[2] = w.tag - 1 /\ csw[3] = 0

(* A transfer whose wait ended well, and what follows it.                  *)
XferDone(w, h) ==
    CASE w.phase = "ctl" -> xd' = StepDone(w, TRUE) /\ xh' = h
      [] w.phase = "cbw" /\ DataLen(w.op) > 0 ->
           \E b \in XBufs : Bulk([w EXCEPT !.phase = "data"], h, "in", b, ZeroBuf, DataLen(w.op))
      [] w.phase = "cbw" \/ w.phase = "data" ->
           LET d == IF w.phase = "data" THEN h.mem[w.buf] ELSE ZeroBuf IN
           \E b \in XBufs :
               Bulk([w EXCEPT !.phase = "csw", !.data = d], h, "in", b, ZeroBuf, CswLen)
      [] w.phase = "csw" -> xd' = OpDone(w, CswGood(w, h.mem[w.buf])) /\ xh' = h

(* wait_for_xfer.                                                          *)
XferWait ==
    /\ xd.pc = "xfer" /\ (xh.events # <<>> \/ xd.status[xd.pipe] # 0)
    /\ LET w == PollEventRing(xd)
           h == [xh EXCEPT !.events = <<>>]
           cc == w.status[xd.pipe]
           v == [w EXCEPT !.status[xd.pipe] = 0]
       IN CASE cc = 0 -> xd' = w /\ xh' = h
            [] cc = 1 -> XferDone(v, h)
            [] OTHER  -> xd' = OpDone(v, FALSE) /\ xh' = h
    /\ UNCHANGED xFaults
XferTimeout ==
    /\ xd.pc = "xfer" /\ xFaults < MaxXFaults /\ xd.status[xd.pipe] = 0
    /\ xd' = OpDone([xd EXCEPT !.late = TRUE], FALSE)
    /\ xFaults' = xFaults + 1
    /\ UNCHANGED xh

-----------------------------------------------------------------------------
(* The controller takes commands in order.                                 *)
HcCommand ==
    /\ xh.cmds # <<>>
    /\ LET c == Head(xh.cmds)
           slot == IF c.op = "enable" THEN xh.next ELSE c.slot
           post(h, cc) == [h EXCEPT !.cmds = Tail(@),
                                    !.events = Append(@, [kind |-> "cmd", cc |-> cc, slot |-> slot])]
           done == CASE c.op = "enable"  -> [xh EXCEPT !.next = @ + 1]
                     [] c.op = "address" -> [xh EXCEPT !.port[slot] = c.port,
                                                       !.on = @ \cup {<<slot, "ep0">>}]
                     [] c.op = "cfgout"  -> [xh EXCEPT !.on = @ \cup {<<slot, "out">>}]
                     [] c.op = "cfgin"   -> [xh EXCEPT !.on = @ \cup {<<slot, "in">>}]
       IN \/ /\ c.op = "enable" => xh.next \in XSlots
             /\ xh' = post(done, 1) /\ UNCHANGED xFaults
          \/ /\ c.op # "enable" /\ xFaults < MaxXFaults /\ xFaults' = xFaults + 1
             /\ xh' = post(xh, 4)
    /\ UNCHANGED xd

(* The controller moves on in a ring, following the link when it has the   *)
(* cycle bit it expects.  Of a descriptor it is done with only the cycle   *)
(* bit matters.                                                            *)
Advance(r) ==
    LET d == [r EXCEPT !.trbs[r.deq] = [cyc |-> r.ccs]] IN
    IF r.deq < RingLen(r) THEN [d EXCEPT !.deq = @ + 1]
    ELSE IF r.link = r.ccs THEN [d EXCEPT !.deq = 1, !.ccs = 1 - @]
    ELSE [d EXCEPT !.deq = RingLen(r) + 1]
Waiting(q) ==
    LET r == xh.ring[q] IN
    /\ q \in xh.on /\ q \notin xh.halted
    /\ r.deq <= RingLen(r) /\ r.trbs[r.deq].cyc = r.ccs
TrbAt(q) == xh.ring[q].trbs[xh.ring[q].deq]
Event(q, cc) == [kind |-> "xfer", pipe |-> q, cc |-> cc]
Finished(h, q, cc) == [h EXCEPT !.ring[q] = Advance(@), !.events = Append(@, Event(q, cc))]

HcControlStage(q) ==
    /\ q[2] = "ep0" /\ Waiting(q)
    /\ \/ /\ TrbAt(q).stage # "status"
          /\ xh' = [xh EXCEPT !.ring[q] = Advance(@)] /\ UNCHANGED xFaults
       \/ /\ TrbAt(q).stage = "status"
          /\ xh' = Finished(xh, q, 1) /\ UNCHANGED xFaults
       \/ /\ TrbAt(q).stage = "status"
          /\ xFaults < MaxXFaults /\ xFaults' = xFaults + 1
          /\ xh' = [Finished(xh, q, 6) EXCEPT !.halted = @ \cup {q}]
    /\ UNCHANGED xd

(* The disk, one command at a time: it takes a wrapper when it is between  *)
(* commands and stalls on anything else that is sent then.                 *)
DiskTakes(q) ==
    /\ q[2] = "out" /\ Waiting(q) /\ xh.phase = "cmd"
    /\ LET c == xh.mem[TrbAt(q).buf]
           h == Finished(xh, q, 1)
       IN IF c[1] = "cbw"
          THEN /\ xh' = [h EXCEPT !.phase = IF DataLen(c[3]) = 0 THEN "csw" ELSE "data",
                                  !.tag = c[2], !.op = c[3], !.lba = c[4], !.st = 0]
          ELSE xh' = [Finished(xh, q, 6) EXCEPT !.halted = @ \cup {q}]
    /\ UNCHANGED <<xd, xFaults>>
DiskNotReady(q) ==
    /\ q[2] = "out" /\ Waiting(q) /\ xh.phase = "cmd" /\ xFaults < MaxXFaults
    /\ LET c == xh.mem[TrbAt(q).buf]
       IN /\ c[1] = "cbw" /\ c[3] = "ready"
          /\ xh' = [Finished(xh, q, 1) EXCEPT !.phase = "csw", !.tag = c[2], !.op = c[3],
                                              !.lba = NoLba, !.st = 1]
    /\ xFaults' = xFaults + 1
    /\ UNCHANGED xd

(* It sends data and then status; a packet shorter than its descriptor is  *)
(* reported as short, a longer one is babble and halts the endpoint.       *)
DiskSends(q) ==
    /\ q[2] = "in" /\ Waiting(q) /\ xh.phase \in {"data", "csw"}
    /\ LET t == TrbAt(q)
           n == IF xh.phase = "data" THEN DataLen(xh.op) ELSE CswLen
           packet == IF xh.phase = "data" THEN <<"data", xh.op, xh.lba>>
                     ELSE <<"csw", xh.tag, xh.st>>
           cc == IF n = t.len THEN 1 ELSE IF n < t.len THEN 13 ELSE 3
       IN xh' = [Finished(xh, q, cc) EXCEPT
                   !.mem[t.buf] = IF n <= t.len THEN packet ELSE @,
                   !.halted = IF n > t.len THEN @ \cup {q} ELSE @,
                   !.phase = IF @ = "data" THEN "csw" ELSE "cmd"]
    /\ UNCHANGED <<xd, xFaults>>

XhciNext ==
    \/ SkipPort \/ PortsDone
    \/ EnableSlot \/ AddressDevice \/ EnsureBulkEndpoint \/ CommandWait \/ CommandTimeout
    \/ ControlTransfer \/ BotCommand \/ MscRead \/ XferWait \/ XferTimeout
    \/ HcCommand
    \/ \E q \in XPipes : HcControlStage(q) \/ DiskTakes(q) \/ DiskNotReady(q) \/ DiskSends(q)

XhciSpec == XInit /\ [][XhciNext]_xhciVars

-----------------------------------------------------------------------------
(* Type invariant.                                                         *)
XhciTypeOK ==
    /\ xd.pc \in {"step", "cmd", "xfer", "idle"}
    /\ xd.step \in 1..Len(XSteps) /\ xd.slot \in XSlots \cup {NoSlot}
    /\ xd.dev \in XSlots \cup {NoSlot} /\ xd.pipe \in XPipes
    /\ xd.status \in [XPipes -> {0, 1, 3, 6, 13}]
    /\ \A q \in XPipes : LET r == xh.ring[q] IN
         /\ {r.index, r.deq} \subseteq 1..(RingLen(r) + 1)
         /\ {r.cycle, r.ccs, r.link} \subseteq {0, 1}
    /\ xh.on \subseteq XPipes /\ xh.halted \subseteq xh.on
    /\ xFaults \in 0..MaxXFaults

(* A read of the disk that returns Ok returned the block that was asked    *)
(* for, whatever timed out before: an event left over from an earlier      *)
(* command is never taken for this one's data.                             *)
ReadExact == xd.ret # NoRead => xd.ret[3] = <<"data", "read", xd.ret[2]>>

(* A slot the driver keeps state for is one the controller has addressed,  *)
(* for the same port, as long as no command's completion came after its    *)
(* wait had ended.                                                         *)
SlotsAddressed ==
    ~xd.late => \A s \in XSlots : xd.slots[s] # 0 => xh.port[s] = xd.slots[s]

(* When the controller has taken everything from a ring it stands where    *)
(* the driver will write next, expecting the cycle bit the driver will     *)
(* use, so the next descriptor is seen.  Without a time-out.               *)
RingsInStep ==
    ~xd.late => \A q \in xh.on :
        LET r == xh.ring[q]
            at == IF r.index > RingLen(r) THEN <<1, 1 - r.cycle>> ELSE <<r.index, r.cycle>>
        IN ~Waiting(q) /\ q \notin xh.halted => <<r.deq, r.ccs>> = at

(* "Update Link TRB to match the new cycle bit so the HC accepts it at the *)
(* end of this pass" (xhci.rs:847): the controller never waits at a link   *)
(* it does not accept.                                                     *)
LinkAccepted == \A q \in XPipes : xh.ring[q].deq <= RingLen(xh.ring[q])

(* Driver and controller agree on rings and slots, so a read of the stick  *)
(* that returns Ok returns its block.                                      *)
DiskExact == XhciTypeOK /\ ReadExact /\ SlotsAddressed /\ RingsInStep
=============================================================================
