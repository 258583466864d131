-------------------------------- MODULE Nic --------------------------------
(***************************************************************************)
(* The Ethernet drivers (driver/nic) under the network service             *)
(* (sys/net/service.rs): the RTL8139's byte ring and four transmit         *)
(* descriptors with their interrupt, and the PCNET's two descriptor rings, *)
(* polled.  The service runs with interrupts off, so a request or an       *)
(* interrupt reaches it only while it sleeps; the card works at any time,  *)
(* also between two port accesses of the driver.                           *)
(*                                                                         *)
(* A frame is a number.  The RTL8139 ring holds, per unit of memory, the   *)
(* frame and the position in it that was written there last; a header, the *)
(* CRC and the alignment are Word units each.                              *)
(***************************************************************************)
EXTENDS Integers, Sequences, FiniteSets, TLC

CONSTANTS
    NicKinds,       \* the cards tried: a subset of {"rtl", "pcnet"}
    RxLen,          \* RX_BUFFER_LEN, in units
    RxPad,          \* RX_BUFFER_PAD
    Word,           \* the four bytes of a header, of the CRC, of the alignment
    RxSizes,        \* length fields of received frames, CRC included
    TxCount,        \* TX_BUFFERS_COUNT
    RxCount,        \* RX_BUFFERS_COUNT of the PCNET
    RxBudget,       \* RX_BUDGET
    MaxIn,          \* frames on the wire (bound)
    MaxOut,         \* frames to send (bound)
    MaxDamaged      \* frames stored with a bad header (bound)

ASSUME NicSizes ==
    /\ {RxLen, RxPad, Word, TxCount, RxCount, RxBudget} \subseteq Nat \ {0}
    /\ RxLen % Word = 0 /\ RxPad < RxLen
    /\ {MaxIn, MaxOut, MaxDamaged} \subseteq Nat
    /\ \A n \in RxSizes : n \in Nat /\ n > Word /\ n + 2 * Word < RxLen

VARIABLES
    nd,     \* the driver: kind, whether its irq line takes a handler (irqOk), irqBase
            \* published, rx_offset or rx_id (rxOff), tx_id, tx_inflight
    card,   \* the device: its rings and registers, the size of every frame received,
            \* the frames stored with a bad header
    nserv,     \* the network service: where it is, its locals, whether a deadline is armed
    outq,   \* frames the sockets have queued for sending
    nlog    \* history. due: frames stored and not yet read; queued: frames the stack
            \* made; handed, sent: frames given to the driver and frames on the wire

nicVars == <<nd, card, nserv, outq, nlog>>

Up(n) == ((n + Word - 1) \div Word) * Word
RxMem == 0..(RxLen + RxPad + Up(Word + CHOOSE n \in RxSizes : \A m \in RxSizes : m <= n))

\* A stored frame: Word units of header, then n units of which Word are the CRC.
Stored(f, i) == IF i < Word THEN <<f, 0>> ELSE <<f, i>>
Payload(f) == [i \in 1..(card.size[f] - Word) |-> Stored(f, Word + i - 1)]

------------------------------------------------------------------------------
(* The card (external: as the drivers use it)                              *)

\* Room left in the byte ring, 0 when it is empty.
RxRoom == (card.read - card.write) % RxLen

\* The RTL8139 stores a frame past the end of the ring rather than wrap it.
RtlStore(c, f, n) ==
    [c EXCEPT !.mem = [a \in RxMem |-> IF a - c.write \in 0..(n + Word - 1)
                                       THEN Stored(f, a - c.write) ELSE @[a]],
              !.write = (@ + Up(n + Word)) % RxLen,
              !.isr = @ \cup {"rx"}]

PcnetStore(c, f) ==
    [c EXCEPT !.rx[c.write] = [own |-> FALSE, frame |-> f], !.write = (@ + 1) % RxCount]

\* A frame arrives; it is dropped when there is no room, and may be stored with a
\* bad header by the RTL8139.
CardReceives(n, good) ==
    LET f == Len(card.size) + 1
        room == IF nd.kind = "rtl" THEN RxRoom = 0 \/ Up(n + Word) < RxRoom
                ELSE card.rx[card.write].own
        c == [card EXCEPT !.size = Append(@, n)]
    IN  /\ f <= MaxIn
        /\ ~good => nd.kind = "rtl" /\ room /\ Cardinality(card.bad) < MaxDamaged
        /\ card' = IF ~room THEN c
                   ELSE IF nd.kind = "pcnet" THEN PcnetStore(c, f)
                   ELSE [RtlStore(c, f, n) EXCEPT !.bad = IF good THEN @ ELSE @ \cup {f}]
        /\ nlog' = IF room THEN [nlog EXCEPT !.due = Append(@, f)] ELSE nlog
        /\ UNCHANGED <<nd, nserv, outq>>

\* The card sends the frame of its current descriptor, in ring order.
CardSends ==
    LET t == card.tx[card.cur]
    IN  /\ t.busy
        /\ card' = [card EXCEPT !.tx[card.cur].busy = FALSE,
                                !.cur = (@ + 1) % TxCount,
                                !.isr = IF nd.kind = "rtl" THEN @ \cup {"tx"} ELSE @]
        /\ nlog' = [nlog EXCEPT !.sent = Append(@, t.frame)]
        /\ UNCHANGED <<nd, nserv, outq>>

------------------------------------------------------------------------------
(* The service sleeps: interrupts, requests, deadlines                     *)

Pumping == [nserv EXCEPT !.pc = "ingress", !.count = 0, !.alarm = FALSE]

\* interrupt(): masks the card, acknowledges what is pending, asks for service.
NicInterrupt ==
    /\ nserv.pc = "asleep" /\ nd.irqBase
    /\ card.imr /\ card.isr # {}
    /\ card' = [card EXCEPT !.imr = FALSE, !.isr = {}]
    /\ nserv' = Pumping
    /\ UNCHANGED <<nd, outq, nlog>>

\* A socket call queues a frame and asks for service.
SocketSend ==
    /\ nserv.pc = "asleep" /\ nlog.queued < MaxOut
    /\ outq' = Append(outq, nlog.queued + 1)
    /\ nlog' = [nlog EXCEPT !.queued = @ + 1]
    /\ nserv' = Pumping
    /\ UNCHANGED <<nd, card>>

ServiceDeadline ==
    /\ nserv.pc = "asleep" /\ nserv.alarm
    /\ nserv' = Pumping
    /\ UNCHANGED <<nd, card, outq, nlog>>

------------------------------------------------------------------------------
(* The driver's operations                                                 *)

\* Seeded fault: the descriptor is taken for free.
TxProbeBlind(found, none) ==
    /\ nd' = [nd EXCEPT !.inflight[nd.txId] = FALSE]
    /\ nserv' = [nserv EXCEPT !.pc = found, !.probes = 0]

\* tx_available.  found and none are where the service goes on.  The RTL8139 driver
\* tries every descriptor in turn, one per step, the PCNET driver only its next.
RtlTxAvailable(found, none) ==
    LET busy == nd.inflight[nd.txId] /\ card.tx[nd.txId].busy
    IN  /\ nd' = [nd EXCEPT !.inflight[nd.txId] = busy,
                            !.txId = IF busy THEN (@ + 1) % TxCount ELSE @]
        /\ nserv' = IF ~busy THEN [nserv EXCEPT !.pc = found, !.probes = 0]
                 ELSE IF nserv.probes + 1 = TxCount THEN [nserv EXCEPT !.pc = none, !.probes = 0]
                 ELSE [nserv EXCEPT !.probes = @ + 1]

PcnetTxAvailable(found, none) ==
    /\ nserv' = [nserv EXCEPT !.pc = IF card.tx[nd.txId].busy THEN none ELSE found]
    /\ UNCHANGED nd

TxProbe(found, none) ==
    IF nd.kind = "rtl" THEN RtlTxAvailable(found, none) ELSE PcnetTxAvailable(found, none)

\* transmit_packet of the two drivers: the descriptor goes to the card.
RtlTransmit(f) ==
    /\ card' = [card EXCEPT !.tx[nd.txId] = [busy |-> TRUE, frame |-> f]]
    /\ nd' = [nd EXCEPT !.inflight[nd.txId] = TRUE, !.txId = (@ + 1) % TxCount]

PcnetTransmit(f) ==
    /\ card' = [card EXCEPT !.tx[nd.txId] = [busy |-> TRUE, frame |-> f]]
    /\ nd' = [nd EXCEPT !.txId = (@ + 1) % TxCount]

\* TxToken::consume: fill the descriptor's buffer and start it.
Consume(f) == IF nd.kind = "rtl" THEN RtlTransmit(f) ELSE PcnetTransmit(f)

\* receive_packet as far as the copy, for the RTL8139.  A bad header makes the
\* driver ask where the card is and go on from there.
RtlReceive(off) ==
    LET f == card.mem[off][1]
        n == card.size[f]
    IN  IF card.read = card.write THEN [nserv EXCEPT !.pc = "drained"]
        ELSE IF f \in card.bad
        THEN [nserv EXCEPT !.pc = "release", !.to = card.write,
                        !.got = <<>>, !.lost = Len(nlog.due)]
        ELSE [nserv EXCEPT !.pc = "release", !.to = Up(off + n + Word) % RxLen,
                        !.got = [i \in 1..(n - Word) |-> card.mem[off + Word + i - 1]]]

PcnetReceive(id) ==
    IF card.rx[id].own THEN [nserv EXCEPT !.pc = "drained"]
    ELSE [nserv EXCEPT !.pc = "release", !.to = (id + 1) % RxCount,
                    !.got = Payload(card.rx[id].frame)]

\* CAPR lies RxPad behind the reader, in 16 bits; the card adds it back.
Capr(next) == (next - RxPad) % (8 * RxLen)
RtlGiveBack == [card EXCEPT !.read = (Capr(nserv.to) + RxPad) % RxLen]

\* The descriptor is reset for the card to own again.
PcnetGiveBack == [card EXCEPT !.rx[nd.rxOff].own = TRUE]

\* enable_interrupts: the handler is registered once; the PCNET has none.
InterruptsEnabled == nd.kind = "rtl" /\ (nd.irqBase \/ nd.irqOk)

------------------------------------------------------------------------------
(* pump, between whose steps the card works                                *)

\* The device's receive: a token pair only while a descriptor is free.
Ingress ==
    /\ nserv.pc = "ingress"
    /\ IF nserv.count < RxBudget THEN TxProbe("rx", "drained")
       ELSE nd' = nd /\ nserv' = [nserv EXCEPT !.pc = "egress", !.alarm = TRUE]
    /\ UNCHANGED <<card, outq, nlog>>

Receive ==
    /\ nserv.pc = "rx"
    /\ nserv' = IF nd.kind = "rtl" THEN RtlReceive(nd.rxOff) ELSE PcnetReceive(nd.rxOff)
    /\ UNCHANGED <<nd, card, outq, nlog>>

\* The frame is copied: its part of the ring goes back to the card.
ReleaseRx ==
    /\ nserv.pc = "release"
    /\ card' = IF nd.kind = "rtl" THEN RtlGiveBack ELSE PcnetGiveBack
    /\ nd' = [nd EXCEPT !.rxOff = nserv.to]
    /\ IF nserv.got = <<>>
       THEN /\ nserv' = [nserv EXCEPT !.pc = "drained"]
            /\ nlog' = [nlog EXCEPT !.due = SubSeq(@, nserv.lost + 1, Len(@))]
       ELSE /\ nserv' = [nserv EXCEPT !.pc = "process", !.got = <<>>, !.count = @ + 1]
            /\ nlog' = [nlog EXCEPT !.due = Tail(@)]
    /\ UNCHANGED outq

\* The stack takes the frame, and may answer it with the token it came with.
Process ==
    /\ nserv.pc = "process"
    /\ nserv' = [nserv EXCEPT !.pc = "ingress"]
    /\ UNCHANGED outq
    /\ \/ UNCHANGED <<nd, card, nlog>>
       \/ /\ nlog.queued < MaxOut
          /\ Consume(nlog.queued + 1)
          /\ nlog' = [nlog EXCEPT !.queued = @ + 1, !.handed = Append(@, nlog.queued + 1)]

Drained ==
    /\ nserv.pc = "drained"
    /\ nserv' = [nserv EXCEPT !.pc = "egress"]
    /\ UNCHANGED <<nd, card, outq, nlog>>

\* poll_egress sends what is queued while there are tokens.
Egress ==
    /\ nserv.pc = "egress"
    /\ IF outq # <<>> THEN TxProbe("send", "enable")
       ELSE nd' = nd /\ nserv' = [nserv EXCEPT !.pc = "enable"]
    /\ UNCHANGED <<card, outq, nlog>>

Send ==
    /\ nserv.pc = "send"
    /\ Consume(Head(outq))
    /\ outq' = Tail(outq)
    /\ nlog' = [nlog EXCEPT !.handed = Append(@, Head(outq))]
    /\ nserv' = [nserv EXCEPT !.pc = "egress"]

\* The end of pump and await_io_until: a deadline when frames are left in either
\* direction or the card cannot interrupt.
Await ==
    /\ nserv.pc = "enable"
    /\ nd' = [nd EXCEPT !.irqBase = InterruptsEnabled]
    /\ card' = [card EXCEPT !.imr = InterruptsEnabled]
    /\ nserv' = [nserv EXCEPT !.pc = "asleep",
                        !.alarm = @ \/ outq # <<>> \/ ~InterruptsEnabled]
    /\ UNCHANGED <<outq, nlog>>

------------------------------------------------------------------------------
\* After Device::new the rings are empty: the byte ring and its pointers, or the
\* descriptors, all of them the card's to fill and the driver's to send.
RtlRings == [mem |-> [a \in RxMem |-> <<0, 0>>], write |-> 0, read |-> 0]
PcnetRings == [rx |-> [i \in 0..(RxCount - 1) |-> [own |-> TRUE, frame |-> 0]],
               tx |-> [i \in 0..(TxCount - 1) |-> [busy |-> FALSE, frame |-> 0]]]

\* The card is masked, and PID 0 begins.
NicInit ==
    /\ \E k \in NicKinds, ok \in BOOLEAN :
         nd = [kind |-> k, irqOk |-> ok, irqBase |-> FALSE, rxOff |-> 0, txId |-> 0,
               inflight |-> [i \in 0..(TxCount - 1) |-> FALSE]]
    /\ card = RtlRings @@ PcnetRings @@ [size |-> <<>>, bad |-> {}, cur |-> 0, isr |-> {}, imr |-> FALSE]
    /\ nserv = [pc |-> "ingress", probes |-> 0, count |-> 0, got |-> <<>>, to |-> 0,
             lost |-> 0, alarm |-> FALSE]
    /\ outq = <<>>
    /\ nlog = [due |-> <<>>, queued |-> 0, handed |-> <<>>, sent |-> <<>>]

NicNext ==
    \/ \E n \in RxSizes, good \in BOOLEAN : CardReceives(n, good)
    \/ CardSends
    \/ NicInterrupt \/ SocketSend \/ ServiceDeadline
    \/ Ingress \/ Receive \/ ReleaseRx \/ Process \/ Drained
    \/ Egress \/ Send \/ Await

NicSpec == NicInit /\ [][NicNext]_nicVars

------------------------------------------------------------------------------
Elems(s) == {s[i] : i \in DOMAIN s}

\* Every part of the network driver model has its type.
NicTypeOK ==
    /\ nd.kind \in {"rtl", "pcnet"} /\ {nd.irqOk, nd.irqBase} \subseteq BOOLEAN
    /\ nd.txId \in 0..(TxCount - 1) /\ nd.inflight \in [0..(TxCount - 1) -> BOOLEAN]
    /\ nd.rxOff \in 0..(IF nd.kind = "rtl" THEN RxLen ELSE RxCount) - 1
    /\ {card.read, card.write} \subseteq 0..(RxLen - 1) /\ card.isr \subseteq {"rx", "tx"}
    /\ Elems(outq) \subseteq 1..MaxOut /\ nserv.count \in 0..RxBudget

\* receive_packet hands the stack the oldest frame that the card has stored, byte for
\* byte, whatever the card writes meanwhile and wherever the frame lies in the
\* ring; only a bad header makes it skip frames.
ReceivedExact ==
    nserv.pc = "release" /\ nserv.got # <<>> =>
        nlog.due # <<>> /\ nserv.got = Payload(Head(nlog.due))

\* A frame given to the driver goes out once: it is on the wire, or in a descriptor
\* the card still has to send, never in both and never overwritten there.  The
\* PCNET sends the frames in the order they were given.
SentOnce ==
    LET waiting == {i \in DOMAIN card.tx : card.tx[i].busy}
    IN  /\ Elems(nlog.handed) = Elems(nlog.sent) \cup {card.tx[i].frame : i \in waiting}
        /\ Len(nlog.handed) = Len(nlog.sent) + Cardinality(waiting)
        /\ nd.kind = "pcnet" => nlog.sent = SubSeq(nlog.handed, 1, Len(nlog.sent))

\* The service does not sleep over work: while a received frame or a frame to send
\* waits, a deadline is armed, or the card's interrupt is up, or a descriptor is in
\* flight whose completion will raise it.
ServiceAwake ==
    nserv.pc = "asleep" /\ (nlog.due # <<>> \/ outq # <<>>) =>
        \/ nserv.alarm
        \/ card.imr /\ nd.irqBase
             /\ (card.isr # {} \/ \E i \in DOMAIN card.tx : card.tx[i].busy)

\* Frames go through exactly once and in full, in both directions, and the service
\* does not sleep while some wait.
TrafficSound == NicTypeOK /\ ReceivedExact /\ SentOnce /\ ServiceAwake
=============================================================================
