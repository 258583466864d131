------------------------------- MODULE AtaDma -------------------------------
(***************************************************************************)
(* The transfers of the ATA disk driver (driver/disk/ata_dma.rs), down to  *)
(* the table of physical regions (PRDT) the bus-master engine follows: a   *)
(* request is cut into commands, each command gets a table built from the  *)
(* caller's buffer, or from the bounce buffer when that fails, is retried  *)
(* once, and the whole request falls back to programmed I/O               *)
(* (driver/disk/ata.rs).                                                   *)
(*                                                                         *)
(* Lengths are counted in sectors: a page holds PageU of them and a 64 KiB *)
(* region SegU.  Memory and media hold tags that say where a sector's data *)
(* came from.  The kernel is not preempted inside a request, so a          *)
(* channel's queue holds one request at a time and nothing is merged.      *)
(***************************************************************************)
EXTENDS Integers, Sequences, FiniteSets, SequencesExt

CONSTANTS PageU,        \* sectors in a page
          SegU,         \* sectors in 64 KiB, the reach of one PRD entry
          MemU,         \* sectors of physical memory
          Dma32,        \* the first of them past 4 GiB
          PrdMax,       \* entries of the table
          BounceAt,     \* where the bounce buffer is,
          BounceU,      \*   and its size
          CountMax,     \* 256: what an 8-bit sector count of 0 stands for
          PioMax,       \* 255: the most a PIO command transfers
          Ext48Max,     \* 65536: the same for the 16-bit count
          DBlocks,      \* sectors on the drive
          DBufs,        \* the callers' buffers: page frames and first sector
          MaxDmaOps     \* bound: requests in a behaviour

ASSUME DmaSizes ==
    /\ \A n \in {PageU, SegU, MemU, PrdMax, BounceU, CountMax, PioMax, Ext48Max,
                 DBlocks, MaxDmaOps} : n \in Nat \ {0}
    /\ SegU % PageU = 0 /\ BounceU <= SegU * PrdMax
    /\ BounceAt + BounceU <= Dma32 /\ Dma32 <= MemU
    /\ \A b \in DBufs : /\ b.off \in 0..PageU - 1
                        /\ \A i, j \in DOMAIN b.frames :
                              /\ (b.frames[i] + 1) * PageU <= MemU
                              /\ b.frames[i] = b.frames[j] => i = j
                              /\ \A u \in BounceAt..BounceAt + BounceU - 1 :
                                    u \div PageU # b.frames[i]

VARIABLES dmem,    \* what each sector of memory holds
          dmedia,  \* what each sector of the drive holds
          dlast,   \* the last request and how it ended
          lba48,   \* whether the drive takes 48-bit commands
          dmaOps   \* requests so far

dmaVars == <<dmem, dmedia, dlast, lba48, dmaOps>>

-----------------------------------------------------------------------------
(* Addresses                                                               *)

BufLen(b) == Len(b.frames) * PageU - b.off

\* virt_to_phys of sector v of buffer b, counted from the start of its first page.
VirtToPhys(b, v) == b.frames[(v \div PageU) + 1] * PageU + (v % PageU)

\* Where sector i of the caller's data lies.
PhysOf(b, i) == VirtToPhys(b, b.off + i)

Bounce == BounceAt..BounceAt + BounceU - 1

Of(b) == {PhysOf(b, i) : i \in 0..BufLen(b) - 1}

NoTable == <<>>

\* The count field of an entry is 16 bits: 64 KiB is written as 0.
Entry16(addr, n) == [addr |-> addr, count |-> n % SegU]

-----------------------------------------------------------------------------
(* Building the table                                                      *)

AtMostOf(a, b) == IF a <= b THEN a ELSE b

\* setup_dma_prdt_for_phys: a contiguous region, cut at 64 KiB boundaries.
RECURSIVE PrdsForPhys(_, _)
PrdsForPhys(phys, rem) ==
    IF rem = 0 THEN <<>>
    ELSE LET chunk == AtMostOf(rem, SegU - (phys % SegU))
         IN  <<Entry16(phys, chunk)>> \o PrdsForPhys(phys + chunk, rem - chunk)

SetupForPhys(phys, len) ==
    LET prds == PrdsForPhys(phys, len)
    IN  IF Len(prds) > PrdMax \/ phys + len > Dma32 THEN NoTable ELSE prds

\* Seeded fault: the inner loop of setup_dma_prdt_for_virt coalesces across
\* a 64 KiB boundary.
RECURSIVE CoalesceAcross(_, _, _, _)
CoalesceAcross(b, v, seg, rem) ==
    IF seg >= rem \/ seg >= SegU \/ VirtToPhys(b, v + seg) # VirtToPhys(b, v) + seg
        \/ VirtToPhys(b, v + seg) >= Dma32
    THEN seg
    ELSE CoalesceAcross(b, v, seg + AtMostOf(AtMostOf(PageU - ((v + seg) % PageU), rem - seg),
                                             SegU - seg), rem)

\* The inner loop of setup_dma_prdt_for_virt: how many sectors from v on one
\* entry takes.  It adds page after page while they are contiguous, and stops
\* at the end of the data, in mid-page, and at a 64 KiB boundary.
RECURSIVE Coalesce(_, _, _, _)
Coalesce(b, v, seg, rem) ==
    LET here == VirtToPhys(b, v) + seg
        off == (v + seg) % PageU
        take == AtMostOf(AtMostOf(PageU - off, rem - seg),
                         AtMostOf(SegU - seg, SegU - (here % SegU)))
    IN  IF seg >= rem \/ seg >= SegU \/ VirtToPhys(b, v + seg) # here \/ here >= Dma32
        THEN seg
        ELSE IF off + take # PageU \/ (here + take) % SegU = 0
             THEN seg + take
             ELSE Coalesce(b, v, seg + take, rem)

RECURSIVE PrdsForVirt(_, _, _, _)
PrdsForVirt(b, v, rem, prds) ==
    IF rem = 0 THEN prds
    ELSE IF Len(prds) >= PrdMax \/ VirtToPhys(b, v) >= Dma32 THEN NoTable
    ELSE LET seg == Coalesce(b, v, 0, rem)
         IN  PrdsForVirt(b, v + seg, rem - seg, Append(prds, Entry16(VirtToPhys(b, v), seg)))

\* setup_dma_prdt_for_virt: the table for `len` sectors of b from sector i on.
SetupForVirt(b, i, len) == PrdsForVirt(b, b.off + i, len, <<>>)

-----------------------------------------------------------------------------
(* The drive and its engine (hardware)                                     *)

\* The addresses the engine visits: an entry of count 0 is 64 KiB, and within
\* an entry only the low 16 bits of the address advance.
Visits(prds) ==
    FlattenSeq([e \in DOMAIN prds |->
        LET base == (prds[e].addr \div SegU) * SegU
            n == IF prds[e].count = 0 THEN SegU ELSE prds[e].count
        IN  [k \in 1..n |-> base + ((prds[e].addr + k - 1) % SegU)]])

\* The sectors a command moves when its count register holds `field`.
Commanded(field, max) == IF field = 0 THEN max ELSE field

\* A sector-wise copy of the first k of the sequence `to` (addresses).
Moved(old, to, k, from(_)) ==
    [a \in DOMAIN old |->
        IF \E i \in 1..k : to[i] = a
        THEN from(CHOOSE i \in 1..k : to[i] = a) ELSE old[a]]

-----------------------------------------------------------------------------
(* One command and one request.  s = [mem, media]                          *)

\* write_command_params and write_command_params_lba48: the count field.
CountField(n) == IF lba48 THEN n % Ext48Max ELSE n % CountMax

\* Outcomes are [ok, failed]: the states success and failure may leave.
AndThen(first, second(_)) ==
    LET next == {second(t) : t \in first.ok}
    IN  [ok |-> UNION {r.ok : r \in next},
         failed |-> first.failed \cup UNION {r.failed : r \in next}]

OrElse(first, second(_)) ==
    LET again == {second(t) : t \in first.failed}
    IN  [ok |-> first.ok \cup UNION {r.ok : r \in again},
         failed |-> UNION {r.failed : r \in again}]

\* run_dma_command_with_retry: a command that succeeds moves all it was told
\* to, one that fails some first part.
RunDmaCommand(s, prds, lba, n, read) ==
    LET at == Visits(prds)
        total == AtMostOf(Commanded(CountField(n), IF lba48 THEN Ext48Max ELSE CountMax),
                          Len(at))
        After(k) == IF read
                    THEN [s EXCEPT !.mem = Moved(@, at, k, LAMBDA i : s.media[lba + i - 1])]
                    ELSE [s EXCEPT !.media = Moved(@, [i \in 1..k |-> lba + i - 1], k,
                                                   LAMBDA i : s.mem[at[i]])]
    IN  IF prds = NoTable THEN [ok |-> {}, failed |-> {s}]
        ELSE [ok |-> {After(total)}, failed |-> {After(k) : k \in 0..total}]

\* copy_from_slice between the bounce buffer and the caller's.
FromBounce(s, b, i, n) ==
    [s EXCEPT !.mem = Moved(@, [k \in 1..n |-> PhysOf(b, i + k - 1)], n,
                            LAMBDA k : s.mem[BounceAt + k - 1])]

ToBounce(s, b, i, n) ==
    [s EXCEPT !.mem = Moved(@, [k \in 1..n |-> BounceAt + k - 1], n,
                            LAMBDA k : s.mem[PhysOf(b, i + k - 1)])]

MaxDirect == IF lba48 THEN Ext48Max ELSE CountMax
MaxBounce == IF lba48 THEN BounceU ELSE AtMostOf(CountMax, BounceU)

\* read_dma: sectors i.. of the request, with direct tables until one cannot
\* be built and the bounce buffer from then on.
RECURSIVE ReadDma(_, _, _, _, _, _)
ReadDma(s, b, lba, i, n, direct) ==
    LET dn == AtMostOf(n - i, MaxDirect)
        bn == AtMostOf(n - i, MaxBounce)
        table == IF direct THEN SetupForVirt(b, i, dn) ELSE NoTable
    IN  CASE i = n -> [ok |-> {s}, failed |-> {}]
          [] i # n /\ table # NoTable ->
               AndThen(RunDmaCommand(s, table, lba + i, dn, TRUE),
                       LAMBDA t : ReadDma(t, b, lba, i + dn, n, TRUE))
          [] OTHER ->
               AndThen(RunDmaCommand(s, SetupForPhys(BounceAt, bn), lba + i, bn, TRUE),
                       LAMBDA t : ReadDma(FromBounce(t, b, i, bn), b, lba, i + bn, n, FALSE))

\* write_dma
RECURSIVE WriteDma(_, _, _, _, _, _)
WriteDma(s, b, lba, i, n, direct) ==
    LET dn == AtMostOf(n - i, MaxDirect)
        bn == AtMostOf(n - i, MaxBounce)
        table == IF direct THEN SetupForVirt(b, i, dn) ELSE NoTable
    IN  CASE i = n -> [ok |-> {s}, failed |-> {}]
          [] i # n /\ table # NoTable ->
               AndThen(RunDmaCommand(s, table, lba + i, dn, FALSE),
                       LAMBDA t : WriteDma(t, b, lba, i + dn, n, TRUE))
          [] OTHER ->
               AndThen(RunDmaCommand(ToBounce(s, b, i, bn), SetupForPhys(BounceAt, bn),
                                     lba + i, bn, FALSE),
                       LAMBDA t : WriteDma(t, b, lba, i + bn, n, FALSE))

\* ata.rs Bus::read and Bus::write, called with at most PioMax sectors: the
\* CPU moves the data, and an error leaves the first k sectors moved.
BusRead(s, b, lba, i, m) ==
    LET After(k) == [s EXCEPT !.mem = Moved(@, [j \in 1..k |-> PhysOf(b, i + j - 1)],
                                            k, LAMBDA j : s.media[lba + i + j - 1])]
    IN  [ok |-> {After(m)}, failed |-> {After(k) : k \in 0..m}]

BusWrite(s, b, lba, i, m) ==
    LET After(k) == [s EXCEPT !.media = Moved(@, [j \in 1..k |-> lba + i + j - 1],
                                              k, LAMBDA j : s.mem[PhysOf(b, i + j - 1)])]
    IN  [ok |-> {After(m)}, failed |-> {After(k) : k \in 0..m}]

\* The loops over them.
RECURSIVE PioLoop(_, _, _, _, _, _)
PioLoop(s, b, lba, i, n, read) ==
    LET m == AtMostOf(n - i, PioMax)
    IN  IF i = n THEN [ok |-> {s}, failed |-> {}]
        ELSE AndThen(IF read THEN BusRead(s, b, lba, i, m) ELSE BusWrite(s, b, lba, i, m),
                     LAMBDA t : PioLoop(t, b, lba, i + m, n, read))

ReadDmaResilient(s, b, lba, n) ==
    OrElse(ReadDma(s, b, lba, 0, n, TRUE), LAMBDA t : PioLoop(t, b, lba, 0, n, TRUE))

WriteDmaResilient(s, b, lba, n) ==
    OrElse(WriteDma(s, b, lba, 0, n, TRUE), LAMBDA t : PioLoop(t, b, lba, 0, n, FALSE))

\* execute_merged_group for a group of one: the channel's queue never holds
\* more, because nobody runs between enqueue_request and the drain.
ExecuteGroup(s, b, lba, n, read) ==
    IF read THEN ReadDmaResilient(s, b, lba, n) ELSE WriteDmaResilient(s, b, lba, n)

\* process_group: a group that fails is tried again request by request.
ProcessGroup(s, b, lba, n, read) ==
    OrElse(ExecuteGroup(s, b, lba, n, read), LAMBDA t : ExecuteGroup(t, b, lba, n, read))

\* AtaDevice::read and write: ata_dma's, and as the last resort ata's.
Request(s, b, lba, n, read) ==
    OrElse(ProcessGroup(s, b, lba, n, read), LAMBDA t : PioLoop(t, b, lba, 0, n, read))

\* read_atapi_dma, for a packet command read into b: one table, no retry.
PacketRead(s, b, lba, n) ==
    LET table == SetupForVirt(b, 0, n)
        use == table # NoTable
        at == Visits(IF use THEN table ELSE SetupForPhys(BounceAt, n))
        After(k) == [s EXCEPT !.mem = Moved(@, at, k, LAMBDA i : s.media[lba + i - 1])]
    IN  IF n > BounceU THEN [ok |-> {}, failed |-> {s}]
        ELSE [ok |-> {IF use THEN After(n) ELSE FromBounce(After(n), b, 0, n)},
              failed |-> {After(k) : k \in 0..n}]

-----------------------------------------------------------------------------
(* The machine                                                             *)

Ask(op, b, lba, n, outcome) ==
    \E ok \in BOOLEAN : \E t \in (IF ok THEN outcome.ok ELSE outcome.failed) :
        /\ dmem' = t.mem /\ dmedia' = t.media
        /\ dlast' = [op |-> op, buf |-> b, lba |-> lba, n |-> n, ok |-> ok]
        /\ dmaOps' = dmaOps + 1
        /\ UNCHANGED lba48

Memory == [mem |-> dmem, media |-> dmedia]

DmaRead == \E b \in DBufs, lba \in 0..DBlocks - 1, n \in 1..DBlocks :
    /\ lba + n <= DBlocks /\ n <= BufLen(b)
    /\ Ask("read", b, lba, n, Request(Memory, b, lba, n, TRUE))

DmaWrite == \E b \in DBufs, lba \in 0..DBlocks - 1, n \in 1..DBlocks :
    /\ lba + n <= DBlocks /\ n <= BufLen(b)
    /\ Ask("write", b, lba, n, Request(Memory, b, lba, n, FALSE))

DmaPacket == \E b \in DBufs, lba \in 0..DBlocks - 1, n \in 1..DBlocks :
    /\ lba + n <= DBlocks /\ n <= BufLen(b)
    /\ Ask("packet", b, lba, n, PacketRead(Memory, b, lba, n))

DmaInit ==
    /\ dmem = [a \in 0..MemU - 1 |-> <<"m", a>>]
    /\ dmedia = [a \in 0..DBlocks - 1 |-> <<"d", a>>]
    /\ dlast = [op |-> "none", buf |-> [frames |-> <<>>, off |-> 0], lba |-> 0, n |-> 0,
                ok |-> TRUE]
    /\ lba48 \in BOOLEAN
    /\ dmaOps = 0

DmaNext == dmaOps < MaxDmaOps /\ (DmaRead \/ DmaWrite \/ DmaPacket)

DmaSpec == DmaInit /\ [][DmaNext]_dmaVars

-----------------------------------------------------------------------------
(* Properties                                                              *)

\* Memory and media hold tagged sectors, and the last request fits the drive.
DmaTypeOK ==
    LET Tags == ({"m"} \X (0..MemU - 1)) \cup ({"d"} \X (0..DBlocks - 1))
    IN  /\ dmem \in [0..MemU - 1 -> Tags]
        /\ dmedia \in [0..DBlocks - 1 -> Tags]
        /\ lba48 \in BOOLEAN /\ dmaOps \in 0..MaxDmaOps
        /\ dlast.n <= DBlocks

\* A request moves exactly the sectors it names, whatever the buffer's pages,
\* the 64 KiB boundaries they straddle and the commands that fail on the way:
\* when it is reported done every sector of it has arrived, and whether or not
\* it is, a sector it does not name is never touched and one it names holds
\* either its old data or the right data (the bounce buffer is scratch).
TransferExact ==
    LET r == dlast'
        Reads == r.op \in {"read", "packet"}
        In == {PhysOf(r.buf, i) : i \in 0..r.n - 1}
    IN  /\ \A a \in 0..MemU - 1 :
              a \notin In \cup Bounce \/ (a \in In /\ ~Reads) => dmem'[a] = dmem[a]
        /\ \A i \in 0..r.n - 1 : Reads =>
              \/ dmem'[PhysOf(r.buf, i)] = dmedia[r.lba + i]
              \/ ~r.ok /\ dmem'[PhysOf(r.buf, i)] = dmem[PhysOf(r.buf, i)]
        /\ \A a \in 0..DBlocks - 1 :
              Reads \/ a \notin r.lba..r.lba + r.n - 1 => dmedia'[a] = dmedia[a]
        /\ \A i \in 0..r.n - 1 : ~Reads =>
              \/ dmedia'[r.lba + i] = dmem[PhysOf(r.buf, i)]
              \/ ~r.ok /\ dmedia'[r.lba + i] = dmedia[r.lba + i]

\* DMA requests are exact, and memory and disk keep their types.
DmaExact == [][DmaTypeOK' /\ TransferExact]_dmaVars
=============================================================================
