----------------------------- MODULE DiskCache -----------------------------
(***************************************************************************)
(* The block devices above the disk controllers and the caches they keep:  *)
(* the sector caches of AtaBlockDevice (driver/disk/mod.rs) and of         *)
(* VirtioBlkDev (virtioblkdev.rs), the read-ahead window of AtapiCdrom     *)
(* (ata/atapi.rs) and of FileBlockDevice, the partition that a file system *)
(* is opened on, and the byte-addressed device files /dev/disk0 and        *)
(* /dev/cdrom0 (sys/fs/devfs/disk.rs).                                     *)
(*                                                                         *)
(* "fs" is the mounted file system's handle on the disk, "dev" is          *)
(* BLOCK_DEVICE behind /dev/disk0.  With ATA these are two AtaBlockDevice  *)
(* values with a cache each; with virtio both reach the one VirtioBlkDev.  *)
(* What a transfer itself does is AtaDma's subject: here a transfer moves  *)
(* all its sectors, or fails having moved any prefix of them.              *)
(***************************************************************************)
EXTENDS Integers, Sequences, FiniteSets, SequencesExt, TLC

CONSTANTS BkN,        \* sectors on the disk
          SecU,       \* bytes in a sector
          BkSlots,    \* entries of a sector cache (512)
          BkLines,    \* lines of the virtio line cache (1024)
          BkSmall,    \* ATA_CACHE_SMALL_IO_BYTES, in sectors
          BkMost,     \* MAX_BLOCK_CACHE_BYTES, in sectors
          PartAt,     \* first sector of the partition,
          PartN,      \*   and how many it has
          DevRanges,  \* the byte ranges used on /dev/disk0: <<offset, length>>
          CdN,        \* blocks on the optical disc
          CdAhead,    \* READ_AHEAD_BLOCKS
          ImgAt,      \* where the live image lies on the disc,
          ImgN,       \*   its size,
          ImgAhead,   \* FILE_BLOCK_READ_AHEAD_BYTES, in blocks
          NoEntry,
          MaxBkOps    \* bound: calls in a behaviour

ASSUME BkSizes ==
    /\ \A n \in {BkN, SecU, BkSlots, BkLines, BkSmall, BkMost, PartN, CdN, CdAhead,
                 ImgN, ImgAhead, MaxBkOps} : n \in Nat \ {0}
    /\ BkSmall <= BkSlots
    /\ PartAt \in Nat /\ PartAt + PartN <= BkN
    /\ ImgAt \in Nat /\ ImgAt + ImgN <= CdN
    /\ \A r \in DevRanges : r[1] \in Nat /\ r[2] \in Nat \ {0} /\ r[1] + r[2] <= BkN * SecU

VARIABLES bk,    \* the disk, its caches and the last call
          cd,    \* the optical drive and the image device above it
          bkOps  \* calls so far

bkVars == <<bk, cd, bkOps>>

Handles == {"fs", "dev"}
Sectors == 0..BkN - 1
Secs(a, n) == a..a + n - 1

\* The cache a handle uses.
CacheOf(s, h) == IF s.kind = "virtio" THEN "fs" ELSE h

-----------------------------------------------------------------------------
(* The direct-mapped caches.  An entry is an address and the sectors read  *)
(* from there.                                                             *)

SetSlot(s, c, a, data) == [s EXCEPT !.slot[c][a % BkSlots] = [addr |-> a, data |-> data]]

\* unset_cached_block clears the slot whoever is in it.
UnsetSlot(s, c, a) == [s EXCEPT !.slot[c][a % BkSlots] = NoEntry]

Hits(e, a) == e # NoEntry /\ e.addr = a

\* What the disk holds at a..a+n-1, as the data of a transfer.
OnDisk(s, a, n) == [i \in 1..n |-> s.media[a + i - 1]]

\* Sectors whose cached copy in c is replaced or dropped are no longer suspect.
Trust(s, c, secs) == [s EXCEPT !.rot[c] = @ \ secs]

\* Calls return the state, whether the call succeeded and the data of a read.
Done(s, data) == [s |-> s, ok |-> TRUE, data |-> data]
Failed(s) == [s |-> s, ok |-> FALSE, data |-> <<>>]

-----------------------------------------------------------------------------
(* AtaBlockDevice                                                          *)

\* set_cached_block for every sector of a run.
EnterRun(s, c, a, n) ==
    Trust([s EXCEPT !.slot[c] = [k \in DOMAIN @ |->
        LET here == {i \in Secs(a, n) : i % BkSlots = k}
        IN  IF here = {} THEN @[k]
            ELSE LET i == CHOOSE x \in here : TRUE IN [addr |-> i, data |-> <<s.media[i]>>]]],
        c, Secs(a, n))

\* read: one sector, from the cache or else from the disk and then entered.
AtaReadOne(s, c, a, fault) ==
    IF Hits(s.slot[c][a % BkSlots], a) THEN Done(s, s.slot[c][a % BkSlots].data)
    ELSE IF fault THEN Failed(s)
    ELSE Done(EnterRun(s, c, a, 1), OnDisk(s, a, 1))

\* read_blocks: a longer run comes from the disk, and is entered if it is short.
AtaRead(s, c, a, n, fault) ==
    IF n = 1 THEN AtaReadOne(s, c, a, fault)
    ELSE IF fault THEN Failed(s)
    ELSE Done(IF n <= BkSmall THEN EnterRun(s, c, a, n) ELSE s, OnDisk(s, a, n))

\* After a successful write_blocks: a long write clears the whole cache, a
\* short one the slots of its sectors.
AtaWritten(s, c, a, n) ==
    [s EXCEPT !.slot[c] = [k \in DOMAIN @ |->
        IF n > BkSmall \/ \E i \in Secs(a, n) : i % BkSlots = k THEN NoEntry ELSE @[k]]]

\* What the first `moved` sectors of a write leave on the disk, and which copies
\* of it are suspect from then on: those in `stale` of the writer's own cache, and
\* all that another handle's cache has.
Landed(s, c, a, data, moved, stale) ==
    [s EXCEPT !.media = [i \in Secs(a, moved) |-> data[i - a + 1]] @@ @,
              !.rot = [x \in Handles |-> IF x = c THEN @[x] \cup stale
                                         ELSE @[x] \cup Secs(a, Len(data))]]

\* write_blocks: a write that fails returns before the cache is touched.
AtaWrite(s, c, a, data, moved) ==
    LET n == Len(data)
    IN  IF moved < n THEN Failed(Landed(s, c, a, data, moved, Secs(a, n)))
        ELSE Done(Trust(AtaWritten(Landed(s, c, a, data, n, {}), c, a, n), c, Secs(a, n)), <<>>)

-----------------------------------------------------------------------------
(* VirtioBlkDev                                                            *)

\* cache_read_sector: the line cache, filled from the disk.
LineRead(s, a) ==
    IF Hits(s.line[a % BkLines], a) THEN s
    ELSE [s EXCEPT !.line[a % BkLines] = [addr |-> a, data |-> OnDisk(s, a, 1)],
                   !.rotLine = @ \ {a}]

\* set_cached_block: a run is remembered whole, under its first sector.
VirtioSetSlot(s, a, data) == IF Len(data) > BkMost THEN s ELSE SetSlot(s, "fs", a, data)

\* read: a long read goes to the disk; a single sector may come from either cache.
VirtioRead(s, a, n, fault) ==
    LET e == s.slot["fs"][a % BkSlots]
        long == OnDisk(s, a, n)
        t == LineRead(s, a)
        data == t.line[a % BkLines].data
    IN  IF n > 1
        THEN IF fault THEN Failed(s)
             ELSE Done(IF n > BkMost THEN s
                       ELSE Trust(VirtioSetSlot(s, a, long), "fs", {a}), long)
        ELSE IF Hits(e, a) /\ Len(e.data) = 1 THEN Done(s, e.data)
        ELSE IF ~Hits(s.line[a % BkLines], a) /\ fault THEN Failed(s)
        ELSE Done([VirtioSetSlot(t, a, data) EXCEPT
                     !.rot["fs"] = IF a \in t.rotLine THEN @ \cup {a} ELSE @ \ {a}], data)

\* Seeded fault: the line cache is left alone after a write.
InvalidateNone(s, a, n) == s

\* cache_invalidate_range.
InvalidateRange(s, a, n) ==
    [s EXCEPT !.line = [k \in DOMAIN @ |->
        IF @[k] # NoEntry /\ @[k].addr \in Secs(a, n) THEN NoEntry ELSE @[k]]]

\* The end of write: every line of the range goes, and the first sector's slot.
VirtioWritten(s, a, n) == UnsetSlot(InvalidateRange(s, a, n), "fs", a)

\* write: a write that fails returns before either cache is touched; one that
\* succeeds leaves the remembered copies of all sectors but its first.
VirtioWrite(s, a, data, moved) ==
    LET n == Len(data)
        u == Landed(s, "fs", a, data, moved, IF moved < n THEN Secs(a, n) ELSE Secs(a + 1, n - 1))
    IN  IF moved < n THEN Failed([u EXCEPT !.rotLine = @ \cup Secs(a, n)])
        ELSE Done(Trust(VirtioWritten(u, a, n), "fs", {a}), <<>>)

-----------------------------------------------------------------------------
(* Either disk through a handle.  `moved` sectors reach the disk.          *)

BlockRead(s, h, a, n, fault) ==
    IF s.kind = "virtio" THEN VirtioRead(s, a, n, fault) ELSE AtaRead(s, h, a, n, fault)

BlockWrite(s, h, a, data, moved) ==
    IF s.kind = "virtio" THEN VirtioWrite(s, a, data, moved) ELSE AtaWrite(s, h, a, data, moved)

\* PartitionBlockDevice: sectors are relative to the partition and stay in it.
PartRead(s, a, n, fault) ==
    IF a + n > PartN THEN Failed(s) ELSE BlockRead(s, "fs", PartAt + a, n, fault)

PartWrite(s, a, data, moved) ==
    IF a + Len(data) > PartN THEN Failed(s) ELSE BlockWrite(s, "fs", PartAt + a, data, moved)

-----------------------------------------------------------------------------
(* /dev/disk0                                                              *)

\* The byte range off..off+len-1 as the calls Disk0 makes for it: a partial
\* sector at either end, whole sectors in one call between.
RECURSIVE Calls(_, _)
Calls(off, len) ==
    IF len = 0 THEN <<>>
    ELSE IF off % SecU = 0 /\ len >= SecU
         THEN LET whole == len - (len % SecU)
              IN  <<[off |-> off, len |-> whole, whole |-> TRUE]>>
                    \o Calls(off + whole, len - whole)
         ELSE LET take == IF len <= SecU - (off % SecU) THEN len ELSE SecU - (off % SecU)
              IN  <<[off |-> off, len |-> take, whole |-> FALSE]>>
                    \o Calls(off + take, len - take)

\* Disk0::read: the bytes, or an error as soon as one call fails.
DevReadCall(r, call, fault) ==
    IF ~r.ok THEN r
    ELSE LET a == call.off \div SecU
             n == IF call.whole THEN call.len \div SecU ELSE 1
             got == BlockRead(r.s, "dev", a, n, fault)
             flat == FlattenSeq(got.data)
             from == call.off % SecU
         IN  IF ~got.ok THEN Failed(got.s)
             ELSE Done(got.s, r.data \o SubSeq(flat, from + 1, from + call.len))

\* Disk0::write: a partial sector is read, patched and written back.
DevWriteCall(r, call, bytes, fault, moved) ==
    IF ~r.ok THEN r
    ELSE LET a == call.off \div SecU
             from == call.off % SecU
             old == BlockRead(r.s, "dev", a, 1, fault)
             new == [i \in 1..SecU |-> IF i \in from + 1..from + call.len
                                       THEN bytes[i - from] ELSE old.data[1][i]]
             all == [i \in 1..call.len \div SecU |->
                        SubSeq(bytes, (i - 1) * SecU + 1, i * SecU)]
         IN  IF call.whole
             THEN BlockWrite(r.s, "dev", a, all,
                             IF moved < Len(all) THEN moved ELSE Len(all))
             ELSE IF ~old.ok THEN Failed(old.s)
             ELSE BlockWrite(old.s, "dev", a, <<new>>, IF moved = 0 THEN 0 ELSE 1)

-----------------------------------------------------------------------------
(* The optical drive and the live image                                    *)

Disc(b) == b  \* the disc's block b holds the datum b

\* read_blocks_uncached into buf: commands that fail, by DMA and then by PIO,
\* leave the buffer with the first k blocks replaced.
ReadUncached(buf, a, k) == [i \in DOMAIN buf |-> IF i <= k THEN Disc(a + i - 1) ELSE buf[i]]

CdContains(c, a, n) == c.n # 0 /\ a >= c.lba /\ a + n <= c.lba + c.n

\* read_blocks_cached: a miss refills the window from block a on.  `k` blocks
\* arrive; fewer than asked for is an error, which leaves the window's bounds
\* as they were over data that is not theirs.
CdCached(c, a, n, k) ==
    LET fill == IF CdN - a < CdAhead THEN CdN - a ELSE CdAhead
    IN  IF CdContains(c, a, n)
        THEN Done(c, SubSeq(c.buf, a - c.lba + 1, a - c.lba + n))
        ELSE IF k < fill
             THEN Failed([c EXCEPT !.buf = ReadUncached(@, a, k),
                                   !.torn = @ \/ (c.n # 0 /\ k > 0)])
             ELSE LET b == ReadUncached(c.buf, a, fill)
                  IN  Done([c EXCEPT !.buf = b, !.lba = a, !.n = fill, !.torn = FALSE],
                           SubSeq(b, 1, n))

\* AtapiCdrom::read_blocks: short reads go through the window.
CdRead(c, a, n, k) ==
    IF a + n > CdN THEN Failed(c)
    ELSE IF n <= CdAhead THEN CdCached(c, a, n, k)
    ELSE IF k < n THEN Failed(c)
    ELSE Done(c, ReadUncached([i \in 1..n |-> 0], a, n))

\* Whether a read is served from a window a failed refill has damaged.
Damaged(c, a, n) == c.torn /\ n <= CdAhead /\ CdContains(c, a, n)

\* The refill of FileBlockDevice::cached_read, through the ISO file that holds
\* the image: a failure empties the window.
ImgRefill(c, at, len, k) ==
    LET got == CdRead(c, ImgAt + at, len, k)
    IN  [got.s EXCEPT !.img = IF got.ok THEN got.data ELSE <<>>, !.imgAt = at,
                      !.imgTorn = Damaged(c, ImgAt + at, len)]

\* FileBlockDevice::read.
ImgRead(c, a, n, k) ==
    LET len == IF ImgAhead < ImgN - a THEN ImgAhead ELSE ImgN - a
        t == ImgRefill(c, a, len, k)
    IN  IF a + n > ImgN THEN Failed(c)
        ELSE IF c.img # <<>> /\ a >= c.imgAt /\ a + n <= c.imgAt + Len(c.img)
             THEN Done(c, SubSeq(c.img, a - c.imgAt + 1, a - c.imgAt + n))
        ELSE IF n >= ImgAhead THEN CdRead(c, ImgAt + a, n, k)
        ELSE IF t.img = <<>> THEN Failed(t) ELSE Done(t, SubSeq(t.img, 1, n))

-----------------------------------------------------------------------------
(* The machine                                                             *)

Filled(v) == [i \in 1..SecU |-> v]

DiskBytes == BkN * SecU

\* Every write has a datum of its own.
Datum == bkOps + 1

NoCall == [op |-> "none", h |-> "fs", at |-> 0, len |-> 0, ok |-> TRUE]

Wrote(s, h, at, len, ok) ==
    [s EXCEPT !.last = [op |-> "write", h |-> h, at |-> at, len |-> len, ok |-> ok]]

\* The file system reads or writes n sectors of its partition.
FsRead == \E a \in 0..PartN, n \in 1..PartN, fault \in BOOLEAN :
    bk' = [PartRead(bk, a, n, fault).s EXCEPT !.last = NoCall]

FsWrite == \E a \in 0..PartN, n \in 1..PartN : \E moved \in 0..n :
    LET r == PartWrite(bk, a, [i \in 1..n |-> Filled(Datum)], moved)
    IN  bk' = Wrote(r.s, "fs", (PartAt + a) * SecU, n * SecU, r.ok)

\* read(2) and write(2) on /dev/disk0.
DevRead == \E r \in DevRanges, fault \in BOOLEAN :
    bk' = [FoldLeft(LAMBDA acc, call : DevReadCall(acc, call, fault),
                    Done(bk, <<>>), Calls(r[1], r[2])).s EXCEPT !.last = NoCall]

DevWrite == \E r \in DevRanges, fault \in BOOLEAN, moved \in 0..BkN :
    LET bytes == [i \in 1..r[2] |-> Datum]
        end == FoldLeft(LAMBDA acc, call : DevWriteCall(acc, call, bytes, fault, moved),
                        Done(bk, <<>>), Calls(r[1], r[2]))
    IN  bk' = Wrote(end.s, "dev", r[1], r[2], end.ok)

OpticalRead == \E a \in 0..CdN - 1, n \in 1..CdN, k \in 0..CdN : cd' = CdRead(cd, a, n, k).s

ImageRead == \E a \in 0..ImgN - 1, n \in 1..ImgN, k \in 0..CdN : cd' = ImgRead(cd, a, n, k).s

BkInit ==
    /\ \E kind \in {"ata", "virtio", "cdrom"} :
          bk = [kind |-> kind,
                media |-> [i \in Sectors |-> Filled(0)],
                slot |-> [h \in Handles |-> [k \in 0..BkSlots - 1 |-> NoEntry]],
                line |-> [k \in 0..BkLines - 1 |-> NoEntry],
                rot |-> [h \in Handles |-> {}], rotLine |-> {},
                last |-> NoCall]
    /\ cd = [buf |-> [i \in 1..CdAhead |-> 0], lba |-> 0, n |-> 0, torn |-> FALSE,
             img |-> <<>>, imgAt |-> 0, imgTorn |-> FALSE]
    /\ bkOps = 0

BkNext ==
    /\ bkOps < MaxBkOps
    /\ bkOps' = bkOps + 1
    /\ \/ bk.kind # "cdrom" /\ (FsRead \/ FsWrite \/ DevRead \/ DevWrite) /\ UNCHANGED cd
       \/ bk.kind = "cdrom" /\ (OpticalRead \/ ImageRead) /\ UNCHANGED bk

BkSpec == BkInit /\ [][BkNext]_bkVars

-----------------------------------------------------------------------------
(* Properties                                                              *)

\* The caches, the disk and the windows are of their types.
BkTypeOK ==
    LET Sector == [1..SecU -> 0..MaxBkOps]
        Cached(e) == e = NoEntry \/ (e.addr \in Sectors /\ \A i \in DOMAIN e.data :
                                        e.data[i] \in Sector)
    IN  /\ bk.media \in [Sectors -> Sector]
        /\ \A h \in Handles, k \in 0..BkSlots - 1 : Cached(bk.slot[h][k])
        /\ \A k \in 0..BkLines - 1 : Cached(bk.line[k])
        /\ cd.lba + cd.n <= CdN /\ Len(cd.img) <= ImgN

\* A cached sector is what the disk holds.  The caches can only go stale in
\* three ways: a write that fails half-way returns before it drops any copy, a
\* second AtaBlockDevice on the same drive is not told of a write, and a virtio
\* write drops the remembered copy of its first sector only.
CacheTrue ==
    /\ \A h \in Handles, k \in 0..BkSlots - 1 :
          LET e == bk.slot[h][k]
          IN  e # NoEntry /\ Len(e.data) = 1 =>
                 e.data[1] = bk.media[e.addr] \/ e.addr \in bk.rot[h]
    /\ \A k \in 0..BkLines - 1 :
          LET e == bk.line[k]
          IN  e # NoEntry => e.data[1] = bk.media[e.addr] \/ e.addr \in bk.rotLine

\* A write changes the bytes it names and no others: when it is reported done
\* all of them hold the new data, it never reaches outside the partition, and
\* the read-modify-write of a partial sector keeps the rest of the sector unless
\* the cached copy it started from was stale in one of the three ways.
WriteExact ==
    LET w == bk'.last
        ByteOf(m, i) == m[i \div SecU][(i % SecU) + 1]
        Suspect(i) == (i \div SecU) \in bk.rot[CacheOf(bk, w.h)] \cup bk.rotLine
    IN  bk' # bk /\ w.op = "write" =>
          \A i \in 0..DiskBytes - 1 :
             IF /\ i \in w.at..w.at + w.len - 1
                /\ w.h = "dev" \/ (i \div SecU) \in Secs(PartAt, PartN)
             THEN \/ ByteOf(bk'.media, i) = bkOps'
                  \/ ~w.ok /\ ByteOf(bk'.media, i) = ByteOf(bk.media, i)
             ELSE ByteOf(bk'.media, i) = ByteOf(bk.media, i) \/ (w.h = "dev" /\ Suspect(i))

\* A read-ahead window holds the blocks its bounds say, except after a refill
\* of the optical drive's window failed part-way: that window stays valid over
\* the new data, and an image window filled from it inherits the damage.
WindowTrue ==
    /\ ~cd.torn => \A i \in 1..cd.n : cd.buf[i] = Disc(cd.lba + i - 1)
    /\ ~cd.imgTorn => \A i \in 1..Len(cd.img) : cd.img[i] = Disc(ImgAt + cd.imgAt + i - 1)

\* The sector caches are transparent: copies are true, and writes through them
\* exact, but for the ways in which the code lets a copy go stale.
CachesExact == [][BkTypeOK' /\ CacheTrue' /\ WindowTrue' /\ WriteExact]_bkVars
=============================================================================
