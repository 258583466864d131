------------------------------- MODULE TfsFile -------------------------------
(***************************************************************************)
(* How TwilightFS maps the bytes of one file to zones: the direct slots,   *)
(* the single and the double indirect block of the inode.  The writers     *)
(* (TFSVfsNode::write and truncate, TwilightFs::write_file) and the        *)
(* readers (read_all_file for files that fit the cache, the loop of        *)
(* TFSVfsNode::read for larger ones) each have their own walk of the       *)
(* pointers; `fref` is what the file should hold.                          *)
(***************************************************************************)
EXTENDS Naturals, FiniteSets, SequencesExt

CONSTANTS
    FZones,     \* zones of the device
    BS,         \* bytes in a block
    ND,         \* Inode::DIRECT_SLOT_COUNT
    NE,         \* pointers in a block (BLOCK_SIZE / 4)
    CacheMax,   \* FILE_CACHE_MAX_FILE_BYTES
    Offsets,    \* offsets the callers write at
    Lengths,    \* lengths they write
    FileLens,   \* lengths given to write_file and truncate
    FMaxOps     \* operations in one behaviour

ASSUME FSizes == /\ FZones \in Nat /\ BS \in Nat \ {0} /\ ND \in Nat \ {0}
                 /\ NE \in Nat /\ NE > 1 /\ CacheMax \in Nat /\ FMaxOps \in Nat
                 /\ Offsets \subseteq Nat /\ Lengths \subseteq Nat \ {0}
                 /\ FileLens \subseteq Nat

VARIABLES
    tfile,      \* contents of the zones, zones in use, and the inode
    fref,       \* the bytes the file should hold
    fpast,      \* what was done that the mapping does not support
    fops        \* operations so far; operation k writes the byte k

fileVars == <<tfile, fref, fpast, fops>>

FZone == 1..FZones
Cap == NE - 1                       \* ind_cap
Blocks(len) == (len + BS - 1) \div BS
NoPtrs == [i \in 0..NE - 1 |-> 0]
NoBytes == [i \in 1..BS |-> 0]
Sat(a, b) == IF a > b THEN a - b ELSE 0     \* saturating_sub

------------------------------------------------------------------------------
(* A write in progress                                                     *)

\* get_new_zone: a preallocated zone, or the lowest free one; 0 when full.
GetNewZone(w) ==
    LET free == FZone \ w.zmap
    IN  CASE w.pool # <<>> -> [w EXCEPT !.pool = Tail(@), !.new = Head(w.pool)]
          [] w.pool = <<>> /\ free = {} -> [w EXCEPT !.new = 0, !.err = TRUE]
          [] OTHER -> [w EXCEPT !.zmap = @ \cup {Min(free)}, !.new = Min(free)]

\* The zone in z, or a new one if z is 0.
ZoneOr(w, z) == IF z # 0 THEN [w EXCEPT !.new = z] ELSE GetNewZone(w)

\* A WriteOp for the part of the write that falls in the block of `pos`.
Emit(w, fresh) ==
    LET off == w.pos % BS
        n == Min({w.rem, BS - off})
    IN  [w EXCEPT !.ops = Append(@, [zone |-> w.new, off |-> off, len |-> n,
                                     fresh |-> fresh]),
                  !.pos = @ + n, !.rem = @ - n]

\* The loop over the entries i.. of the pointer table t, below cap.
RECURSIVE Entries1(_, _, _, _)
Entries1(w, t, i, cap) ==
    LET z == ZoneOr(w, t[i])
    IN  IF w.rem = 0 \/ i >= cap THEN [w |-> w, t |-> t]
        ELSE IF z.err THEN [w |-> z, t |-> t]
        ELSE Entries1(Emit(z, t[i] = 0), [t EXCEPT ![i] = z.new], i + 1, cap)

\* A table that is new starts empty, whatever its zone holds.
TableOf(w, z, isnew) == IF isnew THEN NoPtrs ELSE w.disk[z].p
SaveTable(w, z, t) == [w EXCEPT !.disk[z].p = t]

\* The direct stage of write and write_file.
DirectStage(w) ==
    LET Filled(r) == [r.w EXCEPT !.slots = r.t]
    IN  Filled(Entries1(w, w.inode.slot, w.pos \div BS, ND))

\* The single indirect stage: the table is written back unless a zone is missing.
SingleStage(w, cap) ==
    LET Saved(z, r) == IF r.w.err THEN r.w ELSE SaveTable(r.w, z, r.t)
        Filled(u) == Saved(u.new, Entries1(u, TableOf(u, u.new, w.inode.single = 0),
                                           w.pos \div BS - ND, cap))
        Rooted(s) == IF s.err THEN s ELSE Filled([s EXCEPT !.inode.single = s.new])
    IN  IF w.rem = 0 \/ w.err THEN w ELSE Rooted(ZoneOr(w, w.inode.single))

\* The loop over the second-level tables i.. of the root table t, where rel is
\* the position in the double indirect range, counted in strides of NE.
RECURSIVE Tables(_, _, _, _, _)
Tables(w, t, i, rel, cap) ==
    LET Saved(z, r) ==
            IF r.w.err THEN [w |-> r.w, t |-> t]
            ELSE Tables(SaveTable(r.w, z, r.t), [t EXCEPT ![i] = z],
                        i + 1, rel + Len(r.w.ops) - Len(w.ops), cap)
        Filled(z) ==
            IF z.err THEN [w |-> z, t |-> t]
            ELSE Saved(z.new, Entries1(z, TableOf(z, z.new, t[i] = 0), rel % NE, cap))
    IN  IF w.rem = 0 \/ i >= cap THEN [w |-> w, t |-> t] ELSE Filled(ZoneOr(w, t[i]))

\* The double indirect stage; start is the first block of the range.
DoubleStage(w, start, cap) ==
    LET rel == w.pos \div BS - start
        Saved(z, r) == IF r.w.err THEN r.w ELSE SaveTable(r.w, z, r.t)
        Filled(u) == Saved(u.new, Tables(u, TableOf(u, u.new, w.inode.double = 0),
                                         rel \div NE, rel, cap))
        Rooted(d) == IF d.err THEN d ELSE Filled([d EXCEPT !.inode.double = d.new])
    IN  IF w.rem = 0 \/ w.err THEN w ELSE Rooted(ZoneOr(w, w.inode.double))

\* The data of the WriteOps: a block that is new starts as zeros, the rest of an
\* old one is kept.
FlushOps(disk, ops, v) ==
    FoldLeft(LAMBDA d, o :
                [d EXCEPT ![o.zone].d =
                    [k \in 1..BS |-> IF k > o.off /\ k <= o.off + o.len THEN v
                                     ELSE IF o.fresh THEN 0 ELSE @[k]]],
             disk, ops)

Work(s, pos, len, pool) ==
    [disk |-> s.disk, zmap |-> s.zmap \cup Range(pool), inode |-> s.inode,
     slots |-> s.inode.slot, pool |-> pool, pos |-> pos, rem |-> len,
     ops |-> <<>>, new |-> 0, err |-> FALSE]

\* allocate_zones: the n lowest free zones, or none.
AllocateZones(s, n) ==
    LET free == FZone \ s.zmap
    IN  IF Cardinality(free) < n THEN <<>>
        ELSE [i \in 1..n |-> CHOOSE z \in free : Cardinality({y \in free : y < z}) = i - 1]

\* The loop over the zones allocated ahead that nothing used.
DeallocZones(zmap, pool) == zmap \ Range(pool)

------------------------------------------------------------------------------
(* The writers                                                             *)

\* The zones TFSVfsNode::write allocates ahead: data and pointer blocks missing.
NodePrealloc(s, pos, len) ==
    LET cur   == Blocks(s.inode.size)
        end   == Blocks(pos + len)
        from  == IF pos <= s.inode.size THEN cur ELSE pos \div BS
        data  == IF pos <= s.inode.size THEN Sat(end, cur) ELSE Blocks((pos % BS) + len)
        have  == Cardinality({b \in from..Min({end, ND}) - 1 : s.inode.slot[b] # 0})
        dstart == ND + Cap
        single == IF pos \div BS < dstart /\ end > ND /\ s.inode.single = 0 THEN 1 ELSE 0
        lo    == Max({pos \div BS, dstart})
        hi    == Min({end, dstart + Cap * Cap})
        double == IF lo >= hi THEN 0
                  ELSE (IF s.inode.double = 0 THEN 1 ELSE 0)
                       + ((hi - 1 - dstart) \div Cap) - ((lo - dstart) \div Cap) + 1
    IN  Sat(data, have) + single + double

\* TFSVfsNode::write of len bytes of value v at pos.
NodeWriteFile(s, pos, len, v) ==
    LET Flushed(w) ==
            IF w.err
            THEN [w EXCEPT !.inode.slot = s.inode.slot]
            ELSE [w EXCEPT !.disk = FlushOps(@, w.ops, v),
                           !.zmap = DeallocZones(@, w.pool),
                           !.inode = [@ EXCEPT !.slot = w.slots,
                                               !.size = Max({@, pos + (len - w.rem)})]]
    IN  Flushed(DoubleStage(SingleStage(DirectStage(
            Work(s, pos, len, AllocateZones(s, NodePrealloc(s, pos, len)))), Cap),
            ND + Cap, Cap))

\* TFSVfsNode::truncate to a length beyond the end: blocks of zeros are written.
RECURSIVE Extend(_, _, _)
Extend(s, from, len) ==
    LET n == Min({len - from, BS})
        Rest(w) == IF w.err \/ from + n = len THEN w ELSE Extend(w, from + n, len)
    IN  Rest(NodeWriteFile(s, from, n, 0))

\* The zones write_file allocates ahead; none for a file of direct blocks.
FilePrealloc(s, len) ==
    LET need == Blocks(len)
        have == Blocks(s.inode.size)
        l1(n) == (Sat(n, ND + NE) + NE - 1) \div NE
    IN  IF need <= ND THEN 0
        ELSE Sat(need, have) + (IF s.inode.single = 0 THEN 1 ELSE 0)
             + IF need <= ND + NE THEN 0
               ELSE (IF s.inode.double = 0 THEN 1 ELSE 0) + Sat(l1(need), l1(have))

\* TwilightFs::write_file: the whole file, in tables of NE pointers.
WriteFile(s, len, v) ==
    LET Whole(ops) == [k \in DOMAIN ops |-> [ops[k] EXCEPT !.fresh = TRUE]]
        Flushed(w) ==
            IF w.err THEN [w EXCEPT !.disk = s.disk, !.inode = s.inode]
            ELSE [w EXCEPT !.disk = FlushOps(@, Whole(w.ops), v),
                           !.zmap = DeallocZones(@, w.pool),
                           !.inode = [@ EXCEPT !.slot = w.slots, !.size = len]]
    IN  Flushed(DoubleStage(SingleStage(DirectStage(
            Work(s, 0, len, AllocateZones(s, FilePrealloc(s, len)))), NE), ND + NE, NE))

------------------------------------------------------------------------------
(* The readers                                                             *)

\* The pointers of a table up to the first that is 0.
UpToZero(t, n) ==
    LET zeros == {i \in 0..n - 1 : t[i] = 0} \cup {n}
    IN  [i \in 1..Min(zeros) |-> t[i - 1]]

\* Seeded fault: the last pointer of the single indirect block is not read.
AllZonesShort(disk, n) ==
    UpToZero(n.slot, ND)
        \o (IF n.single = 0 THEN <<>> ELSE UpToZero(disk[n.single].p, Cap))
        \o (IF n.double = 0 THEN <<>>
            ELSE FlattenSeq([i \in DOMAIN UpToZero(disk[n.double].p, NE) |->
                    UpToZero(disk[disk[n.double].p[i - 1]].p, NE)]))

\* The zones read_all_file collects.
AllZones(disk, n) ==
    UpToZero(n.slot, ND)
        \o (IF n.single = 0 THEN <<>> ELSE UpToZero(disk[n.single].p, NE))
        \o (IF n.double = 0 THEN <<>>
            ELSE FlattenSeq([i \in DOMAIN UpToZero(disk[n.double].p, NE) |->
                    UpToZero(disk[disk[n.double].p[i - 1]].p, NE)]))

\* The zone TFSVfsNode::read finds for a block of a file too large to cache.
ZoneOfBlock(disk, n, b) ==
    LET rel == b - (ND + NE)
        l1  == disk[n.double].p[rel \div NE]
    IN  CASE b < ND -> n.slot[b]
          [] b >= ND /\ b < ND + NE -> IF n.single = 0 THEN 0 ELSE disk[n.single].p[b - ND]
          [] b >= ND + NE /\ b < ND + NE + NE * NE ->
                IF n.double = 0 THEN 0 ELSE IF l1 = 0 THEN 0 ELSE disk[l1].p[rel % NE]
          [] OTHER -> 0

\* What a read of the whole file returns.
ReadFile(disk, n) ==
    LET zones == AllZones(disk, n)
        holes == {b \in 0..Blocks(n.size) - 1 : ZoneOfBlock(disk, n, b) = 0}
                    \cup {Blocks(n.size)}
        upto  == Min({n.size, Min(holes) * BS})
    IN  IF n.size <= CacheMax
        THEN [k \in 1..n.size |->
                LET b == (k - 1) \div BS
                IN  IF b < Len(zones) THEN disk[zones[b + 1]].d[((k - 1) % BS) + 1] ELSE 0]
        ELSE [k \in 1..upto |->
                disk[ZoneOfBlock(disk, n, (k - 1) \div BS)].d[((k - 1) % BS) + 1]]

------------------------------------------------------------------------------
(* The operations.  At rest all bytes beyond the end of a table are zero.  *)

FileInit ==
    /\ tfile = [disk |-> [z \in FZone |-> [p |-> NoPtrs, d |-> NoBytes]],
                zmap |-> {1},
                inode |-> [size |-> 0,
                           slot |-> [b \in 0..ND - 1 |-> IF b = 0 THEN 1 ELSE 0],
                           single |-> 0, double |-> 0]]
    /\ fref = <<>>
    /\ fpast = {}
    /\ fops = 0

\* The reference: bytes from pos on are v, a gap before them is zeros.
Overwrite(s, pos, len, v) ==
    [k \in 1..Max({Len(s), pos + len}) |->
        IF k > pos /\ k <= pos + len THEN v ELSE IF k <= Len(s) THEN s[k] ELSE 0]

\* Blocks a node write can reach, and those write_file puts at the same place.
NodeBlocks == ND + Cap + Cap
SharedBlocks == ND + Cap

\* What a node write of len bytes at pos does that the mapping does not support.
Beyond(pos, len, err) ==
    {x \in {"sparse", "over", "mixed", "nospace"} :
        \/ x = "sparse" /\ pos > tfile.inode.size
        \/ x = "over" /\ Blocks(pos + len) > NodeBlocks
        \/ x = "mixed" /\ "installed" \in fpast /\ Blocks(pos + len) > SharedBlocks
        \/ x = "nospace" /\ err}

Complete(w, ref, past) ==
    /\ fops' = fops + 1
    /\ tfile' = [disk |-> w.disk, zmap |-> w.zmap, inode |-> w.inode]
    /\ fref' = IF "nospace" \in past THEN fref ELSE ref
    /\ fpast' = fpast \cup past

FileNodeWrite(pos, len) ==
    /\ fops < FMaxOps
    /\ \E w \in {NodeWriteFile(tfile, pos, len, fops + 1)} :
        Complete(w, Overwrite(fref, pos, len, fops + 1), Beyond(pos, len, w.err))

FileWriteFile(len) ==
    /\ fops < FMaxOps /\ Blocks(len) <= ND + NE + NE * NE
    /\ \E w \in {WriteFile(tfile, len, fops + 1)} :
        Complete(w, [k \in 1..len |-> fops + 1],
                 {"installed"} \cup IF w.err THEN {"nospace"} ELSE {})

FileShrink(len) ==
    /\ fops < FMaxOps /\ len < tfile.inode.size
    /\ Complete([tfile EXCEPT !.inode.size = len], SubSeq(fref, 1, len), {})

FileExtend(len) ==
    LET from == tfile.inode.size
    IN  /\ fops < FMaxOps /\ len > from
        /\ \E w \in {Extend(tfile, from, len)} :
            Complete(w, Overwrite(fref, from, len - from, 0),
                     Beyond(from, len - from, w.err))

FileNext ==
    \/ \E pos \in Offsets, len \in Lengths : FileNodeWrite(pos, len)
    \/ \E len \in FileLens : FileWriteFile(len)
    \/ \E len \in FileLens : FileShrink(len)
    \/ \E len \in FileLens : FileExtend(len)

FileSpec == FileInit /\ [][FileNext]_fileVars

------------------------------------------------------------------------------
(* Properties                                                              *)

\* Every part of the block map model has its type.
FileTypeOK ==
    /\ tfile.disk \in [FZone -> [p: [0..NE - 1 -> 0..FZones], d: [1..BS -> 0..FMaxOps]]]
    /\ tfile.zmap \subseteq FZone
    /\ tfile.inode \in [size: Nat, slot: [0..ND - 1 -> 0..FZones],
                   single: 0..FZones, double: 0..FZones]
    /\ fops \in 0..FMaxOps

\* Whatever sequence of writes, rewrites and truncations made the file, reading
\* it returns the bytes last written, provided no write started beyond the end,
\* none passed the blocks TFSVfsNode::write can address, and none extended in
\* place a file that write_file had laid out beyond the range both agree on.
ReadBack ==
    fpast \cap {"sparse", "over", "mixed", "nospace"} = {} =>
        ReadFile(tfile.disk, tfile.inode) = fref

\* Every zone the file uses, as data or for pointers.
PtrsIn(z) == {tfile.disk[z].p[i] : i \in 0..NE - 1} \ {0}
SlotZones == {tfile.inode.slot[b] : b \in 0..ND - 1} \ {0}
Used == SlotZones
        \cup (IF tfile.inode.single = 0 THEN {} ELSE {tfile.inode.single} \cup PtrsIn(tfile.inode.single))
        \cup (IF tfile.inode.double = 0 THEN {}
              ELSE {tfile.inode.double} \cup PtrsIn(tfile.inode.double)
                   \cup UNION {PtrsIn(z) : z \in PtrsIn(tfile.inode.double)})

\* Preallocation neither loses nor double-counts zones: until the device is full,
\* the zones marked in the bitmap are exactly those the file points to.
NoZoneLeak == "nospace" \notin fpast => tfile.zmap = Used

\* docs/filesystem/inodes-and-block-mapping.md: "Capacity: 511 * 511 = 261121
\* data blocks" of the double indirect block (NE is 512 there), so a file written
\* from the start to any length within it reads back.
DocumentedSize ==
    fpast \subseteq {"over"} /\ Blocks(Len(fref)) <= ND + Cap + Cap * Cap =>
        ReadFile(tfile.disk, tfile.inode) = fref

\* The block map of a file is exact: its contents read back, and the bitmap has
\* its zones and no others (write_file, TFSVfsNode::write and truncate).
FileExact == FileTypeOK /\ ReadBack /\ NoZoneLeak
==============================================================================
