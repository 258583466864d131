------------------------------- MODULE Frames -------------------------------
(***************************************************************************)
(* The physical frame allocator of sys/memory/bitmap.rs as operators on a  *)
(* record fa = [regs, used, next]: the usable regions (physical first      *)
(* frame and length), the set of bitmap indices whose bit is set, and      *)
(* next_free_index.  Bitmap indices number the usable frames region by     *)
(* region.  One unit of address is one 4 KiB frame.                        *)
(***************************************************************************)
EXTENDS Naturals, Sequences, FiniteSets, FiniteSetsExt, SequencesExt

CONSTANTS BitsPerPage,  \* frames tracked by one page of bitmap (32768)
          MaxRegions,   \* MAX_REGIONS
          NoFrame       \* None

ASSUME FrameSizes == BitsPerPage \in Nat \ {0} /\ MaxRegions \in Nat \ {0}

Total(regs) ==
    LET upTo[i \in 0 .. Len(regs)] == IF i = 0 THEN 0 ELSE upTo[i - 1] + regs[i].len
    IN  upTo[Len(regs)]

FrameBase(regs, i) == Total(SubSeq(regs, 1, i - 1))

(***************************************************************************)
(* BitmapFrameAllocator::init: the bitmap takes whole pages at the start of*)
(* the first usable region that can hold it; every other usable region is  *)
(* kept as it is, up to MAX_REGIONS of them.                               *)
(***************************************************************************)
Usable(map) == SelectSeq(map, LAMBDA r : r.usable)

StoragePages(map) == (Total(Usable(map)) + BitsPerPage - 1) \div BitsPerPage

Hosts(map) == {i \in DOMAIN Usable(map) : Usable(map)[i].len >= StoragePages(map)}

BitmapRegion(map) == Usable(map)[Min(Hosts(map))]

\* Seeded fault: the bitmap's own pages stay allocatable.
CarveNothing(map) ==
    [i \in DOMAIN Usable(map) |->
        [first |-> Usable(map)[i].first, len |-> Usable(map)[i].len]]

Carve(map) ==
    [i \in DOMAIN Usable(map) |->
        IF i = Min(Hosts(map))
        THEN [first |-> Usable(map)[i].first + StoragePages(map),
              len   |-> Usable(map)[i].len - StoragePages(map)]
        ELSE [first |-> Usable(map)[i].first, len |-> Usable(map)[i].len]]

FramesInit(map) ==
    LET kept == SelectSeq(Carve(map), LAMBDA r : r.len >= 1)
    IN  [regs |-> SubSeq(kept, 1, Min({Len(kept), MaxRegions})),
         used |-> {}, next |-> 0]

Count(fa) == Total(fa.regs)

FreeFrames(fa) == (0 .. Count(fa) - 1) \ fa.used

(***************************************************************************)
(* allocate_frame: scan from next_free_index, wrapping.                    *)
(***************************************************************************)
AllocFrame(fa) ==
    LET n    == Count(fa)
        hits == {i \in 0 .. n - 1 : (fa.next + i) % n \notin fa.used}
        idx  == (fa.next + Min(hits)) % n
    IN  IF hits = {} THEN [fa |-> fa, frame |-> NoFrame]
        ELSE [fa |-> [fa EXCEPT !.used = @ \cup {idx}, !.next = idx + 1],
              frame |-> idx]

(***************************************************************************)
(* deallocate_frame: a frame that is not allocated, or not managed, is     *)
(* ignored.                                                                *)
(***************************************************************************)
DeallocFrame(fa, idx) ==
    IF idx \in fa.used
    THEN [fa EXCEPT !.used = @ \ {idx}, !.next = Min({@, idx})]
    ELSE fa

DeallocFrames(fa, idxs) ==
    IF idxs \cap fa.used = {} THEN fa
    ELSE [fa EXCEPT !.used = @ \ idxs, !.next = Min({@} \cup (idxs \cap fa.used))]

\* The frames of a region that lie at or below the limit.
Room(r, limit) == Min({r.len, IF limit + 1 > r.first THEN limit + 1 - r.first ELSE 0})

Runs(fa, i, n, limit) ==
    {s \in 0 .. Room(fa.regs[i], limit) :
        /\ s + n <= Room(fa.regs[i], limit)
        /\ \A j \in 0 .. n - 1 : FrameBase(fa.regs, i) + s + j \notin fa.used}

AllocContiguousBelow(fa, n, limit) ==
    LET base(i)   == FrameBase(fa.regs, i)
        room(i)   == Room(fa.regs[i], limit)
        start0(i) == IF fa.next \in base(i) .. base(i) + room(i) - 1
                     THEN Min({fa.next - base(i), room(i) - n}) ELSE 0
        runs(i)   == Runs(fa, i, n, limit)
        after(i)  == {s \in runs(i) : s >= start0(i)}
        hit       == {i \in DOMAIN fa.regs : room(i) >= n /\ runs(i) # {}}
        i0        == Min(hit)
        start     == base(i0) + (IF after(i0) # {} THEN Min(after(i0)) ELSE Min(runs(i0)))
    IN  IF n = 0 \/ hit = {} THEN [fa |-> fa, frame |-> NoFrame]
        ELSE [fa |-> [fa EXCEPT !.used = @ \cup (start .. start + n - 1),
                                !.next = start + n],
              frame |-> start]

AllocContiguous(fa, n) ==
    AllocContiguousBelow(fa, n, Max({0} \cup {r.first + r.len : r \in ToSet(fa.regs)}))

\* index_to_frame and its inverse: the physical frame behind a bitmap index.
RegionOf(fa, idx) ==
    CHOOSE i \in DOMAIN fa.regs :
        idx \in FrameBase(fa.regs, i) .. FrameBase(fa.regs, i) + fa.regs[i].len - 1

PhysFrame(fa, idx) ==
    fa.regs[RegionOf(fa, idx)].first + idx - FrameBase(fa.regs, RegionOf(fa, idx))
=============================================================================
