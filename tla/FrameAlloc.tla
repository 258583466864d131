----------------------------- MODULE FrameAlloc -----------------------------
(***************************************************************************)
(* The frame allocator under its callers: single frames for page tables    *)
(* and user pages (allocate_zeroed_frame, deallocate_frame), and PhysBuf's *)
(* contiguous runs for DMA, with and without the 32-bit address limit.     *)
(* Boot starts from any of the memory maps in MemMaps.                     *)
(***************************************************************************)
EXTENDS Frames

CONSTANTS MemMaps,    \* memory maps: sequences of [first, len, usable]
          DmaLens,    \* page counts PhysBuf asks for
          DmaLimit    \* last frame below 4 GiB

VARIABLES fmap,    \* the memory map of this boot
          fa,      \* the allocator
          grants,  \* runs handed out and not yet returned: [start, len, low]
          failed   \* the last request that found no memory, or len 0:
                   \* [len, limit, panic]

fvars == <<fmap, fa, grants, failed>>

Unlimited == Max({r.first + r.len : r \in UNION {ToSet(m) : m \in MemMaps}})

NoFailure == [len |-> 0, limit |-> 0, panic |-> FALSE]

FrameInit ==
    /\ fmap \in MemMaps
    /\ Hosts(fmap) # {}         \* otherwise init panics
    /\ fa = FramesInit(fmap)
    /\ grants = {}
    /\ failed = NoFailure

Granted(r, n, limit, panics) ==
    /\ fa' = r.fa
    /\ grants' = IF r.frame = NoFrame THEN grants
                 ELSE grants \cup {[start |-> r.frame, len |-> n, low |-> limit = DmaLimit]}
    /\ failed' = IF r.frame = NoFrame THEN [len |-> n, limit |-> limit, panic |-> panics]
                 ELSE NoFailure
    /\ UNCHANGED fmap

\* allocate_zeroed_frame: its callers handle None.
AllocOne == Granted(AllocFrame(fa), 1, Unlimited, FALSE)

\* PhysBuf::new and PhysBuf::new_dma32: running out panics the kernel.
PhysBufNew(n) == Granted(AllocContiguous(fa, n), n, Unlimited, TRUE)

PhysBufNewDma32(n) == Granted(AllocContiguousBelow(fa, n, DmaLimit), n, DmaLimit, TRUE)

\* deallocate_frame by the holder of a single frame.
FreeOne(g) ==
    /\ g.len = 1
    /\ fa' = DeallocFrame(fa, g.start)
    /\ grants' = grants \ {g}
    /\ failed' = NoFailure
    /\ UNCHANGED fmap

\* PhysBuf::drop.
Release(g) ==
    /\ fa' = DeallocFrames(fa, g.start .. g.start + g.len - 1)
    /\ grants' = grants \ {g}
    /\ failed' = NoFailure
    /\ UNCHANGED fmap

FrameNext ==
    /\ ~failed.panic
    /\ \/ AllocOne
       \/ \E n \in DmaLens : PhysBufNew(n) \/ PhysBufNewDma32(n)
       \/ \E g \in grants : FreeOne(g) \/ Release(g)

FrameSpec == FrameInit /\ [][FrameNext]_fvars

\* Indices, the search start and the runs handed out stay within the bitmap.
FrameTypeOK ==
    /\ fa.used \subseteq 0 .. Count(fa) - 1
    /\ fa.next \in 0 .. Count(fa)
    /\ \A g \in grants : g.start \in 0 .. Count(fa) - 1 /\ g.len \in DmaLens \cup {1}

\* The physical frames of a granted run.
PhysRun(g) == {PhysFrame(fa, i) : i \in g.start .. g.start + g.len - 1}

(***************************************************************************)
(* What drivers rely on: the runs held at any time are pairwise disjoint   *)
(* and exactly the set bits of the bitmap; each run is physically          *)
(* contiguous, stays below 4 GiB when a 32-bit device asked for it, lies   *)
(* in usable memory, and never covers the bitmap's own pages.              *)
(***************************************************************************)
GrantsSound ==
    /\ fa.used = UNION {g.start .. g.start + g.len - 1 : g \in grants}
    /\ \A g \in grants :
        LET phys == PhysRun(g)
        IN  /\ Max(phys) - Min(phys) = g.len - 1
            /\ g.low => Max(phys) <= DmaLimit
            /\ \E r \in ToSet(Usable(fmap)) : phys \subseteq r.first .. r.first + r.len - 1
            /\ phys \cap (BitmapRegion(fmap).first ..
                          BitmapRegion(fmap).first + StoragePages(fmap) - 1) = {}
            /\ \A h \in grants \ {g} : PhysRun(h) \cap phys = {}

(***************************************************************************)
(* A request fails only when no usable region holds a long enough free run *)
(* below its limit: the scan from next_free_index misses nothing.          *)
(***************************************************************************)
FailsOnlyWhenFull ==
    failed.len # 0 =>
        \A i \in DOMAIN fa.regs : Runs(fa, i, failed.len, failed.limit) = {}

(***************************************************************************)
(* The allocator grants sound runs, and refuses one only when it must.     *)
(***************************************************************************)
AllocatorSound == FrameTypeOK /\ GrantsSound /\ FailsOnlyWhenFull
=============================================================================
