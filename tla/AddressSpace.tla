---------------------------- MODULE AddressSpace ----------------------------
(***************************************************************************)
(* Per-process address spaces: the region lists of sys/proc/mem.rs, the    *)
(* memory system calls of sys/syscall/memory.rs, demand paging, fork, exec *)
(* and reaping of sys/proc/mod.rs, and memfd objects, over the frame       *)
(* allocator of module Frames.                                             *)
(*                                                                         *)
(* Addresses are page numbers, since every call rounds to pages.  brk_cur  *)
(* and mapped_heap_end are always equal and are one field, brk.  Frames of *)
(* intermediate page tables and the mappings of device nodes are left out; *)
(* page contents are reduced to which file page a demand-paged page shows. *)
(***************************************************************************)
EXTENDS Frames

CONSTANTS Spaces,      \* process slots
          NUser,       \* user pages are 1 .. NUser
          HeapStart, MmapBase, UserUpper, StackPages,
          PageU,       \* units of file data in a page
          Program,     \* program headers: [type, vaddr, memsz, offset, filesz, perm]
          BadPrograms, \* header tables load_elf_image refuses
          FileSize,    \* length of these files, in units
          Prots,       \* protections callers ask for: subsets of {"r","w","x"}
          Targets,     \* addresses callers name
          MaxMapLen,   \* longest mapping, pages
          MemPhys,     \* number of physical frames
          MaxMemOps    \* bound on the calls explored

ASSUME SpaceSizes ==
    /\ HeapStart <= MmapBase /\ MmapBase < UserUpper /\ UserUpper <= NUser
    /\ StackPages \subseteq 1 .. NUser /\ Targets \subseteq 1 .. NUser

VARIABLES mem,   \* [fa, sp, mf, mlen, odd, lost], see Boot
          mops   \* calls made

mvars == <<mem, mops>>

UserPages == 1 .. NUser
NoMap     == NoFrame
Span(r)   == r.base .. r.base + r.len - 1

\* user_page_flags_with_access
PageFlags(access, perm) ==
    (IF access THEN {"u"} ELSE {}) \cup (perm \cap {"w", "x"})

Allows(perm, access) == access \in perm

(***************************************************************************)
(* load_elf_image: every PT_LOAD header becomes a region of whole pages    *)
(* with the window of the file that is read into it on a fault; a header   *)
(* out of line with its file page, or longer in the file than in memory,   *)
(* refuses the program.                                                    *)
(***************************************************************************)
PagesUp(units) == (units + PageU - 1) \div PageU

SegmentOK(h) ==
    /\ h.filesz <= h.memsz
    /\ h.offset + h.filesz <= FileSize
    /\ h.offset % PageU = h.vaddr % PageU

ElfRegion(h) ==
    LET base == h.vaddr \div PageU
    IN  [base |-> base, len |-> PagesUp(h.vaddr + h.memsz) - base,
         fileBase |-> base, fileOff |-> h.offset \div PageU,
         fileEnd |-> PagesUp(h.vaddr + h.filesz), perm |-> h.perm]

LoadElfImage(headers) ==
    LET segs == SelectSeq(headers, LAMBDA h : h.type = "load" /\ h.memsz # 0)
        ok   == \A h \in ToSet(segs) : SegmentOK(h)
    IN  [ok |-> ok, elf |-> IF ok THEN [i \in DOMAIN segs |-> ElfRegion(segs[i])] ELSE <<>>]

Image == LoadElfImage(Program).elf

EmptySpace ==
    [st |-> "none", table |-> NoFrame, cr3 |-> NoFrame, pt |-> [p \in UserPages |-> NoMap],
     brk |-> HeapStart, hint |-> 0, mmap |-> <<>>, elf |-> <<>>, fd |-> FALSE]

Mapped(s)    == {p \in UserPages : s.pt[p] # NoMap}
FramesOf(s)  == {s.pt[p].frame : p \in Mapped(s)}
Tracks(s, p) == \E i \in DOMAIN s.mmap : p \in Span(s.mmap[i])
IsSharedPage(s, p) ==
    \E i \in DOMAIN s.mmap : s.mmap[i].kind = "shared" /\ p \in Span(s.mmap[i])

(***************************************************************************)
(* Region lists.  Outside is what cutting a range out leaves of            *)
(* one region; an ElfRegion's right piece shifts its file window along.    *)
(***************************************************************************)
Piece(r, lo, hi) == [r EXCEPT !.base = lo, !.len = hi - lo]

Shift(r, lo, hi) ==
    LET d == lo - r.base
    IN  [Piece(r, lo, hi) EXCEPT !.fileBase = @ + d, !.fileOff = @ + d, !.fileEnd = @ + d]

Outside(r, b, e, elf) ==
    LET lo == Max({b, r.base})
        hi == Min({e, r.base + r.len})
        re == r.base + r.len
    IN  IF lo >= hi THEN <<r>>
        ELSE (IF r.base < lo THEN <<Piece(r, r.base, lo)>> ELSE <<>>)
             \o (IF hi < re THEN <<IF elf THEN Shift(r, hi, re) ELSE Piece(r, hi, re)>> ELSE <<>>)

RemoveMmapRange(regs, b, e) ==
    FlattenSeq([i \in DOMAIN regs |-> Outside(regs[i], b, e, FALSE)])

RemoveElfRange(regs, b, e) ==
    FlattenSeq([i \in DOMAIN regs |-> Outside(regs[i], b, e, TRUE)])

ProtectMmapRegions(regs, b, e, perm) ==
    FlattenSeq([i \in DOMAIN regs |->
        LET r  == regs[i]
            lo == Max({b, r.base})
            hi == Min({e, r.base + r.len})
        IN  IF lo >= hi THEN <<r>>
            ELSE (IF r.base < lo THEN <<Piece(r, r.base, lo)>> ELSE <<>>)
                 \o <<[Piece(r, lo, hi) EXCEPT !.perm = perm]>>
                 \o (IF hi < r.base + r.len THEN <<Piece(r, hi, r.base + r.len)>> ELSE <<>>)])

\* The same split: the file window of a piece is kept as it was.
ProtectElfRegions(regs, b, e, perm) == ProtectMmapRegions(regs, b, e, perm)

FirstWith(s, p, kinds) ==
    LET is == {i \in DOMAIN s.mmap : p \in Span(s.mmap[i]) /\ s.mmap[i].kind \in kinds}
    IN  IF is = {} THEN 0 ELSE Min(is)

ElfOver(s, p) == {i \in DOMAIN s.elf : p \in Span(s.elf[i])}

\* permissions_for_page
HasPermissions(s, p) == Tracks(s, p) \/ ElfOver(s, p) # {}
PermissionsFor(s, p) ==
    IF Tracks(s, p) THEN s.mmap[FirstWith(s, p, {"anon", "owned", "shared"})].perm
    ELSE UNION {s.elf[i].perm : i \in ElfOver(s, p)}

\* page_fault_plan: permissions, and the file page each overlapping segment copies.
HasPlan(s, p) == FirstWith(s, p, {"anon"}) # 0 \/ ElfOver(s, p) # {}

FaultPlan(s, p) ==
    IF FirstWith(s, p, {"anon"}) # 0
    THEN [perm |-> s.mmap[FirstWith(s, p, {"anon"})].perm, from |-> {}]
    ELSE [perm |-> UNION {s.elf[i].perm : i \in ElfOver(s, p)},
          from |-> {s.elf[i].fileOff + (p - s.elf[i].fileBase) :
                      i \in {j \in ElfOver(s, p) :
                               s.elf[j].fileBase <= p /\ p < s.elf[j].fileEnd}}]

(***************************************************************************)
(* Page tables.                                                            *)
(***************************************************************************)
Unmap(s, pages) == [s EXCEPT !.pt = [p \in pages |-> NoMap] @@ @]

SetPage(s, p, frame, flags) == [s EXCEPT !.pt[p] = [frame |-> frame, flags |-> flags]]

\* alloc_pages: on a page already mapped the new frame goes back and only the
\* flags change; the first page without a frame stops it, earlier ones stay.
AllocPages(k, x, lo, hi, flags) ==
    LET Step(acc, p) ==
            LET r == AllocFrame(acc.k.fa)
                s == acc.k.sp[x]
            IN  IF ~acc.ok THEN acc
                ELSE IF r.frame = NoFrame THEN [acc EXCEPT !.ok = FALSE]
                ELSE IF s.pt[p] # NoMap
                     THEN [acc EXCEPT !.k.fa = DeallocFrame(r.fa, r.frame),
                                      !.k.sp[x].pt[p].flags = flags]
                     ELSE [acc EXCEPT !.k.fa = r.fa, !.k.sp[x] = SetPage(s, p, r.frame, flags)]
        done[p \in lo .. hi] ==
            IF p = lo THEN [k |-> k, ok |-> TRUE] ELSE Step(done[p - 1], p - 1)
    IN  done[hi]

DeallocPages(k, x, pages) ==
    LET s == k.sp[x]
    IN  [k EXCEPT !.fa = DeallocFrames(@, {s.pt[p].frame : p \in pages \cap Mapped(s)}),
                  !.sp[x] = Unmap(s, pages)]

(***************************************************************************)
(* A memfd lives while a descriptor or a tracked mapping holds its Arc;    *)
(* MemFd::drop returns its pages.                                          *)
(***************************************************************************)
MemFdHeld(k) ==
    \E x \in Spaces : \/ k.sp[x].fd
                      \/ \E i \in DOMAIN k.sp[x].mmap : k.sp[x].mmap[i].kind = "shared"

Settle(k) ==
    IF MemFdHeld(k) THEN k
    ELSE [k EXCEPT !.fa = DeallocFrames(@, ToSet(k.mf)), !.mf = <<>>, !.mlen = 0]

(***************************************************************************)
(* unmap_tracked_range: a page goes the way of the first removed region    *)
(* that covers it; a page no region tracks is left alone.                  *)
(***************************************************************************)
UnmapTracked(k, x, b, n) ==
    LET s      == k.sp[x]
        range  == b .. b + n - 1
        all    == {"anon", "owned", "shared"}
        gone   == {p \in range : HasPermissions(s, p)}
        shared == {p \in gone : Tracks(s, p) /\ s.mmap[FirstWith(s, p, all)].kind = "shared"}
        k1     == DeallocPages(k, x, gone \ shared)
    IN  Settle([k1 EXCEPT !.sp[x] =
            [Unmap(@, shared) EXCEPT !.mmap = RemoveMmapRange(s.mmap, b, b + n),
                                     !.elf  = RemoveElfRange(s.elf, b, b + n)]])

(***************************************************************************)
(* System calls.  odd records a use that leaves the tidy path: a fixed     *)
(* mapping outside the image and the reserved mmap area, a multi-page      *)
(* operation that failed part way, a memfd shrunk, an image cut in front,  *)
(* or an exec that failed after switching page tables.                     *)
(***************************************************************************)
MCall(k) == mem' = Settle(k) /\ mops' = mops + 1

Running(x) == mem.sp[x].st = "live" /\ mem.sp[x].cr3 = mem.sp[x].table

Odd(k, cond) == [k EXCEPT !.odd = @ \/ cond]

Track(k, x, va, n, kind, perm) ==
    [k EXCEPT !.sp[x].mmap = Append(@, [base |-> va, len |-> n, kind |-> kind, perm |-> perm])]

\* reserve_mmap_range, and the MAP_FIXED unmapping of what was there.
Base(s)  == IF s.hint = 0 THEN Max({s.brk, MmapBase}) ELSE s.hint
Image0   == UNION {Span(r) : r \in ToSet(Image)}
Tidy(s, va, n) == (va .. va + n - 1) \subseteq (Image0 \cup (MmapBase .. s.hint - 1))
CutsFront(s, va, n) ==      \* a tail of an ELF region survives the cut
    \E i \in DOMAIN s.elf : /\ va + n > s.elf[i].base
                            /\ va + n < s.elf[i].base + s.elf[i].len

Placed(k, x, fixed, va, n) ==
    IF fixed THEN Odd(UnmapTracked(k, x, va, n), ~Tidy(k.sp[x], va, n)
                                                  \/ CutsFront(k.sp[x], va, n))
    ELSE [k EXCEPT !.sp[x].hint = va + n]

Target(x, fixed, addr, n) == IF fixed THEN addr ELSE Base(mem.sp[x])

Fits(x, fixed, va, n) ==
    IF fixed THEN va + n - 1 <= NUser ELSE va + n < UserUpper

MmapAnon(x, fixed, addr, n, perm) ==
    LET va == Target(x, fixed, addr, n)
    IN  /\ Running(x) /\ Fits(x, fixed, va, n)
        /\ MCall(Track(Placed(mem, x, fixed, va, n), x, va, n, "anon", perm))

\* A file without its own mmap (always writable while populated) or fd -1:
\* the pages are allocated at once; reading the file may fail after that.
MmapOwned(x, fixed, addr, n, perm, file, readFails) ==
    LET va == Target(x, fixed, addr, n)
        k  == Placed(mem, x, fixed, va, n)
        r  == AllocPages(k, x, va, va + n,
                         PageFlags(TRUE, IF file THEN perm \cup {"w"} ELSE perm))
    IN  /\ Running(x) /\ Fits(x, fixed, va, n) /\ (readFails => file)
        /\ MCall(IF r.ok /\ ~readFails THEN Track(r.k, x, va, n, "owned", perm)
                 ELSE Odd(r.k, r.k.sp[x].pt # k.sp[x].pt))

\* map_shared of pages off .. off + n - 1 of the memfd: a page that is already
\* mapped stops it, and the pages before it stay mapped.
MapShared(k, x, va, n, perm, off) ==
    LET clash == {p \in va .. va + n - 1 : k.sp[x].pt[p] # NoMap}
        stop  == IF clash = {} THEN va + n ELSE Min(clash)
        new   == [p \in va .. stop - 1 |->
                    [frame |-> k.mf[off + (p - va) + 1], flags |-> PageFlags(TRUE, perm)]]
    IN  IF off + n > k.mlen THEN [ok |-> FALSE, k |-> k]                \* EINVAL
        ELSE [ok |-> clash = {}, k |-> [k EXCEPT !.sp[x].pt = new @@ @]]  \* or EIO

MmapMemFd(x, fixed, addr, n, perm, off) ==
    LET va == Target(x, fixed, addr, n)
        k  == Placed(mem, x, fixed, va, n)
        r  == MapShared(k, x, va, n, perm, off)
    IN  /\ Running(x) /\ mem.sp[x].fd /\ Fits(x, fixed, va, n)
        /\ MCall(IF r.ok THEN Track(r.k, x, va, n, "shared", perm)
                 ELSE Odd(r.k, r.k.sp[x].pt # k.sp[x].pt))

MmapNoRoom(x, n) ==                                     \* ENOMEM
    /\ Running(x) /\ Base(mem.sp[x]) + n >= UserUpper
    /\ MCall([mem EXCEPT !.sp[x].hint = Base(mem.sp[x])])

Munmap(x, b, n) ==
    /\ Running(x)
    /\ MCall(Odd(UnmapTracked(mem, x, b, n), CutsFront(mem.sp[x], b, n)))

Mprotect(x, b, n, perm) ==
    LET s == [mem.sp[x] EXCEPT !.mmap = ProtectMmapRegions(@, b, b + n, perm),
                               !.elf  = ProtectElfRegions(@, b, b + n, perm)]
        hit == {p \in b .. b + n - 1 : s.pt[p] # NoMap /\ HasPermissions(s, p)}
        new == [p \in hit |-> [s.pt[p] EXCEPT !.flags =
                    PageFlags(PermissionsFor(s, p) # {}, PermissionsFor(s, p))]]
    IN  /\ Running(x)
        /\ MCall([mem EXCEPT !.sp[x] = [s EXCEPT !.pt = new @@ @]])

\* The heap cannot reach MmapBase, 64 TiB above it.
SetBrk(k, x, end) ==
    LET brk == k.sp[x].brk
        r   == AllocPages(k, x, brk, end, PageFlags(TRUE, {"w", "x"}))
    IN  CASE end > brk -> IF r.ok THEN [r.k EXCEPT !.sp[x].brk = end]
                          ELSE Odd(r.k, r.k.sp[x].pt # k.sp[x].pt)
          [] end < brk -> [DeallocPages(k, x, end .. brk - 1) EXCEPT !.sp[x].brk = end]
          [] end = brk -> k

Brk(x, end) == Running(x) /\ end \in HeapStart .. MmapBase /\ MCall(SetBrk(mem, x, end))

\* exit, or a fatal signal: close_all_fds and Dead, the memory stays.
Dead(k, x) == [k EXCEPT !.sp[x].st = "zombie", !.sp[x].fd = FALSE]

MExit(x) == mem.sp[x].st = "live" /\ MCall(Dead(mem, x))

(***************************************************************************)
(* resolve_page_fault: a page of a region is given a frame.  The table     *)
(* consulted is the process's own, which after a failed exec is not the    *)
(* one in CR3.                                                             *)
(***************************************************************************)
ResolvePageFault(k, x, p, access, readFails) ==
    LET s    == k.sp[x]
        plan == FaultPlan(s, p)
        r    == AllocFrame(k.fa)
    IN  IF s.pt[p] # NoMap THEN [k |-> k, how |-> "resolved"]
        ELSE IF ~HasPlan(s, p) \/ ~Allows(plan.perm, access) THEN [k |-> k, how |-> "invalid"]
        ELSE IF r.frame = NoFrame \/ (readFails /\ plan.from # {}) THEN [k |-> k, how |-> "bus"]
        ELSE [how |-> "resolved",
              k   |-> [k EXCEPT !.fa = r.fa,
                         !.sp[x] = SetPage(s, p, r.frame, PageFlags(TRUE, plan.perm))]]

\* page_fault_handler: a protection violation is not resolved, and what cannot be
\* resolved ends the process with SIGSEGV or SIGBUS.
Fault(x, p, access, readFails) ==
    LET s       == mem.sp[x]
        present == s.cr3 = s.table /\ s.pt[p] # NoMap
        r       == ResolvePageFault(mem, x, p, access, readFails)
    IN  /\ s.st = "live"
        /\ present => \/ "u" \notin s.pt[p].flags
                      \/ access \in {"w", "x"} \ s.pt[p].flags
        /\ MCall(IF ~present /\ r.how = "resolved" THEN r.k ELSE Dead(mem, x))

(***************************************************************************)
(* fork: resident pages of the tracked ranges, in address order, are       *)
(* copied into fresh frames or, inside shared regions, mapped as they are. *)
(* Running out of frames abandons what the child already has.              *)
(***************************************************************************)
CopiedPages(s) ==
    {p \in Mapped(s) : p \in StackPages \/ p \in HeapStart .. s.brk - 1 \/ HasPermissions(s, p)}

ForkPage(k, x, y, p) ==
    LET r == AllocFrame(k.fa)
        e == k.sp[x].pt[p]
    IN  IF IsSharedPage(k.sp[x], p) THEN [ok |-> TRUE, k |-> [k EXCEPT !.sp[y].pt[p] = e]]
        ELSE IF r.frame = NoFrame THEN [ok |-> FALSE, k |-> k]
        ELSE [ok |-> TRUE,
              k  |-> [k EXCEPT !.fa = r.fa, !.sp[y].pt[p] = [e EXCEPT !.frame = r.frame]]]

Fork(x, y) ==
    LET t    == AllocFrame(mem.fa)
        k0   == [mem EXCEPT !.fa = t.fa,
                   !.sp[y] = [mem.sp[x] EXCEPT !.table = t.frame, !.cr3 = t.frame,
                                               !.pt = EmptySpace.pt]]
        todo == CopiedPages(mem.sp[x])
        done[p \in 0 .. NUser] ==
            IF p = 0 THEN [ok |-> TRUE, k |-> k0]
            ELSE LET d == done[p - 1]
                 IN  IF d.ok /\ p \in todo THEN ForkPage(d.k, x, y, p) ELSE d
        r    == done[NUser]
        kept == {p \in Mapped(r.k.sp[y]) : ~IsSharedPage(mem.sp[x], p)}
    IN  /\ Running(x) /\ mem.sp[y].st = "none" /\ t.frame # NoFrame
        /\ MCall(IF r.ok THEN r.k
                 ELSE [r.k EXCEPT !.lost = @ \cup {t.frame}
                                             \cup {r.k.sp[y].pt[p].frame : p \in kept},
                                  !.sp[y] = EmptySpace])

(***************************************************************************)
(* exec: a new page table with a stack and a lazily mapped image replaces  *)
(* the old one.  Nothing returns the frames of the old one.  When the      *)
(* image cannot be loaded CR3 already holds the new table.                 *)
(***************************************************************************)
PrivateFrames(s) == {s.pt[p].frame : p \in {q \in Mapped(s) : ~IsSharedPage(s, q)}}

FreshSpace(t, elf, fd) == [EmptySpace EXCEPT !.st = "live", !.table = t, !.cr3 = t,
                                             !.elf = elf, !.fd = fd]

NewStack(k, x) ==
    AllocPages(k, x, Min(StackPages), Max(StackPages) + 1, PageFlags(TRUE, {"w"}))

Exec(x, headers, cloexec) ==
    LET s     == mem.sp[x]
        t     == AllocFrame(mem.fa)
        elf   == LoadElfImage(headers).elf
        loads == LoadElfImage(headers).ok
        r     == NewStack([mem EXCEPT !.fa = t.fa,
                             !.sp[x] = FreshSpace(t.frame, elf, s.fd /\ ~cloexec)], x)
    IN  /\ Running(x) /\ t.frame # NoFrame
        /\ MCall(IF loads /\ r.ok
                 THEN [r.k EXCEPT !.lost = @ \cup {s.table} \cup PrivateFrames(s)]
                 ELSE [mem EXCEPT !.fa  = IF loads THEN r.k.fa ELSE t.fa, !.odd = TRUE,
                                  !.sp[x].cr3 = t.frame,
                                  !.lost = @ \cup {t.frame}
                                       \cup (IF loads THEN FramesOf(r.k.sp[x]) ELSE {})])

(***************************************************************************)
(* wait4 reaps a Dead child and calls Process::cleanup: owned ranges are   *)
(* freed first, then shared ones unmapped, then the table itself.          *)
(***************************************************************************)
OwnedPages(s) ==
    StackPages \cup (HeapStart .. s.brk - 1)
      \cup UNION {Span(s.mmap[i]) : i \in {j \in DOMAIN s.mmap : s.mmap[j].kind # "shared"}}
      \cup UNION {Span(s.elf[i]) : i \in DOMAIN s.elf}

\* Seeded fault: the heap is not among the owned ranges.
CleanupNoHeap(k, x) ==
    LET k1 == DeallocPages(k, x, OwnedPages([k.sp[x] EXCEPT !.brk = HeapStart]))
    IN  [k1 EXCEPT !.fa = DeallocFrame(@, k.sp[x].table), !.sp[x] = EmptySpace]

Cleanup(k, x) ==
    LET k1 == DeallocPages(k, x, OwnedPages(k.sp[x]))
    IN  [k1 EXCEPT !.fa = DeallocFrame(@, k.sp[x].table), !.sp[x] = EmptySpace]

Reap(x) == mem.sp[x].st = "zombie" /\ MCall(Cleanup(mem, x))

(***************************************************************************)
(* memfd_create, ftruncate, close.  MemFd::truncate pushes and pops pages  *)
(* at the end of the page vector; when frames run out the ones it pushed   *)
(* stay and the length does not change.                                    *)
(***************************************************************************)
MemFdCreate(x) ==
    /\ Running(x) /\ ~MemFdHeld(mem)
    /\ MCall([mem EXCEPT !.sp[x].fd = TRUE])

MemFdTruncate(k, n) ==
    LET grown[i \in 0 .. n] ==
            IF i = 0 THEN k
            ELSE LET g == grown[i - 1]
                     r == AllocFrame(g.fa)
                 IN  IF Len(g.mf) >= i \/ r.frame = NoFrame THEN g
                     ELSE [g EXCEPT !.fa = r.fa, !.mf = Append(@, r.frame)]
        g == grown[n]
    IN  IF Len(g.mf) < n THEN g
        ELSE [g EXCEPT !.fa = DeallocFrames(@, ToSet(SubSeq(g.mf, n + 1, Len(g.mf)))),
                       !.mf = SubSeq(@, 1, n), !.mlen = n]

Ftruncate(x, n) ==
    /\ Running(x) /\ mem.sp[x].fd
    /\ MCall(Odd(MemFdTruncate(mem, n), n < mem.mlen))

MemFdClose(x) ==
    /\ Running(x) /\ mem.sp[x].fd
    /\ MCall([mem EXCEPT !.sp[x].fd = FALSE])

(***************************************************************************)
(* One process at the start, after it has touched its image,               *)
(* grown its heap, and mapped a two-page memfd next to a private page.     *)
(***************************************************************************)
First == CHOOSE x \in Spaces : TRUE

Boot ==
    LET fa0 == [regs |-> <<[first |-> 0, len |-> MemPhys]>>, used |-> {}, next |-> 0]
        t   == AllocFrame(fa0)
        k   == [fa |-> t.fa, mf |-> <<>>, mlen |-> 0, odd |-> FALSE, lost |-> {},
                sp |-> [x \in Spaces |-> IF x = First THEN FreshSpace(t.frame, Image, FALSE)
                                         ELSE EmptySpace]]
    IN  NewStack(k, First).k

Busy ==
    LET rw == {"r", "w"}
        f1 == AllocFrame(Boot.fa)
        f2 == AllocFrame(f1.fa)
        k1 == [Boot EXCEPT !.fa = f2.fa, !.mf = <<f1.frame, f2.frame>>, !.mlen = 2,
                         !.sp[First].fd = TRUE]
        k2 == Track(Track(k1, First, MmapBase, 2, "shared", rw), First, MmapBase + 2, 1, "anon", rw)
        k3 == [k2 EXCEPT !.sp[First].hint = MmapBase + 3,
                         !.sp[First].pt[MmapBase]     = [frame |-> f1.frame, flags |-> {"u", "w"}],
                         !.sp[First].pt[MmapBase + 1] = [frame |-> f2.frame, flags |-> {"u", "w"}]]
        k4 == AllocPages(k3, First, MmapBase + 2, MmapBase + 3, {"u", "w"}).k
        k5 == AllocPages(k4, First, HeapStart, HeapStart + 1, PageFlags(TRUE, {"w", "x"})).k
        p  == Min(Image0)
        k6 == AllocPages(k5, First, p, p + 1, PageFlags(TRUE, FaultPlan(k5.sp[First], p).perm)).k
    IN  [k6 EXCEPT !.sp[First].brk = HeapStart + 1]

MemInit == mem = Busy /\ mops = 0

Mapping(x) ==
    \E fixed \in BOOLEAN, addr \in Targets, n \in 1 .. MaxMapLen, perm \in Prots :
        /\ fixed \/ addr = Min(Targets)
        /\ \/ MmapAnon(x, fixed, addr, n, perm)
           \/ \E file, bad \in BOOLEAN : MmapOwned(x, fixed, addr, n, perm, file, bad)
           \/ \E off \in 0 .. MaxMapLen - 1 : MmapMemFd(x, fixed, addr, n, perm, off)

MemNext ==
    mops < MaxMemOps /\ \E x \in Spaces :
        \/ Mapping(x)
        \/ \E n \in 1 .. MaxMapLen : MmapNoRoom(x, n)
        \/ \E b \in Targets, n \in 1 .. MaxMapLen : Munmap(x, b, n)
        \/ \E b \in Targets, n \in 1 .. MaxMapLen, perm \in Prots : Mprotect(x, b, n, perm)
        \/ \E end \in HeapStart .. MmapBase : Brk(x, end)
        \/ \E p \in UserPages, access \in {"r", "w", "x"}, bad \in BOOLEAN :
                Fault(x, p, access, bad)
        \/ \E y \in Spaces : Fork(x, y)
        \/ \E headers \in {Program} \cup BadPrograms, cloexec \in BOOLEAN :
                Exec(x, headers, cloexec)
        \/ MExit(x) \/ Reap(x)
        \/ MemFdCreate(x) \/ MemFdClose(x)
        \/ \E n \in 0 .. MaxMapLen + 1 : Ftruncate(x, n)

MemSpec == MemInit /\ [][MemNext]_mvars

-----------------------------------------------------------------------------
\* Frames, break, mapping hint and page flags stay in their ranges.
MemTypeOK ==
    /\ mem.fa.used \subseteq 0 .. MemPhys - 1
    /\ mem.odd \in BOOLEAN
    /\ \A x \in Spaces :
        /\ mem.sp[x].st \in {"none", "live", "zombie"}
        /\ mem.sp[x].brk \in HeapStart .. MmapBase
        /\ mem.sp[x].hint \in 0 .. UserUpper
        /\ \A p \in Mapped(mem.sp[x]) : mem.sp[x].pt[p].flags \subseteq {"u", "w", "x"}

Alive == {x \in Spaces : mem.sp[x].st # "none"}

(***************************************************************************)
(* Physical memory is accounted for.  On the tidy path the allocated       *)
(* frames are exactly: the page tables, the private pages of the address   *)
(* spaces, the memfd's pages, and what exec and failed forks abandoned;    *)
(* and these never coincide: no private frame is mapped twice, in one      *)
(* space or in two, whatever was forked, cut, protected or reaped before.  *)
(***************************************************************************)
FramesAccounted ==
    ~mem.odd =>
        LET places  == {<<x, p>> \in Alive \X UserPages :
                           mem.sp[x].pt[p] # NoMap /\ ~IsSharedPage(mem.sp[x], p)}
            at(q)   == mem.sp[q[1]].pt[q[2]].frame
            private == {at(q) : q \in places}
            tables  == {mem.sp[x].table : x \in Alive}
        IN  /\ mem.fa.used = private \cup tables \cup ToSet(mem.mf) \cup mem.lost
            /\ Cardinality(private) = Cardinality(places)
            /\ Cardinality(mem.fa.used) =
                 Cardinality(private) + Cardinality(tables) + Len(mem.mf) + Cardinality(mem.lost)

(***************************************************************************)
(* On the tidy path the page table says what the region list says: a       *)
(* resident page of a region is writable exactly if the region's current   *)
(* protection is, across mprotect, fault and fork.  (Pages of a populated  *)
(* file mapping stay writable; see the comment in mmap.)                   *)
(***************************************************************************)
FlagsFollowRegions ==
    ~mem.odd =>
        \A x \in Alive : \A p \in Mapped(mem.sp[x]) :
            LET s == mem.sp[x]
                i == FirstWith(s, p, {"anon", "owned", "shared"})
            IN  (HasPermissions(s, p) /\ (i # 0 => s.mmap[i].kind # "owned"))
                   => (("w" \in s.pt[p].flags) = ("w" \in PermissionsFor(s, p)))

(***************************************************************************)
(* A page of the program that is paged in after any mprotect or munmap of  *)
(* its neighbours shows the file page it showed in the fresh image, and a  *)
(* zero page stays zero.                                                   *)
(***************************************************************************)
ImageKept ==
    ~mem.odd =>
        \A x \in Alive : \A p \in UserPages :
            (ElfOver(mem.sp[x], p) # {} /\ FirstWith(mem.sp[x], p, {"anon"}) = 0)
                => FaultPlan(mem.sp[x], p).from = FaultPlan(FreshSpace(0, Image, FALSE), p).from

(***************************************************************************)
(* deallocate_frame's contract (sys/memory/mod.rs:177): "callers only pass *)
(* frames they own and have not mapped elsewhere".                         *)
(***************************************************************************)
FreedUnmapped == \A x \in Alive : FramesOf(mem.sp[x]) \subseteq mem.fa.used

(***************************************************************************)
(* exec, proc/mod.rs:1004: "Drop old resources implicitly when             *)
(* overwriting".                                                           *)
(***************************************************************************)
NothingAbandoned == mem.lost = {}

(***************************************************************************)
(* docs/memory-management.md:63: "Each user process has its own page       *)
(* table": a live process runs on the table its faults are resolved in.    *)
(***************************************************************************)
RunsOnOwnTable == \A x \in Alive : mem.sp[x].cr3 = mem.sp[x].table

(***************************************************************************)
(* Address spaces are sound: frames are accounted for, and what a page     *)
(* shows, and what may be done to it, is what the regions say.             *)
(***************************************************************************)
SpacesSound == MemTypeOK /\ FramesAccounted /\ FlagsFollowRegions /\ ImageKept
=============================================================================
