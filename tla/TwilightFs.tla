------------------------------ MODULE TwilightFs ------------------------------
(***************************************************************************)
(* TwilightFS: the on-disk structures (inode bitmap, zone bitmap, inode    *)
(* table, directory and data blocks), the three in-memory caches of        *)
(* TwilightFsShared, and the open nodes, each with its own copy of the     *)
(* inode it was opened with.                                               *)
(*                                                                         *)
(* An operation is a trace: the sequence of states the file system goes    *)
(* through, one per block written.  The operation completes in the last    *)
(* state of its trace; the machine may stop in any of them (TfsCrash), and *)
(* a device error ends it in one of those where the code returns the error *)
(* (TfsIoError).                                                           *)
(*                                                                         *)
(* Files are read and written in whole blocks, through the direct slots of *)
(* the inode; TfsFile.tla models the indirect ones.  A data block holds a  *)
(* value, and 0 is the block of zeros.                                     *)
(***************************************************************************)
EXTENDS Naturals, FiniteSets, SequencesExt

CONSTANTS
    NInodes,    \* superblock.ninodes; inode 1 is the root
    NZones,     \* data zones
    Direct,     \* Inode::DIRECT_SLOT_COUNT
    PerBlock,   \* directory entries in a block
    Names,      \* file names in use
    Link,       \* name of a symbolic link in the root, or a name not in use
    Target,     \* the path it points to
    Values,     \* contents of a written data block
    Handles,    \* open nodes
    MaxFaults,  \* crashes and device errors in one behaviour
    MaxOps      \* operations in one behaviour

ASSUME TfsSizes == /\ NInodes \in Nat \ {0} /\ NZones \in Nat \ {0}
                   /\ Direct \in Nat \ {0} /\ PerBlock \in Nat \ {0}
                   /\ 0 \notin Values /\ MaxFaults \in Nat /\ MaxOps \in Nat

VARIABLES
    tfs,        \* the disk and the caches
    tnode,      \* the open nodes
    taint,      \* what happened so far that the code does not survive
    faults,     \* crashes and device errors so far
    ops         \* operations so far

tfsVars == <<tfs, tnode, taint, faults, ops>>

Ino == 1..NInodes
Root == 1
Zone == 1..NZones
Slot == 0..(Direct * PerBlock - 1)
AllNames == Names \cup {Link, ".", ".."}

\* The paths the system calls pass, after normalize_path.
TfsPath == [1..1 -> Names \cup {Link}] \cup [1..2 -> Names]
           \cup {<<Link, n>> : n \in Names}

NoSlots == [b \in 0..Direct - 1 |-> 0]
NoInode == [kind |-> "none", size |-> 0, slot |-> NoSlots]

\* Inode::new_file, new_dir: no data yet, one zone already in slot 0.
NewInode(kind, zone) ==
    [kind |-> kind, size |-> 0, slot |-> [NoSlots EXCEPT ![0] = zone]]

NoEntry == [ino |-> 0, name |-> "."]
DataBlock(v) == [e |-> [k \in 0..PerBlock - 1 |-> NoEntry], v |-> v]

NotIndexed == [on |-> FALSE, names |-> [n \in AllNames |-> 0], hint |-> 0]

\* TwilightFsShared::new: nothing is cached.
NoCaches(s) == [s EXCEPT !.idx = [i \in Ino |-> NotIndexed],
                         !.lookup = [p \in TfsPath |-> 0],
                         !.fcache = [i \in Ino |-> <<>>]]

------------------------------------------------------------------------------
(* Traces.  An element says whether an error of the next write is returned *)
(* (soft) or unwrapped, which stops the kernel.                            *)

Start(s) == <<[s |-> s, soft |-> TRUE]>>
Now(t) == Last(t).s
Do(t, s) == Append(t, [s |-> s, soft |-> TRUE])
DoOrPanic(t, s) == Append(t, [s |-> s, soft |-> FALSE])
Done(t) == [t |-> t, ok |-> TRUE]
Failed(t) == [t |-> t, ok |-> FALSE]

\* Seeded fault: the bit is only set in the copy of the block in memory.
AllocateZoneUnsaved(t) ==
    LET free == Zone \ Now(t).zmap
    IN  IF free = {} THEN [t |-> t, zone |-> 0] ELSE [t |-> t, zone |-> Min(free)]

\* allocate_zone: the lowest zone whose bit is clear; 0 when there is none.
AllocateZone(t) ==
    LET free == Zone \ Now(t).zmap
    IN  IF free = {} THEN [t |-> t, zone |-> 0]
        ELSE [t |-> Do(t, [Now(t) EXCEPT !.zmap = @ \cup {Min(free)}]),
              zone |-> Min(free)]

\* allocate_inode, with the + 1 of its callers.
AllocateInode(t) ==
    LET free == Ino \ Now(t).imap
    IN  IF free = {} THEN [t |-> t, ino |-> 0]
        ELSE [t |-> Do(t, [Now(t) EXCEPT !.imap = @ \cup {Min(free)}]),
              ino |-> Min(free)]

\* dealloc_zone, called through free_zone(z).unwrap().
DeallocZone(t, zone) == DoOrPanic(t, [Now(t) EXCEPT !.zmap = @ \ {zone}])

\* dealloc_inode.
DeallocInode(t, ino) == Do(t, [Now(t) EXCEPT !.imap = @ \ {ino}])

\* write_inode.
WriteInode(t, ino, inode) == Do(t, [Now(t) EXCEPT !.itab[ino] = inode])

------------------------------------------------------------------------------
(* Directories                                                             *)

\* The entry in a slot of the directory inode n; NoEntry if its block is missing.
EntryAt(s, n, k) ==
    LET z == n.slot[k \div PerBlock]
    IN  IF z = 0 THEN NoEntry ELSE s.blk[z].e[k % PerBlock]

SlotsNamed(s, n, name) ==
    {k \in Slot : EntryAt(s, n, k).ino # 0 /\ EntryAt(s, n, k).name = name}

\* build_dir_index_entry: a name maps to its last entry, and the hint is the
\* first free slot.
BuildDirIndexEntry(s, n) ==
    LET free == {k \in Slot : EntryAt(s, n, k).ino = 0}
    IN  [on |-> TRUE,
         names |-> [name \in AllNames |->
                       IF SlotsNamed(s, n, name) = {} THEN 0
                       ELSE EntryAt(s, n, Max(SlotsNamed(s, n, name))).ino],
         hint |-> IF free = {} THEN Direct * PerBlock ELSE Min(free)]

\* ensure_dir_index_entry.
EnsureDirIndexEntry(s, ino) ==
    IF s.idx[ino].on THEN s
    ELSE [s EXCEPT !.idx[ino] = BuildDirIndexEntry(s, s.itab[ino])]

\* DirIndexCache::update_after_insert.
DirIndexUpdate(s, parent, name, ino, hint) ==
    IF s.idx[parent].on
    THEN [s EXCEPT !.idx[parent].names[name] = ino, !.idx[parent].hint = hint]
    ELSE s

\* Seeded fault: the index keeps the removed name.
DirIndexForget(s, parent, name) == s

\* DirIndexCache::remove.
DirIndexRemove(s, parent, name) == DirIndexUpdate(s, parent, name, 0, 0)

IsPrefix1(p, q) == Len(p) <= Len(q) /\ SubSeq(q, 1, Len(p)) = p

\* PathLookupCache::remove_prefix.
RemoveLookupPrefix(s, p) ==
    [s EXCEPT !.lookup = [q \in TfsPath |-> IF IsPrefix1(p, q) THEN 0 ELSE @[q]]]

\* FileContentCache::insert and invalidate_inode.
InsertFileCache(s, ino, data) ==
    IF data = <<>> \/ s.fcache[ino] # <<>> THEN s ELSE [s EXCEPT !.fcache[ino] = data]
InvalidateFile(s, ino) == [s EXCEPT !.fcache[ino] = <<>>]

\* The end of create_dir_entry: the directory is one name larger.
CountName(s, parent) == [s EXCEPT !.itab[parent].size = @ + 1]

\* create_dir_entry: the first usable slot from the cached hint on, around the
\* directory.  A missing block is allocated and zeroed; block 0 of a directory
\* of size 0 counts as zeroed.
CreateDirEntry(t, parent, name, child) ==
    LET s     == Now(t)
        n     == s.itab[parent]
        total == Direct * PerBlock
        first == IF s.idx[parent].on THEN s.idx[parent].hint ELSE 0
        fresh(k) == k \div PerBlock = 0 /\ n.size = 0
        usable == {j \in 0..total - 1 :
                      LET k == (first + j) % total
                      IN  fresh(k) \/ EntryAt(s, n, k).ino = 0}
        Zeroed(a, b) == WriteInode(Do(a.t, [Now(a.t) EXCEPT !.blk[a.zone] = DataBlock(0)]),
                                   parent, [n EXCEPT !.slot[b] = a.zone])
        Count(u, k) == Do(u, DirIndexUpdate(CountName(Now(u), parent), parent, name, child, k + 1))
        Put(u, k, z) ==
            LET old == IF fresh(k) THEN DataBlock(0) ELSE Now(u).blk[z]
                new == [old EXCEPT !.e[k % PerBlock] = [ino |-> child, name |-> name]]
            IN  Done(Count(Do(u, [Now(u) EXCEPT !.blk[z] = new]), k))
        Grow(a, k) == IF a.zone = 0 THEN Failed(t)
                      ELSE Put(Zeroed(a, k \div PerBlock), k, a.zone)
        At(k) == IF n.slot[k \div PerBlock] = 0 THEN Grow(AllocateZone(t), k)
                 ELSE Put(t, k, n.slot[k \div PerBlock])
    IN  IF usable = {} THEN Failed(t) ELSE At((first + Min(usable)) % total)

\* create_file_with_mode, and the first half of create_dir_with_mode: an inode, a
\* zone, and the name in the directory parent.
CreateFile(s0, parent, name, kind) ==
    LET Enter(i, z) ==
            IF z.zone = 0 THEN Failed(z.t)
            ELSE CreateDirEntry(WriteInode(z.t, i.ino, NewInode(kind, z.zone)),
                                parent, name, i.ino)
        Allot(i) == IF i.ino = 0 THEN Failed(i.t) ELSE Enter(i, AllocateZone(i.t))
        In(s) == IF s.idx[parent].names[name] # 0 THEN Failed(Start(s))
                 ELSE Allot(AllocateInode(Start(s)))
    IN  In(EnsureDirIndexEntry(s0, parent))

\* create_dir_with_mode: the new directory gets its own two names last.
CreateDir(s0, parent, name) ==
    LET DotDotIn(new, d) == IF ~d.ok THEN d ELSE CreateDirEntry(d.t, new, "..", parent)
        DotsIn(new, c) == DotDotIn(new, CreateDirEntry(c.t, new, ".", new))
        Fill(c) == IF ~c.ok THEN c ELSE DotsIn(Max(Now(c.t).imap \ s0.imap), c)
    IN  Fill(CreateFile(s0, parent, name, "dir"))

------------------------------------------------------------------------------
(* Paths                                                                   *)

\* The loop of resolve_path: find_dir_entry for each component, which indexes
\* the inode it searches, and a symbolic link is replaced by its target.
RECURSIVE Walk(_, _, _, _)
Walk(s, cur, pending, links) ==
    LET On(s1, next) ==
            CASE next = 0 -> [s |-> s1, ino |-> 0]
              [] next # 0 /\ s.itab[next].kind # "link" -> Walk(s1, next, Tail(pending), links)
              [] OTHER -> IF links = 40 THEN [s |-> s1, ino |-> 0]
                          ELSE Walk(s1, Root, Target \o Tail(pending), links + 1)
        Find(s1) == On(s1, s1.idx[cur].names[Head(pending)])
    IN  CASE pending = <<>> -> [s |-> s, ino |-> cur]
          [] pending # <<>> /\ s.itab[cur].slot[0] = 0 -> [s |-> s, ino |-> 0]
          [] OTHER -> Find(EnsureDirIndexEntry(s, cur))

\* PathLookupCache::insert: a path that is cached stays as it is.
InsertLookup(s, p, ino) == IF s.lookup[p] # 0 THEN s ELSE [s EXCEPT !.lookup[p] = ino]

\* resolve_path: the inode of a path, or 0; the whole path is cached.
ResolvePath(s, p) ==
    LET Keep(w) == IF w.ino = 0 THEN w ELSE [w EXCEPT !.s = InsertLookup(@, p, w.ino)]
    IN  CASE p = <<>> -> [s |-> s, ino |-> Root]
          [] p # <<>> /\ s.lookup[p] # 0 -> [s |-> s, ino |-> s.lookup[p]]
          [] OTHER -> Keep(Walk(s, Root, p, 0))

\* TwilightFs::touch and mkdir, after the open that fails for a path that exists.
CreateAt(s, p, kind) ==
    LET In(d) == CASE d.ino = 0 \/ d.s.itab[d.ino].kind # "dir" -> Failed(Start(d.s))
                   [] OTHER -> IF kind = "dir" THEN CreateDir(d.s, d.ino, Last(p))
                               ELSE CreateFile(d.s, d.ino, Last(p), kind)
        Under(r) == IF r.ino # 0 THEN Failed(Start(r.s)) ELSE In(ResolvePath(r.s, Front(p)))
    IN  Under(ResolvePath(s, p))

\* remove_entry: the direct zones, the inode, the name and the size of the
\* parent, in this order, then the caches.  Nothing asks whether a directory
\* is empty.
RemoveEntry(s0, p) ==
    LET Shrink(c, d, e) ==
            Do(c, RemoveLookupPrefix(DirIndexRemove(
                     InvalidateFile([Now(c) EXCEPT !.itab[d].size = IF @ >= 1 THEN @ - 1 ELSE @], e),
                     d, Last(p)), p))
        Clear(i, d, z, k) == DoOrPanic(i, [Now(i) EXCEPT !.blk[z].e[k] = NoEntry])
        Zones(s, e) ==
            FoldLeft(LAMBDA t, b : IF s.itab[e].slot[b] = 0 THEN t
                                   ELSE DeallocZone(t, s.itab[e].slot[b]),
                     <<[s |-> s, soft |-> FALSE]>>, [b \in 1..Direct |-> b - 1])
        At(s, d, k) ==
            LET e == EntryAt(s, s.itab[d], k).ino
            IN  Done(Shrink(Clear(DeallocInode(Zones(s, e), e), d,
                                  s.itab[d].slot[k \div PerBlock], k % PerBlock), d, e))
        In(d, at) == IF d.ino = 0 \/ at = {} THEN Failed(Start(d.s)) ELSE At(d.s, d.ino, Min(at))
        Find(d) == In(d, IF d.ino = 0 THEN {} ELSE SlotsNamed(d.s, d.s.itab[d.ino], Last(p)))
    IN  Find(ResolvePath(s0, Front(p)))

\* rename_entry, after the open of the old path.  A file in the way is removed
\* first; then the name changes in place, or a second entry is made in the new
\* directory and the old one is cleared.
RenameEntry(s0, p, q) ==
    LET drop(w) == RemoveLookupPrefix(RemoveLookupPrefix(w, p), q)
        Less(w, d) == [w EXCEPT !.itab[d].size = IF @ >= 1 THEN @ - 1 ELSE @]
        \* dp, dq: the directories; z, k: where the old name is; ino: what it names
        InPlace(t, dp, z, k, ino) ==
            Done(Do(t, drop(DirIndexUpdate(
                     DirIndexRemove([Now(t) EXCEPT !.blk[z].e[k].name = Last(q)], dp, Last(p)),
                     dp, Last(q), ino, 0))))
        Cleared(t, dp) == Done(Do(t, drop(DirIndexRemove(Less(Now(t), dp), dp, Last(p)))))
        Moved(c, dp, z, k) ==
            IF ~c.ok THEN c ELSE Cleared(Do(c.t, [Now(c.t) EXCEPT !.blk[z].e[k] = NoEntry]), dp)
        Change(s, r, dp, dq, z, k, ino) ==
            CASE ~r.ok -> Failed(Start(s))
              [] r.ok /\ dp = dq -> InPlace(r.t, dp, z, k, ino)
              [] OTHER -> Moved(CreateDirEntry(r.t, dq, Last(q), ino), dp, z, k)
        From(s, dp, dq, slot, there) ==
            LET ino == EntryAt(s, s.itab[dp], slot).ino
                old == EntryAt(s, s.itab[dq], Min(there)).ino
            IN  IF \/ s.itab[ino].kind = "dir" /\ dp # dq
                   \/ there # {} /\ (old = ino \/ s.itab[old].kind = "dir")
                THEN Failed(Start(s))
                ELSE Change(s, IF there = {} THEN Done(Start(s)) ELSE RemoveEntry(s, q), dp, dq,
                            s.itab[dp].slot[slot \div PerBlock], slot % PerBlock, ino)
        Between(s, dp, dq) ==
            IF \/ dp = 0 \/ dq = 0 \/ s.itab[dp].kind # "dir" \/ s.itab[dq].kind # "dir"
               \/ SlotsNamed(s, s.itab[dp], Last(p)) = {}
            THEN Failed(Start(s))
            ELSE From(s, dp, dq, Min(SlotsNamed(s, s.itab[dp], Last(p))),
                      SlotsNamed(s, s.itab[dq], Last(q)))
        To(d, e) == Between(e.s, d.ino, e.ino)
        In(d) == To(d, ResolvePath(d.s, Front(q)))
        Old(x) == IF x.ino = 0 THEN Failed(Start(x.s)) ELSE In(ResolvePath(x.s, Front(p)))
    IN  Old(ResolvePath(s0, p))

------------------------------------------------------------------------------
(* Open nodes                                                              *)

Closed == [open |-> FALSE, ino |-> 0, inode |-> NoInode]

\* TFSVfsNode::write of the block b: a zone if the slot has none, the data, the
\* inode as this node knows it.  Result: the trace and the node's inode.
NodeWrite(t, nd, b, v) ==
    LET Fresh(w) == Do(w, InvalidateFile(Now(w), nd.ino))
        Put(u, z, n) == [t |-> Fresh(WriteInode(DoOrPanic(u, [Now(u) EXCEPT !.blk[z] = DataBlock(v)]),
                                                nd.ino, n)),
                         inode |-> n]
        At(u, z) == IF z = 0 THEN [t |-> t, inode |-> nd.inode]
                    ELSE Put(u, z, [nd.inode EXCEPT !.slot[b] = z,
                                                    !.size = IF b + 1 > @ THEN b + 1 ELSE @])
        Grow(a) == At(a.t, a.zone)
    IN  IF nd.inode.slot[b] # 0 THEN At(t, nd.inode.slot[b]) ELSE Grow(AllocateZone(t))

\* TFSVfsNode::truncate: shrinking only sets the size; growing writes zeros.
NodeTruncate(t, nd, len) ==
    LET n == [nd.inode EXCEPT !.size = len]
        w == WriteInode(t, nd.ino, n)
        RECURSIVE Grow(_, _)
        Grow(x, b) == IF b = len THEN x
                      ELSE Grow(NodeWrite(x.t, [nd EXCEPT !.inode = x.inode], b, 0), b + 1)
    IN  IF len < nd.inode.size
        THEN [t |-> Do(w, InvalidateFile(Now(w), nd.ino)), inode |-> n]
        ELSE Grow([t |-> t, inode |-> nd.inode], nd.inode.size)

\* read_all_file: the blocks up to the first empty slot, then zeros.
ReadAllFile(s, n) ==
    LET holes == {b \in 0..Direct - 1 : n.slot[b] = 0} \cup {Direct}
    IN  [k \in 1..n.size |->
            IF k <= Min(holes) THEN s.blk[n.slot[k - 1]].v ELSE 0]

\* TFSVfsNode::read of the whole file: served from the file cache, or read with
\* this node's inode and cached under its number.
NodeRead(s, nd) ==
    IF nd.inode.size = 0 \/ s.fcache[nd.ino] # <<>> THEN s
    ELSE InsertFileCache(s, nd.ino, ReadAllFile(s, nd.inode))

------------------------------------------------------------------------------
(* The operations                                                          *)

TfsInit ==
    LET linked == Link \notin Names
        root == [kind |-> "dir", size |-> 2, slot |-> [NoSlots EXCEPT ![0] = 1]]
        dots == [[k \in 0..PerBlock - 1 |-> NoEntry] EXCEPT
                    ![0] = [ino |-> Root, name |-> "."], ![1] = [ino |-> Root, name |-> ".."]]
        base == [imap |-> {Root}, zmap |-> {1},
                 itab |-> [i \in Ino |-> IF i = Root THEN root ELSE NoInode],
                 blk |-> [z \in Zone |-> [e |-> IF z = 1 THEN dots ELSE DataBlock(0).e, v |-> 0]],
                 idx |-> 0, lookup |-> 0, fcache |-> 0]
        new  == AllocateInode(Start(NoCaches(base)))
        lnk  == CreateDirEntry(WriteInode(new.t, new.ino, [NoInode EXCEPT !.kind = "link"]),
                               Root, Link, new.ino)
    IN  /\ tfs = IF linked THEN Now(lnk.t) ELSE NoCaches(base)
        /\ tnode = [h \in Handles |-> Closed]
        /\ taint = {}
        /\ faults = 0
        /\ ops = 0

\* The traces of the operations that write the disk by path.
TfsOps == [op: {"touch", "mkdir", "remove"}, p: TfsPath]
          \cup {[op |-> "rename", p |-> p, q |-> q] : p \in TfsPath, q \in TfsPath}
TraceOf(o) ==
    CASE o.op \in {"touch", "mkdir"} ->
            CreateAt(tfs, o.p, IF o.op = "mkdir" THEN "dir" ELSE "file").t
      [] o.op = "remove" -> RemoveEntry(tfs, o.p).t
      [] o.op = "rename" -> RenameEntry(tfs, o.p, o.q).t

\* The inode a path names on the disk, whatever is cached.
OnDisk(s, p) == Walk(NoCaches(s), Root, p, 0).ino
Empty(s, ino) == \A k \in Slot : LET e == EntryAt(s, s.itab[ino], k)
                                 IN  e.ino = 0 \/ e.name \in {".", ".."}

\* rmdir of a directory that still has names in it.
Orphans(p) ==
    \E i \in {OnDisk(tfs, p)} : i # 0 /\ tfs.itab[i].kind = "dir" /\ ~Empty(tfs, i)

TfsDo(t, harm) ==
    /\ tfs' = Now(t)
    /\ taint' = taint \cup harm
    /\ UNCHANGED <<tnode, faults>>

TfsTouch(p) == TfsDo(CreateAt(tfs, p, "file").t, {})
TfsMkdir(p) == TfsDo(CreateAt(tfs, p, "dir").t, {})
TfsRemove(p) == TfsDo(RemoveEntry(tfs, p).t, IF Orphans(p) THEN {"orphan"} ELSE {})
TfsRename(p, q) == p # q /\ TfsDo(RenameEntry(tfs, p, q).t, {})

TfsOpen(h, p) ==
    /\ ~tnode[h].open
    /\ \E r \in {ResolvePath(tfs, p)} :
         /\ r.ino # 0 /\ r.s.itab[r.ino].kind = "file"
         /\ tfs' = r.s
         /\ tnode' = [tnode EXCEPT ![h] = [open |-> TRUE, ino |-> r.ino,
                                           inode |-> r.s.itab[r.ino]]]
    /\ UNCHANGED <<taint, faults>>

TfsClose(h) ==
    /\ tnode[h].open
    /\ tnode' = [tnode EXCEPT ![h] = Closed]
    /\ UNCHANGED <<tfs, taint, faults>>

\* The node's inode is no longer the one on the disk, or is gone.
StaleNode(h) == tnode[h].ino \notin tfs.imap
                \/ tnode[h].inode # tfs.itab[tnode[h].ino]
StaleUse(h) == taint' = taint \cup IF StaleNode(h) THEN {"stale"} ELSE {}

TfsWrite(h, b, v) ==
    LET r == NodeWrite(Start(tfs), tnode[h], b, v)
    IN  /\ tnode[h].open
        /\ tfs' = Now(r.t)
        /\ tnode' = [tnode EXCEPT ![h].inode = r.inode]
        /\ StaleUse(h)
        /\ UNCHANGED faults

TfsTruncate(h, len) ==
    LET r == NodeTruncate(Start(tfs), tnode[h], len)
    IN  /\ tnode[h].open /\ len # tnode[h].inode.size
        /\ tfs' = Now(r.t)
        /\ tnode' = [tnode EXCEPT ![h].inode = r.inode]
        /\ StaleUse(h)
        /\ UNCHANGED faults

TfsRead(h) ==
    /\ tnode[h].open
    /\ tfs' = NodeRead(tfs, tnode[h])
    /\ StaleUse(h)
    /\ UNCHANGED <<tnode, faults>>

------------------------------------------------------------------------------
(* Faults                                                                  *)

\* Removal and the renames that remove or move are not safe to interrupt.
Interrupted(o, t, k) ==
    IF o.op \in {"remove", "rename"} /\ k > 1 /\ k < Len(t) THEN {"torn"} ELSE {}

\* The machine stops while an operation runs, and TwilightFs::open mounts the
\* disk again.
TfsCrash(o) ==
    /\ faults < MaxFaults
    /\ \E t \in {TraceOf(o)} : \E k \in 1..Len(t) :
         /\ tfs' = NoCaches(t[k].s)
         /\ taint' = taint \cup {"crash"} \cup Interrupted(o, t, k)
    /\ tnode' = [h \in Handles |-> Closed]
    /\ faults' = faults + 1

\* ... or while a node is written.
TfsCrashWrite(h, b, v) ==
    LET t == NodeWrite(Start(tfs), tnode[h], b, v).t
    IN  /\ faults < MaxFaults
        /\ tnode[h].open
        /\ \E k \in 1..Len(t) : tfs' = NoCaches(t[k].s)
        /\ taint' = taint \cup {"crash"} \cup IF StaleNode(h) THEN {"stale"} ELSE {}
        /\ tnode' = [g \in Handles |-> Closed]
        /\ faults' = faults + 1

\* A write fails and the operation returns the error.
TfsIoError(o) ==
    /\ faults < MaxFaults
    /\ \E t \in {TraceOf(o)} : \E k \in 1..Len(t) - 1 :
         /\ t[k].soft
         /\ tfs' = t[k].s
         /\ taint' = taint \cup {"ioerr"} \cup Interrupted(o, t, k)
    /\ faults' = faults + 1
    /\ UNCHANGED tnode

TfsNext ==
    /\ ops < MaxOps
    /\ ops' = ops + 1
    /\ \/ \E p \in TfsPath : TfsTouch(p) \/ TfsMkdir(p) \/ TfsRemove(p)
       \/ \E p, q \in TfsPath : TfsRename(p, q)
       \/ \E h \in Handles : \/ \E p \in TfsPath : TfsOpen(h, p)
                             \/ TfsClose(h) \/ TfsRead(h)
                             \/ \E b \in 0..Direct - 1, v \in Values :
                                   TfsWrite(h, b, v) \/ TfsCrashWrite(h, b, v)
                             \/ \E len \in 0..Direct : TfsTruncate(h, len)
       \/ \E o \in TfsOps : TfsCrash(o) \/ TfsIoError(o)

TfsSpec == TfsInit /\ [][TfsNext]_tfsVars

------------------------------------------------------------------------------
(* Properties                                                              *)

\* Every part of the file system model has its type.
TfsTypeOK ==
    /\ tfs.imap \subseteq Ino /\ tfs.zmap \subseteq Zone
    /\ \A i \in Ino : /\ tfs.itab[i].size \in Nat
                      /\ tfs.itab[i].slot \in [0..Direct - 1 -> 0..NZones]
                      /\ tfs.idx[i].names \in [AllNames -> 0..NInodes]
                      /\ tfs.fcache[i] \in Seq(Values \cup {0})
    /\ tfs.lookup \in [TfsPath -> 0..NInodes]
    /\ taint \subseteq {"orphan", "stale", "torn", "crash", "ioerr"}
    /\ faults \in 0..MaxFaults

\* Directories that can be reached from the root, to the depth of TfsPath.
Entries(s, i) == {e \in {EntryAt(s, s.itab[i], k) : k \in Slot} :
                    e.ino # 0 /\ e.name \notin {".", ".."}}
SubDirs(s) == {e.ino : e \in {f \in Entries(s, Root) : s.itab[f.ino].kind = "dir"}}
Dirs(s) == {Root} \cup SubDirs(s)
ZonesOf(s, i) == {s.itab[i].slot[b] : b \in 0..Direct - 1} \ {0}
Live(s) == Dirs(s) \cup UNION {{e.ino : e \in Entries(s, i)} : i \in Dirs(s)}

\* Whatever is created, written, renamed or removed, and wherever a creation or
\* a write is cut short by a crash or a device error: a name that can be reached
\* from the root points to an allocated inode, no other name points to the same
\* one, and its zones are allocated and belong to it alone.  (Interrupted
\* removals and writes through a stale node are the exceptions.)
TreeSound ==
    taint \cap {"torn", "stale"} = {} =>
        /\ Live(tfs) \subseteq tfs.imap
        /\ \A i \in Live(tfs) : ZonesOf(tfs, i) \subseteq tfs.zmap
        /\ \A i, j \in Live(tfs) : i # j => ZonesOf(tfs, i) \cap ZonesOf(tfs, j) = {}
        /\ \A i, j \in Dirs(tfs) : \A e \in Entries(tfs, i), f \in Entries(tfs, j) :
                (i # j \/ e # f) => e.ino # f.ino

\* The index of a directory holds exactly the names on the disk ("." and ".."
\* aside, which no path contains).  The code does not promise it once a non-empty
\* directory was removed (its index stays under its inode number), or a write failed
\* between the entry and the index.
IndexFresh ==
    taint \cap {"orphan", "torn", "stale", "ioerr"} = {} =>
        \A i \in Dirs(tfs) : tfs.idx[i].on =>
            \A n \in Names : tfs.idx[i].names[n]
                             = BuildDirIndexEntry(tfs, tfs.itab[i]).names[n]

\* A cached path that goes through no symbolic link leads where a walk of the
\* disk leads: creations, removals and renames drop what they make stale.
LookupFresh ==
    taint \cap {"orphan", "torn", "stale", "ioerr"} = {} =>
        \A p \in TfsPath : p[1] # Link /\ tfs.lookup[p] # 0 =>
            tfs.lookup[p] = OnDisk(tfs, p)

\* list_dir: entries in slot order until as many as the size says were seen, or
\* a block is missing.
ListDir(s, i) ==
    LET n == s.itab[i]
        used == {k \in Slot : EntryAt(s, n, k).ino # 0}
    IN  {EntryAt(s, n, k) : k \in {u \in used :
            /\ Cardinality({w \in used : w < u}) < n.size
            /\ \A b \in 0..(u \div PerBlock) : n.slot[b] # 0}}

\* Every name in a directory is listed.  The size is the only thing that says
\* how many there are, so a crash or an error between the entry and the size of
\* its directory hides a name.
AllListed ==
    taint = {} =>
        \A i \in Dirs(tfs) : Entries(tfs, i) \subseteq ListDir(tfs, i)

\* Cached file contents are the contents on the disk, as long as every node used
\* had the inode that is on the disk.
FileCacheFresh ==
    taint \cap {"torn", "stale"} = {} =>
        \A i \in Live(tfs) : tfs.fcache[i] # <<>> =>
            tfs.fcache[i] = ReadAllFile(tfs, tfs.itab[i])

\* docs/filesystem/caching.md: "very low risk of serving stale data after
\* writes": cached file contents are those on the disk.
NoStaleData ==
    \A i \in Live(tfs) : tfs.fcache[i] # <<>> =>
        tfs.fcache[i] = ReadAllFile(tfs, tfs.itab[i])

\* The three caches of the file system, the directory indexes, the path lookups
\* and the file contents, agree with the disk wherever the code keeps them up to date.
CachesFresh == IndexFresh /\ LookupFresh /\ FileCacheFresh

\* The namespace on the disk is sound: names, inodes and zones agree, and a listing
\* shows every name.
NamespaceSound == TfsTypeOK /\ TreeSound /\ AllListed
==============================================================================
