-------------------------------- MODULE Files -------------------------------
(***************************************************************************)
(* The file system calls (sys/syscall/service.rs) over the VFS             *)
(* (sys/fs/vfs.rs) and the in-memory file systems of ram_fs/mod.rs: the    *)
(* root of a machine without a disk, and /run, /tmp, /home and /var/log of *)
(* a live system.  A live root is a read-only tree of directories here;    *)
(* files of a TwilightFS are the subject of TwilightFs and TfsFile.        *)
(*                                                                         *)
(* A path is a sequence of components.  A component is a sequence of       *)
(* atoms, so that "tmpx" = <<"tmp", "x">> begins with "tmp": the VFS       *)
(* matches mount prefixes by characters.  System calls run one at a time.  *)
(***************************************************************************)
EXTENDS Mounts, FiniteSets, FiniteSetsExt

CONSTANTS FProcs,      \* processes
          UserPaths,   \* path arguments: [abs, segs]
          OpenModes,   \* flag arguments of openat
          CompOrder,   \* every component, in the byte order of a BTreeMap
          Cpio,        \* entries of the initramfs: [path, kind]
          LiveDirs,    \* directories of the live image
          FMaxFd, FMaxFiles, FMaxLen, FMaxCalls   \* bounds

VARIABLES ramfs,       \* file system instance -> path -> node
          bytes,       \* the Vec of every RamFile: 0 or 1 per byte
          pwd,         \* working directories
          ftab,        \* descriptor tables: open file description or 0
          ofile,       \* open file descriptions (OpenFile and its VfsNode)
          wrote,       \* history: positions written since they were cut off
          answer,      \* the last unlink and what it returned
          fcalls       \* calls made

vfsVars == <<ramfs, bytes, pwd, ftab, ofile, wrote, answer, fcalls>>

DotDot == <<"..">>
DirNode == [kind |-> "dir", id |-> 0]
None == [kind |-> "none", id |-> 0]
NoAnswer == [ok |-> FALSE, path |-> <<>>]
Unused == [kind |-> "free"]

PrefixPath == ("/" :> <<>>) @@ ("/dev" :> <<<<"dev">>>>) @@ ("/run" :> <<<<"run">>>>)
           @@ ("/tmp" :> <<<<"tmp">>>>) @@ ("/proc" :> <<<<"proc">>>>)
           @@ ("/boot" :> <<<<"boot">>>>) @@ ("/home" :> <<<<"home">>>>)
           @@ ("/var/log" :> <<<<"var">>, <<"log">>>>)
           @@ ("/mnt/usb" :> <<<<"mnt">>, <<"usb">>>>)
           @@ ("/media/install" :> <<<<"media">>, <<"install">>>>)

-----------------------------------------------------------------------------
(* Paths.                                                                  *)

(* normalize_path: ".." drops the component before it, if any.             *)
NormalizePath(segs) ==
    FoldLeft(LAMBDA out, s : IF s # DotDot THEN Append(out, s)
                             ELSE IF out = <<>> THEN out ELSE Front(out),
             <<>>, segs)

JoinPaths(base, q) == IF q.abs THEN q.segs ELSE base \o q.segs

FullPath(p, q) == NormalizePath(JoinPaths(pwd[p], q))

(* str::starts_with and what follows the prefix.                           *)
StartsWith(path, prefix) ==
    LET n == Len(prefix)
    IN  \/ n = 0
        \/ /\ n <= Len(path)
           /\ SubSeq(path, 1, n - 1) = Front(prefix)
           /\ IsPrefix(Last(prefix), path[n])

Rel(path, prefix) ==
    LET n == Len(prefix)
        rest == SubSeq(path[n], Len(Last(prefix)) + 1, Len(path[n]))
    IN  IF n = 0 THEN path
        ELSE (IF rest = <<>> THEN <<>> ELSE <<rest>>) \o SubSeq(path, n + 1, Len(path))

NoRoute == [fs |-> <<"none", 0>>, rel |-> <<>>]

RouteIn(t, path) ==
    LET hits == SelectSeq(t, LAMBDA m : StartsWith(path, PrefixPath[m.prefix]))
    IN  IF hits = <<>> THEN NoRoute
        ELSE [fs |-> hits[1].fs, rel |-> Rel(path, PrefixPath[hits[1].prefix])]

Route(path) == RouteIn(mtab, path)

(* unlink does not normalise a relative path: from / it is "//name", which *)
(* begins with the prefix of the root and of no other mount point.         *)
RouteRaw(p, q) ==
    IF q.abs \/ pwd[p] # <<>> THEN Route(JoinPaths(pwd[p], q))
    ELSE RouteIn(SelectSeq(mtab, LAMBDA m : m.prefix = "/"), q.segs)

-----------------------------------------------------------------------------
(* The in-memory file system.                                              *)

GetNode(t, comps) ==
    IF comps = <<>> THEN DirNode
    ELSE IF comps \in DOMAIN t THEN t[comps] ELSE None

(* InitramfsFs::new: entry i of the archive added to the tree.  Missing    *)
(* parents are made; a path through something that is no directory is      *)
(* skipped; a file replaces what was there, a directory does not.          *)
AddEntry(t, i) ==
    LET path == Cpio[i].path
        above == {SubSeq(path, 1, n) : n \in 1..Len(path) - 1}
        made == [c \in above \ DOMAIN t |-> DirNode] @@ t
        kept == [c \in {c \in DOMAIN made : ~ IsPrefix(path, c)} |-> made[c]]
    IN  IF \E c \in above : GetNode(t, c).kind \notin {"dir", "none"} THEN t
        ELSE IF Cpio[i].kind = "dir"
        THEN (IF path \in DOMAIN made THEN made ELSE (path :> DirNode) @@ made)
        ELSE (path :> [kind |-> Cpio[i].kind, id |-> i]) @@ kept

InitramfsNew == FoldLeft(AddEntry, <<>>, [i \in DOMAIN Cpio |-> i])

(* The trees behind the mount points after fs::init.                       *)
TreeOf(fs) ==
    CASE fs[1] = "init" -> InitramfsNew
      [] fs[1] = "live" -> [c \in LiveDirs |-> DirNode]
      [] OTHER -> <<>>

Ram(fs) == fs[1] \in {"init", "/run", "/tmp", "/home", "/var/log"}
Scope(fs) == Ram(fs) \/ fs[1] = "live"

VfsNode(path) ==
    LET r == Route(path)
    IN  IF Scope(r.fs) THEN GetNode(ramfs[r.fs], r.rel) ELSE None

(* touch and mkdir: routed by the parent, with the name added to it.       *)
CanAdd(parent, name) ==
    LET r == Route(parent)
    IN  /\ Ram(r.fs)
        /\ GetNode(ramfs[r.fs], r.rel).kind = "dir"
        /\ Append(r.rel, name) \notin DOMAIN ramfs[r.fs]

Added(parent, name, node) ==
    LET r == Route(parent)
    IN  [ramfs EXCEPT ![r.fs] = (Append(r.rel, name) :> node) @@ @]

(* ls: the names below a directory, in the order of its BTreeMap.          *)
Ls(path) ==
    LET r == Route(path)
    IN  SelectSeq(CompOrder, LAMBDA c : Append(r.rel, c) \in DOMAIN ramfs[r.fs])

Zeros(n) == [i \in 1..n |-> 0]

RamWrite(data, start, n) ==
    LET end == start + n
        wide == IF end > Len(data) THEN data \o Zeros(end - Len(data)) ELSE data
    IN  [i \in 1..Len(wide) |-> IF i > start /\ i <= end THEN 1 ELSE wide[i]]

(* Cutting a file keeps its bytes (a seeded fault).                        *)
RamTruncateKeeps(data, n) ==
    IF n > Len(data) THEN data \o Zeros(n - Len(data)) ELSE data

RamTruncate(data, n) ==
    IF n > Len(data) THEN data \o Zeros(n - Len(data)) ELSE SubSeq(data, 1, n)

-----------------------------------------------------------------------------
(* Open file descriptions and descriptor tables.                           *)

Ids == 1..FMaxFiles
Descs == 1..Cardinality(FProcs) * FMaxFd

OpenDescs == {d \in Descs : ofile[d] # Unused}
UsedIds == {i \in Ids : \/ \E fs \in DOMAIN ramfs : \E c \in DOMAIN ramfs[fs] :
                              ramfs[fs][c].id = i
                        \/ \E d \in OpenDescs : ofile[d].id = i}
FreeFds(p) == {n \in 1..FMaxFd : ftab[p][n] = 0}

(* Bounds: a call that may need a file, a description or a slot has one.   *)
Room(p) == UsedIds # Ids /\ FreeFds(p) # {}

(* The description behind a descriptor of p.                               *)
File(p, n) == ofile[ftab[p][n]]
Has(p, n) == ftab[p][n] # 0
Reads(f) == f.acc # "w"
WritesTo(f) == f.acc # "r"

(* A node's length, and the two halves of a change of it: through          *)
(* description d the Vec becomes v, and d's cached size becomes n.  Every  *)
(* other description of the file keeps the size it had.                    *)
SizeOf(id) == Len(bytes[id])

Others(d, n) ==
    [e \in Descs |->
        IF ofile[e] = Unused \/ ofile[e].id # ofile[d].id \/ e = d THEN ofile[e]
        ELSE [ofile[e] EXCEPT !.alien = @ \/ n # SizeOf(ofile[d].id)]]

Changed(d, v, size, seek) ==
    /\ bytes' = [bytes EXCEPT ![ofile[d].id] = v]
    /\ ofile' = [Others(d, Len(v)) EXCEPT ![d].size = size, ![d].seek = seek]

NoDir == [seen |-> {}, there |-> {}, eof |-> FALSE]

(* openat, from the node it found or made.  A directory opened for writing *)
(* and O_DIRECTORY on a file fail; O_TRUNC cuts a file that is writable.   *)
Refused(node, m) ==
    \/ m.dironly /\ node.kind # "dir"
    \/ node.kind = "dir" /\ m.acc # "r"
    \/ m.trunc /\ node.kind = "link" /\ m.acc # "r"

Install(p, path, node, m) ==
    LET d == Min({e \in Descs : ofile[e] = Unused})
        cut == m.trunc /\ node.kind = "file" /\ m.acc # "r"
        len == IF node.kind = "dir" \/ cut THEN 0 ELSE SizeOf(node.id)
        new == [kind |-> node.kind, id |-> node.id, path |-> path, acc |-> m.acc,
                app |-> m.app, size |-> len, seek |-> IF m.app THEN len ELSE 0,
                alien |-> FALSE,
                dir |-> IF node.kind = "dir"
                        THEN [NoDir EXCEPT !.there = Range(Ls(path))] ELSE NoDir]
    IN  /\ ftab' = [ftab EXCEPT ![p][Min(FreeFds(p))] = d]
        /\ ofile' = [e \in Descs |->
                        IF e = d THEN new
                        ELSE IF cut /\ ofile[e] # Unused /\ ofile[e].id = node.id
                        THEN [ofile[e] EXCEPT !.alien = @ \/ SizeOf(node.id) # 0]
                        ELSE ofile[e]]
        /\ bytes' = IF cut THEN [bytes EXCEPT ![node.id] = RamTruncate(@, 0)] ELSE bytes
        /\ wrote' = IF cut THEN [wrote EXCEPT ![node.id] = {}] ELSE wrote

OpenExisting(p, path, m) ==
    LET node == VfsNode(path)
    IN  /\ node # None
        /\ ~ (m.creat /\ m.excl) /\ ~ Refused(node, m)
        /\ Install(p, path, node, m)
        /\ UNCHANGED ramfs

(* O_CREAT: the file is added below the parent's file system and opened by *)
(* its whole path, which another mount point may claim.                    *)
OpenCreating(p, path, m) ==
    LET parent == Front(path)
        id == Min(Ids \ UsedIds)
        node == [kind |-> "file", id |-> id]
        r == Route(path)
    IN  /\ VfsNode(path) = None /\ m.creat /\ path # <<>>
        /\ VfsNode(parent).kind = "dir" /\ CanAdd(parent, Last(path))
        /\ ramfs' = Added(parent, Last(path), node)
        /\ IF Scope(r.fs) /\ GetNode(ramfs'[r.fs], r.rel) = node /\ ~ Refused(node, m)
           THEN Install(p, path, node, m)
           ELSE UNCHANGED <<ftab, ofile, bytes, wrote>>

Openat(p, q, m) ==
    LET path == FullPath(p, q)
    IN  /\ Room(p)
        /\ OpenExisting(p, path, m) \/ OpenCreating(p, path, m)
        /\ UNCHANGED pwd

Close(p, n) ==
    /\ Has(p, n)
    /\ ftab' = [ftab EXCEPT ![p][n] = 0]
    /\ ofile' = IF \E o \in FProcs, k \in 1..FMaxFd :
                      <<o, k>> # <<p, n>> /\ ftab[o][k] = ftab[p][n]
                THEN ofile ELSE [ofile EXCEPT ![ftab[p][n]] = Unused]
    /\ UNCHANGED <<ramfs, bytes, pwd, wrote>>

Dup(p, n) ==
    /\ Has(p, n) /\ FreeFds(p) # {}
    /\ ftab' = [ftab EXCEPT ![p][Min(FreeFds(p))] = ftab[p][n]]
    /\ UNCHANGED <<ramfs, bytes, pwd, ofile, wrote>>

-----------------------------------------------------------------------------
(* Calls on a descriptor.                                                  *)

AtMost(k, n) == IF k < n THEN k ELSE n
AtLeast(k, n) == IF k > n THEN k ELSE n

Read(p, n, k) ==
    LET f == File(p, n)
        left == SizeOf(f.id) - AtMost(f.seek, SizeOf(f.id))
    IN  /\ Has(p, n) /\ Reads(f) /\ f.kind # "dir"
        /\ ofile' = [ofile EXCEPT ![ftab[p][n]].seek = @ + AtMost(k, left)]
        /\ UNCHANGED <<ramfs, bytes, pwd, ftab, wrote>>

(* O_APPEND writes at the size this description knows.                     *)
Write(p, n, k) ==
    LET f == File(p, n)
        start == IF f.app THEN f.size ELSE f.seek
        end == start + k
    IN  /\ Has(p, n) /\ WritesTo(f) /\ f.kind = "file" /\ end <= FMaxLen
        /\ Changed(ftab[p][n], RamWrite(bytes[f.id], start, k), AtLeast(f.size, end), end)
        /\ wrote' = [wrote EXCEPT ![f.id] = @ \cup (start + 1)..end]
        /\ UNCHANGED <<ramfs, pwd, ftab>>

(* The vectored calls gather or scatter one buffer of the total length.    *)
Readv(p, n, lens) == LET total == FoldLeft(+, 0, lens) IN total > 0 /\ Read(p, n, total)

Writev(p, n, lens) == LET total == FoldLeft(+, 0, lens) IN total > 0 /\ Write(p, n, total)

(* The vectors follow each other in the file; the offset stays.            *)
Pwritev(p, n, off, k) ==
    LET f == File(p, n)
    IN  /\ Has(p, n) /\ WritesTo(f) /\ f.kind = "file" /\ off + k <= FMaxLen
        /\ Changed(ftab[p][n], RamWrite(bytes[f.id], off, k), AtLeast(f.size, off + k), f.seek)
        /\ wrote' = [wrote EXCEPT ![f.id] = @ \cup (off + 1)..(off + k)]
        /\ UNCHANGED <<ramfs, pwd, ftab>>

Ftruncate(p, n, len) ==
    LET f == File(p, n)
    IN  /\ Has(p, n) /\ WritesTo(f) /\ f.kind = "file"
        /\ Changed(ftab[p][n], RamTruncate(bytes[f.id], len), len, AtMost(f.seek, len))
        /\ wrote' = [wrote EXCEPT ![f.id] = @ \cap 1..len]
        /\ UNCHANGED <<ramfs, pwd, ftab>>

(* SEEK_SET takes the offset; SEEK_END takes the size and no offset, and   *)
(* SEEK_CUR moves nothing.  A directory is rewound by seeking to 0.        *)
Lseek(p, n, whence, off) ==
    LET f == File(p, n)
        to == IF whence = "set" THEN off ELSE f.size
    IN  /\ Has(p, n) /\ whence \in {"set", "end"}
        /\ ofile' = [ofile EXCEPT ![ftab[p][n]] =
                [f EXCEPT !.seek = to,
                          !.dir = IF f.kind = "dir" /\ to = 0
                                  THEN [NoDir EXCEPT !.there = Range(Ls(f.path))]
                                  ELSE NoDir]]
        /\ UNCHANGED <<ramfs, bytes, pwd, ftab, wrote>>

(* getdents64: the entries from the offset on that fit, by their position  *)
(* in the directory as it is now.                                          *)
Getdents(p, n, room) ==
    LET f == File(p, n)
        all == Ls(f.path)
        out == SubSeq(all, f.seek + 1, AtMost(f.seek + room, Len(all)))
    IN  /\ Has(p, n) /\ f.kind = "dir"
        /\ ofile' = [ofile EXCEPT
                ![ftab[p][n]].seek = @ + Len(out),
                ![ftab[p][n]].dir.seen = @ \cup Range(out),
                ![ftab[p][n]].dir.eof = f.seek >= Len(all)]
        /\ UNCHANGED <<ramfs, bytes, pwd, ftab, wrote>>

-----------------------------------------------------------------------------
(* Calls on a path.  The in-memory file systems refuse rmdir and rename.   *)

Chdir(p, q) ==
    /\ VfsNode(FullPath(p, q)).kind = "dir"
    /\ pwd' = [pwd EXCEPT ![p] = FullPath(p, q)]
    /\ UNCHANGED <<ramfs, bytes, ftab, ofile, wrote>>

Fchdir(p, n) ==
    /\ Has(p, n) /\ File(p, n).kind = "dir"
    /\ pwd' = [pwd EXCEPT ![p] = File(p, n).path]
    /\ UNCHANGED <<ramfs, bytes, ftab, ofile, wrote>>

Mkdir(p, q) ==
    LET path == FullPath(p, q)
    IN  /\ path # <<>> /\ VfsNode(path) = None
        /\ CanAdd(Front(path), Last(path))
        /\ ramfs' = Added(Front(path), Last(path), DirNode)
        /\ UNCHANGED <<bytes, pwd, ftab, ofile, wrote>>

(* An empty path is refused; AT_FDCWD is the only base a relative one has. *)
Mkdirat(p, q) == (q.abs \/ q.segs # <<>>) /\ Mkdir(p, q)

(* A node of an in-memory file system answers -1 and stays; a path that    *)
(* names nothing answers 0.                                                *)
Unlink(p, q) ==
    LET r == RouteRaw(p, q)
        node == GetNode(ramfs[r.fs], r.rel)
    IN  /\ Ram(r.fs) \/ (r.fs[1] = "live" /\ node = None /\ DotDot \notin Range(r.rel))
        /\ answer' = [ok |-> node = None, path |-> FullPath(p, q)]
        /\ UNCHANGED <<ramfs, bytes, pwd, ftab, ofile, wrote>>

-----------------------------------------------------------------------------
FilesInit ==
    /\ MountInit
    /\ ramfs = <<>> /\ bytes = [i \in Ids |-> <<>>] /\ wrote = [i \in Ids |-> {}]
    /\ pwd = [p \in FProcs |-> <<>>]
    /\ ftab = [p \in FProcs |-> [n \in 1..FMaxFd |-> 0]]
    /\ ofile = [d \in Descs |-> Unused]
    /\ answer = NoAnswer /\ fcalls = 0

FsBoot ==
    LET trees == [fs \in {mtab'[i].fs : i \in DOMAIN mtab'} |-> TreeOf(fs)]
        held == {i \in Ids : \E fs \in DOMAIN trees : \E c \in DOMAIN trees[fs] : trees[fs][c].id = i}
    IN  /\ Boot
        /\ ramfs' = trees
        /\ bytes' = [i \in Ids |-> IF i \in held THEN <<1>> ELSE <<>>]
        /\ wrote' = [i \in Ids |-> IF i \in held THEN {1} ELSE {}]
        /\ UNCHANGED <<pwd, ftab, ofile, answer, fcalls>>

(* Calls are modelled on machines whose root is in memory or a live image. *)
FileCall ==
    /\ fcalls < FMaxCalls
    /\ mround = 1 /\ Scope(Route(<<>>).fs)
    /\ fcalls' = fcalls + 1
    /\ UNCHANGED mountVars
    /\ \E p \in FProcs :
        \/ /\ answer' = NoAnswer
           /\ \/ \E q \in UserPaths, m \in OpenModes : Openat(p, q, m)
              \/ \E q \in UserPaths : Chdir(p, q) \/ Mkdir(p, q) \/ Mkdirat(p, q)
              \/ \E n \in 1..FMaxFd :
                    \/ Close(p, n) \/ Dup(p, n) \/ Fchdir(p, n)
                    \/ Read(p, n, 1) \/ Readv(p, n, <<1, 1>>)
                    \/ Write(p, n, 1) \/ Writev(p, n, <<1, 0, 1>>)
                    \/ \E room \in 1..2 : Getdents(p, n, room)
                    \/ \E off \in 0..FMaxLen - 1 :
                          \/ Pwritev(p, n, off, 1) \/ Ftruncate(p, n, off)
                          \/ \E w \in {"set", "end"} : Lseek(p, n, w, off)
        \/ \E q \in UserPaths : Unlink(p, q)

Installs == InstallMain /\ UNCHANGED vfsVars

FilesNext == FsBoot \/ Installs \/ FileCall

FilesSpec == FilesInit /\ [][FilesNext]_<<mountVars, vfsVars>>

-----------------------------------------------------------------------------
(* The mount table, the trees, the descriptions and the descriptor tables  *)
(* hold what their Rust types allow; an entry's parent is a directory.     *)
FilesTypeOK ==
    /\ hw \in Machine /\ mround \in 0..2 /\ liveFs \in BOOLEAN
    /\ \A i \in DOMAIN mtab : mtab[i].prefix \in MountPoints
    /\ \A fs \in DOMAIN ramfs : \A c \in DOMAIN ramfs[fs] :
          /\ ramfs[fs][c].kind \in {"dir", "file", "link"}
          /\ GetNode(ramfs[fs], Front(c)).kind = "dir"
    /\ \A i \in Ids : Len(bytes[i]) <= FMaxLen /\ Range(bytes[i]) \subseteq {0, 1}
    /\ \A p \in FProcs : \A n \in 1..FMaxFd :
          ftab[p][n] \in {0} \cup Descs /\ (Has(p, n) => File(p, n) # Unused)

(***************************************************************************)
(* The root and every entry of an in-memory file system are what their     *)
(* full paths open, unless a longer mount prefix begins the path: the      *)
(* table stays sorted, so / never hides /tmp (Vfs::mount, Vfs::route).     *)
(***************************************************************************)
NamesReach ==
    \A i \in DOMAIN mtab : Ram(mtab[i].fs) /\ mround = 1 =>
        \A c \in {<<>>} \cup DOMAIN ramfs[mtab[i].fs] :
            LET full == PrefixPath[mtab[i].prefix] \o c
            IN  \/ Route(full) = [fs |-> mtab[i].fs, rel |-> c]
                \/ \E j \in DOMAIN mtab :
                        /\ PrefixLen[mtab[j].prefix] > PrefixLen[mtab[i].prefix]
                        /\ StartsWith(full, PrefixPath[mtab[j].prefix])

(***************************************************************************)
(* A byte nobody has written since the file was last cut below it reads as *)
(* zero: neither writing past the end nor growing a file that was shrunk   *)
(* brings old contents back (RamFile::write, RamFile::truncate, O_TRUNC).  *)
(***************************************************************************)
HolesZero ==
    \A i \in Ids : \A k \in DOMAIN bytes[i] : bytes[i][k] # 0 => k \in wrote[i]

(***************************************************************************)
(* A description through which alone a file has changed its size since it  *)
(* was opened knows the size: SEEK_END, O_APPEND and fstat use the copy in *)
(* the VfsNode, which write, pwritev and ftruncate must keep up to date.   *)
(***************************************************************************)
SizeKnown ==
    \A d \in OpenDescs :
        ofile[d].kind = "file" /\ ~ ofile[d].alien => ofile[d].size = SizeOf(ofile[d].id)

(***************************************************************************)
(* A directory read to its end, with buffers that hold at least one record *)
(* each, has returned every entry that was there when the reading began,   *)
(* although others add entries meanwhile (getdents64 counts positions).    *)
(***************************************************************************)
NoEntrySkipped ==
    \A d \in OpenDescs : ofile[d].dir.eof => ofile[d].dir.there \subseteq ofile[d].dir.seen

(***************************************************************************)
(* An unlink that answers 0 leaves nothing under the name.                 *)
(***************************************************************************)
UnlinkRemoves == answer.ok => VfsNode(answer.path) = None

(***************************************************************************)
(* Every path leads to one file system and, through it, to the entry it    *)
(* names, from boot through an installation (Vfs::mount, unmount, route).  *)
(***************************************************************************)
PathsSound == MountsSound /\ NamesReach

(***************************************************************************)
(* What an open description shows is the file: bytes, size and entries.    *)
(***************************************************************************)
OpenFilesTrue == FilesTypeOK /\ HolesZero /\ SizeKnown /\ NoEntrySkipped
=============================================================================
