------------------------------ MODULE MCStorage ------------------------------
(***************************************************************************)
(* Instances for TLC of the storage modules: the TwilightFS directory tree *)
(* (TwilightFs), the block mapping of one of its files (TfsFile), and the  *)
(* mount table with the file system calls above it (Mounts, Files).  The   *)
(* three share no variable; `focus' says which of them a behaviour is      *)
(* about, and the other two stay in an initial state.                      *)
(***************************************************************************)
EXTENDS TwilightFs, TfsFile, Files

CONSTANTS entA, entB      \* names of TwilightFS entries

VARIABLE focus

NoTarget == <<>>

(* What the devices may hold: some drive has a TwilightFS; or nothing has  *)
(* one; or only a stick, next to an optical live system and a FAT volume.  *)
Bare == [disk |-> [d \in 1..NDisks |-> "none"], fat |-> {}, image |-> FALSE,
         virtio |-> "none", usb |-> "none", cd |-> "none"]
MCMachines ==
    {m \in Machine : /\ m.image => m.fat # {}
                     /\ m.virtio = "tfs" \/ \E d \in 1..NDisks : m.disk[d] = "tfs"}
    \cup {Bare, [Bare EXCEPT !.disk[2] = "blank", !.fat = {1}, !.usb = "tfs", !.cd = "live"]}

(* Path components: "tmpa" shares its first letters with the mount /tmp.   *)
A  == <<"a">>
B  == <<"b">>
T  == <<"tmp">>
TA == <<"tmp", "a">>
MCCompOrder == <<A, B, T, TA>>
MCCpio == <<[path |-> <<T, A>>, kind |-> "link"], [path |-> <<A, B>>, kind |-> "file"],
            [path |-> <<A>>, kind |-> "dir"], [path |-> <<T, A, B>>, kind |-> "file"],
            [path |-> <<T>>, kind |-> "dir"]>>
MCLiveDirs == {<<A>>, <<T>>, <<<<"var">>>>}

Path(abs, segs) == [abs |-> abs, segs |-> segs]
MCUserPaths == {Path(TRUE, <<>>), Path(TRUE, <<T>>), Path(TRUE, <<T, A>>), Path(TRUE, <<TA>>),
                Path(FALSE, <<A>>), Path(FALSE, <<DotDot, B>>)}

Mode(acc, flags) == [acc |-> acc, creat |-> "creat" \in flags, excl |-> "excl" \in flags,
                     trunc |-> "trunc" \in flags, app |-> "app" \in flags,
                     dironly |-> "dir" \in flags]
MCOpenModes == {Mode("r", {}), Mode("rw", {"creat", "app"}), Mode("w", {"creat", "trunc"}),
                Mode("rw", {"creat", "excl"})}

StorageSymmetry == Permutations(Names)

StorageInit ==
    /\ focus \in {"tree", "file", "vfs"}
    /\ TfsInit /\ FileInit /\ FilesInit
    /\ focus # "vfs" => hw = Bare

StorageNext ==
    /\ focus' = focus
    /\ \/ focus = "tree" /\ TfsNext /\ UNCHANGED <<fileVars, mountVars, vfsVars>>
       \/ focus = "file" /\ FileNext /\ UNCHANGED <<tfsVars, mountVars, vfsVars>>
       \/ focus = "vfs" /\ FilesNext /\ UNCHANGED <<tfsVars, fileVars>>
==============================================================================
