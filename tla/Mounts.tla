------------------------------- MODULE Mounts -------------------------------
(***************************************************************************)
(* The mount table of the VFS (sys/fs/vfs.rs), what fs::init mounts for    *)
(* the disks it finds (sys/fs/mod.rs), and the installer, which runs       *)
(* fs::init a second time while the live system is mounted and then        *)
(* unmounts the live system (kernel_utils/install.rs).                     *)
(*                                                                         *)
(* A file system instance is <<kind, round>>: the round of fs::init that   *)
(* mounted it, so that the second DevFs is not the first.  Everything that *)
(* a probe reads from a device is a field of the machine `hw'.             *)
(***************************************************************************)
EXTENDS Naturals, Sequences, SequencesExt, TLC

CONSTANTS NDisks,      \* ATA drives probed, in the order bus 0:0, 0:1, 1:0, 1:1
          Machines     \* the machines fs::init may find

VARIABLES mtab,        \* VFS.mount_points
          hw,          \* what the devices hold
          liveFs,      \* LIVE_SYSTEM_FS is Some
          mround       \* runs of fs::init so far

mountVars == <<mtab, hw, liveFs, mround>>

(* disk: what an ATA drive holds; fat: drives whose FAT partition opens;   *)
(* image: that FAT volume has a good SYSTEM.TFS; virtio, usb, cd alike.    *)
Machine == [disk : [1..NDisks -> {"none", "blank", "tfs"}],
            fat : SUBSET (1..NDisks), image : BOOLEAN,
            virtio : {"none", "blank", "tfs"},
            usb : {"none", "other", "tfs", "live"},
            cd : {"none", "other", "live"}]

(* Characters in a mount prefix, which is what the table is sorted by.     *)
PrefixLen == ("/" :> 1) @@ ("/dev" :> 4) @@ ("/run" :> 4) @@ ("/tmp" :> 4)
          @@ ("/proc" :> 5) @@ ("/boot" :> 5) @@ ("/home" :> 5)
          @@ ("/var/log" :> 8) @@ ("/mnt/usb" :> 8)
          @@ ("/media/install" :> 14)

MountPoints == DOMAIN PrefixLen

(* The table with a mount point pushed but not sorted (a seeded fault).    *)
MountUnsorted(t, prefix, fs) == Append(t, [prefix |-> prefix, fs |-> fs])

(* Push and stable sort, longest prefix first: the new mount point lands   *)
(* behind those whose prefix is as long.                                   *)
Mount(t, prefix, fs) ==
    LET before == SelectSeq(t, LAMBDA m : PrefixLen[m.prefix] >= PrefixLen[prefix])
        after == SelectSeq(t, LAMBDA m : PrefixLen[m.prefix] < PrefixLen[prefix])
    IN  before \o <<[prefix |-> prefix, fs |-> fs]>> \o after

Mounted(t, prefix) == \E i \in DOMAIN t : t[i].prefix = prefix

(* Only the first mount point with the prefix is removed.                  *)
Unmount(t, prefix) ==
    IF Mounted(t, prefix)
    THEN RemoveAt(t, SelectInSeq(t, LAMBDA m : m.prefix = prefix))
    ELSE t

TryMountBoot(t, h, d, r) ==
    IF Mounted(t, "/boot") \/ d \notin h.fat THEN t
    ELSE Mount(t, "/boot", <<"fat", r>>)

(* The directories the mount wants below / are made by TwilightFS, or not  *)
(* at all where / is read-only or not mounted yet: errors are ignored.     *)
TryInitUsbStorage(t, h, r) ==
    IF h.usb = "tfs" /\ ~ Mounted(t, "/mnt/usb")
    THEN Mount(t, "/mnt/usb", <<"usb", r>>) ELSE t

DevAndProc(t, r) == Mount(Mount(t, "/dev", <<"dev", r>>), "/proc", <<"proc", r>>)

MountPseudoFilesystems(t, r) ==
    FoldLeft(LAMBDA acc, p : Mount(acc, p, <<p, r>>), DevAndProc(t, r),
             <<"/run", "/tmp", "/home", "/var/log">>)

TryMountLiveImage(t, media, r) ==
    LET root == Mount(t, "/", <<"live", r>>)
    IN  IF media THEN Mount(root, "/media/install", <<"iso", r>>) ELSE root

(* The table with a live system mounted, or the table as it is.            *)
TryMountLiveSystem(t, h, r) ==
    IF Mounted(t, "/boot") /\ h.image THEN TryMountLiveImage(t, FALSE, r)
    ELSE IF h.cd = "live" \/ h.usb = "live" THEN TryMountLiveImage(t, TRUE, r)
    ELSE t

TryMountRootfs(t, r) == Mount(t, "/", <<"init", r>>)

(* The first drive with a TwilightFS, or NDisks + 1; every drive up to it  *)
(* is tried for /boot.                                                     *)
FirstTfs(h) == SelectInSeq([i \in 1..NDisks + 1 |-> i > NDisks \/ h.disk[i] = "tfs"],
                           LAMBDA found : found)

BootScan(t, h, last, r) ==
    FoldLeft(LAMBDA acc, d : TryMountBoot(acc, h, d, r), t, [i \in 1..last |-> i])

(* fs::init found a TwilightFS on ATA drive d.                             *)
InitAta(t, h, d, r) ==
    LET root == DevAndProc(Mount(BootScan(t, h, d, r), "/", <<"tfs", r>>), r)
    IN  TryMountBoot(TryInitUsbStorage(root, h, r), h, d, r)

(* It found one on the virtio disk: the root mounted before is unmounted.  *)
InitVirtio(t, h, r) ==
    TryInitUsbStorage(DevAndProc(Mount(Unmount(t, "/"), "/", <<"tfs", r>>), r), h, r)

FsInit(t, h, r) ==
    LET d == FirstTfs(h)
        boot == BootScan(t, h, NDisks, r)
        alive == TryMountLiveSystem(boot, h, r)
    IN  CASE d <= NDisks -> InitAta(t, h, d, r)
          [] d > NDisks /\ h.virtio = "tfs" -> InitVirtio(boot, h, r)
          [] d > NDisks /\ h.virtio # "tfs" /\ alive # boot
             -> MountPseudoFilesystems(alive, r)
          [] OTHER -> TryMountRootfs(TryInitUsbStorage(DevAndProc(boot, r), h, r), r)

(* BLOCK_DEVICE: the virtio disk, or the last ATA drive that answered.     *)
Drives(h) == {d \in 1..NDisks : h.disk[d] # "none"}

Formatted(h) ==
    IF h.virtio # "none" THEN [h EXCEPT !.virtio = "tfs"]
    ELSE [h EXCEPT !.disk[CHOOSE d \in Drives(h) : \A e \in Drives(h) : e <= d] = "tfs"]

MountInit == mtab = <<>> /\ hw \in Machines /\ liveFs = FALSE /\ mround = 0

Boot ==
    /\ mround = 0
    /\ mtab' = FsInit(<<>>, hw, 1)
    /\ mround' = 1
    /\ liveFs' = \E i \in DOMAIN mtab' : mtab'[i].fs[1] = "live"
    /\ UNCHANGED hw

(* install::main: format the disk, run fs::init again, copy, and unmount   *)
(* the live system.                                                        *)
InstallMain ==
    /\ mround = 1 /\ liveFs
    /\ hw.virtio # "none" \/ Drives(hw) # {}
    /\ hw' = Formatted(hw)
    /\ mtab' = FoldLeft(Unmount, FsInit(mtab, hw', 2),
                        <<"/run", "/tmp", "/home", "/var/log", "/media/install",
                          "/dev", "/proc", "/">>)
    /\ mround' = 2 /\ liveFs' = FALSE

(***************************************************************************)
(* Once fs::init has run there is one root file system, one /dev and one   *)
(* /proc, and no two mount points share a prefix, so that none hides       *)
(* another; after an installation on an ATA drive the root is that         *)
(* drive's TwilightFS and nothing of the live system is left.              *)
(***************************************************************************)
MountsSound ==
    mround = 0 \/ (mround = 2 /\ hw.virtio # "none")
    \/ /\ \A p \in {"/", "/dev", "/proc"} : Mounted(mtab, p)
       /\ \A i, j \in DOMAIN mtab : mtab[i].prefix = mtab[j].prefix => i = j
       /\ mround = 2 =>
            /\ \E i \in DOMAIN mtab : mtab[i] = [prefix |-> "/", fs |-> <<"tfs", 2>>]
            /\ \A i \in DOMAIN mtab : mtab[i].fs[2] = 1 => mtab[i].prefix = "/boot"
=============================================================================
