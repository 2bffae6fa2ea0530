-------------------------------- MODULE Vfs ---------------------------------
(***************************************************************************)
(* The mount table (kernel/src/filesystem/vfs.rs) with what feeds it:      *)
(* mount and umount2 of user programs, and removable disks (init.rs), which *)
(* publish a node in DevFS (devfs.rs) and are mounted below /mnt when they *)
(* are plugged in.  A descriptor holds a global inode: the mount id in the *)
(* top byte, and every access looks the id up again.  `mounted` numbers    *)
(* the mounts ever made, so that what a descriptor reaches can be compared *)
(* with what it was opened on.  Paths are sequences of names.              *)
(***************************************************************************)
EXTENDS Tables, SequencesExt

CONSTANTS
    Disks,         \* removable disks, by the name of their node
    Targets,       \* mount points user programs choose
    MaxFsId,       \* 255
    MaxMounts      \* bound on mounts ever made

\* Mount points are paths other than the root.
ASSUME VfsAssumption ==
    /\ \A p \in Targets : Len(p) \in Nat \ {0}
    /\ MaxFsId \in Nat \ {0} /\ MaxMounts \in Nat

VARIABLES
    mounts,        \* point -> [id, dev, nth]
    next_fs_id,
    mounted,       \* mounts made so far
    registry,      \* MOUNT_REGISTRY
    device_mounts, \* DEVICE_MOUNTS: pairs of a disk and a point
    nodes,         \* DevFS block nodes
    vfsFds         \* descriptors: the id and the mount they were opened on

vfsVars == <<mounts, next_fs_id, mounted, registry, device_mounts, nodes, vfsFds>>

DevPoint == <<"dev">>

\* The root filesystem has id 0; /dev stands for /dev and /proc.
VfsInit ==
    /\ mounts = Put(NoEntries, DevPoint, [id |-> 1, dev |-> "devfs", nth |-> 1])
    /\ next_fs_id = 2 /\ mounted = 1
    /\ registry = {<<>>, DevPoint} /\ device_mounts = {} /\ nodes = {} /\ vfsFds = {}

(***************************************************************************)
(* vfs.rs                                                                  *)
(***************************************************************************)
\* The id after i; 0 is the root filesystem's.
NextId(i) == IF i = MaxFsId THEN 1 ELSE i + 1

UsedIds == {mounts[p].id : p \in DOMAIN mounts}

\* Mutant: the smallest free id.
alloc_mount_id_least == Least((1..MaxFsId) \ UsedIds)

\* The first free id from next_fs_id on, in the order of a 255-number circle.
alloc_mount_id ==
    LET after == {i \in next_fs_id..MaxFsId : i \notin UsedIds}
    IN  IF after # {} THEN Least(after) ELSE Least((1..MaxFsId) \ UsedIds)

\* What vfs.mount does: nothing when the point is taken or there is no id.
vfs_mount(point, dev) ==
    IF point \in DOMAIN mounts \/ (1..MaxFsId) \subseteq UsedIds
    THEN UNCHANGED <<mounts, next_fs_id, mounted, registry>>
    ELSE /\ mounts' = Put(mounts, point, [id |-> alloc_mount_id, dev |-> dev, nth |-> mounted + 1])
         /\ mounted' = mounted + 1 /\ next_fs_id' = NextId(alloc_mount_id)
         /\ registry' = registry \cup {point}

\* Mutant: MOUNT_REGISTRY keeps the point.
vfs_unmount_registered(points) ==
    /\ mounts' = Drop(mounts, points) /\ UNCHANGED <<registry, next_fs_id, mounted>>

vfs_unmount(points) ==
    /\ mounts' = Drop(mounts, points)
    /\ registry' = registry \ (points \cap DOMAIN mounts)
    /\ UNCHANGED <<next_fs_id, mounted>>

\* resolve: the mount whose point is the longest prefix of the path; 0 the root.
vfs_resolve(path) ==
    LET over == {p \in DOMAIN mounts : IsPrefix(p, path)} IN
    IF over = {} THEN [id |-> 0, dev |-> "root", nth |-> 0]
    ELSE mounts[CHOOSE p \in over : \A q \in over : Len(q) <= Len(p)]

\* The mounts an access through the id reaches.
vfs_reached(id) == IF id = 0 THEN {0} ELSE {mounts[p].nth : p \in {q \in DOMAIN mounts : mounts[q].id = id}}

vfs_open(path) ==
    /\ vfsFds' = vfsFds \cup {[id |-> vfs_resolve(path).id, nth |-> vfs_resolve(path).nth]}
    /\ UNCHANGED <<mounts, next_fs_id, mounted, registry, device_mounts, nodes>>

vfs_close(fd) ==
    /\ vfsFds' = vfsFds \ {fd}
    /\ UNCHANGED <<mounts, next_fs_id, mounted, registry, device_mounts, nodes>>

(***************************************************************************)
(* init.rs and the mount system calls                                      *)
(***************************************************************************)
\* Mutant: only the mounts user programs ask for are recorded.
record_device_mount_user(dev, point) ==
    device_mounts' = IF point \in Targets THEN device_mounts \cup {<<dev, point>>} ELSE device_mounts

\* record_device_mount, when the mount succeeded.
record_device_mount(dev, point) ==
    device_mounts' = IF point \in DOMAIN mounts'
                     THEN {m \in device_mounts : m[2] # point} \cup {<<dev, point>>}
                     ELSE device_mounts

\* sys_mount: mount_device_at.
sys_mount(dev, point) ==
    /\ dev \in nodes /\ point \notin DOMAIN mounts /\ mounted < MaxMounts
    /\ vfs_mount(point, dev)
    /\ record_device_mount(dev, point)
    /\ UNCHANGED <<nodes, vfsFds>>

\* Mutant: the association of the disk and the point stays.
forget_device_mount_kept(point) == UNCHANGED device_mounts

forget_device_mount(point) == device_mounts' = {m \in device_mounts : m[2] # point}

\* /, /dev and /proc are refused.
sys_umount2(point) ==
    /\ point \in DOMAIN mounts /\ point # DevPoint
    /\ vfs_unmount({point})
    /\ forget_device_mount(point)
    /\ UNCHANGED <<nodes, vfsFds>>

\* /mnt/<prefix>N with the first N whose point is free; the file system may be unknown.
RemovablePoint(n) == <<"mnt", n>>

plug(dev) ==
    LET n == Least({i \in 0..MaxMounts : RemovablePoint(i) \notin DOMAIN mounts}) IN
    /\ dev \notin nodes /\ mounted < MaxMounts
    /\ nodes' = nodes \cup {dev}
    /\ \/ /\ RemovablePoint(n) \notin DOMAIN mounts
          /\ vfs_mount(RemovablePoint(n), dev)
          /\ record_device_mount(dev, RemovablePoint(n))
       \/ UNCHANGED <<mounts, next_fs_id, mounted, registry, device_mounts>>
    /\ UNCHANGED vfsFds

\* unmount_device_mounts, then the node goes.
unplug(dev) ==
    /\ dev \in nodes /\ nodes' = nodes \ {dev}
    /\ vfs_unmount({m[2] : m \in {x \in device_mounts : x[1] = dev}})
    /\ device_mounts' = {m \in device_mounts : m[1] # dev}
    /\ UNCHANGED vfsFds

VfsNext ==
    \/ \E dev \in Disks : plug(dev) \/ unplug(dev) \/ \E p \in Targets : sys_mount(dev, p)
    \/ \E p \in DOMAIN mounts : sys_umount2(p) \/ vfs_open(p)
    \/ \E p \in Targets : vfs_open(p)
    \/ \E fd \in vfsFds : vfs_close(fd)

VfsSpec == VfsInit /\ [][VfsNext]_vfsVars

(***************************************************************************)
(* Properties.                                                             *)
(***************************************************************************)
\* The registry /proc/mounts shows is the mount table, root included.
RegistryAgrees == registry = DOMAIN mounts \cup {<<>>}

\* A disk is recorded with exactly the points where it is mounted, so unplugging it
\* unmounts its own mounts, all of them, and no other disk's.
DiskMountsRecorded ==
    device_mounts = {<<mounts[p].dev, p>> : p \in DOMAIN mounts \ {DevPoint}}

\* An unplugged disk is mounted nowhere.
UnpluggedUnmounted == \A p \in DOMAIN mounts \ {DevPoint} : mounts[p].dev \in nodes

\* A descriptor that outlives its mount reaches nothing, and not the file system
\* mounted next, until every id has been given out once.
StaleDescriptorHarmless ==
    mounted <= MaxFsId => \A fd \in vfsFds : vfs_reached(fd.id) \subseteq {fd.nth}
=============================================================================
