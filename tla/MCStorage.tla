------------------------------ MODULE MCStorage ------------------------------
(***************************************************************************)
(* Instances for TLC of what keeps data, memory and files: TLB shootdown   *)
(* with interrupts that are lost or late, physical frames and the pages    *)
(* tasks share, the kernel heap and the address ranges drivers reserve;    *)
(* block devices, ext2, FAT, mounts and the file calls.                    *)
(*                                                                         *)
(* The components of this module share no variable and call each other     *)
(* only through what each of them models of the others, so their runs are  *)
(* checked side by side: `part` chooses one of them at the start and the   *)
(* others stay where they are. A property of one component holds of every  *)
(* behaviour here exactly when it holds of that component's own            *)
(* specification.                                                          *)
(***************************************************************************)
EXTENDS TlbShootdown, Frames, Ranges, BlockIo, Ext2, Fat, Vfs, FileCalls

VARIABLE part   \* the component that runs

mcVars == <<part, vars, frVars, rgVars, blkVars, ext2Vars, fatVars, vfsVars, fcVars>>

RgDevices == [d \in {"a", "b", "c", "d"} |->
    CASE d = "a" -> [phys |-> 0, size |-> 2, owner |-> "a"]
      [] d = "b" -> [phys |-> 1, size |-> 2, owner |-> "b"]
      [] d = "c" -> [phys |-> 4, size |-> 1, owner |-> "c"]
      [] OTHER -> [phys |-> 6, size |-> 2, owner |-> "d"]]
VfsTargets == {<<"a">>, <<"a", "b">>, <<"mnt", 0>>}
FcProcNames == <<"p1", "p2", "p3">>
FcDirPaths == {<<>>, <<"a">>, <<"m">>}
FcFilePaths == {<<"a", "f">>, <<"dev", "s">>, <<"proc", "p2", "status">>}
FcRelPaths == {<<"..", "m", "a">>}

(* Only the chosen component leaves its initial state; where a component has several,
   the others take one of them.  *)
MCInit ==
    /\ part \in {"tlb", "frames", "ranges", "block", "ext2", "fat", "vfs", "calls"}
    /\ Init
    /\ FrInit
    /\ RgInit
    /\ BlockInit
    /\ Ext2Init
    /\ part # "ext2" => disk.dirents[1][1].name = CHOOSE n \in FsNames : TRUE
    /\ FatInit
    /\ part # "fat" => LET n == CHOOSE n \in FatNames : TRUE IN <<n, n>> \in DOMAIN tree
    /\ VfsInit
    /\ FileCallsInit
    /\ part # "calls" => fc = FcStart

MCNext ==
    \/ /\ part = "tlb" /\ Next
       /\ UNCHANGED <<part, frVars, rgVars, blkVars, ext2Vars, fatVars, vfsVars, fcVars>>
    \/ /\ part = "frames" /\ FrNext
       /\ UNCHANGED <<part, vars, rgVars, blkVars, ext2Vars, fatVars, vfsVars, fcVars>>
    \/ /\ part = "ranges" /\ RgNext
       /\ UNCHANGED <<part, vars, frVars, blkVars, ext2Vars, fatVars, vfsVars, fcVars>>
    \/ /\ part = "block" /\ BlockNext
       /\ UNCHANGED <<part, vars, frVars, rgVars, ext2Vars, fatVars, vfsVars, fcVars>>
    \/ /\ part = "ext2" /\ Ext2Next
       /\ UNCHANGED <<part, vars, frVars, rgVars, blkVars, fatVars, vfsVars, fcVars>>
    \/ /\ part = "fat" /\ FatNext
       /\ UNCHANGED <<part, vars, frVars, rgVars, blkVars, ext2Vars, vfsVars, fcVars>>
    \/ /\ part = "vfs" /\ VfsNext
       /\ UNCHANGED <<part, vars, frVars, rgVars, blkVars, ext2Vars, fatVars, fcVars>>
    \/ /\ part = "calls" /\ FileCallsNext
       /\ UNCHANGED <<part, vars, frVars, rgVars, blkVars, ext2Vars, fatVars, vfsVars>>

MCSpec == MCInit /\ [][MCNext]_mcVars

-----------------------------------------------------------------------------
(* Memory: every frame is free, or held by exactly the uses that hold it, also when
   allocations fail half way and shared pages are read in by two tasks at once
   (memory/); the heap's blocks never overlap and neighbours coalesce, and no address
   range is left behind by a driver whose set-up failed.  *)
MemoryAccounted ==
    /\ part = "frames" => FramesAccounted /\ SharedRefsExact
    /\ part = "ranges" => HeapSound /\ WindowExact /\ NoOrphanRange

(* File systems and mounts: a partition's bytes are read as they are on the disk and
   written only inside the partition, whatever is cached (block devices); no block of
   ext2 belongs to two files or to one and the free list, and the count of free
   blocks is right after any sequence of calls, some of which fail (ext2.rs); a FAT
   descriptor follows its file through renames and the inode maps stay inverse
   (fat.rs); the registry, the mount table and the record of each disk agree, an
   unplugged disk is mounted nowhere and a descriptor of a file system that is gone
   reaches no other one (vfs.rs).  *)
FilesystemsSound ==
    /\ part = "block" => ReadIsTheDisk /\ WriteInRange
    /\ part = "ext2" => BlocksExclusive /\ FreeCountExact
    /\ part = "fat" => DescriptorFollowsFile /\ InodeMapsInverse
    /\ part = "vfs" => RegistryAgrees /\ DiskMountsRecorded /\ UnpluggedUnmounted /\ StaleDescriptorHarmless

(* File calls (syscalls/handler.rs, procfs, lib/src/fs.rs): descriptors of
   directories follow renames of every process, reads of a file follow each other
   without gap or repetition, a /proc file shows the process it is named after while
   slots are reused, and the library leaves no file open.  *)
FilesSound ==
    /\ part = "calls" => DirsFollowRename /\ ReadsInSequence /\ ProcShowsItsProcess /\ LibraryLeavesNoFile

(* A rename never makes a file unreachable, also when it fails half way (ext2.rs),
   and a write to a file opened for appending keeps the bytes already there, though
   another descriptor wrote in between (sys_write).  *)
FilesKeepData ==
    /\ RenameKeepsFile /\ AppendKeepsBytes
=============================================================================
