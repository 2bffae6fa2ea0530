-------------------------------- MODULE Ext2 --------------------------------
(***************************************************************************)
(* The ext2 driver (kernel/src/filesystem/ext2.rs) on the one block group  *)
(* it allocates from.  The VFS lock makes each operation one step.  `disk` *)
(* is what is on the medium:                                               *)
(*   imap, bmap  bits set in the inode and the block bitmap;               *)
(*   nfree       bg_free_blocks_count;                                     *)
(*   inode       the inode table: mode, direct block pointers, table       *)
(*               (i_block[12], 0 when absent);                             *)
(*   dirents     directory blocks: the entries in order, inode 0 = removed; *)
(*   ptrs        single-indirect blocks: their pointers.                   *)
(* A directory entry made by this code fills its block to the end, so the  *)
(* next one always takes another block.  The image comes from mke2fs: bit  *)
(* n - 1 of the inode bitmap stands for inode n.  Doubly and triply        *)
(* indirect blocks are read, never written, and left out, and so are       *)
(* sizes, times and link counts.                                           *)
(***************************************************************************)
EXTENDS Tables, FiniteSets, SequencesExt

CONSTANTS
    FsNames,       \* names of files and directories
    LastInode,     \* s_inodes_per_group; the inodes the driver allocates start at 2
    LastBlock,     \* data blocks 1..LastBlock
    NDirect,       \* direct pointers (12)
    NPtrs,         \* pointers of an indirect block (block_size / 4)
    MaxFsOps       \* bound on operations

ASSUME Ext2Assumption ==
    /\ LastInode \in Nat /\ LastInode >= 2 /\ LastBlock \in Nat \ {0}
    /\ NDirect \in Nat \ {0} /\ NPtrs \in Nat

VARIABLES
    disk,
    handles,   \* inode numbers descriptors hold
    fsOps      \* operations so far

ext2Vars == <<disk, handles, fsOps>>

RootInode == 1             \* inode 2 of the code

FirstInode == 2            \* inode 12 of the code

Ext2Inodes == RootInode..LastInode

FreeInode == [mode |-> "none", direct |-> [i \in 1..NDirect |-> 0], table |-> 0]

Entry(name, n) == [name |-> name, inode |-> n]

\* A root directory and the file mke2fs put there, in inode FirstInode.
Ext2Init ==
    /\ handles = {} /\ fsOps = 0
    /\ \E name \in FsNames :
        disk = [ imap |-> {RootInode - 1, FirstInode - 1}, bmap |-> {1}, nfree |-> LastBlock - 1,
                 inode |-> [n \in Ext2Inodes |->
                     CASE n = RootInode  -> [FreeInode EXCEPT !.mode = "dir", !.direct[1] = 1]
                       [] n = FirstInode -> [FreeInode EXCEPT !.mode = "file"]
                       [] OTHER          -> FreeInode],
                 dirents |-> Put(NoEntries, 1, <<Entry(name, FirstInode)>>), ptrs |-> NoEntries ]

(***************************************************************************)
(* Reading.                                                                *)
(***************************************************************************)
\* The places of a directory's entries: a pointer and an entry of the block it names.
DirSlots(d, n) ==
    LET ptrs == d.inode[n].direct IN
    UNION {{i} \X DOMAIN d.dirents[ptrs[i]] : i \in {j \in 1..NDirect : ptrs[j] \in DOMAIN d.dirents}}

EntryAt(d, n, e) == d.dirents[d.inode[n].direct[e[1]]][e[2]]

FirstSlot(S) == CHOOSE x \in S : \A y \in S : x[1] < y[1] \/ (x[1] = y[1] /\ x[2] <= y[2])

\* 0 when the directory has no such entry.
find_dir_entry(d, n, name) ==
    LET hit == {e \in DirSlots(d, n) : EntryAt(d, n, e).name = name /\ EntryAt(d, n, e).inode # 0}
    IN  IF d.inode[n].mode # "dir" \/ hit = {} THEN 0 ELSE EntryAt(d, n, FirstSlot(hit)).inode

resolve_path(d, path) ==
    LET at[i \in 0..Len(path)] ==
            IF i = 0 THEN RootInode ELSE IF at[i - 1] = 0 THEN 0 ELSE find_dir_entry(d, at[i - 1], path[i])
    IN  at[Len(path)]

\* The block of a file's logical block i, 0 for a hole.
resolve_block(d, ino, i) ==
    IF i <= NDirect THEN ino.direct[i]
    ELSE IF ino.table = 0 THEN 0 ELSE d.ptrs[ino.table][i - NDirect]

(***************************************************************************)
(* Allocation.                                                             *)
(***************************************************************************)
FreeBlocks(d) == (1..LastBlock) \ d.bmap

alloc_block(d) == [d EXCEPT !.bmap = @ \cup {Least(FreeBlocks(d))}, !.nfree = IF @ > 0 THEN @ - 1 ELSE 0]

\* free_block clears the bit and counts it, for every direct pointer in use.
free_blocks_of_inode(d, n) ==
    LET ptrs == d.inode[n].direct
        used == {i \in 1..NDirect : ptrs[i] # 0}
    IN  [d EXCEPT !.bmap = @ \ {ptrs[i] : i \in used}, !.nfree = @ + Cardinality(used)]

FreeBits(d) == (FirstInode..LastInode - 1) \ d.imap

\* alloc_inode returns the number of the bit it sets.
alloc_inode(d) == [d EXCEPT !.imap = @ \cup {Least(FreeBits(d))}]

\* Mutant: the inode keeps its contents.
free_inode_unzeroed(d, n) == [d EXCEPT !.imap = @ \ {n - 1}]

\* free_inode clears the bit below it, and zeroes the inode.
free_inode(d, n) == [d EXCEPT !.imap = @ \ {n - 1}, !.inode[n] = FreeInode]

\* s: the disk, the inode in memory and whether all went well; NoRoom when no block is free.
NoRoom(s) == [s EXCEPT !.ok = FALSE]

ensure_table(s) ==
    IF s.ino.table # 0 THEN s
    ELSE IF FreeBlocks(s.d) = {} THEN NoRoom(s)
    ELSE LET b == Least(FreeBlocks(s.d)) IN
         [s EXCEPT !.d = [alloc_block(s.d) EXCEPT !.ptrs = Put(@, b, [i \in 1..NPtrs |-> 0])],
                   !.ino.table = b]

ensure_pointer(s, i) ==
    IF resolve_block(s.d, s.ino, i) # 0 THEN s
    ELSE IF FreeBlocks(s.d) = {} THEN NoRoom(s)
    ELSE LET b == Least(FreeBlocks(s.d)) IN
         IF i <= NDirect THEN [s EXCEPT !.d = alloc_block(s.d), !.ino.direct[i] = b]
         ELSE [s EXCEPT !.d = [alloc_block(s.d) EXCEPT !.ptrs[s.ino.table][i - NDirect] = b]]

ensure_file_block(s, i) ==
    IF ~s.ok THEN s
    ELSE IF i <= NDirect THEN ensure_pointer(s, i)
    ELSE LET t == ensure_table(s) IN IF t.ok THEN ensure_pointer(t, i) ELSE t

EnsureBlocks(d, ino, k) ==
    LET s[i \in 0..k] == IF i = 0 THEN [d |-> d, ino |-> ino, ok |-> TRUE] ELSE ensure_file_block(s[i - 1], i)
    IN  s[k]

(***************************************************************************)
(* Directory entries.  An operation returns the disk and its result.       *)
(***************************************************************************)
EditDone(d, ok) == [d |-> d, ok |-> ok]

\* The first direct pointer that is unused gets a fresh block.
add_dir_entry(d, dir, name, n) ==
    LET unused == {i \in 1..NDirect : d.inode[dir].direct[i] = 0} IN
    IF d.inode[dir].mode # "dir" \/ unused = {} \/ FreeBlocks(d) = {} THEN EditDone(d, FALSE)
    ELSE LET b == Least(FreeBlocks(d)) IN
         EditDone([alloc_block(d) EXCEPT !.inode[dir].direct[Least(unused)] = b,
                                     !.dirents = Put(@, b, <<Entry(name, n)>>)], TRUE)

\* The first entry with the name is cleared, a removed one included.
remove_dir_entry(d, dir, name) ==
    LET hit == {e \in DirSlots(d, dir) : EntryAt(d, dir, e).name = name}
        h == FirstSlot(hit)
    IN  IF d.inode[dir].mode # "dir" \/ hit = {} THEN EditDone(d, FALSE)
        ELSE EditDone([d EXCEPT !.dirents[d.inode[dir].direct[h[1]]][h[2]].inode = 0], TRUE)

(***************************************************************************)
(* Operations of the Filesystem trait.                                     *)
(***************************************************************************)
write_file_by_inode(d, n, k) ==
    LET s == EnsureBlocks(d, d.inode[n], k) IN
    IF d.inode[n].mode # "file" \/ k > NDirect + NPtrs THEN d
    ELSE IF s.ok THEN [s.d EXCEPT !.inode[n] = s.ino] ELSE s.d

\* The table of a large file is allocated before its blocks.
create_new_file(d, path, k) ==
    LET parent == resolve_path(d, Front(path))
        n == Least(FreeBits(d))
        d1 == alloc_inode(d)
        t == IF k > NDirect THEN ensure_table([d |-> d1, ino |-> [FreeInode EXCEPT !.mode = "file"], ok |-> TRUE])
             ELSE [d |-> d1, ino |-> [FreeInode EXCEPT !.mode = "file"], ok |-> TRUE]
        s == IF t.ok THEN EnsureBlocks(t.d, t.ino, k) ELSE t
    IN  IF parent = 0 \/ FreeBits(d) = {} THEN d
        ELSE IF d.inode[parent].mode # "dir" THEN d
        ELSE IF k > NDirect + NPtrs THEN d1
        ELSE IF ~s.ok THEN s.d
        ELSE add_dir_entry([s.d EXCEPT !.inode[n] = s.ino], parent, Last(path), n).d

create_file(path, k) ==
    LET n == resolve_path(disk, path) IN
    /\ disk' = IF n # 0 THEN write_file_by_inode(disk, n, k) ELSE create_new_file(disk, path, k)
    /\ UNCHANGED handles

open_path(path) ==
    /\ resolve_path(disk, path) # 0
    /\ handles' = handles \cup {resolve_path(disk, path)} /\ UNCHANGED disk

close_inode(n) == n \in handles /\ handles' = handles \ {n} /\ UNCHANGED disk

\* The inode is written back even when no block was free.
write_at(n, i) ==
    LET s == ensure_file_block([d |-> disk, ino |-> disk.inode[n], ok |-> TRUE], i) IN
    /\ n \in handles /\ disk.inode[n].mode = "file"
    /\ disk' = [s.d EXCEPT !.inode[n] = s.ino]
    /\ UNCHANGED handles

\* Files of the root only.
remove_file(path) ==
    LET n == resolve_path(disk, path)
        r == remove_dir_entry(disk, RootInode, path[1])
    IN  /\ n # 0 /\ Len(path) = 1
        /\ disk.inode[n].mode # "dir"
        /\ disk' = IF r.ok THEN free_inode(free_blocks_of_inode(r.d, n), n) ELSE disk
        /\ UNCHANGED handles

\* In the root only.  "." and ".." are left out.
mkdir(name) ==
    LET d1 == alloc_inode(disk)
        n == Least(FreeBits(disk))
        b == Least(FreeBlocks(disk))
        d2 == [alloc_block(d1) EXCEPT !.inode[n] = [FreeInode EXCEPT !.mode = "dir", !.direct[1] = b],
                                      !.dirents = Put(@, b, <<>>)]
    IN  /\ resolve_path(disk, <<name>>) = 0 /\ FreeBits(disk) # {}
        /\ disk' = IF FreeBlocks(disk) = {} THEN d1 ELSE add_dir_entry(d2, RootInode, name, n).d
        /\ UNCHANGED handles

\* list_directory_entries_by_inode returns None, so rmdir never removes anything.
rmdir(path) == resolve_path(disk, path) # 0 /\ UNCHANGED <<disk, handles>>

\* Mutant: the old name goes first, and a failure to add the new one is the end.
link_then_unlink_swapped(d, old, oldDir, new, newDir, n) ==
    LET r == remove_dir_entry(d, oldDir, Last(old)) IN
    IF ~r.ok THEN d ELSE add_dir_entry(r.d, newDir, Last(new), n).d

\* The new name first; a failure to remove the old one takes the new one back.
link_then_unlink(d, old, oldDir, new, newDir, n) ==
    LET a == add_dir_entry(d, newDir, Last(new), n)
        r == remove_dir_entry(a.d, oldDir, Last(old))
    IN  IF ~a.ok THEN d
        ELSE IF r.ok THEN r.d ELSE remove_dir_entry(a.d, newDir, Last(new)).d

\* A directory is not moved below itself (by its path).
rename(old, new) ==
    LET n == resolve_path(disk, old)
        oldDir == resolve_path(disk, Front(old))
        newDir == resolve_path(disk, Front(new))
    IN  /\ n # 0 /\ newDir # 0 /\ resolve_path(disk, new) = 0
        /\ disk.inode[oldDir].mode = "dir" /\ disk.inode[newDir].mode = "dir"
        /\ disk.inode[n].mode = "dir" => Front(new) # old
        /\ disk' = link_then_unlink(disk, old, oldDir, new, newDir, n)
        /\ UNCHANGED handles

FsPaths == {<<a>> : a \in FsNames} \cup (FsNames \X FsNames)

Ext2Op ==
    \/ \E p \in FsPaths : \/ \E k \in {0, 1, NDirect + 1, NDirect + NPtrs + 1} : create_file(p, k)
                          \/ open_path(p) \/ remove_file(p) \/ rmdir(p)
                          \/ \E q \in FsPaths : rename(p, q)
    \/ \E n \in Ext2Inodes : close_inode(n) \/ \E i \in 1..NDirect + NPtrs : write_at(n, i)
    \/ \E name \in FsNames : mkdir(name)

Ext2Next == fsOps < MaxFsOps /\ fsOps' = fsOps + 1 /\ Ext2Op

Ext2Spec == Ext2Init /\ [][Ext2Next]_ext2Vars

(***************************************************************************)
(* Properties.                                                             *)
(***************************************************************************)
InodeBlocks(d, n) ==
    LET ino == d.inode[n] IN
    {ino.table} \cup {resolve_block(d, ino, i) : i \in 1..NDirect + NPtrs}

\* Two inodes never share a block and the blocks of an inode are marked in the
\* block bitmap, although inode numbers are freed and reused wrongly, operations
\* stop half-way for want of space and descriptors outlive their file.
BlocksExclusive ==
    \A m \in Ext2Inodes : LET bs == InodeBlocks(disk, m) \ {0} IN
        /\ bs \subseteq disk.bmap
        /\ \A n \in Ext2Inodes \ {m} : bs \cap InodeBlocks(disk, n) = {}

\* bg_free_blocks_count is the number of clear bits: no block is freed twice.
FreeCountExact == disk.nfree = Cardinality(FreeBlocks(disk))

Named(d) == {find_dir_entry(d, n, name) : n \in Ext2Inodes, name \in FsNames} \ {0}

\* A rename never leaves the file without a name, whether it succeeds, finds the
\* directory full or the disk full ("Link the existing inode under the new name
\* first; only then remove the old dirent").
RenameKeepsFile ==
    [][Named(disk) \subseteq Named(disk') \/ ~\E p, q \in FsPaths : rename(p, q)]_ext2Vars
=============================================================================
