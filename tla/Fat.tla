-------------------------------- MODULE Fat ---------------------------------
(***************************************************************************)
(* The FAT backend of the VFS (kernel/src/filesystem/fat32.rs).  FAT has   *)
(* no inodes: the driver invents a number for a path when it first meets   *)
(* it and keeps two maps, path_to_ino and ino_to_path, which descriptors   *)
(* go through on every access.  The tree itself belongs to the fatfs crate *)
(* (external); `tree` gives every path an identity, so that what a         *)
(* descriptor reaches can be compared with what it was opened on.  Names   *)
(* that differ only in case, which FAT identifies, are left out.           *)
(***************************************************************************)
EXTENDS Tables, SequencesExt

CONSTANTS
    FatNames,      \* names of files and directories
    MaxFatNodes    \* bound on files and directories ever created

VARIABLES
    tree,          \* path -> [id, dir]
    path_to_ino,
    ino_to_path,
    next_ino,
    made,          \* files and directories created so far
    fatFds         \* open descriptors: the inode and the identity they were opened on

fatVars == <<tree, path_to_ino, ino_to_path, next_ino, made, fatFds>>

FatPaths == {<<a>> : a \in FatNames} \cup (FatNames \X FatNames)

\* A card with a directory and a file in it, and nothing numbered yet.
FatInit ==
    /\ \E a, b \in FatNames :
        tree = Put(Put(NoEntries, <<a>>, [id |-> 1, dir |-> TRUE]), <<a, b>>, [id |-> 2, dir |-> FALSE])
    /\ path_to_ino = NoEntries /\ ino_to_path = NoEntries
    /\ next_ino = 1 /\ made = 2 /\ fatFds = {}

IsDir(path) == path = <<>> \/ (path \in DOMAIN tree /\ tree[path].dir)

Parent(path) == SubSeq(path, 1, Len(path) - 1)

Below(path) == {p \in DOMAIN tree : IsStrictPrefix(path, p)}

\* alloc_inode: the number the path has, or the next one.
FatInode(path) == IF path \in DOMAIN path_to_ino THEN path_to_ino[path] ELSE next_ino

fat_alloc_inode(path) ==
    /\ path_to_ino' = Put(path_to_ino, path, FatInode(path))
    /\ ino_to_path' = Put(ino_to_path, FatInode(path), path)
    /\ next_ino' = IF path \in DOMAIN path_to_ino THEN next_ino ELSE next_ino + 1

\* create_file opens an existing file and truncates it.
fat_create(path, dir) ==
    /\ IsDir(Parent(path)) /\ (path \in DOMAIN tree => tree[path].dir = dir)
    /\ IF path \in DOMAIN tree THEN UNCHANGED <<tree, made>>
       ELSE /\ made < MaxFatNodes /\ made' = made + 1
            /\ tree' = Put(tree, path, [id |-> made', dir |-> dir])
    /\ fat_alloc_inode(path)
    /\ UNCHANGED fatFds

\* resolve_path, metadata and the listing of a directory number what they find.
fat_lookup(path) ==
    /\ path \in DOMAIN tree
    /\ fat_alloc_inode(path)
    /\ UNCHANGED <<tree, made, fatFds>>

fat_open(path) ==
    /\ path \in DOMAIN tree /\ ~tree[path].dir
    /\ fat_alloc_inode(path)
    /\ fatFds' = fatFds \cup {[ino |-> FatInode(path), id |-> tree[path].id]}
    /\ UNCHANGED <<tree, made>>

fat_close(fd) == fatFds' = fatFds \ {fd} /\ UNCHANGED <<tree, path_to_ino, ino_to_path, next_ino, made>>

\* Mutant: the entries stay, and the path's next file inherits its number.
fat_forget_kept(path) == UNCHANGED <<path_to_ino, ino_to_path>>

fat_forget(path) ==
    /\ path_to_ino' = Drop(path_to_ino, {path})
    /\ ino_to_path' = IF path \in DOMAIN path_to_ino THEN Drop(ino_to_path, {path_to_ino[path]}) ELSE ino_to_path

\* remove_file, and rmdir, which is the same; fatfs refuses a directory with entries.
fat_remove(path) ==
    /\ path \in DOMAIN tree /\ Below(path) = {}
    /\ tree' = Drop(tree, {path})
    /\ fat_forget(path)
    /\ UNCHANGED <<next_ino, made, fatFds>>

Moved(path, old, new) == new \o SubSeq(path, Len(old) + 1, Len(path))

MovedKeys(old) == {p \in DOMAIN path_to_ino : IsPrefix(old, p)}

\* Mutant: what is below a renamed directory keeps its old path.
fat_moved_self(old) == {p \in DOMAIN path_to_ino : p = old}

\* The keys that rename rewrites: the path and everything below it.
fat_moved(old) == MovedKeys(old)

\* fatfs refuses an existing target; moving a directory below itself is left out.
fat_rename(old, new) ==
    LET nodes == {old} \cup Below(old)
        keys == fat_moved(old)
        nums == {path_to_ino[p] : p \in keys}
    IN  /\ old \in DOMAIN tree /\ new \notin DOMAIN tree /\ IsDir(Parent(new))
        /\ ~IsPrefix(old, new)
        /\ tree[old].dir /\ Below(old) # {} => Len(new) <= Len(old)
        /\ tree' = [p \in (DOMAIN tree \ nodes) \cup {Moved(q, old, new) : q \in nodes} |->
                      IF p \in DOMAIN tree \ nodes THEN tree[p]
                      ELSE tree[CHOOSE q \in nodes : Moved(q, old, new) = p]]
        /\ path_to_ino' = [p \in (DOMAIN path_to_ino \ keys) \cup {Moved(q, old, new) : q \in keys} |->
                      IF p \in {Moved(q, old, new) : q \in keys}
                      THEN path_to_ino[CHOOSE q \in keys : Moved(q, old, new) = p] ELSE path_to_ino[p]]
        /\ ino_to_path' = [i \in DOMAIN ino_to_path |->
                      IF i \in nums THEN Moved(ino_to_path[i], old, new) ELSE ino_to_path[i]]
        /\ UNCHANGED <<next_ino, made, fatFds>>

\* read_at and write_at open the path of the number anew: the file they reach.
fat_reached(ino) ==
    IF ino \in DOMAIN ino_to_path /\ ino_to_path[ino] \in DOMAIN tree THEN {tree[ino_to_path[ino]].id} ELSE {}

FatNext ==
    \/ \E p \in FatPaths :
        \/ \E dir \in BOOLEAN : fat_create(p, dir)
        \/ fat_lookup(p) \/ fat_open(p) \/ fat_remove(p)
        \/ \E q \in FatPaths : fat_rename(p, q)
    \/ \E fd \in fatFds : fat_close(fd)

FatSpec == FatInit /\ [][FatNext]_fatVars

(***************************************************************************)
(* Properties.                                                             *)
(***************************************************************************)
\* A descriptor reaches the file it was opened on for as long as the file exists,
\* wherever it or a directory above it is renamed to, and nothing afterwards
\* ("Synthetic FAT inode identities must survive rename so already-open file
\* descriptors continue to resolve to the moved path").
DescriptorFollowsFile ==
    \A fd \in fatFds :
        fat_reached(fd.ino) = IF \E p \in DOMAIN tree : tree[p].id = fd.id THEN {fd.id} ELSE {}

\* The two maps are inverse of each other, and no number stands for a path that
\* does not exist.
InodeMapsInverse ==
    /\ \A p \in DOMAIN path_to_ino : /\ path_to_ino[p] \in DOMAIN ino_to_path
                                     /\ ino_to_path[path_to_ino[p]] = p
    /\ \A i \in DOMAIN ino_to_path : ino_to_path[i] \in DOMAIN tree /\ path_to_ino[ino_to_path[i]] = i
=============================================================================
