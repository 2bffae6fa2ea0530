------------------------------ MODULE FileCalls ------------------------------
(* The file system calls (kernel/src/syscalls/handler.rs) above the namespace
   of vfs.rs: the root file system, /dev (devfs.rs), /proc (procfs.rs) and a
   stick that comes and goes at /m/u; and the library (lib/src/fs.rs), whose
   operations are several calls each.

   A path is a sequence of names below /.  A directory descriptor holds the
   path it was opened with, a file descriptor a global inode; offset and
   cookie live in the open file description.  The root file system keeps the
   contract of the Filesystem trait: `born` numbers its files, so that what a
   descriptor reaches can be compared with what it was opened on.  `got` and
   `stable` are history: what was read through the description in sequence, and
   whether what is read has stayed the same meanwhile.  *)
EXTENDS Tables, SequencesExt, FiniteSetsExt

CONSTANTS ProcNames,    \* names of processes; the index is the pid
          LibProcs,     \* processes that use the library
          FcFds,        \* descriptor numbers
          FcInodes,     \* inodes of the root file system
          FcMaxPath,    \* length of a path a directory descriptor can hold (96)
          DirPaths, FilePaths, \* paths programs name, absolute
          RelPaths,     \* and relative
          ProcSpace,    \* local inodes of a mount (2^24)
          MaxFileCalls  \* bound on calls

VARIABLES fc, fcCalls
fcVars == <<fc, fcCalls>>

Missing == [kind |-> "none", fs |-> "none", ino |-> 0, born |-> 0]
PidOf(p) == CHOOSE i \in DOMAIN ProcNames : ProcNames[i] = p
Users == ToSet(ProcNames) \ LibProcs
LibIdle == [op |-> "idle", fd |-> 0, path |-> <<>>, out |-> <<>>]
FcTask == [cwd |-> <<>>, fds |-> NoEntries, lib |-> LibIdle]
FcDir(ino, born) == [kind |-> "d", ino |-> ino, born |-> born]
FcFile(ino, born) == [kind |-> "f", ino |-> ino, born |-> born]

FcStart == [tree |-> Put(Put(Put(NoEntries, <<>>, FcDir(1, 1)), <<"a">>, FcDir(2, 2)), <<"a", "f">>, FcFile(3, 3)),
            data |-> Put(NoEntries, 3, <<"x", "y">>), births |-> 3, pids |-> 2,
            tasks |-> [p \in {ProcNames[1], ProcNames[2]} |-> FcTask],
            ofds |-> NoEntries, devs |-> NoEntries, devNext |-> 1, usb |-> FALSE]

-----------------------------------------------------------------------------
(* vfs.rs: which file system a path belongs to, and directories that exist
   only because something is mounted below them.  *)
Points(s) == {<<"dev">>, <<"proc">>} \cup IF s.usb THEN {<<"m", "u">>} ELSE {}
FsAt(point) == CASE point = <<"dev">> -> "dev" [] point = <<"proc">> -> "proc" [] OTHER -> "usb"
resolve(s, path) ==
    LET over == {m \in Points(s) : IsPrefix(m, path)}
    IN IF over = {} THEN [fs |-> "root", rel |-> path]
       ELSE LET m == CHOOSE x \in over : \A y \in over : Len(y) <= Len(x)
            IN [fs |-> FsAt(m), rel |-> SubSeq(path, Len(m) + 1, Len(path))]
has_mount_descendant(s, path) == \E m \in Points(s) : IsStrictPrefix(path, m)
add_mount_children(s, path, entries) ==
    LET below == {m[Len(path) + 1] : m \in {x \in Points(s) : IsStrictPrefix(path, x)}}
    IN entries \o SetToSeq(below \ ToSet(entries))

(* procfs.rs: the inode of a file of a process is computed from its pid; uptime
   stands for the files about the machine.  *)
PidBase == 4
PidStride == 4
PidStrideShort == 2
ProcKinds == <<"status", "cwd", "stat">>
pid_inode_short(pid, kind) == PidBase + pid * PidStrideShort + kind
pid_inode(pid, kind) == PidBase + pid * PidStride + kind
decode_pid_inode(ino) == IF ino < PidBase THEN <<>> ELSE <<(ino - PidBase) \div PidStride, (ino - PidBase) % PidStride>>
task_by_pid(s, pid) == {p \in DOMAIN s.tasks : PidOf(p) = pid}
parse_path(s, rel) ==
    CASE rel = <<>> -> {1}
      [] rel = <<"uptime">> -> {2}
      [] rel = <<"mounts">> -> {3}
      [] Len(rel) = 1 /\ rel[1] \in DOMAIN s.tasks -> {pid_inode(PidOf(rel[1]), 0)}
      [] Len(rel) = 2 /\ rel[1] \in DOMAIN s.tasks ->
            {pid_inode(PidOf(rel[1]), k) : k \in {i \in 1..3 : ProcKinds[i] = rel[2]}}
      [] OTHER -> {}
data_for_inode(s, ino) ==
    CASE ino = 2 -> <<"uptime">>
      [] ino = 3 -> <<"rootfs">> \o SetToSeq({FsAt(m) : m \in Points(s)})
      [] ino \notin {2, 3} /\ ino < PidBase -> <<>>
      [] OTHER -> LET d == decode_pid_inode(ino)
                      who == task_by_pid(s, d[1])
                  IN IF who = {} \/ d[2] = 0 THEN <<>>
                     ELSE LET p == CHOOSE x \in who : TRUE
                          IN IF d[2] = 2 THEN s.tasks[p].cwd
                             ELSE <<p, ProcKinds[d[2]]>> \o IF d[2] = 1 THEN s.tasks[p].cwd ELSE <<>>
ProcIsDir(s, ino) == ino = 1 \/ (ino >= PidBase /\ decode_pid_inode(ino)[2] = 0 /\ task_by_pid(s, decode_pid_inode(ino)[1]) # {})
ProcMeta(s, rel) ==
    LET found == parse_path(s, rel)
    IN IF found = {} THEN Missing
       ELSE LET i == CHOOSE x \in found : TRUE
            IN [kind |-> IF ProcIsDir(s, i) THEN "d" ELSE "f", fs |-> "proc", ino |-> i % ProcSpace,
                born |-> IF rel # <<>> /\ rel[1] \in DOMAIN s.tasks THEN PidOf(rel[1]) ELSE 0]
ProcList(s, rel) ==
    IF rel = <<>> THEN <<"uptime", "mounts">> \o SelectSeq(ProcNames, LAMBDA p : p \in DOMAIN s.tasks) ELSE ProcKinds

(* devfs.rs: a node is found by the last name of the path.  *)
DevMeta(s, rel) ==
    CASE rel \in {<<>>, <<"dev">>} -> [kind |-> "d", fs |-> "dev", ino |-> 0, born |-> 0]
      [] rel # <<>> /\ rel[Len(rel)] \in DOMAIN s.devs ->
            [kind |-> "v", fs |-> "dev", ino |-> s.devs[rel[Len(rel)]], born |-> s.devs[rel[Len(rel)]]]
      [] OTHER -> Missing
device_kind(s, path) == Len(path) = 2 /\ path[1] = "dev" /\ path[2] \in DOMAIN s.devs
(* The root file system, by the contract of the trait.  *)
RootMeta(s, path) == IF path \in DOMAIN s.tree THEN [fs |-> "root"] @@ s.tree[path] ELSE Missing
Children(s, path) == {q \in DOMAIN s.tree : Len(q) = Len(path) + 1 /\ IsPrefix(path, q)}
RootList(s, path) == [i \in 1..Cardinality(Children(s, path)) |->
    LET byIno == SetToSortSeq(Children(s, path), LAMBDA x, y : s.tree[x].ino < s.tree[y].ino) IN byIno[i][Len(path) + 1]]
ParentIsDir(s, path) == path # <<>> /\ Front(path) \in DOMAIN s.tree /\ s.tree[Front(path)].kind = "d"
FreeInodes(s) == FcInodes \ {s.tree[q].ino : q \in DOMAIN s.tree}
RootAdd(s, path, kind, ino) ==
    [s EXCEPT !.tree = Put(@, path, [kind |-> kind, ino |-> ino, born |-> s.births + 1]), !.births = @ + 1,
              !.data = IF kind = "f" THEN Put(@, ino, <<>>) ELSE @]
RootMove(s, old, new) ==
    LET Moved(q) == IF IsPrefix(old, q) THEN new \o SubSeq(q, Len(old) + 1, Len(q)) ELSE q
    IN [s EXCEPT !.tree = [q \in {Moved(x) : x \in DOMAIN s.tree} |-> s.tree[CHOOSE x \in DOMAIN s.tree : Moved(x) = q]]]

(* Vfs::metadata, resolve_path, list_directory_entries and read_at.  *)
MetaOf(s, at) == CASE at.fs = "root" -> RootMeta(s, at.rel)
                   [] at.fs = "dev" -> DevMeta(s, at.rel)
                   [] at.fs = "proc" -> ProcMeta(s, at.rel)
                   [] OTHER -> IF at.rel = <<>> THEN [kind |-> "d", fs |-> "usb", ino |-> 1, born |-> 0] ELSE Missing
metadata(s, path) ==
    LET m == MetaOf(s, resolve(s, path))
    IN IF m = Missing /\ has_mount_descendant(s, path) THEN [kind |-> "d", fs |-> "none", ino |-> 0, born |-> 0] ELSE m
path_is_dir(s, path) == metadata(s, path).kind = "d"
Backing(s, at) == CASE at.fs = "root" -> RootList(s, at.rel)
                    [] at.fs = "dev" -> SetToSeq(DOMAIN s.devs) \o <<"tty">>
                    [] at.fs = "proc" -> ProcList(s, at.rel)
                    [] OTHER -> <<>>
list_directory_entries(s, path) ==
    IF ~path_is_dir(s, path) THEN <<>>
    ELSE LET at == resolve(s, path)
         IN add_mount_children(s, path, IF MetaOf(s, at).kind = "d" THEN Backing(s, at) ELSE <<>>)
BytesOf(s, e) ==
    CASE e.fs = "root" -> IF e.ino \in DOMAIN s.data THEN s.data[e.ino] ELSE <<>>
      [] e.fs = "proc" -> data_for_inode(s, e.ino)
      [] e.fs = "dev" /\ e.ino \in Range(s.devs) -> <<"dev">>
      [] OTHER -> <<>>

(* Paths of a task.  *)
normalize_path(parts) ==
    FoldLeft(LAMBDA out, n : IF n = "." THEN out ELSE IF n = ".." THEN IF out = <<>> THEN out ELSE Front(out) ELSE Append(out, n),
             <<>>, parts)
resolve_task_path(s, p, raw) == normalize_path(IF raw[1] = "/" THEN Tail(raw) ELSE s.tasks[p].cwd \o raw)
RawPaths == {<<"/">> \o q : q \in DirPaths \cup FilePaths} \cup RelPaths
-----------------------------------------------------------------------------
(* Descriptors: lowest free number, and an open file description each.  *)
Ofd(off, append) == [off |-> off, from |-> off, cookie |-> 0, append |-> append, got |-> <<>>, stable |-> TRUE]
NewOfdId(s) == Least((1..Cardinality(DOMAIN s.ofds) + 1) \ DOMAIN s.ofds)
InstallFd(s, p, e, off, append) ==
    LET free == FcFds \ DOMAIN s.tasks[p].fds
        o == NewOfdId(s)
    IN IF free = {} THEN [s |-> s, fd |-> 0]
       ELSE [s |-> [s EXCEPT !.ofds = Put(@, o, Ofd(off, append)),
                             !.tasks[p].fds = Put(@, Least(free), e @@ [ofd |-> o])], fd |-> Least(free)]
Entries(s) == UNION {Range(s.tasks[p].fds) : p \in DOMAIN s.tasks}
HeldOfds(s) == {e.ofd : e \in Entries(s)}
View(s, o) == LET e == CHOOSE x \in Entries(s) : x.ofd = o
              IN IF e.kind = "d" THEN list_directory_entries(s, e.path) ELSE BytesOf(s, e)
(* A description goes with its last descriptor; history notes what has changed.  *)
CallsSettled(t) ==
    [t EXCEPT !.ofds = [o \in HeldOfds(t) |->
        IF o \in DOMAIN fc.ofds /\ View(fc, o) # View(t, o) THEN [t.ofds[o] EXCEPT !.stable = FALSE] ELSE t.ofds[o]]]
FcBecome(t) == fc' = CallsSettled(t)

(* sys_open.  *)
Flags(acc, opts) == [acc |-> acc, opts |-> opts]
OpenRo == Flags("r", {})
OpenRw == Flags("rw", {})
Create == Flags("w", {"creat", "trunc"})
OpenFlags == {OpenRo, OpenRw, Create, Flags("w", {"creat", "append"}), Flags("r", {"dir"})}
create_named(s, path) ==
    LET at == resolve(s, path)
    IN IF at.fs = "root" /\ ParentIsDir(s, path) THEN {RootAdd(s, path, "f", i) : i \in FreeInodes(s)} ELSE {}
Prepared(s, path, flags) ==
    LET m == metadata(s, path)
    IN CASE m = Missing /\ "creat" \in flags.opts -> create_named(s, path)
         [] m # Missing /\ "trunc" \in flags.opts /\ flags.acc # "r" /\ m.fs = "root" -> {[s EXCEPT !.data[m.ino] = <<>>]}
         [] OTHER -> {s}
OpenFile(t, p, path, flags) ==
    LET m == metadata(t, path)
        e == [kind |-> IF device_kind(t, path) THEN "v" ELSE "f", fs |-> m.fs, ino |-> m.ino, path |-> <<>>,
              mode |-> flags.acc, born |-> m.born, lost |-> FALSE]
    IN IF m = Missing THEN [s |-> t, fd |-> 0]
       ELSE InstallFd(t, p, e, IF "append" \in flags.opts THEN Len(BytesOf(t, e)) ELSE 0, "append" \in flags.opts)
OpenDir(s, p, path, flags) ==
    LET m == metadata(s, path)
    IN IF flags.acc # "r" \/ Len(path) >= FcMaxPath THEN [s |-> s, fd |-> 0]
       ELSE InstallFd(s, p, [kind |-> "d", fs |-> m.fs, ino |-> m.ino, path |-> path, mode |-> "r", born |-> m.born,
                           lost |-> FALSE], 0, FALSE)
sys_open(s, p, path, flags) ==
    IF path_is_dir(s, path) THEN {OpenDir(s, p, path, flags)}
    ELSE IF "dir" \in flags.opts THEN {[s |-> s, fd |-> 0]}
    ELSE {OpenFile(t, p, path, flags) : t \in Prepared(s, path, flags)}

(* sys_read, sys_write, sys_lseek and sys_getdents64.  *)
ReadBytes(s, p, f, count) ==
    LET e == s.tasks[p].fds[f]
        b == BytesOf(s, e)
        at == s.ofds[e.ofd].off
    IN IF e.mode = "w" \/ e.kind = "d" \/ at >= Len(b) THEN <<>> ELSE SubSeq(b, at + 1, AtMost(at + count, Len(b)))
sys_read_stuck(s, p, f, count) ==
    LET b == ReadBytes(s, p, f, count) IN [s EXCEPT !.ofds[s.tasks[p].fds[f].ofd].got = @ \o b]
sys_read(s, p, f, count) ==
    LET b == ReadBytes(s, p, f, count)
        o == s.tasks[p].fds[f].ofd
    IN [s EXCEPT !.ofds[o].off = @ + Len(b), !.ofds[o].got = @ \o b]
Overwrite(b, at, new) ==
    SubSeq([i \in 1..(IF at + Len(new) > Len(b) THEN at + Len(new) ELSE Len(b)) |->
               IF i > at /\ i <= at + Len(new) THEN new[i - at] ELSE IF i <= Len(b) THEN b[i] ELSE "0"],
           1, IF at + Len(new) > Len(b) THEN at + Len(new) ELSE Len(b))
Writable(s, e) == e.mode # "r" /\ e.fs = "root" /\ e.ino \in DOMAIN s.data
append_write_late(s, e) == s.ofds[e.ofd].off
append_write(s, e) == Len(s.data[e.ino])
sys_write(s, p, f, bytes) ==
    LET e == s.tasks[p].fds[f]
        at == IF s.ofds[e.ofd].append THEN append_write(s, e) ELSE s.ofds[e.ofd].off
    IN IF ~Writable(s, e) THEN s
       ELSE [s EXCEPT !.data[e.ino] = Overwrite(@, at, bytes), !.ofds[e.ofd] = [Ofd(at + Len(bytes), @.append) EXCEPT !.stable = FALSE]]
Seeks == {<<"set", 0>>, <<"end", 0>>, <<"cur", -1>>}
sys_lseek(s, p, f, to) ==
    LET e == s.tasks[p].fds[f]
        base == CASE to[1] = "set" -> 0 [] to[1] = "cur" -> s.ofds[e.ofd].off [] OTHER -> Len(BytesOf(s, e))
    IN IF e.kind = "d" THEN IF to = <<"set", 0>> THEN [s EXCEPT !.ofds[e.ofd] = Ofd(0, FALSE)] ELSE s
       ELSE IF base + to[2] < 0 THEN s
       ELSE [s EXCEPT !.ofds[e.ofd] = Ofd(base + to[2], @.append)]
DirBatch(s, p, f, room) ==
    LET e == s.tasks[p].fds[f]
        all == list_directory_entries(s, e.path)
    IN SubSeq(all, s.ofds[e.ofd].cookie + 1, AtMost(s.ofds[e.ofd].cookie + room, Len(all)))
sys_getdents64(s, p, f, room) ==
    LET b == DirBatch(s, p, f, room)
        o == s.tasks[p].fds[f].ofd
    IN [s EXCEPT !.ofds[o].cookie = @ + Len(b), !.ofds[o].got = @ \o b]
close_descriptor(s, p, f) == [s EXCEPT !.tasks[p].fds = Drop(@, {f})]

(* The namespace calls.  Only the root file system can be changed.  *)
sys_mkdir(s, path) ==
    IF resolve(s, path).fs = "root" /\ ParentIsDir(s, path) /\ path \notin DOMAIN s.tree
    THEN {RootAdd(s, path, "d", i) : i \in FreeInodes(s)} ELSE {}
sys_rmdir(s, path) ==
    IF RootMeta(s, path).kind = "d" /\ path # <<>> /\ Children(s, path) = {} THEN {[s EXCEPT !.tree = Drop(@, {path})]} ELSE {}
sys_unlink(s, path) ==
    IF RootMeta(s, path).kind = "f"
    THEN {[s EXCEPT !.tree = Drop(@, {path}), !.data = Drop(@, {s.tree[path].ino})]} ELSE {}
rewrite_dir_path(e, old, new) ==
    LET now == new \o SubSeq(e.path, Len(old) + 1, Len(e.path))
    IN IF e.kind # "d" \/ ~IsPrefix(old, e.path) THEN e
       ELSE IF Len(now) >= FcMaxPath THEN [e EXCEPT !.lost = TRUE] ELSE [e EXCEPT !.path = now]
RewriteFor(s, p, old, new) ==
    [s EXCEPT !.tasks[p].fds = [f \in DOMAIN @ |-> rewrite_dir_path(@[f], old, new)]]
rewrite_dir_paths_own(s, p, old, new) == RewriteFor(s, p, old, new)
rewrite_dir_paths(s, p, old, new) ==
    [s EXCEPT !.tasks = [q \in DOMAIN @ |-> RewriteFor(s, q, old, new).tasks[q]]]
sys_rename(s, p, old, new) ==
    LET a == resolve(s, old)
        b == resolve(s, new)
    IN IF /\ old # <<>> /\ new # <<>> /\ a.fs = "root" /\ b.fs = "root"
          /\ old \in DOMAIN s.tree /\ new \notin DOMAIN s.tree /\ ParentIsDir(s, new) /\ ~IsPrefix(old, new)
       THEN {rewrite_dir_paths(RootMove(s, old, new), p, old, new)} ELSE {}

-----------------------------------------------------------------------------
(* A program has opened one file or directory, or none.  *)
FileCallsInit ==
    /\ fcCalls = 0
    /\ fc \in {FcStart} \cup UNION {{r.s : r \in sys_open(FcStart, ProcNames[2], path, flags)} :
                                    path \in DirPaths \cup FilePaths, flags \in OpenFlags}

(* The calls of a program.  *)
Opens(p, raw, flags) == \E r \in sys_open(fc, p, resolve_task_path(fc, p, raw), flags) : r.s # fc /\ FcBecome(r.s)
Uses(p, f) ==
    \/ FcBecome(sys_read(fc, p, f, 1)) \/ FcBecome(sys_write(fc, p, f, <<p>>))
    \/ \E to \in Seeks : FcBecome(sys_lseek(fc, p, f, to))
    \/ fc.tasks[p].fds[f].kind = "d" /\ FcBecome(sys_getdents64(fc, p, f, 1))
    \/ FcBecome(close_descriptor(fc, p, f))
Dups(p, f) == /\ FcFds \ DOMAIN fc.tasks[p].fds # {}
              /\ FcBecome([fc EXCEPT !.tasks[p].fds = Put(@, Least(FcFds \ DOMAIN @), @[f])])
Names(p, raw) ==
    LET path == resolve_task_path(fc, p, raw)
    IN \/ \E t \in sys_mkdir(fc, path) \cup sys_rmdir(fc, path) \cup sys_unlink(fc, path) : FcBecome(t)
       \/ path_is_dir(fc, path) /\ FcBecome([fc EXCEPT !.tasks[p].cwd = path])
       \/ \E to \in RawPaths : \E t \in sys_rename(fc, p, path, resolve_task_path(fc, p, to)) : FcBecome(t)

(* lib/src/fs.rs: read, write and read_dir_entries, a call at a time; the file
   is closed when it is dropped, on every path.  *)
lib_open(p, op, path) ==
    /\ fc.tasks[p].lib.op = "idle"
    /\ \E r \in sys_open(fc, p, path, CASE op = "read" -> OpenRw [] op = "write" -> Create [] OTHER -> OpenRo) :
          /\ r.fd # 0
          /\ FcBecome([r.s EXCEPT !.tasks[p].lib = [op |-> op, fd |-> r.fd, path |-> path, out |-> <<>>]])
LibKept(s, p) == [s EXCEPT !.tasks[p].lib = LibIdle]
LibDrop(s, p) == [close_descriptor(s, p, s.tasks[p].lib.fd) EXCEPT !.tasks[p].lib = LibIdle]
lib_read_to_end(p) ==
    LET f == fc.tasks[p].lib.fd
        b == ReadBytes(fc, p, f, 1)
    IN /\ fc.tasks[p].lib.op = "read"
       /\ FcBecome(IF b = <<>> THEN LibDrop(fc, p) ELSE [sys_read(fc, p, f, 1) EXCEPT !.tasks[p].lib.out = @ \o b])
lib_write_all(p) ==
    LET l == fc.tasks[p].lib
    IN /\ l.op = "write"
       /\ \/ FcBecome(LibDrop(fc, p))
          \/ /\ Len(l.out) < 2 /\ Writable(fc, fc.tasks[p].fds[l.fd])
             /\ FcBecome([sys_write(fc, p, l.fd, <<p>>) EXCEPT !.tasks[p].lib.out = Append(@, p)])
ListedKind(s, path) == LET m == metadata(s, path) IN IF m = Missing THEN "stale" ELSE m.kind
lib_read_dir_entries(p) ==
    LET l == fc.tasks[p].lib
        b == DirBatch(fc, p, l.fd, 2)
    IN /\ l.op = "list" /\ fc.tasks[p].fds[l.fd].kind = "d"
       /\ FcBecome(IF b = <<>> THEN LibDrop(fc, p)
                   ELSE [sys_getdents64(fc, p, l.fd, 2) EXCEPT
                           !.tasks[p].lib.out = @ \o [i \in 1..Len(b) |-> <<b[i], ListedKind(fc, Append(l.path, b[i]))>>]])
lib_list_file(p) ==
    LET l == fc.tasks[p].lib
    IN l.op = "list" /\ fc.tasks[p].fds[l.fd].kind # "d" /\ FcBecome(LibDrop(fc, p))

(* Processes and disks that come and go.  *)
TaskStarts == /\ fc.pids < Len(ProcNames)
              /\ FcBecome([fc EXCEPT !.tasks = Put(@, ProcNames[fc.pids + 1], FcTask), !.pids = @ + 1])
TaskEnds(p) == p \in DOMAIN fc.tasks /\ FcBecome([fc EXCEPT !.tasks = Drop(@, {p})])
StickMoves == FcBecome([fc EXCEPT !.usb = ~@])
DiskMoves == FcBecome(IF "s" \in DOMAIN fc.devs THEN [fc EXCEPT !.devs = Drop(@, {"s"})]
                      ELSE [fc EXCEPT !.devs = Put(@, "s", fc.devNext), !.devNext = @ + 1])

FileCallsNext ==
    /\ fcCalls < MaxFileCalls /\ fcCalls' = fcCalls + 1
    /\ \/ \E p \in Users \cap DOMAIN fc.tasks :
            \/ \E raw \in RawPaths : Names(p, raw) \/ \E flags \in OpenFlags : Opens(p, raw, flags)
            \/ \E f \in DOMAIN fc.tasks[p].fds : Uses(p, f) \/ Dups(p, f)
       \/ \E p \in LibProcs \cap DOMAIN fc.tasks :
            \/ \E path \in DirPaths : lib_open(p, "list", path)
            \/ \E path \in FilePaths : lib_open(p, "read", path) \/ lib_open(p, "write", path) \/ lib_open(p, "list", path)
            \/ lib_read_to_end(p) \/ lib_write_all(p) \/ lib_read_dir_entries(p) \/ lib_list_file(p)
       \/ TaskStarts \/ TaskEnds(ProcNames[2]) \/ StickMoves \/ DiskMoves

FileCallsSpec == FileCallsInit /\ [][FileCallsNext]_fcVars

-----------------------------------------------------------------------------
(* A directory descriptor, of any process, names the directory it was opened on
   after every rename of it or of a directory above it, unless the new path is
   too long for it.  *)
DirsFollowRename ==
    \A e \in Entries(fc) :
        e.kind = "d" /\ e.fs = "root" /\ ~e.lost /\ (\E q \in DOMAIN fc.tree : fc.tree[q].born = e.born)
        => e.path \in DOMAIN fc.tree /\ fc.tree[e.path].born = e.born

(* Reading in pieces, through a descriptor or its duplicates, returns every byte
   of a file and every entry of a directory once and in order while they do not
   change, even when the directory is renamed meanwhile.  *)
ReadsInSequence ==
    \A o \in HeldOfds(fc) :
        LET d == fc.ofds[o]
            e == CHOOSE x \in Entries(fc) : x.ofd = o
        IN d.stable /\ ~e.lost /\ d.off <= Len(View(fc, o))
           => d.got = IF e.kind = "d" THEN SubSeq(View(fc, o), 1, d.cookie) ELSE SubSeq(View(fc, o), d.from + 1, d.off)

(* What a file of /proc/<pid> shows is that process, or nothing once it has ended,
   as long as the pid fits the inode.  *)
ProcShowsItsProcess ==
    \A e \in Entries(fc) :
        e.fs = "proc" /\ e.born # 0 /\ pid_inode(e.born, PidStride - 1) < ProcSpace
        => ToSet(fc.ofds[e.ofd].got) \cap ToSet(ProcNames) \subseteq {ProcNames[e.born]}

(* A library operation that has ended, with success or not, has closed its file.  *)
LibraryLeavesNoFile ==
    \A p \in LibProcs \cap DOMAIN fc.tasks : fc.tasks[p].lib.op = "idle" => DOMAIN fc.tasks[p].fds = {}

(* A write with O_APPEND keeps every byte in the file, whoever wrote after the open.  *)
AppendKeepsBytes ==
    [][\A o \in HeldOfds(fc) \cap HeldOfds(fc)' :
          LET e == CHOOSE x \in Entries(fc) : x.ofd = o
          IN fc.ofds[o].append /\ fc'.ofds[o].off # fc.ofds[o].off /\ e.ino \in DOMAIN fc.data /\ fc'.data # fc.data
             => IsPrefix(fc.data[e.ino], fc'.data[e.ino])]_fcVars
=============================================================================
