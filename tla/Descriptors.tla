---------------------------- MODULE Descriptors ----------------------------
(***************************************************************************)
(* File descriptors and pipes (kernel/src/filesystem/file.rs, pipe.rs, the *)
(* descriptor calls of syscalls/handler.rs and the deferred clean-up of    *)
(* signal.rs).                                                             *)
(*                                                                         *)
(* An entry of a descriptor table names a pipe end and an open file        *)
(* description, an Arc shared by dup, dup2 and spawn.  A pipe counts open  *)
(* file descriptions, not descriptors: its end is closed when the last     *)
(* table entry that shares the description goes.  Every call runs as one   *)
(* step under the kernel lock and first finishes the clean-up of processes *)
(* that were killed; a call that cannot proceed blocks and is executed     *)
(* again from the start when the process is woken.                         *)
(***************************************************************************)
EXTENDS Naturals, FiniteSets, Sequences

CONSTANTS
    Procs,     \* processes (of one thread each)
    Root,      \* pid 1
    NumFds,    \* size of a descriptor table (64)
    StdFds,    \* descriptors a child inherits (0, 1 and 2)
    MaxPipes,  \* MAX_PIPES (16)
    BufSize,   \* PIPE_BUF_SIZE (4096)
    Bytes,     \* byte values
    MaxCount,  \* bound: largest count of a read or a write
    Calls      \* calls that programs make

Fds == 0 .. NumFds - 1
PipeIds == 0 .. MaxPipes - 1
Index == 0 .. BufSize - 1
Ends == {"r", "w"}
Free == [end |-> "free", pipe |-> 0, ofd |-> 0]
Console == [end |-> "console", pipe |-> 0, ofd |-> 0]
Closed == <<"closed">>
Eof == <<"eof">>
NoProc == "noproc"
NoCall == [op |-> "none"]

ASSUME DescriptorAssumption ==
    /\ Root \in Procs /\ NoProc \notin Procs /\ IsFiniteSet(Procs)
    /\ NumFds \in Nat \ {0} /\ MaxPipes \in Nat /\ BufSize \in Nat \ {0} /\ MaxCount \in Nat
    /\ StdFds \subseteq Fds
    /\ Bytes # {} /\ "closed" \notin Bytes

VARIABLES
    pipes,     \* PIPES
    table,     \* fd_table of each process
    nonblock,  \* open file descriptions with O_NONBLOCK
    state,     \* TaskState and zombie flag
    parent,    \* ppid
    call,      \* the call a blocked process executes again
    pending,   \* processes with a fatal signal pending
    deferred,  \* DEFERRED_KILL_CLEANUP
    got        \* what the last read returned to each process

vars == <<pipes, table, nonblock, state, parent, call, pending, deferred, got>>

(* The state the calls transform, as a record.                             *)
Now == [pipes |-> pipes, table |-> table, state |-> state, parent |-> parent,
        nonblock |-> nonblock, call |-> call, pending |-> pending, deferred |-> deferred,
        got |-> got]

Become(s) ==
    /\ pipes' = s.pipes
    /\ table' = s.table
    /\ state' = s.state
    /\ parent' = s.parent
    /\ nonblock' = s.nonblock
    /\ call' = s.call
    /\ pending' = s.pending
    /\ deferred' = s.deferred
    /\ got' = s.got

(***************************************************************************)
(* Descriptor tables.                                                      *)
(***************************************************************************)
Empty == [fd \in Fds |-> Free]
WithStdio == [fd \in Fds |-> IF fd \in StdFds THEN Console ELSE Free]

IsPipe(entry) == entry.end \in Ends
Slots == Procs \X Fds
At(s, slot) == s.table[slot[1]][slot[2]]
PipeSlots(s) == {slot \in Slots : IsPipe(At(s, slot))}
OpenFiles(s) == {At(s, slot) : slot \in PipeSlots(s)}
Ofds(s) == {e.ofd : e \in OpenFiles(s)}
(* The address of a new Arc is any that is not in use.                     *)
NewOfd(s, hint) ==
    IF hint \notin Ofds(s) THEN hint
    ELSE CHOOSE o \in 0 .. 2 * MaxPipes + Cardinality(Slots) : o \notin Ofds(s)

FreeFds(s, p) == {fd \in Fds : s.table[p][fd] = Free}
AllocFd(s, p) == CHOOSE fd \in FreeFds(s, p) : \A g \in FreeFds(s, p) : fd <= g

(***************************************************************************)
(* Pipes.                                                                  *)
(***************************************************************************)
NoPipe == [buf |-> [i \in Index |-> CHOOSE b \in Bytes : TRUE],
           head |-> 0, tail |-> 0, len |-> 0, readers |-> 0, writers |-> 0, in_use |-> FALSE]

WakeWaiters(s, reason) ==
    [s EXCEPT !.state = [p \in Procs |-> IF @[p] = reason THEN "running" ELSE @[p]]]

Minus(n, k) == IF k > n THEN 0 ELSE n - k

(* pipe_close_reader, pipe_close_writer and maybe_free for the descriptions *)
(* that have just been dropped.                                            *)
CloseEnds(pipe, readers, writers) ==
    LET r == Minus(pipe.readers, readers)
        w == Minus(pipe.writers, writers)
    IN  IF pipe.in_use
        THEN [pipe EXCEPT !.readers = r, !.writers = w, !.in_use = r > 0 \/ w > 0]
        ELSE pipe

(* Mutant: every close releases the pipe end, also of a shared description. *)
DroppedEach(s, slots) == {At(s, slot) : slot \in slots \cap PipeSlots(s)}

(* Open file descriptions whose last reference is among the slots.         *)
Dropped(s, slots) ==
    {At(s, slot) : slot \in slots \cap PipeSlots(s)}
        \ {At(s, slot) : slot \in PipeSlots(s) \ slots}

(* close and take_all, with close_descriptor for each entry.               *)
Close(s, slots) ==
    LET gone == Dropped(s, slots)
        Of(i, end) == Cardinality({e \in gone : e.pipe = i /\ e.end = end})
        s1 == [s EXCEPT
                  !.table = [p \in Procs |->
                      [fd \in Fds |-> IF <<p, fd>> \in slots THEN Free ELSE s.table[p][fd]]],
                  !.pipes = [i \in PipeIds |-> CloseEnds(s.pipes[i], Of(i, "r"), Of(i, "w"))],
                  !.nonblock = @ \ {e.ofd : e \in gone}]
    IN  IF gone = {} THEN s1 ELSE WakeWaiters(s1, "input")

AllOf(ps) == ps \X Fds

(***************************************************************************)
(* Processes.  A killed process keeps its descriptors until the next       *)
(* system call of anybody; an exiting one closes them itself.              *)
(***************************************************************************)
Reparent(s, p) ==
    LET heir == IF p # Root /\ s.state[Root] \notin {"none", "zombie"} THEN Root ELSE NoProc
    IN  [s EXCEPT !.parent = [q \in Procs |-> IF @[q] = p THEN heir ELSE @[q]]]

Bury(s, p) ==
    WakeWaiters(Reparent([s EXCEPT !.state[p] = "zombie", !.call[p] = NoCall,
                                   !.pending = @ \ {p}], p), "child")

ForceKill(s, p) ==
    IF s.state[p] \in {"none", "zombie"} THEN s
    ELSE [Bury(s, p) EXCEPT !.deferred = @ \cup {p}]

(* Mutant: the clean-up queue is emptied and nothing closed.               *)
DrainForgets(s) == [s EXCEPT !.deferred = {}]

DrainDeferredCleanup(s) ==
    [Close(s, AllOf({p \in s.deferred : s.state[p] = "zombie"})) EXCEPT !.deferred = {}]

(* The task and its table are dropped; nothing is closed.                  *)
Reap(s, ps) ==
    [s EXCEPT !.state = [p \in Procs |-> IF p \in ps THEN "none" ELSE @[p]],
              !.parent = [p \in Procs |-> IF p \in ps THEN NoProc ELSE @[p]],
              !.table = [p \in Procs |-> IF p \in ps THEN Empty ELSE @[p]]]

Deliver(s, p) == IF p \in s.pending /\ s.state[p] = "running" THEN ForceKill(s, p) ELSE s

(***************************************************************************)
(* Entry and exit of a system call.                                        *)
(***************************************************************************)
Enters(p, c) == c.op \in Calls /\ state[p] = "running" /\ call[p] \in {NoCall, c}
Entered == DrainDeferredCleanup(Now)
Return(s, p) == Become(Deliver([s EXCEPT !.call[p] = NoCall], p))
BlockAndRestart(s, p, c, reason) == Become([s EXCEPT !.state[p] = reason, !.call[p] = c])

(***************************************************************************)
(* pipe: both ends or nothing.                                             *)
(***************************************************************************)
FreePipes(s) == {i \in PipeIds : ~s.pipes[i].in_use}

Install(s, p, fd, entry) == [s EXCEPT !.table[p][fd] = entry]

PipeMade(s, p, i) ==
    LET s1 == [s EXCEPT !.pipes[i] = [NoPipe EXCEPT !.readers = 1, !.writers = 1,
                                                    !.in_use = TRUE]]
        s2 == Install(s1, p, AllocFd(s1, p), [end |-> "r", pipe |-> i, ofd |-> NewOfd(s1, 2 * i)])
    IN  IF Cardinality(FreeFds(s, p)) < 2
        THEN WakeWaiters([s EXCEPT !.pipes[i] = NoPipe], "input")
        ELSE Install(s2, p, AllocFd(s2, p), [end |-> "w", pipe |-> i, ofd |-> NewOfd(s2, 2 * i + 1)])

SysPipe(p) ==
    /\ Enters(p, [op |-> "pipe"])
    /\ LET s == Entered
           i == CHOOSE i \in FreePipes(s) : \A j \in FreePipes(s) : i <= j
       IN  Return(IF FreePipes(s) = {} THEN s ELSE PipeMade(s, p, i), p)

(***************************************************************************)
(* close, dup2 and dup.                                                    *)
(***************************************************************************)
SysClose(p, fd) ==
    /\ Enters(p, [op |-> "close"])
    /\ Return(Close(Entered, {<<p, fd>>}), p)

Dup2(s, p, old, new) ==
    IF s.table[p][old] = Free \/ old = new THEN s
    ELSE Install(Close(s, {<<p, new>>}), p, new, s.table[p][old])

SysDup2(p, old, new) ==
    /\ Enters(p, [op |-> "dup"])
    /\ Return(Dup2(Entered, p, old, new), p)

SysDup(p, old) ==
    /\ Enters(p, [op |-> "dup"])
    /\ LET s == Entered
       IN  Return(IF FreeFds(s, p) = {} THEN s ELSE Dup2(s, p, old, AllocFd(s, p)), p)

(***************************************************************************)
(* fcntl(F_SETFL).                                                         *)
(***************************************************************************)
SysSetNonblock(p, fd, on) ==
    /\ Enters(p, [op |-> "fcntl"])
    /\ LET s == Entered
           o == s.table[p][fd].ofd
       IN  Return(IF ~IsPipe(s.table[p][fd]) THEN s
                  ELSE [s EXCEPT !.nonblock = IF on THEN @ \cup {o} ELSE @ \ {o}], p)

(***************************************************************************)
(* read and write of a pipe.  The ring is copied byte by byte, as many as  *)
(* there are or as many as fit.                                            *)
(***************************************************************************)
Lesser(m, n) == IF m < n THEN m ELSE n

(* Mutant: the index of the next byte is not wrapped around.               *)
NotWrapped(i) == IF i = BufSize THEN 0 ELSE i

Wrapped(i) == i % BufSize

TryRead(s, p, i, count) ==
    LET pipe == s.pipes[i]
        n == Lesser(count, pipe.len)
    IN  WakeWaiters([s EXCEPT !.pipes[i].tail = Wrapped(@ + n),
                              !.pipes[i].len = @ - n,
                              !.got[p] = [k \in 1..n |-> pipe.buf[(pipe.tail + k - 1) % BufSize]]],
                    "input")

TryWrite(s, i, data) ==
    LET pipe == s.pipes[i]
        n == Lesser(Len(data), BufSize - pipe.len)
        At0(x) == (x + BufSize - pipe.head) % BufSize
    IN  WakeWaiters([s EXCEPT !.pipes[i].head = Wrapped(@ + n),
                              !.pipes[i].len = @ + n,
                              !.pipes[i].buf = [x \in Index |->
                                  IF At0(x) < n THEN data[At0(x) + 1] ELSE @[x]]],
                    "input")

(* Mutant: end of file as soon as the writers are gone.                    *)
EofEarly(pipe) == pipe.writers = 0

AtEof(pipe) == pipe.len = 0 /\ pipe.writers = 0

SysRead(p, fd, count) ==
    LET c == [op |-> "read", fd |-> fd, count |-> count]
    IN  /\ Enters(p, c)
        /\ LET s == Entered
               e == s.table[p][fd]
               pipe == s.pipes[e.pipe]
           IN  IF e.end # "r" THEN Return(s, p)
               ELSE IF AtEof(pipe) THEN Return([s EXCEPT !.got[p] = Eof], p)
               ELSE IF pipe.len > 0 THEN Return(TryRead(s, p, e.pipe, count), p)
               ELSE IF e.ofd \in s.nonblock THEN Return(s, p)
               ELSE BlockAndRestart(s, p, c, "input")

SysWrite(p, fd, data) ==
    LET c == [op |-> "write", fd |-> fd, data |-> data]
    IN  /\ Enters(p, c)
        /\ LET s == Entered
               e == s.table[p][fd]
               pipe == s.pipes[e.pipe]
           IN  IF e.end # "w" \/ pipe.readers = 0 THEN Return(s, p)
               ELSE IF pipe.len < BufSize THEN Return(TryWrite(s, e.pipe, data), p)
               ELSE IF e.ofd \in s.nonblock THEN Return(s, p)
               ELSE BlockAndRestart(s, p, c, "input")

(***************************************************************************)
(* spawn: descriptors of the parent become the child's standard ones.      *)
(***************************************************************************)
Orphans(s) == {p \in Procs \ {Root} : s.state[p] = "zombie" /\ s.parent[p] = NoProc}

SysSpawn(p, child, from) ==
    /\ Enters(p, [op |-> "spawn"])
    /\ LET s == Reap(Entered, Orphans(Entered))
       IN  IF s.state[child] # "none" THEN Return(s, p)
           ELSE Return([s EXCEPT !.state[child] = "running", !.parent[child] = p,
                                 !.table[child] = [fd \in Fds |->
                                     IF fd \notin StdFds THEN Free
                                     ELSE IF s.table[p][from[fd]] = Free THEN Console
                                     ELSE s.table[p][from[fd]]]], p)

(***************************************************************************)
(* exit, kill and wait.                                                    *)
(***************************************************************************)
SysExit(p) ==
    /\ Enters(p, [op |-> "exit"])
    /\ Become(Bury(Close(Entered, AllOf({p})), p))

SysKill(p, q) ==
    /\ Enters(p, [op |-> "kill"])
    /\ Return(ForceKill(Entered, q), p)

SysTerminate(p, q) ==
    /\ Enters(p, [op |-> "term"])
    /\ LET s == Entered
       IN  Return(IF s.state[q] \in {"none", "zombie"} THEN s
                  ELSE [s EXCEPT !.pending = @ \cup {q}, !.state[q] = "running"], p)

SysWait(p) ==
    LET c == [op |-> "wait"]
    IN  /\ Enters(p, c)
        /\ LET s == Entered
               children == {q \in Procs : s.parent[q] = p}
               dead == {q \in children : s.state[q] = "zombie"}
           IN  \/ \E q \in dead : Return(Reap(s, {q}), p)
               \/ dead = {} /\ children = {} /\ Return(s, p)
               \/ dead = {} /\ children # {} /\ BlockAndRestart(s, p, c, "child")

(***************************************************************************)
(* The timer: every tick of the first processor wakes whoever waits for    *)
(* input, and a processor that returns to user mode delivers signals.      *)
(***************************************************************************)
Tick ==
    /\ \E p \in Procs : state[p] = "input"
    /\ Become(WakeWaiters(Now, "input"))

Signalled(p) ==
    /\ p \in pending /\ state[p] = "running"
    /\ Become(ForceKill(Now, p))

Data == UNION {[1..n -> Bytes] : n \in 1..MaxCount}

(* A woken process executes its call again.                                *)
Restart(p) ==
    \/ call[p].op = "read" /\ SysRead(p, call[p].fd, call[p].count)
    \/ call[p].op = "write" /\ SysWrite(p, call[p].fd, call[p].data)
    \/ call[p].op = "wait" /\ SysWait(p)

ReadOrWrite(p) ==
    \/ \E fd \in Fds, n \in 1..MaxCount : SysRead(p, fd, n)
    \/ \E fd \in Fds, data \in Data : SysWrite(p, fd, data)

Init ==
    /\ pipes = [i \in PipeIds |-> NoPipe]
    /\ table = [p \in Procs |-> IF p = Root THEN WithStdio ELSE Empty]
    /\ nonblock = {}
    /\ state = [p \in Procs |-> IF p = Root THEN "running" ELSE "none"]
    /\ parent = [p \in Procs |-> NoProc]
    /\ call = [p \in Procs |-> NoCall]
    /\ pending = {}
    /\ deferred = {}
    /\ got = [p \in Procs |-> <<>>]

Next ==
    \/ Tick
    \/ \E p \in Procs :
          \/ Signalled(p)
          \/ ReadOrWrite(p)
          \/ SysPipe(p)
          \/ \E fd \in Fds : SysClose(p, fd) \/ SysDup(p, fd)
          \/ \E fd \in Fds, on \in BOOLEAN : SysSetNonblock(p, fd, on)
          \/ \E old, new \in Fds : SysDup2(p, old, new)
          \/ \E child \in Procs, from \in [StdFds -> Fds] : SysSpawn(p, child, from)
          \/ SysExit(p)
          \/ \E q \in Procs : SysKill(p, q) \/ SysTerminate(p, q)
          \/ SysWait(p)

Spec == Init /\ [][Next]_vars

(***************************************************************************)
(* Fairness: the timer ticks, and a runnable process gets a processor: it  *)
(* executes its restarted call, or dies of its signal.                     *)
(***************************************************************************)
FairSpec ==
    /\ Spec
    /\ WF_vars(Tick)
    /\ \A p \in Procs : WF_vars(Restart(p)) /\ WF_vars(Signalled(p))
-----------------------------------------------------------------------------
(* Every piece of state stays in its type; a zombie has no call to restart. *)
TypeOK ==
    /\ \A i \in PipeIds :
          /\ pipes[i].len \in 0..BufSize
          /\ pipes[i].head \in Index /\ pipes[i].tail \in Index
          /\ pipes[i].head = (pipes[i].tail + pipes[i].len) % BufSize
    /\ state \in [Procs -> {"none", "running", "input", "child", "zombie"}]
    /\ \A p \in Procs : state[p] \in {"none", "zombie"} => call[p] = NoCall
    /\ deferred \subseteq {p \in Procs : state[p] = "zombie"}
    /\ pending \subseteq {p \in Procs : state[p] \notin {"none", "zombie"}}

(* handler.rs:2378: pipe counts "belong to the OFD, not each fd".  However *)
(* descriptors are duplicated, inherited, replaced and dropped by exits,   *)
(* kills and reaping, a pipe counts exactly the open file descriptions     *)
(* that refer to it, and is in use exactly as long as there is one.        *)
EndsMatchDescriptors ==
    \A i \in PipeIds :
        LET Of(end) == {e \in OpenFiles(Now) : e.pipe = i /\ e.end = end}
        IN  /\ pipes[i].in_use <=> Of("r") \cup Of("w") # {}
            /\ pipes[i].in_use => /\ pipes[i].readers = Cardinality(Of("r"))
                                  /\ pipes[i].writers = Cardinality(Of("w"))

(* p is reading pipe i and its call has not returned: it is blocked, or    *)
(* about to execute the call again; only dead processes hold the write end. *)
Waits(p, i) ==
    /\ call[p].op = "read"
    /\ table[p][call[p].fd].end = "r" /\ table[p][call[p].fd].pipe = i

Abandoned(i) ==
    \A q \in Procs, fd \in Fds :
        table[q][fd].end = "w" /\ table[q][fd].pipe = i => state[q] = "zombie"

(* README.md:552: "EOF when the final writer disappears".  A reader blocked *)
(* on a pipe whose write end only dead processes still hold gets its answer, *)
(* although nobody makes a system call that would clean up after them.      *)
EofReachesReader ==
    \A p \in Procs, i \in PipeIds :
        []<>~(Waits(p, i) /\ Abandoned(i))

(* The bytes in the ring, oldest first.                                    *)
Contents(pipe) == [k \in 1..pipe.len |-> pipe.buf[(pipe.tail + k - 1) % BufSize]]

Channel == INSTANCE PipeChannel WITH
    Readers <- Procs,
    Capacity <- BufSize,
    queue <- [i \in PipeIds |-> IF pipes[i].in_use THEN Contents(pipes[i]) ELSE Closed]

(* The ring buffers and counts implement bounded FIFO channels: no byte is  *)
(* lost, repeated or reordered by wrap-around, partial transfers, restarts  *)
(* or the reuse of a pipe number, and EOF comes after the last byte.        *)
ImplementsChannel == Channel!Spec
=============================================================================
