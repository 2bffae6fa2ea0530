----------------------------- MODULE TaskTable -----------------------------
(***************************************************************************)
(* The task table of the Felix kernel (kernel/src/multitasking/task.rs):   *)
(* what one slot holds, and the operations of TaskManager that read or     *)
(* rewrite the table.  The table is a function whose domain is the set of  *)
(* occupied slots (`tasks[slot]` is `Some`), so freeing a slot shrinks its *)
(* domain.  Every operator takes a table T (and the TASK_OWNER array o     *)
(* where the code consults it) and returns the table the code leaves       *)
(* behind; all of them run under the kernel lock.                          *)
(*                                                                         *)
(* Slot 0, the idle task, is never created, reaped or signalled by this    *)
(* code; here 0 only stands for "no slot" and for an idle processor.       *)
(***************************************************************************)
EXTENDS Integers, FiniteSets, FiniteSetsExt

CONSTANTS
    NSlots,     \* MAX_TASKS - 1: slots 1..NSlots hold user tasks
    NCpus,      \* processors that schedule user tasks; 0 is the BSP
    MaxPid,     \* bound: pids and tids handed out by alloc_pid
    Calls,      \* the system calls the user programs of the instance make
    UserFaults  \* whether they may also fault (divide error, page fault, ...)

ASSUME TableAssumption ==
    /\ NSlots \in Nat \ {0}
    /\ NCpus \in Nat \ {0}
    /\ MaxPid \in Nat \ {0}
    /\ UserFaults \in BOOLEAN

Slots == 1..NSlots
Cpus == 0..(NCpus - 1)
BSP == 0
NoCpu == -1
Pids == 1..MaxPid

SIGINT == 2
SIGKILL == 9
SIGTERM == 15
SIGCONT == 18
SIGSTOP == 19
SIGTSTP == 20
SIGWINCH == 28
Signals == {SIGINT, SIGKILL, SIGTERM, SIGCONT, SIGSTOP, SIGTSTP, SIGWINCH}
Catchable == Signals \ {SIGKILL, SIGSTOP}
Dispositions == {"SIG_DFL", "SIG_IGN", "handler"}

WaitReasons == {"Input", "Timer", "Child", "Thread"}
TaskStates == {"Runnable", "Running", "Stopped", "Zombie"} \cup WaitReasons

(***************************************************************************)
(* A system call as userspace makes it: the number in eax and the argument *)
(* registers.  NoCall is a frame whose eax no longer names a call.         *)
(***************************************************************************)
Call(op, id, sig, arg) == [op |-> op, id |-> id, sig |-> sig, arg |-> arg]
NoCall == Call("none", 0, 0, "none")

ASSUME CallsAssumption ==
    /\ \A call \in Calls : call.op = "sigaction" => call.arg \in Dispositions
    /\ Calls \subseteq
                    [op : {"exit", "exit_group", "yield", "sleep", "read", "spawn",
                           "spawn_bad", "thread_create", "join", "detach", "wait",
                           "kill", "sigaction"},
                     id : 0..MaxPid, sig : {0} \cup Signals,
                     arg : {"none", "nohang", "untraced"} \cup Dispositions]

Task == [pid : Pids, tid : Pids, ppid : 0..MaxPid, leader : Slots,
         is_thread : BOOLEAN, kstack : Pids, pd : Pids,
         running : BOOLEAN, state : TaskStates,
         zombie : BOOLEAN, stopped : BOOLEAN, exited : BOOLEAN, detached : BOOLEAN,
         stop_pending : BOOLEAN, cont_pending : BOOLEAN,
         pending : SUBSET Signals, handlers : [Catchable -> Dispositions],
         deadline : {"none", "future", "past"},
         call : Calls \cup {NoCall}, again : BOOLEAN,
         term : {0} \cup Signals]

(***************************************************************************)
(* Task::new / new_thread followed by the field assignments of the code    *)
(* that publishes the task: a runnable task whose frame makes no call.     *)
(* The kernel stack and the page directory a task allocates are named by   *)
(* the pid or tid it is created with.                                      *)
(***************************************************************************)
NewTask(pid, ppid, slot) ==
    [pid |-> pid, tid |-> pid, ppid |-> ppid, leader |-> slot,
     is_thread |-> FALSE, kstack |-> pid, pd |-> pid,
     running |-> TRUE, state |-> "Runnable",
     zombie |-> FALSE, stopped |-> FALSE, exited |-> FALSE, detached |-> FALSE,
     stop_pending |-> FALSE, cont_pending |-> FALSE,
     pending |-> {}, handlers |-> [s \in Catchable |-> "SIG_DFL"],
     deadline |-> "none", call |-> NoCall, again |-> FALSE, term |-> 0]

NewThread(leader, tid) ==
    [NewTask(leader.pid, leader.ppid, leader.leader) EXCEPT
        !.tid = tid, !.kstack = tid, !.is_thread = TRUE, !.pd = leader.pd]

Publish(T, slot, task) ==
    [s \in DOMAIN T \cup {slot} |-> IF s = slot THEN task ELSE T[s]]

(***************************************************************************)
(* Task::wake, Task::block and the exit marking shared by sys_exit,        *)
(* sys_thread_exit, finish_process and force_kill.                         *)
(***************************************************************************)
Wake(task) == [task EXCEPT !.running = TRUE, !.state = "Runnable"]

Block(task, reason) == [task EXCEPT !.running = FALSE, !.state = reason]

MarkExited(task) ==
    [task EXCEPT !.running = FALSE, !.state = "Zombie",
                 !.stopped = FALSE, !.exited = TRUE]

WakeWaiters(T, reason) ==
    [s \in DOMAIN T |-> IF T[s].state = reason THEN Wake(T[s]) ELSE T[s]]

(* Mutant: only sleepers without a deadline are woken.                     *)
WakeOnlyUnset(T) ==
    [s \in DOMAIN T |->
        IF T[s].state = "Timer" /\ T[s].deadline = "none" THEN Wake(T[s]) ELSE T[s]]

WakeExpiredTimers(T) ==
    [s \in DOMAIN T |->
        IF T[s].state = "Timer" /\ T[s].deadline # "future"
        THEN [Wake(T[s]) EXCEPT !.deadline = "none"]
        ELSE T[s]]

(***************************************************************************)
(* Lookups.  0 is the code's None.                                         *)
(***************************************************************************)
FirstOf(S) == IF S = {} THEN 0 ELSE Min(S)

IsLeader(T, s) == T[s].leader = s

SlotByPid(T, pid) == FirstOf({s \in DOMAIN T : T[s].pid = pid /\ IsLeader(T, s)})

SlotByTid(T, tid) == FirstOf({s \in DOMAIN T : T[s].tid = tid})

ProcessSlot(T, s) == IF s \in DOMAIN T THEN T[s].leader ELSE s

ThreadSlots(T, leader) == {s \in DOMAIN T : T[s].leader = leader}

LiveThreadCount(T, leader) ==
    Cardinality({s \in ThreadSlots(T, leader) : ~T[s].exited})

(* Mutants: no check at all, or of the leader's own slot only.             *)
NeverChecked(T, o, leader) == TRUE

LeaderOffCpu(T, o, leader) == o[leader] = NoCpu

ProcessQuiescent(T, o, leader) == \A s \in ThreadSlots(T, leader) : o[s] = NoCpu

(***************************************************************************)
(* Process tree.  init_slot: the slot of pid 1 unless it is a zombie.      *)
(***************************************************************************)
InitSlot(T) ==
    FirstOf({s \in DOMAIN T : T[s].pid = 1 /\ IsLeader(T, s) /\ ~T[s].zombie})

ReparentChildrenOf(T, dead) ==
    LET heir == IF dead # 1 /\ InitSlot(T) # 0 THEN 1 ELSE 0
    IN  [s \in DOMAIN T |->
            IF T[s].ppid = dead THEN [T[s] EXCEPT !.ppid = heir] ELSE T[s]]

ParentGone(T, ppid) == ppid = 0 \/ SlotByPid(T, ppid) = 0

(***************************************************************************)
(* Reaping.  A slot is freed together with its kernel stack; reaping a     *)
(* process frees every member and the page directory.                      *)
(***************************************************************************)
CanReap(T, o, s) == s \in DOMAIN T /\ ProcessQuiescent(T, o, s) /\ T[s].zombie

(* Mutant: the other threads of the process keep their slots.              *)
ReapLeaderOnly(T, o, s) ==
    IF CanReap(T, o, s)
    THEN Restrict(ReparentChildrenOf(T, T[s].pid), DOMAIN T \ {s})
    ELSE T

Reap(T, o, s) ==
    IF CanReap(T, o, s)
    THEN Restrict(ReparentChildrenOf(T, T[s].pid), DOMAIN T \ (ThreadSlots(T, s) \cup {s}))
    ELSE T

CanReapThread(T, o, s) ==
    s \in DOMAIN T /\ o[s] = NoCpu /\ T[s].is_thread /\ T[s].exited

ReapThread(T, o, s) ==
    IF CanReapThread(T, o, s) THEN Restrict(T, DOMAIN T \ {s}) ELSE T

ReapDetachedThreads(T, o) ==
    Restrict(T, {s \in DOMAIN T : ~(CanReapThread(T, o, s) /\ T[s].detached)})

(***************************************************************************)
(* reap_orphans: tasks whose parent is gone go to pid 1, or, when there is *)
(* no live pid 1, those that are zombies are reaped.                       *)
(***************************************************************************)
ReapOrphans(T, o) ==
    LET orphans == {s \in DOMAIN T : T[s].pid # 1 /\ ParentGone(T, T[s].ppid)}
        dead == {s \in orphans : CanReap(T, o, s)}
        gone == {s \in DOMAIN T : s \in dead \/ T[s].leader \in dead}
        deadPids == {T[s].pid : s \in dead}
    IN  IF InitSlot(T) # 0
        THEN [s \in DOMAIN T |-> IF s \in orphans THEN [T[s] EXCEPT !.ppid = 1] ELSE T[s]]
        ELSE [s \in DOMAIN T \ gone |->
                 IF T[s].ppid \in deadPids THEN [T[s] EXCEPT !.ppid = 0] ELSE T[s]]

(***************************************************************************)
(* get_free_slot reaps before it looks for the first empty slot.           *)
(***************************************************************************)
ReapForFreeSlot(T, o) == ReapOrphans(ReapDetachedThreads(T, o), o)

FreeSlot(T) == FirstOf(Slots \ DOMAIN T)

(***************************************************************************)
(* claim_next_task: round robin over the slots from the one after `after`; *)
(* a slot whose owner no longer reports it as current is first returned to *)
(* the pool.  Visited are the slots the loop looked at.                    *)
(***************************************************************************)
Distance(s, after) == (s - after - 1) % NSlots

Claimable(task) ==
    /\ task.running
    /\ task.state = "Runnable"
    /\ ~task.zombie
    /\ ~task.exited

StaleOwner(o, u, s) == o[s] # NoCpu /\ u[o[s]] # s

(* Mutant: the search always starts at the first slot.                     *)
LowestTask(T, o, u, after) ==
    FirstOf({s \in DOMAIN T : Claimable(T[s]) /\ (o[s] = NoCpu \/ StaleOwner(o, u, s))})

NextTask(T, o, u, after) ==
    LET ready == {s \in DOMAIN T : Claimable(T[s]) /\ (o[s] = NoCpu \/ StaleOwner(o, u, s))}
    IN  IF ready = {} THEN 0
        ELSE CHOOSE s \in ready : \A r \in ready : Distance(s, after) <= Distance(r, after)

Visited(next, after) ==
    {s \in Slots : next = 0 \/ Distance(s, after) <= Distance(next, after)}

RepairedOwners(o, u, next, after) ==
    [s \in Slots |-> IF s \in Visited(next, after) /\ StaleOwner(o, u, s)
                     THEN NoCpu ELSE o[s]]

(***************************************************************************)
(* TaskManager::schedule and schedule_ap, as functions on what the kernel  *)
(* lock protects.  A kernel state k is the record                          *)
(*    t  the task table                 o  TASK_OWNER                      *)
(*    u  CURRENT_TASK of each CPU       r  cr3 of each CPU (0: kernel's)   *)
(*    e  TSS.esp0 of each CPU           n  next_pid                        *)
(*    d  DEFERRED_KILL_CLEANUP          f  pids with open descriptors      *)
(* The page directory a CPU has loaded and the stack its TSS points at are *)
(* named by the pid or tid their task was created with.                    *)
(***************************************************************************)
TableOK(T) == DOMAIN T \subseteq Slots /\ T \in [DOMAIN T -> Task]

KernelStateOK(k) ==
    /\ TableOK(k.t)
    /\ k.o \in [Slots -> Cpus \cup {NoCpu}]
    /\ k.u \in [Cpus -> Slots \cup {0}]
    /\ k.r \in [Cpus -> Pids \cup {0}]
    /\ k.e \in [Cpus -> Pids \cup {0}]
    /\ k.n \in 1..(MaxPid + 1)
    /\ k.d \subseteq Slots
    /\ k.f \subseteq Pids

(***************************************************************************)
(* The outgoing task: its frame is saved, it is runnable again unless it   *)
(* blocked, stopped or died, its owner is cleared, and every wait or join  *)
(* is woken because the slot may just have become reapable.                *)
(***************************************************************************)
(* Mutants: the outgoing task is made runnable whatever happened to it;    *)
(* waits and joins are not woken.                                          *)
SaveRunnable(T, prev) ==
    IF prev \in DOMAIN T
    THEN WakeWaiters(WakeWaiters([T EXCEPT ![prev].state = "Runnable"], "Child"), "Thread")
    ELSE T

SaveQuietly(T, prev) ==
    IF prev \in DOMAIN T /\ T[prev].running
    THEN [T EXCEPT ![prev].state = "Runnable"] ELSE T

SaveOutgoing(T, prev) ==
    IF prev \in DOMAIN T
    THEN LET saved == [T EXCEPT ![prev].state =
                          IF T[prev].running THEN "Runnable" ELSE @]
         IN  WakeWaiters(WakeWaiters(saved, "Child"), "Thread")
    ELSE T

(* Mutant: the outgoing slot stays owned.                                  *)
KeepOwner(o, prev) == o

ReleaseOwner(o, prev) == IF prev = 0 THEN o ELSE [o EXCEPT ![prev] = NoCpu]

Schedule(k, c) ==
    LET prev == k.u[c]
        t1   == SaveOutgoing(WakeExpiredTimers(k.t), prev)
        o1   == ReleaseOwner(k.o, prev)
        next == NextTask(t1, o1, k.u, prev)
        o2   == RepairedOwners(o1, k.u, next, prev)
    IN  IF next = 0
        THEN [k EXCEPT !.t = t1, !.o = o2, !.u[c] = 0, !.r[c] = 0,
                       !.e[c] = IF c = BSP THEN 0 ELSE @]
        ELSE [k EXCEPT !.t = [t1 EXCEPT ![next].state = "Running"],
                       !.o = [o2 EXCEPT ![next] = c],
                       !.u[c] = next,
                       !.r[c] = t1[next].pd,
                       !.e[c] = t1[next].kstack]
=============================================================================
