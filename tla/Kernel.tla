------------------------------- MODULE Kernel -------------------------------
(***************************************************************************)
(* Processes, threads and signals on an SMP machine under one kernel lock  *)
(* (kernel/src/syscalls/handler.rs, interrupts/timer.rs, smp.rs,           *)
(* interrupts/exceptions.rs, multitasking/task.rs).                        *)
(*                                                                         *)
(* A processor is in user mode, idle, spinning for the kernel lock inside  *)
(* a system call or a user fault, or in the hand-off: the body of the      *)
(* handler is done and the next task chosen, but the assembly epilogue has *)
(* not left the outgoing kernel stack, so it still owns the lock.  Bodies  *)
(* run with the lock held and interrupts off, hence one step each; the     *)
(* interleavings are between entering the kernel, getting the lock and     *)
(* finishing the hand-off on different processors.                         *)
(***************************************************************************)
EXTENDS Signal

VARIABLES
    tasks,      \* the task table: occupied slots to tasks
    owner,      \* TASK_OWNER
    cur,        \* CURRENT_TASK of each CPU, 0 when it idles
    cr3,        \* page directory each CPU has loaded
    esp0,       \* kernel stack each CPU's TSS names
    nextPid,    \* next_pid
    deferred,   \* DEFERRED_KILL_CLEANUP
    openFds,    \* processes whose descriptors are still open
    lock,       \* holder of SMP_KERNEL_LOCK
    mode,       \* what each CPU is doing
    stk,        \* kernel stack each CPU executes on, 0 for none or idle
    userSched   \* USER_SCHEDULING: APs may run user tasks

vars == <<tasks, owner, cur, cr3, esp0, nextPid, deferred, openFds,
          lock, mode, stk, userSched>>

Modes == {"user", "idle", "syscall", "fault", "handoff"}

K == [t |-> tasks, o |-> owner, u |-> cur, r |-> cr3, e |-> esp0,
      n |-> nextPid, d |-> deferred, f |-> openFds]

(***************************************************************************)
(* Boot has spawned init (pid 1) into slot 1; every processor idles.       *)
(***************************************************************************)
Init ==
    /\ tasks = [s \in {1} |-> NewTask(1, 0, 1)]
    /\ owner = [s \in Slots |-> NoCpu]
    /\ cur = [c \in Cpus |-> 0]
    /\ cr3 = [c \in Cpus |-> 0]
    /\ esp0 = [c \in Cpus |-> 0]
    /\ nextPid = 2
    /\ deferred = {}
    /\ openFds = {1}
    /\ lock = NoCpu
    /\ mode = [c \in Cpus |-> "idle"]
    /\ stk = [c \in Cpus |-> 0]
    /\ userSched = FALSE

(***************************************************************************)
(* handoff_kernel_lock: the body leaves kernel state k; the CPU keeps the  *)
(* lock and its stack until finish_kernel_handoff.                         *)
(***************************************************************************)
(* Mutant: the lock is released before the outgoing stack is left.         *)
HandoffUnlocks(c, k) ==
    /\ tasks' = k.t
    /\ owner' = k.o
    /\ cur' = k.u
    /\ cr3' = k.r
    /\ esp0' = k.e
    /\ nextPid' = k.n
    /\ deferred' = k.d
    /\ openFds' = k.f
    /\ lock' = NoCpu
    /\ mode' = [mode EXCEPT ![c] = "handoff"]

Handoff(c, k) ==
    /\ tasks' = k.t
    /\ owner' = k.o
    /\ cur' = k.u
    /\ cr3' = k.r
    /\ esp0' = k.e
    /\ nextPid' = k.n
    /\ deferred' = k.d
    /\ openFds' = k.f
    /\ lock' = c
    /\ mode' = [mode EXCEPT ![c] = "handoff"]

FinishHandoff(c) ==
    /\ mode[c] = "handoff"
    /\ lock' = NoCpu
    /\ mode' = [mode EXCEPT ![c] = IF cur[c] = 0 THEN "idle" ELSE "user"]
    /\ stk' = [stk EXCEPT ![c] = 0]
    /\ UNCHANGED <<tasks, owner, cur, cr3, esp0, nextPid, deferred, openFds, userSched>>

(***************************************************************************)
(* Entering the kernel.  A task whose frame was rewound by                 *)
(* block_and_restart executes the same int 0x80 again.                     *)
(***************************************************************************)
EnterSyscall(c, call) ==
    /\ mode[c] = "user"
    /\ tasks[cur[c]].again => call = tasks[cur[c]].call
    /\ tasks' = [tasks EXCEPT ![cur[c]].call = call, ![cur[c]].again = FALSE]
    /\ mode' = [mode EXCEPT ![c] = "syscall"]
    /\ stk' = [stk EXCEPT ![c] = esp0[c]]
    /\ UNCHANGED <<owner, cur, cr3, esp0, nextPid, deferred, openFds, lock, userSched>>

EnterFault(c) ==
    /\ UserFaults
    /\ mode[c] = "user"
    /\ mode' = [mode EXCEPT ![c] = "fault"]
    /\ stk' = [stk EXCEPT ![c] = esp0[c]]
    /\ UNCHANGED <<tasks, owner, cur, cr3, esp0, nextPid, deferred, openFds, lock, userSched>>

(***************************************************************************)
(* Common parts of the bodies.  Return stores a result in eax.             *)
(***************************************************************************)
Return(k, s) == [k EXCEPT !.t[s].call = NoCall]

BlockAndRestart(k, c, s, reason) ==
    Schedule([k EXCEPT !.t[s] = [Block(@, reason) EXCEPT !.again = TRUE]], c)

MustSwitch(task) == ~task.running /\ (task.stopped \/ task.zombie \/ task.exited)

(***************************************************************************)
(* The tail of syscall_handler_locked for calls that return a value.       *)
(***************************************************************************)
Complete(k, c, s) ==
    LET k1 == Return(k, s)
    IN  IF MustSwitch(k1.t[s]) THEN Schedule(k1, c) ELSE DeliverPending(k1, c)

(***************************************************************************)
(* syscall_handler around one call: with the lock, drain the deferred      *)
(* clean-up; the task must still be alive and runnable; reap detached      *)
(* threads; then the body; finally deliver signals and hand off.           *)
(***************************************************************************)
CanExecute(T, s) == s \in DOMAIN T /\ T[s].running /\ ~T[s].exited /\ ~T[s].zombie

Locked(c, op) ==
    /\ mode[c] = "syscall"
    /\ lock = NoCpu
    /\ CanExecute(tasks, cur[c])
    /\ tasks[cur[c]].call.op = op

Entered ==
    LET k == DrainDeferredCleanup(K)
    IN  [k EXCEPT !.t = ReapDetachedThreads(k.t, k.o)]

Leave(c, k) == Handoff(c, DeliverPending(k, c)) /\ UNCHANGED <<stk, userSched>>

(***************************************************************************)
(* A sibling or another processor stopped or killed the task while it was  *)
(* waiting for the lock: the call is not executed.                         *)
(***************************************************************************)
LostTurn(c) ==
    /\ mode[c] = "syscall"
    /\ lock = NoCpu
    /\ ~CanExecute(tasks, cur[c])
    /\ Leave(c, Schedule(DrainDeferredCleanup(K), c))

(***************************************************************************)
(* exit, exit_group and user faults.                                       *)
(***************************************************************************)
FinishProcess(k, leader) ==
    LET dead == k.t[leader].pid
        marked == [k.t EXCEPT ![leader] = [MarkExited(@) EXCEPT !.zombie = TRUE, !.term = 0]]
        orphaned == ReparentChildrenOf(marked, dead)
    IN  [k EXCEPT !.t = WakeWaiters(WakeWaiters(orphaned, "Child"), "Thread"),
                  !.f = @ \ {dead}]

ExitProcess(k, leader) ==
    LET marked == [s \in DOMAIN k.t |->
                      IF k.t[s].leader = leader THEN MarkExited(k.t[s]) ELSE k.t[s]]
    IN  FinishProcess([k EXCEPT !.t = marked], leader)

ExitThread(k, s) ==
    LET leader == ProcessSlot(k.t, s)
        k1 == [k EXCEPT !.t = WakeWaiters([k.t EXCEPT ![s] = MarkExited(@)], "Thread")]
    IN  IF LiveThreadCount(k1.t, leader) = 0 THEN FinishProcess(k1, leader) ELSE k1

SysExit(c) ==
    /\ Locked(c, "exit")
    /\ Leave(c, Schedule(ExitThread(Entered, cur[c]), c))

SysExitGroup(c) ==
    /\ Locked(c, "exit_group")
    /\ Leave(c, Schedule(ExitProcess(Entered, ProcessSlot(tasks, cur[c])), c))

FaultExit(c) ==
    /\ mode[c] = "fault"
    /\ lock = NoCpu
    /\ Handoff(c, Schedule(ExitProcess(K, ProcessSlot(tasks, cur[c])), c))
    /\ UNCHANGED <<stk, userSched>>

(***************************************************************************)
(* Calls that give up the processor.  SysRead stands for every restartable *)
(* wait on input: it either finds data or blocks.                          *)
(***************************************************************************)
SysYield(c) ==
    /\ Locked(c, "yield")
    /\ Leave(c, Schedule(Return(Entered, cur[c]), c))

SysNanosleep(c) ==
    LET k == Return(Entered, cur[c])
    IN  /\ Locked(c, "sleep")
        /\ Leave(c, Schedule([k EXCEPT !.t[cur[c]] =
                                 [Block(@, "Timer") EXCEPT !.deadline = "future"]], c))

SysRead(c) ==
    /\ Locked(c, "read")
    /\ \/ Leave(c, Complete(Entered, c, cur[c]))
       \/ Leave(c, BlockAndRestart(Entered, c, cur[c], "Input"))

(***************************************************************************)
(* Creating processes and threads.  No slot or no pid left: the call       *)
(* fails.  spawn_bad is a spawn whose image load_elf rejects after the     *)
(* slot was chosen: it returns an error with the kernel's page directory   *)
(* loaded.                                                                 *)
(***************************************************************************)
Reaped == [Entered EXCEPT !.t = ReapForFreeSlot(@, owner)]

(* Mutant: a full table is not noticed.                                    *)
HasPid(k) == k.n <= MaxPid

HasRoom(k) == FreeSlot(k.t) # 0 /\ k.n <= MaxPid

Spawned(k, parent) ==
    LET slot == FreeSlot(k.t)
    IN  [k EXCEPT !.t = Publish(@, slot, NewTask(k.n, k.t[parent].pid, slot)),
                  !.n = @ + 1,
                  !.f = @ \cup {k.n}]

ThreadCreated(k, leader) ==
    [k EXCEPT !.t = Publish(@, FreeSlot(k.t), NewThread(k.t[leader], k.n)),
              !.n = @ + 1]

SysSpawn(c) ==
    LET k == Reaped
        k1 == IF HasRoom(k) THEN Spawned(k, ProcessSlot(tasks, cur[c])) ELSE k
    IN  /\ Locked(c, "spawn")
        /\ Leave(c, Complete(k1, c, cur[c]))

SysSpawnBad(c) ==
    LET k == Reaped
        k1 == IF HasRoom(k) THEN [k EXCEPT !.n = @ + 1, !.r[c] = 0] ELSE k
    IN  /\ Locked(c, "spawn_bad")
        /\ Leave(c, Complete(k1, c, cur[c]))

SysThreadCreate(c) ==
    LET k == Reaped
        k1 == IF HasRoom(k) THEN ThreadCreated(k, ProcessSlot(tasks, cur[c])) ELSE k
    IN  /\ Locked(c, "thread_create")
        /\ Leave(c, Complete(k1, c, cur[c]))

(***************************************************************************)
(* thread_join and thread_detach.                                          *)
(***************************************************************************)
Joinable(T, s, target) ==
    /\ target # 0
    /\ target # s
    /\ T[target].leader = T[s].leader
    /\ T[target].is_thread
    /\ ~T[target].detached

SysThreadJoin(c) ==
    LET k == Entered
        s == cur[c]
        target == SlotByTid(k.t, tasks[s].call.id)
    IN  /\ Locked(c, "join")
        /\ IF ~Joinable(k.t, s, target) THEN Leave(c, Return(k, s))
           ELSE IF CanReapThread(k.t, k.o, target)
                THEN Leave(c, Return([k EXCEPT !.t = ReapThread(@, k.o, target)], s))
           ELSE Leave(c, BlockAndRestart(k, c, s, "Thread"))

SysThreadDetach(c) ==
    LET k == Entered
        s == cur[c]
        target == SlotByTid(k.t, tasks[s].call.id)
        k1 == IF ~Joinable(k.t, s, target) THEN k
              ELSE [k EXCEPT !.t = ReapThread([@ EXCEPT ![target].detached = TRUE],
                                              k.o, target)]
    IN  /\ Locked(c, "detach")
        /\ Leave(c, Complete(k1, c, s))

(***************************************************************************)
(* wait: the first child, in slot order, that is a zombie or, when asked   *)
(* for, has a stop or a continue to report.                                *)
(***************************************************************************)
Children(T, parent, want) ==
    {s \in DOMAIN T : T[s].ppid = parent /\ (want = 0 \/ T[s].pid = want)}

Reportable(task, arg) ==
    task.zombie \/ (arg = "untraced" /\ (task.stop_pending \/ task.cont_pending))

Report(k, child) ==
    CASE k.t[child].zombie -> [k EXCEPT !.t = Reap(@, k.o, child)]
      [] ~k.t[child].zombie /\ k.t[child].stop_pending ->
            [k EXCEPT !.t[child].stop_pending = FALSE]
      [] OTHER -> [k EXCEPT !.t[child].cont_pending = FALSE]

SysWait(c) ==
    LET k == Entered
        s == cur[c]
        call == tasks[s].call
        mine == Children(k.t, k.t[ProcessSlot(k.t, s)].pid, call.id)
        child == FirstOf({x \in mine : Reportable(k.t[x], call.arg)})
        notYet == IF child = 0 THEN mine # {}
                  ELSE k.t[child].zombie /\ ~CanReap(k.t, k.o, child)
    IN  /\ Locked(c, "wait")
        /\ IF notYet /\ call.arg # "nohang"
           THEN Leave(c, BlockAndRestart(k, c, s, "Child"))
           ELSE Leave(c, Return(IF child = 0 \/ notYet THEN k ELSE Report(k, child), s))

(***************************************************************************)
(* kill on one process and sigaction.                                      *)
(***************************************************************************)
SysKill(c) ==
    LET k == Entered
        call == tasks[cur[c]].call
        target == SlotByPid(k.t, call.id)
        k1 == IF call.sig = 0 \/ target = 0 THEN k ELSE SignalSlot(k, target, call.sig)
    IN  /\ Locked(c, "kill")
        /\ Leave(c, Complete(k1, c, cur[c]))

SysSigaction(c) ==
    LET k == Entered
        call == tasks[cur[c]].call
        leader == ProcessSlot(tasks, cur[c])
        k1 == IF call.sig \notin Catchable THEN k
              ELSE [k EXCEPT !.t[leader].handlers[call.sig] = call.arg]
    IN  /\ Locked(c, "sigaction")
        /\ Leave(c, Complete(k1, c, cur[c]))

(***************************************************************************)
(* Timer interrupts: only user mode and idle may switch, and only if the   *)
(* lock is free at that moment.  The BSP tick also wakes input waiters and *)
(* lets the APs run user tasks.                                            *)
(***************************************************************************)
TimerTick(c) ==
    LET k == IF c = BSP THEN [K EXCEPT !.t = WakeWaiters(@, "Input")] ELSE K
    IN  /\ mode[c] \in {"user", "idle"}
        /\ lock = NoCpu
        /\ c = BSP \/ userSched
        /\ Handoff(c, DeliverPending(Schedule(k, c), c))
        /\ stk' = [stk EXCEPT ![c] = IF mode[c] = "user" THEN esp0[c] ELSE 0]
        /\ userSched' = (userSched \/ c = BSP)

(***************************************************************************)
(* Time passes: the clock reaches some task's wake_deadline_ms.            *)
(***************************************************************************)
ClockReaches(s) ==
    /\ s \in DOMAIN tasks
    /\ tasks[s].deadline = "future"
    /\ tasks' = [tasks EXCEPT ![s].deadline = "past"]
    /\ UNCHANGED <<owner, cur, cr3, esp0, nextPid, deferred, openFds,
                   lock, mode, stk, userSched>>

Body(c) ==
    \/ SysExit(c)
    \/ SysExitGroup(c)
    \/ SysYield(c)
    \/ SysNanosleep(c)
    \/ SysRead(c)
    \/ SysSpawn(c)
    \/ SysSpawnBad(c)
    \/ SysThreadCreate(c)
    \/ SysThreadJoin(c)
    \/ SysThreadDetach(c)
    \/ SysWait(c)
    \/ SysKill(c)
    \/ SysSigaction(c)
    \/ LostTurn(c)
    \/ FaultExit(c)

Next ==
    \/ \E c \in Cpus :
        \/ \E call \in Calls : EnterSyscall(c, call)
        \/ EnterFault(c)
        \/ Body(c)
        \/ FinishHandoff(c)
        \/ TimerTick(c)
    \/ \E s \in Slots : ClockReaches(s)

Spec == Init /\ [][Next]_vars

(***************************************************************************)
(* Fairness.  A processor in the hand-off finishes it and time passes.  A  *)
(* processor that spins for the lock, and one whose periodic timer         *)
(* interrupt only tries the lock, gets it eventually if the lock is free   *)
(* again and again, because every hold is bounded: strong fairness of      *)
(* Body(c) and TimerTick(c), spelled out with their enabling conditions.   *)
(* A rewound frame executes its int 0x80 as its next user instruction, and *)
(* a processor gets to execute one between two ticks now and then.         *)
(* Nothing else is assumed of user programs: they need not make any call.  *)
(***************************************************************************)
TakesLock(c, from) == mode[c] \in from /\ mode'[c] = "handoff"

LockFair(c, from) ==
    []<>(mode[c] \in from /\ lock = NoCpu) => []<><<TakesLock(c, from)>>_vars

Restarts(c) == mode[c] = "user" /\ tasks[cur[c]].again

RestartFair(c) ==
    []<>Restarts(c) => []<><<Restarts(c) /\ mode'[c] = "syscall">>_vars

Fairness ==
    /\ \A c \in Cpus : WF_vars(FinishHandoff(c))
    /\ \A c \in Cpus : LockFair(c, {"syscall", "fault"})
    /\ \A c \in Cpus : LockFair(c, {"user", "idle"})
    /\ \A c \in Cpus : RestartFair(c)
    /\ \A s \in Slots : WF_vars(ClockReaches(s))

FairSpec == Spec /\ Fairness
-----------------------------------------------------------------------------
(***************************************************************************)
(* Properties.                                                             *)
(***************************************************************************)
(* Every variable stays in its type: in particular slots, pids and signal  *)
(* numbers written by the kernel bodies are ones that exist.               *)
TypeOK ==
    /\ KernelStateOK(K)
    /\ lock \in Cpus \cup {NoCpu}
    /\ mode \in [Cpus -> Modes]
    /\ stk \in [Cpus -> Pids \cup {0}]
    /\ userSched \in BOOLEAN

(* TASK_OWNER and CURRENT_TASK never disagree: a slot is owned by a CPU    *)
(* exactly while that CPU reports it as current (claim_next_task repairs   *)
(* the opposite; this says the repair is never needed), so no task is ever *)
(* on two processors.                                                      *)
OwnerMatchesCurrent ==
    \A s \in Slots : \A c \in Cpus : owner[s] = c <=> cur[c] = s

(* No processor executes on a kernel stack that another one executes on or *)
(* is about to use: handing the lock over before leaving the outgoing      *)
(* stack, or resuming a task still being switched out, would break it.     *)
KernelStackExclusive ==
    \A c, d \in Cpus :
        c # d /\ stk[c] # 0 =>
            /\ stk[d] # stk[c]
            /\ esp0[d] # stk[c] \/ cur[d] = 0
            /\ cur[d] # 0 => tasks[cur[d]].kstack # stk[c]

(* Reaping never frees the kernel stack a processor stands on nor the page *)
(* directory it has loaded (reap, reap_thread and the quiescence checks).  *)
NoUseAfterFree ==
    \A c \in Cpus :
        /\ stk[c] # 0 => \E s \in DOMAIN tasks : tasks[s].kstack = stk[c]
        /\ cr3[c] # 0 => \E s \in DOMAIN tasks : IsLeader(tasks, s) /\ tasks[s].pd = cr3[c]

(* Every thread's leader slot holds the leader of its own process, with    *)
(* the page directory the thread borrows: a leader is never reaped, and    *)
(* its slot never reused, under a thread that still exists.                *)
ThreadGroupIntact ==
    \A s \in DOMAIN tasks :
        LET leader == tasks[s].leader
        IN  /\ leader \in DOMAIN tasks
            /\ IsLeader(tasks, leader)
            /\ tasks[leader].pid = tasks[s].pid
            /\ tasks[leader].pd = tasks[s].pd

(* A process that is gone has had its descriptors closed: the deferred     *)
(* clean-up of a killed process always runs before its slot is reaped, so  *)
(* no pipe, socket or pty reference outlives its holder.                   *)
NoLeakedDescriptors ==
    \A p \in openFds : SlotByPid(tasks, p) # 0

(* The parent a task names is a process that can still wait for it: when a *)
(* process dies its children have been handed to pid 1 or to nobody.       *)
ParentCanWait ==
    \A s \in DOMAIN tasks :
        tasks[s].ppid # 0 =>
            \E p \in DOMAIN tasks : /\ IsLeader(tasks, p)
                                     /\ tasks[p].pid = tasks[s].ppid
                                     /\ ~tasks[p].zombie

(* A thread that has exited is never runnable and never given a processor  *)
(* again until its slot is freed: wake-ups, stop, SIGCONT, late signals    *)
(* and the scheduler saving it all go over the threads of a process.       *)
DeadStaysDead ==
    [][\A s \in DOMAIN tasks \cap DOMAIN tasks' :
          tasks[s].exited /\ tasks'[s].tid = tasks[s].tid =>
              /\ tasks'[s].exited
              /\ ~tasks'[s].running
              /\ tasks'[s].state = "Zombie"
              /\ \A c \in Cpus : cur'[c] = s => cur[c] = s]_vars

(* Stop and continue act on whole processes: while the leader thread lives *)
(* every live thread of the process is stopped exactly when the leader is. *)
StopIsProcessWide ==
    \A s \in DOMAIN tasks :
        ~tasks[s].exited /\ ~tasks[tasks[s].leader].exited =>
            tasks[s].stopped = tasks[tasks[s].leader].stopped

(* A stopped thread is not dispatched before SIGCONT resumes it, whatever  *)
(* it was waiting for when it was stopped.                                 *)
StoppedNotDispatched ==
    [][\A s \in DOMAIN tasks \cap DOMAIN tasks' :
          tasks[s].stopped /\ tasks'[s].stopped /\ tasks'[s].tid = tasks[s].tid =>
              \A c \in Cpus : cur'[c] = s => cur[c] = s]_vars

(* Round robin starves nobody: a task that may be claimed is dispatched,   *)
(* or stops being claimable, whatever the other tasks do.                  *)
RunnableIsDispatched ==
    \A s \in Slots :
        (s \in DOMAIN tasks /\ Claimable(tasks[s])) ~>
            (s \notin DOMAIN tasks \/ ~Claimable(tasks[s]))

(* A sleeping thread is woken once its deadline has passed, on whichever   *)
(* processor the next schedule runs.                                       *)
SleeperWakes ==
    \A s \in Slots :
        (s \in DOMAIN tasks /\ tasks[s].state = "Timer") ~>
            (s \notin DOMAIN tasks \/ tasks[s].state # "Timer")

(* A parent inside wait(pid) for a child that is dead gets it reaped, even *)
(* when a thread of the child is still on another processor at the time.   *)
WaitCollects ==
    \A p \in Pids :
        LET waited == \E s, child \in DOMAIN tasks :
                /\ tasks[child].pid = p /\ tasks[child].zombie
                /\ tasks[child].ppid = tasks[s].pid
                /\ tasks[s].call.op = "wait" /\ tasks[s].call.id = p
                /\ ~tasks[s].exited
        IN  waited ~> ~waited

(* README.md:535: tasks may use SIG_IGN "where allowed", and only SIGKILL  *)
(* "cannot be overridden".  A process killed by a catchable signal had its *)
(* default disposition for it.                                             *)
IgnoredSignalNeverKills ==
    \A s \in DOMAIN tasks :
        tasks[s].zombie /\ tasks[s].term \in Catchable =>
            tasks[s].handlers[tasks[s].term] = "SIG_DFL"

(* handler.rs:908-911: a task that becomes unrunnable during a call has    *)
(* its syscall frame preserved "for a later SIGCONT".  Whenever a task is  *)
(* back in user mode past its int 0x80, the call has been executed.        *)
CallsAreExecuted ==
    \A c \in Cpus :
        mode[c] = "user" /\ ~tasks[cur[c]].again => tasks[cur[c]].call = NoCall

(* handler.rs:4306: a failed spawn "returns [...] usize::MAX"; for the     *)
(* caller to see any result it must return to its own address space.       *)
UserRunsInOwnAddressSpace ==
    \A c \in Cpus : mode[c] = "user" => cr3[c] = tasks[cur[c]].pd

(* README.md:532: the default action of SIGTERM is to terminate.  A live,  *)
(* not stopped process with SIGTERM pending and the default disposition    *)
(* dies.                                                                   *)
SigtermTerminates ==
    \A p \in Pids :
        LET live(s) ==
                /\ tasks[s].pid = p /\ IsLeader(tasks, s)
                /\ ~tasks[s].zombie /\ ~tasks[s].stopped
                /\ tasks[s].handlers[SIGTERM] = "SIG_DFL"
        IN  (\E s \in DOMAIN tasks : live(s) /\ SIGTERM \in tasks[s].pending) ~>
                ~(\E s \in DOMAIN tasks : live(s))
=============================================================================
