----------------------------- MODULE LifeProofs -----------------------------
(***************************************************************************)
(* Safety of the life of processes in Kernel, for any number of slots,     *)
(* processors and pids: death is final, parents can wait, descriptors are  *)
(* closed before a process is reaped, stop and continue reach the whole    *)
(* process.                                                                *)
(***************************************************************************)
EXTENDS KernelProofs, FiniteSetTheorems

(***************************************************************************)
(* The flags of one task agree: what wake_waiters, schedule and SIGCONT    *)
(* look at never makes a dead or stopped thread runnable.                  *)
(***************************************************************************)
ShapeOK(T) ==
    \A s \in DOMAIN T :
        /\ T[s].tid = T[s].kstack
        /\ T[s].exited => ~T[s].running /\ T[s].state = "Zombie"
        /\ T[s].stopped => ~T[s].running /\ T[s].state = "Stopped"

(* Once the leader is a zombie every thread of the process has exited.     *)
GroupDies(T) == \A s \in DOMAIN T : T[T[s].leader].zombie => T[s].exited

(* Some process with this pid has not finished.                            *)
Alive(T, p) == \E l \in DOMAIN T : T[l].leader = l /\ T[l].pid = p /\ ~T[l].zombie

(* The parent a task names has not finished.                               *)
ParentsOK(T) == \A s \in DOMAIN T : T[s].ppid # 0 => Alive(T, T[s].ppid)

(* Live threads of a process with a live leader stop together.             *)
StopOK(T) ==
    \A s \in DOMAIN T :
        ~T[s].exited /\ ~T[T[s].leader].exited => T[s].stopped = T[T[s].leader].stopped

LifeOK(T) == ShapeOK(T) /\ GroupDies(T) /\ ParentsOK(T) /\ StopOK(T)

(* Open descriptors belong to a process that has not finished, or to one   *)
(* whose clean-up is still in the deferred mask.                           *)
FdsOK(k) ==
    \A p \in k.f : \E l \in DOMAIN k.t :
        k.t[l].leader = l /\ k.t[l].pid = p /\ (k.t[l].zombie => l \in k.d)

(* The same once the deferred clean-up has run.                            *)
FdsDrained(k) == \A p \in k.f : Alive(k.t, p)

LifeInv(k) == KernelInv(k) /\ LifeOK(k.t) /\ FdsOK(k)

(***************************************************************************)
(* Steps.  A quiet rewriting touches neither identity nor the flags that   *)
(* say whether a thread is dead or stopped, and wakes no such thread.      *)
(***************************************************************************)
QuietTask(a, b) ==
    /\ b.pid = a.pid
    /\ b.tid = a.tid
    /\ b.kstack = a.kstack
    /\ b.leader = a.leader
    /\ b.ppid = a.ppid
    /\ b.zombie = a.zombie
    /\ b.exited = a.exited
    /\ b.stopped = a.stopped
    /\ a.exited => ~b.running /\ b.state = "Zombie"
    /\ a.stopped => ~b.running /\ b.state = "Stopped"

Quiet(T, U) == DOMAIN U = DOMAIN T /\ \A s \in DOMAIN T : QuietTask(T[s], U[s])

(* j is k with slots freed, tasks rewritten or tasks created: nobody is    *)
(* rescheduled and nobody who was dead is alive.                           *)
Keeps(k, j) ==
    /\ j.u = k.u
    /\ k.n <= j.n
    /\ \A s \in DOMAIN j.t :
        \/ j.t[s].kstack >= k.n
        \/ /\ s \in DOMAIN k.t
           /\ j.t[s].kstack = k.t[s].kstack
           /\ k.t[s].exited => j.t[s].exited

(* j is k after CPU c rescheduled: it chose nobody who was dead before or  *)
(* is stopped after, and nobody was stopped.                               *)
Settles(k, j, c) ==
    /\ DOMAIN j.t = DOMAIN k.t
    /\ \A s \in DOMAIN k.t :
        /\ j.t[s].kstack = k.t[s].kstack
        /\ k.t[s].exited => j.t[s].exited
        /\ j.t[s].stopped => k.t[s].stopped
        /\ j.u[c] = s /\ (k.t[s].exited \/ j.t[s].stopped) => k.u[c] = s
    /\ \A d \in Cpus \ {c} : j.u[d] = k.u[d]
-----------------------------------------------------------------------------
(* Quiet steps compose.                                                    *)
LEMMA QuietTransitive ==
    ASSUME NEW T, NEW U, NEW V, Quiet(T, U), Quiet(U, V)
    PROVE  Quiet(T, V)
    BY DEF Quiet, QuietTask

(* Doing nothing is quiet.                                                 *)
LEMMA QuietReflexive ==
    ASSUME NEW T, ShapeOK(T)
    PROVE  Quiet(T, T)
    BY DEF Quiet, QuietTask, ShapeOK

(* A quiet step keeps the invariant of the table.                          *)
LEMMA QuietLife ==
    ASSUME NEW T, LifeOK(T), \A s \in DOMAIN T : T[s].leader \in DOMAIN T,
           NEW U, Quiet(T, U)
    PROVE  LifeOK(U) /\ \A p : Alive(T, p) => Alive(U, p)
<1>1. \A s \in DOMAIN T : T[s].leader \in DOMAIN T
    OBVIOUS
<1>2. ShapeOK(U)
    BY DEF LifeOK, ShapeOK, Quiet, QuietTask
<1>3. GroupDies(U)
    BY <1>1 DEF LifeOK, GroupDies, Quiet, QuietTask
<1>4. \A p : Alive(T, p) => Alive(U, p)
    BY DEF Alive, Quiet, QuietTask
<1>5. ParentsOK(U)
    BY <1>4 DEF LifeOK, ParentsOK, Quiet, QuietTask
<1>6. StopOK(U)
    BY <1>1 DEF LifeOK, StopOK, Quiet, QuietTask
<1>7. QED
    BY <1>2, <1>3, <1>4, <1>5, <1>6 DEF LifeOK

(* A quiet step of a kernel state that changes no descriptor and           *)
(* reschedules nobody.                                                     *)
LEMMA QuietInv ==
    ASSUME NEW k, LifeInv(k), NEW j, KernelInv(j), Quiet(k.t, j.t),
           j.d = k.d, j.f = k.f
    PROVE  LifeInv(j)
<1>1. LifeOK(j.t)
    BY QuietLife DEF LifeInv, KernelInv, GroupOK
<1>2. FdsOK(j)
    BY DEF LifeInv, FdsOK, Quiet, QuietTask
<1>3. QED
    BY <1>1, <1>2 DEF LifeInv

(* A quiet step dispatches nobody.                                         *)
LEMMA QuietSettles ==
    ASSUME NEW k, NEW j, Quiet(k.t, j.t), j.u = k.u, NEW c
    PROVE  Settles(k, j, c)
    BY DEF Settles, Quiet, QuietTask

(* Rescheduling steps of one processor compose.                            *)
LEMMA SettlesTransitive ==
    ASSUME NEW k, NEW j, NEW l, NEW c, Settles(k, j, c), Settles(j, l, c)
    PROVE  Settles(k, l, c)
    BY DEF Settles

(* So do steps that only free, rewrite and create.                         *)
LEMMA KeepsTransitive ==
    ASSUME NEW k, NEW j, NEW l, Keeps(k, j), Keeps(j, l), k.n \in Int, j.n \in Int, l.n \in Int,
           \A s \in DOMAIN j.t : j.t[s].kstack \in Int,
           \A s \in DOMAIN l.t : l.t[s].kstack \in Int
    PROVE  Keeps(k, l)
    BY DEF Keeps
-----------------------------------------------------------------------------
(* Waking, saving and dispatching.                                         *)
LEMMA WakeWaitersQuiet ==
    ASSUME NEW T, TableOK(T), ShapeOK(T), NEW reason \in WaitReasons
    PROVE  Quiet(T, WakeWaiters(T, reason))
<1>1. \A s \in DOMAIN T : T[s] \in Task
    BY DEF TableOK
<1>2. ASSUME NEW t \in Task, t.state = reason,
             t.exited => t.state = "Zombie", t.stopped => t.state = "Stopped"
      PROVE  QuietTask(t, Wake(t))
    BY <1>2 DEF Task, Wake, QuietTask, WaitReasons
<1>3. ASSUME NEW s \in DOMAIN T
      PROVE  QuietTask(T[s], WakeWaiters(T, reason)[s])
    <2>1. QuietTask(T[s], T[s])
        BY DEF QuietTask, ShapeOK
    <2>2. CASE T[s].state = reason
        BY <1>1, <1>2, <2>2 DEF ShapeOK, WakeWaiters
    <2>3. QED
        BY <2>1, <2>2 DEF WakeWaiters
<1>4. QED
    BY <1>3 DEF Quiet, WakeWaiters

(* Expired timers wake only threads that sleep.                            *)
LEMMA WakeExpiredQuiet ==
    ASSUME NEW T, TableOK(T), ShapeOK(T)
    PROVE  Quiet(T, WakeExpiredTimers(T))
<1>1. \A s \in DOMAIN T : T[s] \in Task
    BY DEF TableOK
<1>2. ASSUME NEW t \in Task, t.state = "Timer",
             t.exited => t.state = "Zombie", t.stopped => t.state = "Stopped"
      PROVE  QuietTask(t, [Wake(t) EXCEPT !.deadline = "none"])
    BY <1>2 DEF Task, Wake, QuietTask
<1>3. ASSUME NEW s \in DOMAIN T
      PROVE  QuietTask(T[s], WakeExpiredTimers(T)[s])
    <2>1. QuietTask(T[s], T[s])
        BY DEF QuietTask, ShapeOK
    <2>2. CASE T[s].state = "Timer" /\ T[s].deadline # "future"
        BY <1>1, <1>2, <2>2 DEF ShapeOK, WakeExpiredTimers
    <2>3. QED
        BY <2>1, <2>2 DEF WakeExpiredTimers
<1>4. QED
    BY <1>3 DEF Quiet, WakeExpiredTimers

(* Replacing one task quietly.                                             *)
LEMMA UpdateQuiet ==
    ASSUME NEW T, ShapeOK(T), NEW s \in DOMAIN T, NEW x, QuietTask(T[s], x)
    PROVE  Quiet(T, [T EXCEPT ![s] = x])
    BY QuietReflexive DEF Quiet

(* Saving the outgoing task revives nobody.                                *)
LEMMA SaveOutgoingQuiet ==
    ASSUME NEW T, TableOK(T), ShapeOK(T), NEW prev
    PROVE  Quiet(T, SaveOutgoing(T, prev))
<1>1. CASE prev \notin DOMAIN T
    BY <1>1, QuietReflexive DEF SaveOutgoing
<1>2. CASE prev \in DOMAIN T
    <2> DEFINE x == [T[prev] EXCEPT !.state = IF T[prev].running THEN "Runnable" ELSE @]
               saved == [T EXCEPT ![prev] = x]
               w == WakeWaiters(saved, "Child")
    <2>1. T[prev] \in Task
        BY <1>2 DEF TableOK
    <2>2. x \in Task /\ SameFrame(prev, T[prev], x)
        BY <2>1 DEF Task, SameFrame, TaskStates
    <2>3. QuietTask(T[prev], x)
        BY <1>2, <2>1 DEF ShapeOK, QuietTask, Task
    <2>4. SaveOutgoing(T, prev) = WakeWaiters(w, "Thread")
        BY <1>2, <2>1 DEF SaveOutgoing, Task
    <2> HIDE DEF x
    <2>5. Evolves(T, saved)
        BY <1>2, <2>2, UpdateEvolves
    <2>6. Quiet(T, saved)
        BY <1>2, <2>3, UpdateQuiet
    <2> HIDE DEF saved
    <2>7. TableOK(saved) /\ ShapeOK(saved)
        BY <2>5, <2>6 DEF Evolves, Quiet, QuietTask, ShapeOK
    <2>8. Quiet(saved, w) /\ TableOK(w)
        BY <2>7, WakeWaitersQuiet, WakeWaitersEvolves DEF WaitReasons, Evolves
    <2> HIDE DEF w
    <2>9. ShapeOK(w)
        BY <2>7, <2>8 DEF Quiet, QuietTask, ShapeOK
    <2>10. Quiet(w, WakeWaiters(w, "Thread"))
        BY <2>8, <2>9, WakeWaitersQuiet DEF WaitReasons
    <2>11. QED
        BY <2>4, <2>6, <2>8, <2>10, QuietTransitive
<1>3. QED
    BY <1>1, <1>2

(* schedule chooses nobody who is dead or stopped.                         *)
LEMMA ScheduleLife ==
    ASSUME NEW k, LifeInv(k), NEW c \in Cpus
    PROVE  LifeInv(Schedule(k, c)) /\ Settles(k, Schedule(k, c), c)
<1> DEFINE prev == k.u[c]
           w == WakeExpiredTimers(k.t)
           t1 == SaveOutgoing(w, prev)
           o1 == ReleaseOwner(k.o, prev)
           next == NextTask(t1, o1, k.u, prev)
           o2 == RepairedOwners(o1, k.u, next, prev)
           j == Schedule(k, c)
<1>1. KernelInv(k) /\ KernelInv(j) /\ TableOK(k.t) /\ ShapeOK(k.t)
    BY ScheduleMoves DEF LifeInv, LifeOK, Moves, KernelInv, KernelStateOK
<1>2. Quiet(k.t, w) /\ TableOK(w)
    BY <1>1, WakeExpiredQuiet, WakeExpiredTimersEvolves DEF Evolves
<1> HIDE DEF w
<1>3. ShapeOK(w)
    BY <1>1, <1>2 DEF Quiet, QuietTask, ShapeOK
<1>4. Quiet(w, t1) /\ TableOK(t1)
    BY <1>2, <1>3, SaveOutgoingQuiet, SaveOutgoingEvolves DEF Evolves
<1>5. /\ Quiet(k.t, t1) /\ DOMAIN t1 = DOMAIN k.t /\ DOMAIN t1 \subseteq Slots
      /\ IsKernelState(k) /\ k.u \in [Cpus -> Slots \cup {0}]
    BY <1>1, <1>2, <1>4, QuietTransitive DEF Quiet, TableOK, KernelInv, KernelStateOK
<1>6. ShapeOK(t1)
    BY <1>3, <1>4 DEF Quiet, QuietTask, ShapeOK
<1>7. next = 0 \/ (next \in DOMAIN t1 /\ Claimable(t1[next]))
    <2>1. prev \in Slots \cup {0}
        BY <1>5
    <2>2. QED
        BY <1>5, <2>1, NextTaskReady
<1> DEFINE t2 == [t1 EXCEPT ![next].state = "Running"]
<1>8. \/ next = 0 /\ j.t = t1 /\ j.u = [k.u EXCEPT ![c] = 0] /\ j.d = k.d /\ j.f = k.f
      \/ next # 0 /\ j.t = t2 /\ j.u = [k.u EXCEPT ![c] = next] /\ j.d = k.d /\ j.f = k.f
    BY <1>5 DEF Schedule, IsKernelState, w
<1> HIDE DEF t1, next, j, t2
<1>9. ASSUME next # 0
      PROVE  Quiet(t1, t2) /\ ~t1[next].exited /\ ~t1[next].stopped
    <2>1. next \in DOMAIN t1 /\ t1[next] \in Task /\ Claimable(t1[next])
        BY <1>4, <1>7, <1>9 DEF TableOK
    <2>2. ~t1[next].exited /\ ~t1[next].stopped
        BY <1>6, <2>1 DEF Claimable, ShapeOK
    <2> DEFINE x == [t1[next] EXCEPT !.state = "Running"]
    <2>3. QuietTask(t1[next], x)
        BY <2>1, <2>2 DEF QuietTask, Task
    <2>4. t2 = [t1 EXCEPT ![next] = x]
        BY <2>1 DEF t2, Task
    <2>5. QED
        BY <1>6, <2>1, <2>2, <2>3, <2>4, UpdateQuiet
<1>10. Quiet(k.t, j.t) /\ j.d = k.d /\ j.f = k.f
    BY <1>5, <1>8, <1>9, QuietTransitive
<1>11. LifeInv(j)
    BY <1>1, <1>10, QuietInv
<1>12. /\ \A s \in DOMAIN k.t : j.u[c] = s => ~k.t[s].exited /\ ~j.t[s].stopped
       /\ \A d \in Cpus \ {c} : j.u[d] = k.u[d]
    BY <1>5, <1>8, <1>9, <1>10 DEF Quiet, QuietTask, Slots
<1>13. Settles(k, j, c)
    BY <1>10, <1>12 DEF Settles, Quiet, QuietTask
<1>14. QED
    BY <1>11, <1>13 DEF j

(* Replacing one task quietly keeps the invariant.                         *)
LEMMA UpdateLife ==
    ASSUME NEW k, LifeInv(k), NEW s \in DOMAIN k.t, NEW x \in Task,
           SameFrame(s, k.t[s], x), QuietTask(k.t[s], x), NEW c
    PROVE  /\ LifeInv([k EXCEPT !.t[s] = x])
           /\ Settles(k, [k EXCEPT !.t[s] = x], c)
<1> DEFINE j == [k EXCEPT !.t[s] = x]
<1>1. KernelInv(k) /\ IsKernelState(k) /\ ShapeOK(k.t)
    BY DEF LifeInv, LifeOK, KernelInv
<1>2. KernelInv(j)
    BY <1>1, RewriteTask, RewritesMoves
<1>3. j.t = [k.t EXCEPT ![s] = x] /\ j.u = k.u /\ j.d = k.d /\ j.f = k.f
    BY <1>1 DEF IsKernelState
<1> HIDE DEF j
<1>4. Quiet(k.t, j.t)
    BY <1>1, <1>3, UpdateQuiet
<1>5. LifeInv(j) /\ Settles(k, j, c)
    BY <1>2, <1>3, <1>4, QuietInv, QuietSettles
<1>6. QED
    BY <1>5 DEF j

(* Storing a result.                                                       *)
LEMMA ReturnLife ==
    ASSUME NEW k, LifeInv(k), NEW s \in DOMAIN k.t, NEW c
    PROVE  LifeInv(Return(k, s)) /\ Settles(k, Return(k, s), c)
<1> DEFINE x == [k.t[s] EXCEPT !.call = NoCall]
<1>1. k.t[s] \in Task /\ KernelInv(k) /\ ShapeOK(k.t)
    BY TaskTyped DEF LifeInv, LifeOK
<1>2. x \in Task /\ SameFrame(s, k.t[s], x) /\ QuietTask(k.t[s], x)
    BY <1>1 DEF Task, SameFrame, QuietTask, ShapeOK
<1>3. Return(k, s) = [k EXCEPT !.t[s] = x]
    BY <1>1 DEF Return, KernelInv, IsKernelState
<1> HIDE DEF x
<1>4. QED
    BY <1>2, <1>3, UpdateLife

(* Blocking a thread that runs.                                            *)
LEMMA BlockLife ==
    ASSUME NEW k, LifeInv(k), NEW c \in Cpus, NEW s \in DOMAIN k.t, NEW reason \in WaitReasons,
           k.t[s].running
    PROVE  /\ LifeInv(BlockAndRestart(k, c, s, reason))
           /\ Settles(k, BlockAndRestart(k, c, s, reason), c)
<1> DEFINE b == Block(k.t[s], reason)
           x == [b EXCEPT !.again = TRUE]
           j == [k EXCEPT !.t[s] = x]
<1>1. k.t[s] \in Task /\ KernelInv(k) /\ ~k.t[s].exited /\ ~k.t[s].stopped
    BY TaskTyped DEF LifeInv, LifeOK, ShapeOK
<1>2. b \in Task /\ SameFrame(s, k.t[s], b) /\ QuietTask(k.t[s], b)
    BY <1>1, BlockOK DEF Block, Task, QuietTask
<1> HIDE DEF b
<1>3. x \in Task /\ SameFrame(s, k.t[s], x) /\ QuietTask(k.t[s], x)
    BY <1>1, <1>2 DEF Task, SameFrame, QuietTask
<1> HIDE DEF x
<1>4. LifeInv(j) /\ Settles(k, j, c)
    BY <1>3, UpdateLife
<1>5. BlockAndRestart(k, c, s, reason) = Schedule(j, c)
    BY <1>1 DEF BlockAndRestart, b, x, KernelInv, IsKernelState
<1> HIDE DEF j
<1>6. QED
    BY <1>4, <1>5, ScheduleLife, SettlesTransitive
-----------------------------------------------------------------------------
(* Threads of the process led by slot leader are dead in V, and the leader *)
(* is a zombie; everybody else is as in T.                                 *)
Dies(T, V, leader) ==
    /\ DOMAIN V = DOMAIN T
    /\ \A s \in DOMAIN T :
        /\ V[s].pid = T[s].pid
        /\ V[s].tid = T[s].tid
        /\ V[s].kstack = T[s].kstack
        /\ V[s].leader = T[s].leader
        /\ V[s].ppid = T[s].ppid
        /\ IF T[s].leader = leader
           THEN /\ V[s].exited /\ ~V[s].running /\ V[s].state = "Zombie" /\ ~V[s].stopped
                /\ V[s].zombie <=> s = leader
           ELSE /\ QuietTask(T[s], V[s])

(* reparent_children_of gives the children of a dead process to a live     *)
(* pid 1 or to nobody and touches nothing else.                            *)
LEMMA ReparentLife ==
    ASSUME NEW T, TableOK(T), NEW dead,
           \A s \in DOMAIN T : T[s].ppid \notin {0, dead} => Alive(T, T[s].ppid)
    PROVE  LET U == ReparentChildrenOf(T, dead)
           IN  /\ DOMAIN U = DOMAIN T
               /\ \A s \in DOMAIN T :
                    /\ U[s].pid = T[s].pid /\ U[s].tid = T[s].tid /\ U[s].kstack = T[s].kstack
                    /\ U[s].leader = T[s].leader /\ U[s].zombie = T[s].zombie
                    /\ U[s].exited = T[s].exited /\ U[s].stopped = T[s].stopped
                    /\ U[s].running = T[s].running /\ U[s].state = T[s].state
               /\ ParentsOK(U)
<1> DEFINE heir == IF dead # 1 /\ InitSlot(T) # 0 THEN 1 ELSE 0
           U == ReparentChildrenOf(T, dead)
<1>1. heir = 1 => Alive(T, 1)
    <2> DEFINE S == {s \in DOMAIN T : T[s].pid = 1 /\ IsLeader(T, s) /\ ~T[s].zombie}
    <2>1. S \in SUBSET Slots
        BY DEF TableOK
    <2>2. heir = 1 => S # {}
        BY <2>1, FirstOfInSet DEF InitSlot
    <2>3. QED
        BY <2>2 DEF Alive, IsLeader
<1>2. heir \in {0, 1}
    OBVIOUS
<1>3. U = [s \in DOMAIN T |-> IF T[s].ppid = dead THEN [T[s] EXCEPT !.ppid = heir] ELSE T[s]]
    BY DEF ReparentChildrenOf
<1> HIDE DEF heir, U
<1>4. \A s \in DOMAIN T : T[s] \in Task
    BY DEF TableOK
<1>5. ASSUME NEW t \in Task
      PROVE  LET w == [t EXCEPT !.ppid = heir]
             IN  /\ w.pid = t.pid /\ w.tid = t.tid /\ w.kstack = t.kstack
                 /\ w.leader = t.leader /\ w.zombie = t.zombie /\ w.exited = t.exited
                 /\ w.stopped = t.stopped /\ w.running = t.running /\ w.state = t.state
                 /\ w.ppid = heir
    BY DEF Task
<1>6. /\ DOMAIN U = DOMAIN T
      /\ \A s \in DOMAIN T :
            /\ U[s].pid = T[s].pid /\ U[s].tid = T[s].tid /\ U[s].kstack = T[s].kstack
            /\ U[s].leader = T[s].leader /\ U[s].zombie = T[s].zombie
            /\ U[s].exited = T[s].exited /\ U[s].stopped = T[s].stopped
            /\ U[s].running = T[s].running /\ U[s].state = T[s].state
            /\ U[s].ppid = IF T[s].ppid = dead THEN heir ELSE T[s].ppid
    BY <1>3, <1>4, <1>5
<1>7. \A p : Alive(T, p) => Alive(U, p)
    BY <1>6 DEF Alive
<1>8. ParentsOK(U)
    BY <1>1, <1>2, <1>6, <1>7 DEF ParentsOK
<1>9. QED
    BY <1>6, <1>8 DEF U

(* A process that dies leaves a well-formed table behind.                  *)
LEMMA DeathLife ==
    ASSUME NEW T, GroupOK(T), LifeOK(T), NEW V, TableOK(V), NEW leader \in DOMAIN T,
           T[leader].leader = leader, Dies(T, V, leader)
    PROVE  LET U == WakeWaiters(WakeWaiters(ReparentChildrenOf(V, T[leader].pid), "Child"), "Thread")
           IN  /\ LifeOK(U)
               /\ DOMAIN U = DOMAIN T
               /\ \A s \in DOMAIN T :
                    /\ U[s].kstack = T[s].kstack
                    /\ U[s].pid = T[s].pid
                    /\ U[s].leader = T[s].leader
                    /\ T[s].exited => U[s].exited
                    /\ U[s].stopped => T[s].stopped
                    /\ T[s].leader # leader => U[s].zombie = T[s].zombie
<1> DEFINE dead == T[leader].pid
           A == ReparentChildrenOf(V, dead)
           B == WakeWaiters(A, "Child")
           U == WakeWaiters(B, "Thread")
<1>1. \A s \in DOMAIN T : T[s].leader \in DOMAIN T
    BY DEF GroupOK
<1>2. ASSUME NEW p, Alive(T, p), p # dead
      PROVE  Alive(V, p)
    BY <1>2 DEF Alive, Dies, QuietTask
<1>3. \A s \in DOMAIN V : V[s].ppid \notin {0, dead} => Alive(V, V[s].ppid)
    BY <1>2 DEF LifeOK, ParentsOK, Dies
<1>4. ShapeOK(V)
    BY DEF LifeOK, ShapeOK, Dies, QuietTask
<1>5. GroupDies(V)
    BY <1>1 DEF LifeOK, GroupDies, Dies, QuietTask
<1>6. StopOK(V)
    BY <1>1 DEF LifeOK, StopOK, Dies, QuietTask
<1>7. /\ DOMAIN A = DOMAIN V
      /\ \A s \in DOMAIN V :
            /\ A[s].pid = V[s].pid /\ A[s].tid = V[s].tid /\ A[s].kstack = V[s].kstack
            /\ A[s].leader = V[s].leader /\ A[s].zombie = V[s].zombie
            /\ A[s].exited = V[s].exited /\ A[s].stopped = V[s].stopped
            /\ A[s].running = V[s].running /\ A[s].state = V[s].state
      /\ ParentsOK(A)
    BY <1>3, ReparentLife
<1>8. TableOK(A) /\ TableOK(B)
    BY ReparentEvolves, WakeWaitersEvolves DEF Evolves
<1> HIDE DEF A
<1>9. \A s \in DOMAIN V : V[s].leader \in DOMAIN V
    BY <1>1 DEF Dies
<1>10. ShapeOK(A)
    BY <1>4, <1>7 DEF ShapeOK
<1>11. GroupDies(A)
    BY <1>5, <1>7, <1>9 DEF GroupDies
<1>12. StopOK(A)
    BY <1>6, <1>7, <1>9 DEF StopOK
<1>13. LifeOK(A)
    BY <1>7, <1>10, <1>11, <1>12 DEF LifeOK
<1>14. Quiet(A, B)
    BY <1>8, <1>10, WakeWaitersQuiet DEF WaitReasons
<1> HIDE DEF B
<1>15. ShapeOK(B)
    BY <1>10, <1>14 DEF Quiet, QuietTask, ShapeOK
<1>16. Quiet(B, U)
    BY <1>8, <1>15, WakeWaitersQuiet DEF WaitReasons
<1> HIDE DEF U
<1>17. Quiet(A, U)
    BY <1>14, <1>16, QuietTransitive
<1>18. \A s \in DOMAIN A : A[s].leader \in DOMAIN A
    BY <1>7, <1>9
<1>19. LifeOK(U)
    BY <1>13, <1>17, <1>18, QuietLife
<1>20. /\ DOMAIN U = DOMAIN T
       /\ \A s \in DOMAIN T :
            /\ U[s].kstack = T[s].kstack
            /\ U[s].pid = T[s].pid
            /\ U[s].leader = T[s].leader
            /\ T[s].exited => U[s].exited
            /\ U[s].stopped => T[s].stopped
            /\ T[s].leader # leader => U[s].zombie = T[s].zombie
    BY <1>7, <1>17 DEF Dies, Quiet, QuietTask
<1>21. QED
    BY <1>19, <1>20 DEF U, B, A

(* finish_process, once the other threads have exited.                     *)
LEMMA FinishLife ==
    ASSUME NEW k, LifeInv(k), NEW leader \in DOMAIN k.t, k.t[leader].leader = leader,
           \A s \in DOMAIN k.t : k.t[s].leader = leader => s = leader \/ k.t[s].exited, NEW c
    PROVE  LifeInv(FinishProcess(k, leader)) /\ Settles(k, FinishProcess(k, leader), c)
<1> DEFINE m == MarkExited(k.t[leader])
           x == [m EXCEPT !.zombie = TRUE, !.term = 0]
           V == [k.t EXCEPT ![leader] = x]
           dead == k.t[leader].pid
           U == WakeWaiters(WakeWaiters(ReparentChildrenOf(V, dead), "Child"), "Thread")
           j == FinishProcess(k, leader)
<1>1. KernelInv(k) /\ LifeOK(k.t) /\ ShapeOK(k.t) /\ GroupOK(k.t) /\ TableOK(k.t)
      /\ IsKernelState(k) /\ FdsOK(k)
    BY DEF LifeInv, LifeOK, KernelInv, KernelStateOK
<1>2. k.t[leader] \in Task
    BY <1>1, TaskTyped
<1>3. m \in Task /\ SameFrame(leader, k.t[leader], m)
    BY <1>2, MarkExitedOK
<1>4. /\ x.pid = dead /\ x.tid = k.t[leader].tid /\ x.kstack = k.t[leader].kstack
      /\ x.leader = leader /\ x.ppid = k.t[leader].ppid /\ x.exited /\ ~x.running
      /\ x.state = "Zombie" /\ ~x.stopped /\ x.zombie
    BY <1>2 DEF MarkExited, Task
<1> HIDE DEF m
<1>5. x \in Task /\ SameFrame(leader, k.t[leader], x)
    BY <1>3 DEF Task, SameFrame
<1> HIDE DEF x
<1>6. TableOK(V)
    BY <1>1, <1>5, UpdateEvolves DEF Evolves
<1>7. Dies(k.t, V, leader)
    BY <1>1, <1>4 DEF Dies, QuietTask, ShapeOK, GroupOK
<1>8. j.t = U /\ j.f = k.f \ {dead} /\ j.d = k.d /\ j.u = k.u
    BY <1>1 DEF FinishProcess, IsKernelState, m, x
<1>9. KernelInv(j)
    BY <1>1, FinishProcessRewrites, RewritesMoves
<1> HIDE DEF V, j
<1>10. /\ LifeOK(U)
       /\ DOMAIN U = DOMAIN k.t
       /\ \A s \in DOMAIN k.t :
            /\ U[s].kstack = k.t[s].kstack
            /\ U[s].pid = k.t[s].pid
            /\ U[s].leader = k.t[s].leader
            /\ k.t[s].exited => U[s].exited
            /\ U[s].stopped => k.t[s].stopped
            /\ k.t[s].leader # leader => U[s].zombie = k.t[s].zombie
    BY <1>1, <1>6, <1>7, DeathLife
<1> HIDE DEF U
<1>11. FdsOK(j)
    BY <1>1, <1>8, <1>10 DEF FdsOK
<1>12. Settles(k, j, c)
    BY <1>8, <1>10 DEF Settles
<1>13. QED
    BY <1>8, <1>9, <1>10, <1>11, <1>12 DEF LifeInv, j

(* U is T with the threads in S marked exited.                             *)
Marks(T, U, S) ==
    /\ DOMAIN U = DOMAIN T
    /\ \A s \in DOMAIN T :
        /\ U[s].pid = T[s].pid /\ U[s].tid = T[s].tid /\ U[s].kstack = T[s].kstack
        /\ U[s].leader = T[s].leader /\ U[s].ppid = T[s].ppid /\ U[s].zombie = T[s].zombie
        /\ s \in S => U[s].exited /\ ~U[s].running /\ U[s].state = "Zombie" /\ ~U[s].stopped
        /\ s \notin S => U[s] = T[s]

(* Marking the threads of a set as exited.                                 *)
LEMMA MarkMarks ==
    ASSUME NEW T, TableOK(T), NEW S
    PROVE  Marks(T, [s \in DOMAIN T |-> IF s \in S THEN MarkExited(T[s]) ELSE T[s]], S)
<1>1. \A s \in DOMAIN T : T[s] \in Task
    BY DEF TableOK
<1>2. ASSUME NEW t \in Task
      PROVE  LET w == MarkExited(t)
             IN  /\ w.pid = t.pid /\ w.tid = t.tid /\ w.kstack = t.kstack /\ w.leader = t.leader
                 /\ w.ppid = t.ppid /\ w.zombie = t.zombie /\ w.exited /\ ~w.running
                 /\ w.state = "Zombie" /\ ~w.stopped
    BY DEF MarkExited, Task
<1>3. QED
    BY <1>1, <1>2 DEF Marks

(* Marking threads exited, without finishing their process.                *)
LEMMA MarkLife ==
    ASSUME NEW k, LifeInv(k), NEW S, NEW c, NEW j, KernelInv(j),
           Marks(k.t, j.t, S), j.d = k.d, j.f = k.f, j.u = k.u
    PROVE  LifeInv(j) /\ Settles(k, j, c)
<1>1. LifeOK(k.t) /\ GroupOK(k.t) /\ FdsOK(k)
    BY DEF LifeInv, KernelInv
<1>2. ShapeOK(j.t)
    BY <1>1 DEF LifeOK, ShapeOK, Marks
<1>3. GroupDies(j.t)
    BY <1>1 DEF LifeOK, GroupDies, GroupOK, Marks
<1>4. ParentsOK(j.t)
    BY <1>1 DEF LifeOK, ParentsOK, Alive, Marks
<1>5. StopOK(j.t)
    BY <1>1 DEF LifeOK, StopOK, GroupOK, Marks
<1>6. FdsOK(j)
    BY <1>1 DEF FdsOK, Marks
<1>7. Settles(k, j, c)
    BY DEF Settles, Marks
<1>8. QED
    BY <1>2, <1>3, <1>4, <1>5, <1>6, <1>7 DEF LifeInv, LifeOK

(* exit_group and faults.                                                  *)
LEMMA ExitProcessLife ==
    ASSUME NEW k, LifeInv(k), NEW leader \in DOMAIN k.t, k.t[leader].leader = leader, NEW c
    PROVE  LifeInv(ExitProcess(k, leader)) /\ Settles(k, ExitProcess(k, leader), c)
<1> DEFINE S == {s \in DOMAIN k.t : k.t[s].leader = leader}
           marked == [s \in DOMAIN k.t |-> IF s \in S THEN MarkExited(k.t[s]) ELSE k.t[s]]
           j == [k EXCEPT !.t = marked]
<1>1. KernelInv(k) /\ IsKernelState(k) /\ TableOK(k.t)
    BY DEF LifeInv, KernelInv, KernelStateOK
<1>2. ASSUME NEW s \in DOMAIN k.t
      PROVE  marked[s] \in Task /\ SameFrame(s, k.t[s], marked[s])
    BY <1>1, TaskTyped, MarkExitedOK
<1>3. marked = [s \in DOMAIN k.t |-> marked[s]]
    OBVIOUS
<1>4. marked = [s \in DOMAIN k.t |->
                   IF k.t[s].leader = leader THEN MarkExited(k.t[s]) ELSE k.t[s]]
    OBVIOUS
<1>5. \A s \in S : marked[s].exited
    BY <1>1, TaskTyped DEF MarkExited, Task
<1>6. ExitProcess(k, leader) = FinishProcess(j, leader)
    BY <1>4 DEF ExitProcess
<1>7. \A s \in DOMAIN k.t : marked[s].leader = k.t[s].leader
    BY <1>2 DEF SameFrame
<1>8. Evolves(k.t, marked)
    <2> HIDE DEF marked
    <2>1. QED
        BY <1>1, <1>2, <1>3, MapEvolves
<1>9. KernelInv(j)
    <2> HIDE DEF marked
    <2>1. QED
        BY <1>1, <1>8, RewriteTable, RewritesMoves
<1>10. j.t = marked /\ j.d = k.d /\ j.f = k.f /\ j.u = k.u
    BY <1>1 DEF IsKernelState
<1>11. DOMAIN marked = DOMAIN k.t /\ Marks(k.t, marked, S)
    BY <1>1, MarkMarks
<1>12. LifeInv(j) /\ Settles(k, j, c)
    <2> HIDE DEF j, S, marked
    <2>1. QED
        BY <1>9, <1>10, <1>11, MarkLife
<1>13. LifeInv(FinishProcess(j, leader)) /\ Settles(j, FinishProcess(j, leader), c)
    <2>1. \A s \in DOMAIN j.t : j.t[s].leader = leader => j.t[s].exited
        <3> HIDE DEF marked, j
        <3>1. QED
            BY <1>5, <1>7, <1>10, <1>11
    <2>2. leader \in DOMAIN j.t /\ j.t[leader].leader = leader
        <3> HIDE DEF marked, j
        <3>1. QED
            BY <1>7, <1>10, <1>11
    <2> HIDE DEF j
    <2>3. QED
        BY <1>12, <2>1, <2>2, FinishLife
<1> HIDE DEF j
<1>14. QED
    BY <1>6, <1>12, <1>13, SettlesTransitive

(* live_thread_count is zero only when every thread has exited.            *)
LEMMA NoLiveThread ==
    ASSUME NEW T, TableOK(T), NEW leader, LiveThreadCount(T, leader) = 0
    PROVE  \A s \in DOMAIN T : T[s].leader = leader => T[s].exited
<1> DEFINE S == {s \in ThreadSlots(T, leader) : ~T[s].exited}
<1>1. IsFiniteSet(Slots)
    BY FS_Interval, TableAssumption DEF Slots
<1>2. S \in SUBSET Slots
    BY DEF ThreadSlots, TableOK
<1>3. IsFiniteSet(S)
    BY <1>1, <1>2, FS_Subset
<1>4. Cardinality(S) = 0
    BY DEF LiveThreadCount
<1>5. S = {}
    BY <1>3, <1>4, FS_EmptySet
<1>6. QED
    BY <1>5 DEF ThreadSlots

(* exit of one thread, and of the process with the last one.               *)
LEMMA ExitThreadLife ==
    ASSUME NEW k, LifeInv(k), NEW s \in DOMAIN k.t, NEW c
    PROVE  LifeInv(ExitThread(k, s)) /\ Settles(k, ExitThread(k, s), c)
<1> DEFINE leader == ProcessSlot(k.t, s)
           S == {s}
           marked == [k.t EXCEPT ![s] = MarkExited(k.t[s])]
           j == [k EXCEPT !.t = marked]
           U == WakeWaiters(marked, "Thread")
           k1 == [k EXCEPT !.t = U]
<1>1. /\ KernelInv(k) /\ IsKernelState(k) /\ TableOK(k.t) /\ GroupOK(k.t)
      /\ k.t \in [DOMAIN k.t -> Task]
    BY DEF LifeInv, KernelInv, KernelStateOK, TableOK
<1>2. MarkExited(k.t[s]) \in Task /\ SameFrame(s, k.t[s], MarkExited(k.t[s]))
    BY <1>1, TaskTyped, MarkExitedOK
<1>3. Evolves(k.t, marked)
    BY <1>1, <1>2, UpdateEvolves
<1>4. marked = [r \in DOMAIN k.t |-> IF r \in S THEN MarkExited(k.t[r]) ELSE k.t[r]]
    BY <1>1
<1>5. ExitThread(k, s) = IF LiveThreadCount(k1.t, leader) = 0 THEN FinishProcess(k1, leader) ELSE k1
    BY DEF ExitThread
<1> HIDE DEF marked
<1>6. KernelInv(j)
    BY <1>1, <1>3, RewriteTable, RewritesMoves
<1>7. j.t = marked /\ j.d = k.d /\ j.f = k.f /\ j.u = k.u
    BY <1>1 DEF IsKernelState
<1>8. k1 = [j EXCEPT !.t = U]
    BY <1>1 DEF IsKernelState
<1> HIDE DEF j
<1>9. LifeInv(j) /\ Settles(k, j, c)
    <2> HIDE DEF S
    <2>1. Marks(k.t, marked, S)
        BY <1>1, <1>4, MarkMarks
    <2>2. QED
        BY <1>6, <1>7, <2>1, MarkLife
<1>10. Quiet(j.t, U) /\ Evolves(j.t, U)
    BY <1>7, <1>9, WakeWaitersQuiet, WakeWaitersEvolves
       DEF WaitReasons, LifeInv, LifeOK, KernelInv, KernelStateOK
<1> HIDE DEF U
<1>11. KernelInv(k1)
    BY <1>6, <1>8, <1>10, RewriteTable, RewritesMoves
<1>12. k1.t = U /\ k1.d = j.d /\ k1.f = j.f /\ k1.u = j.u
    BY <1>6, <1>8 DEF KernelInv, IsKernelState
<1>13. leader \in DOMAIN k1.t /\ k1.t[leader].leader = leader
    BY <1>1, <1>3, <1>7, <1>10, <1>12 DEF Evolves, SameFrame, ProcessSlot, GroupOK
<1> HIDE DEF k1, leader
<1>14. LifeInv(k1) /\ Settles(k, k1, c)
    BY <1>9, <1>10, <1>11, <1>12, QuietInv, QuietSettles, SettlesTransitive
<1>15. CASE LiveThreadCount(k1.t, leader) = 0
    <2>1. \A r \in DOMAIN k1.t : k1.t[r].leader = leader => k1.t[r].exited
        BY <1>11, <1>15, NoLiveThread DEF KernelInv, KernelStateOK
    <2>2. LifeInv(FinishProcess(k1, leader)) /\ Settles(k1, FinishProcess(k1, leader), c)
        BY <1>13, <1>14, <2>1, FinishLife
    <2>3. QED
        BY <1>5, <1>14, <1>15, <2>2, SettlesTransitive
<1>16. QED
    BY <1>5, <1>14, <1>15
-----------------------------------------------------------------------------
(* Rewriting tasks without reviving any, rescheduling nobody.              *)
LEMMA RewritesKeeps ==
    ASSUME NEW k, KernelInv(k), NEW j, Rewrites(k, j),
           \A s \in DOMAIN k.t : k.t[s].exited => j.t[s].exited
    PROVE  Keeps(k, j)
    BY DEF Keeps, Rewrites, Evolves, SameFrame, SameCpus, KernelInv, KernelStateOK

(* Settling with unchanged current tasks and pids.                         *)
LEMMA SettlesKeeps ==
    ASSUME NEW k, NEW j, NEW c, Settles(k, j, c), j.u = k.u, j.n = k.n, k.n \in Int
    PROVE  Keeps(k, j)
    BY DEF Keeps, Settles

(* send_signal.                                                            *)
LEMMA SendSignalLife ==
    ASSUME NEW k, LifeInv(k), NEW slot, NEW sig \in Signals
    PROVE  LifeInv(SendSignal(k, slot, sig)) /\ Keeps(k, SendSignal(k, slot, sig))
<1> DEFINE leader == ProcessSlot(k.t, slot)
           t == k.t[leader]
           queued == [t EXCEPT !.pending = @ \cup {sig}]
           j == SendSignal(k, slot, sig)
<1>1. KernelInv(k) /\ ShapeOK(k.t) /\ Rewrites(k, j)
    BY SendSignalRewrites DEF LifeInv, LifeOK
<1> HIDE DEF leader
<1>2. CASE leader \notin DOMAIN k.t \/ t.zombie
    <2>1. j = k
        BY <1>2 DEF SendSignal, leader
    <2>2. QED
        BY <1>1, <2>1, RewritesKeeps
<1>3. CASE leader \in DOMAIN k.t /\ ~t.zombie
    <2>1. t \in Task /\ QuietTask(t, t)
        BY <1>1, <1>3, TaskTyped DEF ShapeOK, QuietTask
    <2>2. queued \in Task /\ SameFrame(leader, t, queued) /\ QuietTask(t, queued)
        BY <2>1 DEF Task, SameFrame, QuietTask
    <2>3. t.state = queued.state
        BY <2>1 DEF Task
    <2> HIDE DEF queued
    <2>4. Wake(queued) \in Task /\ SameFrame(leader, t, Wake(queued))
        BY <2>2, WakeOK DEF SameFrame
    <2>5. t.state \in WaitReasons => QuietTask(t, Wake(queued))
        BY <2>1, <2>2, <2>3 DEF QuietTask, Wake, Task, WaitReasons
    <2>6. \/ j = [k EXCEPT !.t[leader] = queued]
          \/ j = [k EXCEPT !.t[leader] = Wake(queued)] /\ t.state \in WaitReasons
        BY <1>3 DEF SendSignal, leader, queued
    <2>7. LifeInv(j) /\ Settles(k, j, BSP)
        BY <1>3, <2>2, <2>4, <2>5, <2>6, UpdateLife
    <2>8. QED
        BY <1>1, <2>7, RewritesKeeps DEF Settles
<1>4. QED
    BY <1>2, <1>3

(* V is T with the live threads of one process stopped or resumed.         *)
SetsStop(T, V, leader, halt) ==
    /\ DOMAIN V = DOMAIN T
    /\ \A s \in DOMAIN T :
        /\ V[s].pid = T[s].pid /\ V[s].tid = T[s].tid /\ V[s].kstack = T[s].kstack
        /\ V[s].leader = T[s].leader /\ V[s].ppid = T[s].ppid /\ V[s].zombie = T[s].zombie
        /\ V[s].exited = T[s].exited
        /\ IF T[s].leader = leader /\ ~T[s].exited
           THEN /\ V[s].stopped = halt
                /\ halt => ~V[s].running /\ V[s].state = "Stopped"
           ELSE QuietTask(T[s], V[s])

(* Stopping or resuming every live thread keeps the invariant.             *)
LEMMA SetStopLife ==
    ASSUME NEW T, GroupOK(T), LifeOK(T), NEW V, NEW leader, NEW halt \in BOOLEAN,
           SetsStop(T, V, leader, halt)
    PROVE  LifeOK(V)
<1>1. ShapeOK(V)
    BY DEF LifeOK, ShapeOK, SetsStop, QuietTask
<1>2. GroupDies(V)
    BY DEF LifeOK, GroupDies, GroupOK, SetsStop
<1>3. ParentsOK(V)
    BY DEF LifeOK, ParentsOK, Alive, SetsStop
<1>4. StopOK(V)
    <2> SUFFICES ASSUME NEW s \in DOMAIN T, ~T[s].exited, ~T[T[s].leader].exited
                 PROVE  V[s].stopped = V[T[s].leader].stopped
        BY DEF StopOK, SetsStop, GroupOK
    <2>1. T[s].leader \in DOMAIN T /\ T[T[s].leader].leader = T[s].leader
        BY DEF GroupOK
    <2>2. CASE T[s].leader = leader
        BY <2>1, <2>2 DEF SetsStop
    <2>3. CASE T[s].leader # leader
        BY <2>1, <2>3 DEF SetsStop, QuietTask, LifeOK, StopOK
    <2>4. QED
        BY <2>2, <2>3
<1>5. QED
    BY <1>1, <1>2, <1>3, <1>4 DEF LifeOK

(* The same followed by waking the parents that wait.                      *)
LEMMA SetStopAndWake ==
    ASSUME NEW k, LifeInv(k), NEW V, TableOK(V), NEW leader, NEW halt \in BOOLEAN,
           SetsStop(k.t, V, leader, halt),
           NEW j, Rewrites(k, j), j.t = WakeWaiters(V, "Child"), j.d = k.d, j.f = k.f
    PROVE  LifeInv(j) /\ Keeps(k, j)
<1>1. KernelInv(k) /\ GroupOK(k.t) /\ LifeOK(k.t) /\ FdsOK(k)
    BY DEF LifeInv, KernelInv
<1>2. LifeOK(V)
    BY <1>1, SetStopLife
<1>3. Quiet(V, j.t)
    BY <1>2, WakeWaitersQuiet DEF WaitReasons, LifeOK
<1>4. \A s \in DOMAIN V : V[s].leader \in DOMAIN V
    BY <1>1 DEF SetsStop, GroupOK
<1>5. LifeOK(j.t)
    BY <1>2, <1>3, <1>4, QuietLife
<1>6. KernelInv(j)
    BY <1>1, RewritesMoves
<1>7. /\ DOMAIN j.t = DOMAIN k.t
      /\ \A s \in DOMAIN k.t : /\ j.t[s].pid = k.t[s].pid /\ j.t[s].leader = k.t[s].leader
                               /\ j.t[s].zombie = k.t[s].zombie
                               /\ j.t[s].exited = k.t[s].exited
    BY <1>3 DEF SetsStop, Quiet, QuietTask
<1>8. FdsOK(j)
    BY <1>1, <1>7 DEF FdsOK
<1>9. Keeps(k, j)
    BY <1>1, <1>7, RewritesKeeps
<1>10. QED
    BY <1>5, <1>6, <1>8, <1>9 DEF LifeInv

(* stop_task_with_signal stops every live thread.                          *)
LEMMA StopLife ==
    ASSUME NEW k, LifeInv(k), NEW slot, NEW sig \in Signals
    PROVE  /\ LifeInv(StopTaskWithSignal(k, slot, sig))
           /\ Keeps(k, StopTaskWithSignal(k, slot, sig))
<1> DEFINE leader == ProcessSlot(k.t, slot)
           stop(t) == [t EXCEPT !.running = FALSE, !.state = "Stopped", !.stopped = TRUE]
           halted == [s \in DOMAIN k.t |->
                         IF k.t[s].leader = leader /\ ~k.t[s].exited
                         THEN stop(k.t[s]) ELSE k.t[s]]
           latched == [halted EXCEPT ![leader].stop_pending = TRUE,
                                     ![leader].pending = @ \ {sig, SIGCONT}]
           off == leader \notin DOMAIN k.t \/ k.t[leader].zombie \/ k.t[leader].stopped
           j == StopTaskWithSignal(k, slot, sig)
<1>1. /\ KernelInv(k) /\ TableOK(k.t) /\ ShapeOK(k.t) /\ IsKernelState(k)
      /\ Rewrites(k, j)
    BY StopRewrites DEF LifeInv, LifeOK, KernelInv, KernelStateOK
<1> HIDE DEF leader
<1>2. CASE off
    <2>1. j = k
        BY <1>2 DEF StopTaskWithSignal, leader
    <2>2. QED
        BY <1>1, <2>1, RewritesKeeps
<1>3. CASE ~off
    <2>1. ASSUME NEW t \in Task
          PROVE  /\ stop(t) \in Task /\ stop(t).pid = t.pid /\ stop(t).tid = t.tid
                 /\ stop(t).kstack = t.kstack /\ stop(t).leader = t.leader
                 /\ stop(t).ppid = t.ppid /\ stop(t).zombie = t.zombie
                 /\ stop(t).exited = t.exited /\ stop(t).stopped = TRUE
                 /\ ~stop(t).running /\ stop(t).state = "Stopped"
        BY DEF Task, TaskStates
    <2>2. \A s \in DOMAIN k.t : k.t[s] \in Task /\ QuietTask(k.t[s], k.t[s])
        BY <1>1 DEF TableOK, ShapeOK, QuietTask
    <2>3. SetsStop(k.t, halted, leader, TRUE) /\ halted \in [DOMAIN k.t -> Task]
        <3> HIDE DEF stop
        <3>1. QED
            BY <2>1, <2>2 DEF SetsStop
    <2>4. j.t = WakeWaiters(latched, "Child") /\ j.d = k.d /\ j.f = k.f
        BY <1>1, <1>3 DEF StopTaskWithSignal, leader, IsKernelState
    <2> HIDE DEF halted, j
    <2> DEFINE l1 == [halted[leader] EXCEPT !.stop_pending = TRUE]
               l2 == [l1 EXCEPT !.pending = @ \ {sig, SIGCONT}]
    <2>5. leader \in DOMAIN k.t /\ DOMAIN halted = DOMAIN k.t /\ halted[leader] \in Task
        BY <1>3, <2>3
    <2>6. /\ l1 \in Task /\ l1.pid = halted[leader].pid /\ l1.tid = halted[leader].tid
          /\ l1.kstack = halted[leader].kstack /\ l1.leader = halted[leader].leader
          /\ l1.ppid = halted[leader].ppid /\ l1.zombie = halted[leader].zombie
          /\ l1.exited = halted[leader].exited /\ l1.stopped = halted[leader].stopped
          /\ l1.running = halted[leader].running /\ l1.state = halted[leader].state
        BY <2>5 DEF Task
    <2> HIDE DEF l1
    <2>7. /\ l2 \in Task /\ l2.pid = l1.pid /\ l2.tid = l1.tid
          /\ l2.kstack = l1.kstack /\ l2.leader = l1.leader
          /\ l2.ppid = l1.ppid /\ l2.zombie = l1.zombie
          /\ l2.exited = l1.exited /\ l2.stopped = l1.stopped
          /\ l2.running = l1.running /\ l2.state = l1.state
        BY <2>6 DEF Task
    <2>8. latched = [halted EXCEPT ![leader] = l2]
        BY <2>3, <2>5 DEF l1
    <2> HIDE DEF l2, latched
    <2>9. TableOK(latched)
        BY <1>1, <2>3, <2>7, <2>8 DEF TableOK
    <2>10. SetsStop(k.t, latched, leader, TRUE)
        BY <2>3, <2>5, <2>6, <2>7, <2>8 DEF SetsStop, QuietTask
    <2>11. LifeInv(j) /\ Keeps(k, j)
        BY <1>1, <2>4, <2>9, <2>10, SetStopAndWake
    <2>12. QED
        BY <2>11 DEF j
<1>4. QED
    BY <1>2, <1>3

(* continue_task resumes every live thread.                                *)
LEMMA ContinueLife ==
    ASSUME NEW k, LifeInv(k), NEW slot
    PROVE  LifeInv(ContinueTask(k, slot)) /\ Keeps(k, ContinueTask(k, slot))
<1> DEFINE leader == ProcessSlot(k.t, slot)
           resume(t) == [t EXCEPT !.running = TRUE, !.state = "Runnable", !.stopped = FALSE]
           resumed == [s \in DOMAIN k.t |->
                          IF k.t[s].leader = leader /\ ~k.t[s].exited
                          THEN resume(k.t[s]) ELSE k.t[s]]
           was == k.t[leader].stopped
           latched == [resumed EXCEPT ![leader].cont_pending = @ \/ was,
                                      ![leader].pending = @ \ {SIGCONT, SIGSTOP, SIGTSTP}]
           off == leader \notin DOMAIN k.t \/ k.t[leader].zombie
           j == ContinueTask(k, slot)
<1>1. /\ KernelInv(k) /\ TableOK(k.t) /\ ShapeOK(k.t) /\ IsKernelState(k)
      /\ Rewrites(k, j)
    BY ContinueRewrites DEF LifeInv, LifeOK, KernelInv, KernelStateOK
<1> HIDE DEF leader
<1>2. CASE off
    <2>1. j = k
        BY <1>2 DEF ContinueTask, leader
    <2>2. QED
        BY <1>1, <2>1, RewritesKeeps
<1>3. CASE ~off
    <2>1. ASSUME NEW t \in Task
          PROVE  /\ resume(t) \in Task /\ resume(t).pid = t.pid /\ resume(t).tid = t.tid
                 /\ resume(t).kstack = t.kstack /\ resume(t).leader = t.leader
                 /\ resume(t).ppid = t.ppid /\ resume(t).zombie = t.zombie
                 /\ resume(t).exited = t.exited /\ resume(t).stopped = FALSE
        BY DEF Task, TaskStates
    <2>2. \A s \in DOMAIN k.t : k.t[s] \in Task /\ QuietTask(k.t[s], k.t[s])
        BY <1>1 DEF TableOK, ShapeOK, QuietTask
    <2>3. SetsStop(k.t, resumed, leader, FALSE) /\ resumed \in [DOMAIN k.t -> Task]
        <3> HIDE DEF resume
        <3>1. QED
            BY <2>1, <2>2 DEF SetsStop
    <2>4. j.t = WakeWaiters(latched, "Child") /\ j.d = k.d /\ j.f = k.f
        BY <1>1, <1>3 DEF ContinueTask, leader, IsKernelState
    <2> HIDE DEF resumed, j
    <2> DEFINE cont == resumed[leader].cont_pending \/ was
               l1 == [resumed[leader] EXCEPT !.cont_pending = cont]
               l2 == [l1 EXCEPT !.pending = @ \ {SIGCONT, SIGSTOP, SIGTSTP}]
    <2>5. /\ leader \in DOMAIN k.t /\ DOMAIN resumed = DOMAIN k.t /\ resumed[leader] \in Task
          /\ cont \in BOOLEAN
        BY <1>3, <2>3
    <2> HIDE DEF cont
    <2>6. /\ l1 \in Task /\ l1.pid = resumed[leader].pid /\ l1.tid = resumed[leader].tid
          /\ l1.kstack = resumed[leader].kstack /\ l1.leader = resumed[leader].leader
          /\ l1.ppid = resumed[leader].ppid /\ l1.zombie = resumed[leader].zombie
          /\ l1.exited = resumed[leader].exited /\ l1.stopped = resumed[leader].stopped
          /\ l1.running = resumed[leader].running /\ l1.state = resumed[leader].state
        BY <2>5 DEF Task
    <2> HIDE DEF l1
    <2>7. /\ l2 \in Task /\ l2.pid = l1.pid /\ l2.tid = l1.tid
          /\ l2.kstack = l1.kstack /\ l2.leader = l1.leader
          /\ l2.ppid = l1.ppid /\ l2.zombie = l1.zombie
          /\ l2.exited = l1.exited /\ l2.stopped = l1.stopped
          /\ l2.running = l1.running /\ l2.state = l1.state
        BY <2>6 DEF Task
    <2>8. latched = [resumed EXCEPT ![leader] = l2]
        BY <2>3, <2>5 DEF l1, cont
    <2> HIDE DEF l2, latched
    <2>9. TableOK(latched)
        BY <1>1, <2>3, <2>7, <2>8 DEF TableOK
    <2>10. SetsStop(k.t, latched, leader, FALSE)
        BY <2>3, <2>5, <2>6, <2>7, <2>8 DEF SetsStop, QuietTask
    <2>11. LifeInv(j) /\ Keeps(k, j)
        BY <1>1, <2>4, <2>9, <2>10, SetStopAndWake
    <2>12. QED
        BY <2>11 DEF j
<1>4. QED
    BY <1>2, <1>3

(* force_kill: the whole process is dead and its clean-up is deferred.     *)
LEMMA ForceKillLife ==
    ASSUME NEW k, LifeInv(k), NEW slot, NEW sig \in Signals, NEW c
    PROVE  /\ LifeInv(ForceKill(k, slot, sig))
           /\ Settles(k, ForceKill(k, slot, sig), c)
           /\ Keeps(k, ForceKill(k, slot, sig))
<1> DEFINE leader == ProcessSlot(k.t, slot)
           kill(t) == [MarkExited(t) EXCEPT !.pending = {}, !.term = sig]
           killed == [s \in DOMAIN k.t |->
                         IF k.t[s].leader # leader THEN k.t[s]
                         ELSE [kill(k.t[s]) EXCEPT !.zombie = (s = leader)]]
           U == WakeWaiters(WakeWaiters(ReparentChildrenOf(killed, k.t[leader].pid), "Child"), "Thread")
           off == leader \notin DOMAIN k.t \/ k.t[leader].zombie
           j == ForceKill(k, slot, sig)
<1>1. /\ KernelInv(k) /\ TableOK(k.t) /\ GroupOK(k.t) /\ LifeOK(k.t) /\ ShapeOK(k.t)
      /\ IsKernelState(k) /\ Rewrites(k, j) /\ FdsOK(k)
    BY ForceKillRewrites DEF LifeInv, LifeOK, KernelInv, KernelStateOK
<1>2. KernelInv(j) /\ j.u = k.u
    BY <1>1, RewritesMoves DEF Rewrites, SameCpus
<1>3. leader \in DOMAIN k.t => k.t[leader].leader = leader
    BY <1>1 DEF GroupOK, ProcessSlot
<1> HIDE DEF leader
<1>4. CASE off
    <2>1. j = k
        BY <1>4 DEF ForceKill, leader
    <2>2. Settles(k, k, c)
        BY DEF Settles
    <2>3. QED
        BY <1>1, <2>1, <2>2, RewritesKeeps
<1>5. CASE ~off
    <2>1. ASSUME NEW t \in Task, NEW z \in BOOLEAN
          PROVE  LET w == [kill(t) EXCEPT !.zombie = z]
                 IN  /\ w \in Task /\ w.pid = t.pid /\ w.tid = t.tid /\ w.kstack = t.kstack
                     /\ w.leader = t.leader /\ w.ppid = t.ppid /\ w.exited /\ ~w.running
                     /\ w.state = "Zombie" /\ ~w.stopped /\ w.zombie = z
        <3> DEFINE m == MarkExited(t)
                   y == [m EXCEPT !.pending = {}, !.term = sig]
        <3>1. /\ m \in Task /\ m.pid = t.pid /\ m.tid = t.tid /\ m.kstack = t.kstack
              /\ m.leader = t.leader /\ m.ppid = t.ppid /\ m.exited /\ ~m.running
              /\ m.state = "Zombie" /\ ~m.stopped
            BY DEF MarkExited, Task, TaskStates
        <3> HIDE DEF m
        <3>2. /\ y \in Task /\ y.pid = t.pid /\ y.tid = t.tid /\ y.kstack = t.kstack
              /\ y.leader = t.leader /\ y.ppid = t.ppid /\ y.exited /\ ~y.running
              /\ y.state = "Zombie" /\ ~y.stopped
            BY <3>1 DEF Task
        <3>3. kill(t) = y
            BY DEF m
        <3> HIDE DEF y, kill
        <3>4. QED
            BY <3>2, <3>3 DEF Task
    <2> HIDE DEF kill
    <2>2. \A s \in DOMAIN k.t : k.t[s] \in Task /\ QuietTask(k.t[s], k.t[s])
        BY <1>1 DEF TableOK, ShapeOK, QuietTask
    <2>3. killed \in [DOMAIN k.t -> Task]
        BY <2>1, <2>2
    <2>4. Dies(k.t, killed, leader)
        <3>1. ASSUME NEW s \in DOMAIN k.t, k.t[s].leader = leader
              PROVE  /\ killed[s].pid = k.t[s].pid /\ killed[s].tid = k.t[s].tid
                     /\ killed[s].kstack = k.t[s].kstack /\ killed[s].leader = k.t[s].leader
                     /\ killed[s].ppid = k.t[s].ppid /\ killed[s].exited /\ ~killed[s].running
                     /\ killed[s].state = "Zombie" /\ ~killed[s].stopped
                     /\ killed[s].zombie <=> s = leader
            <4> DEFINE z == s = leader
                       w == [kill(k.t[s]) EXCEPT !.zombie = z]
            <4>1. killed[s] = w
                BY <3>1
            <4>2. k.t[s] \in Task /\ z \in BOOLEAN /\ (z <=> s = leader)
                BY <2>2
            <4> HIDE DEF killed, z
            <4>3. QED
                BY <2>1, <4>1, <4>2
        <3>2. ASSUME NEW s \in DOMAIN k.t, k.t[s].leader # leader
              PROVE  killed[s] = k.t[s]
            BY <3>2
        <3>3. DOMAIN killed = DOMAIN k.t
            OBVIOUS
        <3> HIDE DEF killed
        <3>4. QED
            BY <2>2, <3>1, <3>2, <3>3 DEF Dies
    <2>5. j.t = U /\ j.d = k.d \cup {leader} /\ j.f = k.f
        BY <1>1, <1>5 DEF ForceKill, leader, kill, IsKernelState
    <2> HIDE DEF killed
    <2>6. TableOK(killed)
        BY <1>1, <2>3 DEF TableOK
    <2>7. leader \in DOMAIN k.t /\ k.t[leader].leader = leader
        BY <1>3, <1>5
    <2>8. /\ LifeOK(U)
          /\ DOMAIN U = DOMAIN k.t
          /\ \A s \in DOMAIN k.t :
                /\ U[s].kstack = k.t[s].kstack
                /\ U[s].pid = k.t[s].pid
                /\ U[s].leader = k.t[s].leader
                /\ k.t[s].exited => U[s].exited
                /\ U[s].stopped => k.t[s].stopped
                /\ k.t[s].leader # leader => U[s].zombie = k.t[s].zombie
        BY <1>1, <2>4, <2>6, <2>7, DeathLife
    <2> HIDE DEF U, j
    <2>9. FdsOK(j)
        BY <1>1, <2>5, <2>8 DEF FdsOK
    <2>10. Settles(k, j, c)
        BY <1>2, <2>5, <2>8 DEF Settles
    <2>11. Keeps(k, j)
        BY <1>1, <2>5, <2>8, RewritesKeeps
    <2>12. QED
        BY <1>2, <2>5, <2>8, <2>9, <2>10, <2>11 DEF LifeInv, j
<1>6. QED
    BY <1>4, <1>5

(* Kernel states have integer pids and stacks, so Keeps composes.          *)
LEMMA KeepsComposes ==
    ASSUME NEW k, KernelInv(k), NEW j, KernelInv(j), NEW l, KernelInv(l), Keeps(k, j), Keeps(j, l)
    PROVE  Keeps(k, l)
<1>1. ASSUME NEW x, KernelInv(x)
      PROVE  x.n \in Int /\ \A s \in DOMAIN x.t : x.t[s].kstack \in Int
    <2>1. x.n \in Int
        BY <1>1, TableAssumption DEF KernelInv, KernelStateOK
    <2>2. \A s \in DOMAIN x.t : x.t[s].kstack \in Pids
        BY <1>1, TaskTyped DEF Task
    <2>3. QED
        BY <2>1, <2>2, TableAssumption DEF Pids
<1>2. QED
    BY <1>1, KeepsTransitive

(* Doing nothing keeps.                                                    *)
LEMMA KeepsReflexive ==
    ASSUME NEW k, KernelInv(k)
    PROVE  Keeps(k, k)
    BY RewriteNothing, RewritesKeeps

(* kill(2) on one process.                                                 *)
LEMMA SignalSlotLife ==
    ASSUME NEW k, LifeInv(k), NEW slot \in DOMAIN k.t, NEW sig \in Signals
    PROVE  LifeInv(SignalSlot(k, slot, sig)) /\ Keeps(k, SignalSlot(k, slot, sig))
<1> DEFINE resumed == ContinueTask(k, slot)
           handler == k.t[slot].handlers[sig]
<1>0. KernelInv(k)
    BY DEF LifeInv
<1>1. LifeInv(resumed) /\ Keeps(k, resumed) /\ KernelInv(resumed)
    BY ContinueLife DEF LifeInv
<1>2. LifeInv(SendSignal(resumed, slot, sig)) /\ Keeps(k, SendSignal(resumed, slot, sig))
    <2>1. LifeInv(SendSignal(resumed, slot, sig)) /\ Keeps(resumed, SendSignal(resumed, slot, sig))
        BY <1>1, SendSignalLife
    <2> HIDE DEF resumed
    <2>2. QED
        BY <1>0, <1>1, <2>1, KeepsComposes DEF LifeInv
<1>3. /\ LifeInv(ForceKill(k, slot, sig)) /\ Keeps(k, ForceKill(k, slot, sig))
      /\ LifeInv(StopTaskWithSignal(k, slot, sig)) /\ Keeps(k, StopTaskWithSignal(k, slot, sig))
      /\ LifeInv(SendSignal(k, slot, sig)) /\ Keeps(k, SendSignal(k, slot, sig))
      /\ LifeInv(k) /\ Keeps(k, k)
    BY <1>0, ForceKillLife, StopLife, SendSignalLife, KeepsReflexive
<1>4. sig = SIGTSTP => handler \in Dispositions
    <2>1. k.t[slot] \in Task
        BY <1>0, TaskTyped
    <2>2. SIGTSTP \in Catchable
        BY DEF Catchable, Signals, SIGTSTP, SIGKILL, SIGSTOP
    <2>3. QED
        BY <2>1, <2>2 DEF Task
<1> HIDE DEF resumed, handler
<1>5. \/ SignalSlot(k, slot, sig) = k
      \/ SignalSlot(k, slot, sig) = resumed
      \/ SignalSlot(k, slot, sig) = SendSignal(resumed, slot, sig)
      \/ SignalSlot(k, slot, sig) = ForceKill(k, slot, sig)
      \/ SignalSlot(k, slot, sig) = StopTaskWithSignal(k, slot, sig)
      \/ SignalSlot(k, slot, sig) = SendSignal(k, slot, sig)
    <2> USE DEF SignalSlot, SIGKILL, SIGSTOP, SIGTSTP, SIGCONT
    <2>1. CASE sig = SIGKILL
        BY <2>1
    <2>2. CASE sig = SIGSTOP
        BY <2>2
    <2>3. CASE sig = SIGTSTP
        <3>1. handler = "SIG_DFL" \/ handler = "SIG_IGN" \/ handler = "handler"
            BY <1>4, <2>3 DEF Dispositions
        <3>2. QED
            BY <2>3, <3>1 DEF handler
    <2>4. CASE sig = SIGCONT
        BY <2>4 DEF resumed
    <2>5. CASE sig \notin {SIGKILL, SIGSTOP, SIGTSTP, SIGCONT}
        BY <2>5
    <2>6. QED
        BY <2>1, <2>2, <2>3, <2>4, <2>5
<1>6. QED
    BY <1>1, <1>2, <1>3, <1>5

(* Killing the task on CPU c and rescheduling.                             *)
LEMMA KillAndScheduleLife ==
    ASSUME NEW k, LifeInv(k), NEW c \in Cpus, NEW slot, NEW sig \in Signals
    PROVE  /\ LifeInv(Schedule(ForceKill(k, slot, sig), c))
           /\ Settles(k, Schedule(ForceKill(k, slot, sig), c), c)
<1> DEFINE i == ForceKill(k, slot, sig)
<1>1. LifeInv(i) /\ Settles(k, i, c)
    BY ForceKillLife
<1> HIDE DEF i
<1>2. LifeInv(Schedule(i, c)) /\ Settles(k, Schedule(i, c), c)
    BY <1>1, ScheduleLife, SettlesTransitive
<1>3. QED
    BY <1>2 DEF i

(* Dropping pending signals.                                               *)
LEMMA DropPendingLife ==
    ASSUME NEW k, LifeInv(k), NEW s \in DOMAIN k.t, NEW left \in SUBSET k.t[s].pending, NEW c
    PROVE  /\ LifeInv([k EXCEPT !.t[s].pending = left])
           /\ Settles(k, [k EXCEPT !.t[s].pending = left], c)
<1> DEFINE x == [k.t[s] EXCEPT !.pending = left]
<1>1. k.t[s] \in Task /\ KernelInv(k) /\ IsKernelState(k) /\ QuietTask(k.t[s], k.t[s])
    BY TaskTyped DEF LifeInv, LifeOK, ShapeOK, KernelInv, QuietTask
<1>2. x \in Task /\ SameFrame(s, k.t[s], x) /\ QuietTask(k.t[s], x)
    BY <1>1 DEF Task, SameFrame, QuietTask
<1>3. [k EXCEPT !.t[s].pending = left] = [k EXCEPT !.t[s] = x]
    BY <1>1 DEF IsKernelState
<1> HIDE DEF x
<1>4. QED
    BY <1>2, <1>3, UpdateLife

(* deliver_pending_after_switch.                                           *)
LEMMA DeliverAfterSwitchLife ==
    ASSUME NEW k, LifeInv(k), NEW c \in Cpus
    PROVE  /\ LifeInv(DeliverPendingAfterSwitch(k, c))
           /\ Settles(k, DeliverPendingAfterSwitch(k, c), c)
<1> DEFINE leader == ProcessSlot(k.t, k.u[c])
           fatal == k.t[leader].pending \cap DefaultTerminate
<1>0. Settles(k, k, c)
    BY DEF Settles
<1> HIDE DEF leader
<1>1. CASE k.u[c] = 0 \/ ~Deliverable(k.t, leader)
    BY <1>0, <1>1 DEF DeliverPendingAfterSwitch, leader
<1>2. CASE ~(k.u[c] = 0 \/ ~Deliverable(k.t, leader))
    <2>1. leader \in DOMAIN k.t
        BY <1>2 DEF Deliverable
    <2>2. CASE fatal # {}
        <3>1. fatal \in SUBSET Signals
            BY DEF DefaultTerminate, Signals
        <3>2. Min(fatal) \in Signals
            BY <2>2, <3>1, LowestSignal
        <3>3. DeliverPendingAfterSwitch(k, c) = Schedule(ForceKill(k, leader, Min(fatal)), c)
            BY <1>2, <2>2 DEF DeliverPendingAfterSwitch, leader
        <3> HIDE DEF fatal
        <3>4. QED
            BY <3>2, <3>3, KillAndScheduleLife
    <2>3. CASE fatal = {}
        <3>1. DeliverPendingAfterSwitch(k, c) = [k EXCEPT !.t[leader].pending = {}]
            BY <1>2, <2>3 DEF DeliverPendingAfterSwitch, leader
        <3>2. /\ LifeInv([k EXCEPT !.t[leader].pending = {}])
              /\ Settles(k, [k EXCEPT !.t[leader].pending = {}], c)
            BY <2>1, DropPendingLife
        <3>3. QED
            BY <3>1, <3>2
    <2>4. QED
        BY <2>2, <2>3
<1>3. QED
    BY <1>1, <1>2

(* deliver_pending.                                                        *)
LEMMA DeliverLife ==
    ASSUME NEW k, LifeInv(k), NEW c \in Cpus
    PROVE  /\ LifeInv(DeliverPending(k, c))
           /\ Settles(k, DeliverPending(k, c), c)
<1> DEFINE leader == ProcessSlot(k.t, k.u[c])
           task == k.t[leader]
           first == Min(Decisive(task))
           upTo == {s \in task.pending : s <= first}
<1>0. Settles(k, k, c) /\ KernelInv(k) /\ IsKernelState(k)
    BY DEF Settles, LifeInv, KernelInv
<1> HIDE DEF leader
<1>1. CASE k.u[c] = 0 \/ ~Deliverable(k.t, leader)
    BY <1>0, <1>1 DEF DeliverPending, leader
<1>2. CASE ~(k.u[c] = 0 \/ ~Deliverable(k.t, leader))
    <2>1. leader \in DOMAIN k.t
        BY <1>2 DEF Deliverable
    <2>2. CASE Decisive(task) = {}
        <3>1. DeliverPending(k, c) = [k EXCEPT !.t[leader].pending = {}]
            BY <1>2, <2>2 DEF DeliverPending, leader
        <3>2. /\ LifeInv([k EXCEPT !.t[leader].pending = {}])
              /\ Settles(k, [k EXCEPT !.t[leader].pending = {}], c)
            BY <2>1, DropPendingLife
        <3>3. QED
            BY <3>1, <3>2
    <2>3. CASE Decisive(task) # {} /\ Disposition(task, first) = "handler"
        <3> DEFINE left == task.pending \ upTo
        <3>1. [k EXCEPT !.t[leader].pending = @ \ upTo] = [k EXCEPT !.t[leader].pending = left]
            BY <1>0, <2>1 DEF IsKernelState
        <3>2. DeliverPending(k, c) = [k EXCEPT !.t[leader].pending = @ \ upTo]
            BY <1>2, <2>3 DEF DeliverPending, leader
        <3>3. left \in SUBSET k.t[leader].pending
            OBVIOUS
        <3> HIDE DEF left
        <3>4. /\ LifeInv([k EXCEPT !.t[leader].pending = left])
              /\ Settles(k, [k EXCEPT !.t[leader].pending = left], c)
            BY <2>1, <3>3, DropPendingLife
        <3>5. QED
            BY <3>1, <3>2, <3>4
    <2>4. CASE Decisive(task) # {} /\ Disposition(task, first) # "handler"
        <3>1. Decisive(task) \in SUBSET Signals
            BY <1>0, <2>1, TaskTyped DEF Decisive, Task
        <3>2. first \in Signals
            BY <2>4, <3>1, LowestSignal
        <3> DEFINE j == Schedule(ForceKill(k, leader, first), c)
        <3>3. DeliverPending(k, c) = DeliverPendingAfterSwitch(j, c)
            BY <1>2, <2>4 DEF DeliverPending, leader
        <3> HIDE DEF first
        <3>4. LifeInv(j) /\ Settles(k, j, c)
            BY <3>2, KillAndScheduleLife
        <3> HIDE DEF j
        <3>5. QED
            BY <3>3, <3>4, DeliverAfterSwitchLife, SettlesTransitive
    <2>5. QED
        BY <2>2, <2>3, <2>4
<1>3. QED
    BY <1>1, <1>2
-----------------------------------------------------------------------------
(* Freeing slots.  Only zombie leaders and threads that lead nobody go,    *)
(* and whoever is left has lost nothing but, perhaps, its parent.          *)
SameFlags(a, b) ==
    /\ b.pid = a.pid /\ b.tid = a.tid /\ b.kstack = a.kstack /\ b.leader = a.leader
    /\ b.zombie = a.zombie /\ b.exited = a.exited /\ b.stopped = a.stopped
    /\ b.running = a.running /\ b.state = a.state

Reaps(T, U) ==
    /\ DOMAIN U \subseteq DOMAIN T
    /\ \A s \in DOMAIN U : SameFlags(T[s], U[s])
    /\ \A s \in DOMAIN T \ DOMAIN U : T[s].zombie \/ T[s].leader # s
    /\ ParentsOK(U)

(* Freeing steps compose.                                                  *)
LEMMA ReapsTransitive ==
    ASSUME NEW T, NEW U, NEW V, Reaps(T, U), Reaps(U, V)
    PROVE  Reaps(T, V)
    BY DEF Reaps, SameFlags

(* Freeing nothing.                                                        *)
LEMMA ReapsReflexive ==
    ASSUME NEW T, ParentsOK(T)
    PROVE  Reaps(T, T)
    BY DEF Reaps, SameFlags

(* Freeing keeps the invariant of the table and every live process.        *)
LEMMA ReapsLife ==
    ASSUME NEW T, LifeOK(T), NEW U, GroupOK(U), Reaps(T, U)
    PROVE  LifeOK(U) /\ \A p : Alive(T, p) => Alive(U, p)
<1>1. \A s \in DOMAIN U : U[s].leader \in DOMAIN U
    BY DEF GroupOK
<1>2. ShapeOK(U)
    BY DEF LifeOK, ShapeOK, Reaps, SameFlags
<1>3. GroupDies(U)
    BY <1>1 DEF LifeOK, GroupDies, Reaps, SameFlags
<1>4. StopOK(U)
    BY <1>1 DEF LifeOK, StopOK, Reaps, SameFlags
<1>5. \A p : Alive(T, p) => Alive(U, p)
    BY DEF Alive, Reaps, SameFlags
<1>6. QED
    BY <1>2, <1>3, <1>4, <1>5 DEF LifeOK, Reaps

(* Once the deferred clean-up has run, freeing slots leaks no descriptor.  *)
LEMMA PruneLife ==
    ASSUME NEW k, LifeInv(k), FdsDrained(k), NEW j, Prunes(k, j), Reaps(k.t, j.t), j.f = k.f
    PROVE  LifeInv(j) /\ FdsDrained(j) /\ Keeps(k, j)
<1>1. KernelInv(k) /\ LifeOK(k.t)
    BY DEF LifeInv
<1>2. KernelInv(j) /\ GroupOK(j.t)
    BY <1>1, PrunesInv DEF KernelInv
<1>3. LifeOK(j.t) /\ \A p : Alive(k.t, p) => Alive(j.t, p)
    BY <1>1, <1>2, ReapsLife
<1>4. FdsDrained(j) /\ FdsOK(j)
    BY <1>3 DEF FdsDrained, FdsOK, Alive
<1>5. Keeps(k, j)
    BY <1>1 DEF Keeps, Prunes, SameCpus, Reaps, SameFlags, KernelInv, KernelStateOK
<1>6. QED
    BY <1>2, <1>3, <1>4, <1>5 DEF LifeInv

(* Restricting a table to slots that include every live leader.            *)
LEMMA RestrictReaps ==
    ASSUME NEW T, ParentsOK(T), NEW keep \in SUBSET DOMAIN T,
           \A s \in DOMAIN T \ keep : T[s].zombie \/ T[s].leader # s
    PROVE  Reaps(T, Restrict(T, keep))
<1> DEFINE U == Restrict(T, keep)
<1>1. DOMAIN U = keep /\ \A s \in keep : U[s] = T[s]
    BY DEF Restrict
<1> HIDE DEF U
<1>2. \A p : Alive(T, p) => Alive(U, p)
    BY <1>1 DEF Alive
<1>3. Reaps(T, U)
    BY <1>1, <1>2 DEF Reaps, SameFlags, ParentsOK
<1>4. QED
    BY <1>3 DEF U

(* reap_detached_threads frees no leader.                                  *)
LEMMA ReapDetachedReaps ==
    ASSUME NEW T, ParentsOK(T), GroupOK(T), NEW o
    PROVE  Reaps(T, ReapDetachedThreads(T, o))
<1> DEFINE keep == {s \in DOMAIN T : ~(CanReapThread(T, o, s) /\ T[s].detached)}
<1>1. \A s \in DOMAIN T \ keep : T[s].leader # s
    BY DEF CanReapThread, GroupOK
<1>2. keep \in SUBSET DOMAIN T
    OBVIOUS
<1> HIDE DEF keep
<1>3. QED
    BY <1>1, <1>2, RestrictReaps DEF ReapDetachedThreads, keep

(* reap_thread frees no leader.                                            *)
LEMMA ReapThreadReaps ==
    ASSUME NEW T, ParentsOK(T), GroupOK(T), NEW o, NEW s
    PROVE  Reaps(T, ReapThread(T, o, s))
<1>1. CASE CanReapThread(T, o, s)
    <2>1. T[s].leader # s /\ s \in DOMAIN T
        BY <1>1 DEF CanReapThread, GroupOK
    <2>2. Reaps(T, Restrict(T, DOMAIN T \ {s}))
        BY <2>1, RestrictReaps
    <2>3. QED
        BY <1>1, <2>2 DEF ReapThread
<1>2. CASE ~CanReapThread(T, o, s)
    BY <1>2, ReapsReflexive DEF ReapThread
<1>3. QED
    BY <1>1, <1>2

(* reap frees a zombie with its threads and hands on its children.         *)
LEMMA ReapReaps ==
    ASSUME NEW T, TableOK(T), ParentsOK(T), GroupOK(T), NEW o, NEW s
    PROVE  Reaps(T, Reap(T, o, s))
<1>1. CASE CanReap(T, o, s)
    <2> DEFINE A == ReparentChildrenOf(T, T[s].pid)
               keep == DOMAIN T \ (ThreadSlots(T, s) \cup {s})
    <2>1. /\ DOMAIN A = DOMAIN T
          /\ \A x \in DOMAIN T :
                /\ A[x].pid = T[x].pid /\ A[x].tid = T[x].tid /\ A[x].kstack = T[x].kstack
                /\ A[x].leader = T[x].leader /\ A[x].zombie = T[x].zombie
                /\ A[x].exited = T[x].exited /\ A[x].stopped = T[x].stopped
                /\ A[x].running = T[x].running /\ A[x].state = T[x].state
          /\ ParentsOK(A)
        BY ReparentLife DEF ParentsOK
    <2> HIDE DEF A
    <2>2. Reaps(T, A)
        BY <2>1 DEF Reaps, SameFlags
    <2>3. \A x \in DOMAIN A \ keep : A[x].zombie \/ A[x].leader # x
        BY <1>1, <2>1 DEF CanReap, ThreadSlots, GroupOK
    <2>4. keep \in SUBSET DOMAIN A
        BY <2>1
    <2> HIDE DEF keep
    <2>5. Reaps(A, Restrict(A, keep))
        BY <2>1, <2>3, <2>4, RestrictReaps
    <2>6. QED
        BY <1>1, <2>2, <2>5, ReapsTransitive DEF Reap, A, keep
<1>2. CASE ~CanReap(T, o, s)
    BY <1>2, ReapsReflexive DEF Reap
<1>3. QED
    BY <1>1, <1>2

(* A table that differs from T in the parents of some tasks only.          *)
LEMMA AdoptReaps ==
    ASSUME NEW T, TableOK(T), ParentsOK(T), NEW S, NEW heir, heir # 0 => Alive(T, heir)
    PROVE  LET U == [s \in DOMAIN T |-> IF s \in S THEN [T[s] EXCEPT !.ppid = heir] ELSE T[s]]
           IN  Reaps(T, U)
<1> DEFINE U == [s \in DOMAIN T |-> IF s \in S THEN [T[s] EXCEPT !.ppid = heir] ELSE T[s]]
<1>1. \A s \in DOMAIN T : T[s] \in Task
    BY DEF TableOK
<1>2. ASSUME NEW t \in Task
      PROVE  SameFlags(t, [t EXCEPT !.ppid = heir]) /\ [t EXCEPT !.ppid = heir].ppid = heir
    BY DEF Task, SameFlags
<1>3. /\ DOMAIN U = DOMAIN T
      /\ \A s \in DOMAIN T : SameFlags(T[s], U[s]) /\ U[s].ppid \in {heir, T[s].ppid}
    BY <1>1, <1>2 DEF SameFlags
<1> HIDE DEF U
<1>4. \A p : Alive(T, p) => Alive(U, p)
    BY <1>3 DEF Alive, SameFlags
<1>5. Reaps(T, U)
    BY <1>3, <1>4 DEF Reaps, ParentsOK
<1>6. QED
    BY <1>5 DEF U

(* reap_orphans gives orphans to pid 1 or frees the dead ones.             *)
LEMMA ReapOrphansReaps ==
    ASSUME NEW T, TableOK(T), ParentsOK(T), GroupOK(T), NEW o
    PROVE  Reaps(T, ReapOrphans(T, o))
<1> DEFINE orphans == {s \in DOMAIN T : T[s].pid # 1 /\ ParentGone(T, T[s].ppid)}
           dead == {s \in orphans : CanReap(T, o, s)}
           gone == {s \in DOMAIN T : s \in dead \/ T[s].leader \in dead}
           deadPids == {T[s].pid : s \in dead}
           childless == {s \in DOMAIN T : T[s].ppid \in deadPids}
           adopted == [s \in DOMAIN T |-> IF s \in orphans THEN [T[s] EXCEPT !.ppid = 1] ELSE T[s]]
           left == [s \in DOMAIN T |-> IF s \in childless THEN [T[s] EXCEPT !.ppid = 0] ELSE T[s]]
           keep == DOMAIN T \ gone
<1>1. CASE InitSlot(T) # 0
    <2> DEFINE S == {s \in DOMAIN T : T[s].pid = 1 /\ IsLeader(T, s) /\ ~T[s].zombie}
    <2>1. S \in SUBSET Slots
        BY DEF TableOK
    <2>2. S # {}
        BY <1>1, <2>1, FirstOfInSet DEF InitSlot
    <2>3. Alive(T, 1)
        BY <2>2 DEF Alive, IsLeader
    <2>4. ReapOrphans(T, o) = adopted
        BY <1>1 DEF ReapOrphans
    <2> HIDE DEF orphans
    <2>5. Reaps(T, adopted)
        BY <2>3, AdoptReaps
    <2>6. QED
        BY <2>4, <2>5
<1>2. CASE InitSlot(T) = 0
    <2>1. \A s \in gone : T[s].zombie \/ T[s].leader # s
        BY DEF CanReap
    <2>2. ReapOrphans(T, o) = Restrict(left, keep)
        BY <1>2 DEF ReapOrphans, Restrict
    <2> HIDE DEF childless, gone
    <2>3. Reaps(T, left)
        BY AdoptReaps
    <2>4. DOMAIN left = DOMAIN T
        OBVIOUS
    <2> HIDE DEF left
    <2>5. /\ ParentsOK(left) /\ keep \in SUBSET DOMAIN left
          /\ \A s \in DOMAIN left \ keep : left[s].zombie \/ left[s].leader # s
        BY <2>1, <2>3, <2>4 DEF Reaps, SameFlags
    <2>6. Reaps(left, Restrict(left, keep))
        BY <2>5, RestrictReaps
    <2>7. QED
        BY <2>2, <2>3, <2>6, ReapsTransitive
<1>3. QED
    BY <1>1, <1>2

(* The deferred clean-up closes the descriptors of every killed process.   *)
LEMMA DrainLife ==
    ASSUME NEW k, LifeInv(k)
    PROVE  /\ LifeInv(DrainDeferredCleanup(k))
           /\ FdsDrained(DrainDeferredCleanup(k))
           /\ Keeps(k, DrainDeferredCleanup(k))
           /\ DrainDeferredCleanup(k).t = k.t
<1> DEFINE closed == {k.t[s].pid : s \in {x \in k.d \cap DOMAIN k.t : k.t[x].zombie}}
           j == DrainDeferredCleanup(k)
<1>1. KernelInv(k) /\ IsKernelState(k) /\ LifeOK(k.t) /\ FdsOK(k)
    BY DEF LifeInv, KernelInv
<1>2. Rewrites(k, j)
    BY <1>1, DrainRewrites
<1>3. j.t = k.t /\ j.f = k.f \ closed
    BY <1>1 DEF DrainDeferredCleanup, IsKernelState
<1> HIDE DEF j
<1>4. KernelInv(j)
    BY <1>1, <1>2, RewritesMoves
<1>5. ASSUME NEW p \in j.f
      PROVE  Alive(j.t, p)
    <2>1. PICK l \in DOMAIN k.t : k.t[l].leader = l /\ k.t[l].pid = p /\ (k.t[l].zombie => l \in k.d)
        BY <1>1, <1>3, <1>5 DEF FdsOK
    <2>2. p \notin closed
        BY <1>3, <1>5
    <2>3. ~k.t[l].zombie
        BY <2>1, <2>2
    <2>4. QED
        BY <1>3, <2>1, <2>3 DEF Alive
<1>6. FdsDrained(j) /\ FdsOK(j)
    BY <1>5 DEF FdsDrained, FdsOK, Alive
<1>7. Keeps(k, j)
    BY <1>1, <1>2, <1>3, RewritesKeeps
<1>8. QED
    BY <1>1, <1>3, <1>4, <1>6, <1>7 DEF LifeInv, j

(* The prologue of every system call.                                      *)
LEMMA EnteredLife ==
    ASSUME LifeInv(K)
    PROVE  /\ LifeInv(Entered) /\ FdsDrained(Entered) /\ Keeps(K, Entered)
           /\ Prunes(K, Entered) /\ Reaps(tasks, Entered.t)
<1> DEFINE k == DrainDeferredCleanup(K)
           U == ReapDetachedThreads(k.t, k.o)
           j == [k EXCEPT !.t = U]
<1>1. LifeInv(k) /\ FdsDrained(k) /\ Keeps(K, k) /\ k.t = tasks
    BY DrainLife DEF K
<1>2. Entered = j
    BY DEF Entered
<1> HIDE DEF k
<1>3. /\ KernelInv(k) /\ IsKernelState(k) /\ GroupOK(k.t) /\ UniqueStacks(k.t) /\ TableOK(k.t)
      /\ ParentsOK(k.t)
    BY <1>1 DEF LifeInv, LifeOK, KernelInv, KernelStateOK
<1>4. Shrinks(k.t, U, k.o) /\ Reaps(k.t, U)
    BY <1>3, ReapDetachedShrinks, ReapDetachedReaps
<1> HIDE DEF U
<1>5. Prunes(k, j) /\ j.t = U /\ j.f = k.f
    BY <1>3, <1>4, PruneTable DEF IsKernelState
<1> HIDE DEF j
<1>6. LifeInv(j) /\ FdsDrained(j) /\ Keeps(k, j)
    BY <1>1, <1>4, <1>5, PruneLife
<1>7. Keeps(K, j)
    BY <1>1, <1>6, KeepsComposes DEF LifeInv
<1>8. Prunes(K, j)
    BY <1>2, EnteredPrunes DEF LifeInv
<1>9. QED
    BY <1>1, <1>2, <1>4, <1>5, <1>6, <1>7, <1>8

(* The prologue of spawn and thread_create.                                *)
LEMMA ReapedLife ==
    ASSUME LifeInv(K)
    PROVE  /\ LifeInv(Reaped) /\ Keeps(K, Reaped)
           /\ Prunes(K, Reaped) /\ Reaps(tasks, Reaped.t)
<1> DEFINE k == Entered
           V == ReapDetachedThreads(k.t, k.o)
           U == ReapOrphans(V, k.o)
           j == [k EXCEPT !.t = U]
<1>1. LifeInv(k) /\ FdsDrained(k) /\ Keeps(K, k) /\ Prunes(K, k) /\ Reaps(tasks, k.t)
    BY EnteredLife
<1>2. k.o = owner
    BY <1>1 DEF Prunes, SameCpus, K
<1>3. /\ KernelInv(k) /\ IsKernelState(k) /\ GroupOK(k.t) /\ UniqueStacks(k.t) /\ TableOK(k.t)
      /\ ParentsOK(k.t)
    BY <1>1 DEF LifeInv, LifeOK, KernelInv, KernelStateOK
<1>4. Reaped = j /\ U = ReapForFreeSlot(k.t, k.o)
    BY <1>2, <1>3 DEF Reaped, ReapForFreeSlot, IsKernelState
<1> HIDE DEF k
<1>5. Shrinks(k.t, V, k.o) /\ Reaps(k.t, V) /\ Shrinks(k.t, U, k.o)
    BY <1>3, <1>4, ReapDetachedShrinks, ReapDetachedReaps, ReapForFreeSlotShrinks
<1> HIDE DEF V
<1>6. TableOK(V) /\ GroupOK(V) /\ ParentsOK(V)
    BY <1>3, <1>5, ShrinksKeeps DEF Shrinks, Reaps
<1>7. Reaps(k.t, U)
    BY <1>5, <1>6, ReapOrphansReaps, ReapsTransitive
<1> HIDE DEF U
<1>8. Prunes(k, j) /\ j.t = U /\ j.f = k.f
    BY <1>3, <1>5, PruneTable DEF IsKernelState
<1> HIDE DEF j
<1>9. LifeInv(j) /\ Keeps(k, j)
    BY <1>1, <1>7, <1>8, PruneLife
<1>10. Keeps(K, j)
    BY <1>1, <1>9, KeepsComposes DEF LifeInv
<1>11. Reaps(tasks, j.t)
    BY <1>1, <1>7, <1>8, ReapsTransitive
<1>12. Prunes(K, j)
    BY <1>4, ReapedPrunes DEF LifeInv
<1>13. QED
    BY <1>4, <1>9, <1>10, <1>11, <1>12

(* The caller is found running after the prologue, and its process has     *)
(* neither finished nor been stopped.                                      *)
LEMMA CallerLife ==
    ASSUME LifeInv(K), NEW k, Prunes(K, k), Reaps(tasks, k.t),
           NEW c \in Cpus, cur[c] # 0, CanExecute(tasks, cur[c])
    PROVE  /\ k.u = cur
           /\ cur[c] \in DOMAIN k.t
           /\ k.t[cur[c]].running
           /\ ProcessSlot(tasks, cur[c]) = ProcessSlot(k.t, cur[c])
           /\ ProcessSlot(tasks, cur[c]) \in DOMAIN k.t
           /\ k.t[ProcessSlot(tasks, cur[c])].leader = ProcessSlot(tasks, cur[c])
           /\ ~k.t[ProcessSlot(tasks, cur[c])].zombie
           /\ k.t[ProcessSlot(tasks, cur[c])].exited \/ ~k.t[ProcessSlot(tasks, cur[c])].stopped
<1> DEFINE s == cur[c]
           leader == ProcessSlot(tasks, s)
<1>1. /\ KernelInv(k) /\ k.u = cur /\ s \in DOMAIN k.t /\ s \in DOMAIN tasks
      /\ leader = ProcessSlot(k.t, s) /\ leader \in DOMAIN k.t /\ k.t[leader].leader = leader
    BY CallerSurvives DEF LifeInv
<1>2. tasks[s].running /\ ~tasks[s].exited /\ tasks[s].leader = leader
    BY <1>1 DEF CanExecute, ProcessSlot
<1>3. LifeOK(tasks)
    BY DEF LifeInv, K
<1>4. ~tasks[leader].zombie /\ ~tasks[s].stopped
    BY <1>1, <1>2, <1>3 DEF LifeOK, GroupDies, ShapeOK
<1>5. tasks[leader].exited \/ ~tasks[leader].stopped
    BY <1>1, <1>2, <1>3, <1>4 DEF LifeOK, StopOK
<1>6. SameFlags(tasks[s], k.t[s]) /\ SameFlags(tasks[leader], k.t[leader])
    BY <1>1 DEF Reaps
<1>7. QED
    BY <1>1, <1>2, <1>4, <1>5, <1>6 DEF SameFlags

(* Publishing a new runnable task: a process of its own, or a member of a  *)
(* process that has neither finished nor been stopped.                     *)
LEMMA PublishLife ==
    ASSUME NEW k, LifeInv(k), NEW task, NEW slot, slot \notin DOMAIN k.t,
           task.tid = k.n, task.kstack = k.n, task.running,
           ~task.exited, ~task.stopped, ~task.zombie,
           task.ppid # 0 => Alive(k.t, task.ppid),
           \/ task.leader = slot
           \/ /\ task.leader \in DOMAIN k.t
              /\ ~k.t[task.leader].zombie
              /\ k.t[task.leader].exited \/ ~k.t[task.leader].stopped,
           NEW j, KernelInv(j), j.t = Publish(k.t, slot, task), j.n = k.n + 1,
           j.u = k.u, j.d = k.d,
           j.f \subseteq k.f \cup {p \in {task.pid} : task.leader = slot}
    PROVE  LifeInv(j) /\ Keeps(k, j)
<1>1. /\ KernelInv(k) /\ LifeOK(k.t) /\ FdsOK(k) /\ GroupOK(k.t)
      /\ k.n \in Int /\ \A s \in DOMAIN k.t : k.t[s].leader \in DOMAIN k.t
    BY DEF LifeInv, KernelInv, KernelStateOK, GroupOK
<1>2. /\ DOMAIN j.t = DOMAIN k.t \cup {slot} /\ j.t[slot] = task
      /\ \A s \in DOMAIN k.t : j.t[s] = k.t[s]
    BY DEF Publish
<1>3. ShapeOK(j.t)
    BY <1>1, <1>2 DEF LifeOK, ShapeOK
<1>4. GroupDies(j.t)
    BY <1>1, <1>2 DEF LifeOK, GroupDies
<1>5. \A p : Alive(k.t, p) => Alive(j.t, p)
    BY <1>2 DEF Alive
<1>6. ParentsOK(j.t)
    BY <1>1, <1>2, <1>5 DEF LifeOK, ParentsOK
<1>7. StopOK(j.t)
    <2>1. \A s \in DOMAIN j.t : j.t[s].stopped \in BOOLEAN
        BY TaskTyped DEF Task
    <2>2. ASSUME NEW s \in DOMAIN k.t, ~j.t[s].exited, ~j.t[j.t[s].leader].exited
          PROVE  j.t[s].stopped = j.t[j.t[s].leader].stopped
        BY <1>1, <1>2, <2>2 DEF LifeOK, StopOK
    <2>3. ASSUME ~j.t[task.leader].exited
          PROVE  task.stopped = j.t[task.leader].stopped
        <3>1. task.leader \in DOMAIN j.t /\ ~j.t[task.leader].stopped
            BY <1>2, <2>3
        <3>2. QED
            BY <1>2, <2>1, <3>1
    <2>4. QED
        BY <1>2, <2>2, <2>3 DEF StopOK
<1>8. FdsOK(j)
    <2>1. ASSUME NEW p \in k.f
          PROVE  \E l \in DOMAIN j.t : j.t[l].leader = l /\ j.t[l].pid = p /\ (j.t[l].zombie => l \in j.d)
        BY <1>1, <1>2 DEF FdsOK
    <2>2. ASSUME NEW p \in j.f, p \notin k.f
          PROVE  j.t[slot].leader = slot /\ j.t[slot].pid = p /\ ~j.t[slot].zombie
        BY <1>2, <2>2
    <2>3. QED
        BY <1>2, <2>1, <2>2 DEF FdsOK
<1>9. Keeps(k, j)
    BY <1>1, <1>2 DEF Keeps
<1>10. QED
    BY <1>3, <1>4, <1>6, <1>7, <1>8, <1>9 DEF LifeInv, LifeOK

(* spawn: the child's parent is alive.                                     *)
LEMMA SpawnedLife ==
    ASSUME NEW k, LifeInv(k), HasRoom(k), NEW parent \in DOMAIN k.t,
           k.t[parent].leader = parent, ~k.t[parent].zombie
    PROVE  LifeInv(Spawned(k, parent)) /\ Keeps(k, Spawned(k, parent))
<1> DEFINE slot == FreeSlot(k.t)
           task == NewTask(k.n, k.t[parent].pid, slot)
           j == Spawned(k, parent)
<1>1. KernelInv(k) /\ IsKernelState(k) /\ KernelInv(j)
    BY SpawnedMoves DEF LifeInv, KernelInv, Moves
<1>2. slot \notin DOMAIN k.t
    BY FirstOfInSet DEF HasRoom, FreeSlot
<1>3. /\ task.tid = k.n /\ task.kstack = k.n /\ task.running /\ task.pid = k.n
      /\ ~task.exited /\ ~task.stopped /\ ~task.zombie /\ task.leader = slot
      /\ task.ppid = k.t[parent].pid
    BY DEF NewTask
<1>4. /\ j.t = Publish(k.t, slot, task) /\ j.n = k.n + 1 /\ j.u = k.u /\ j.d = k.d
      /\ j.f = k.f \cup {k.n}
    BY <1>1 DEF Spawned, IsKernelState
<1> HIDE DEF task, slot, j
<1>5. Alive(k.t, task.ppid)
    BY <1>3 DEF Alive
<1>6. j.f \subseteq k.f \cup {p \in {task.pid} : task.leader = slot}
    BY <1>3, <1>4
<1>7. LifeInv(j) /\ Keeps(k, j)
    BY <1>1, <1>2, <1>3, <1>4, <1>5, <1>6, PublishLife
<1>8. QED
    BY <1>7 DEF j

(* thread_create: the process of the caller is neither dead nor stopped.   *)
LEMMA ThreadCreatedLife ==
    ASSUME NEW k, LifeInv(k), HasRoom(k), NEW leader \in DOMAIN k.t,
           k.t[leader].leader = leader, ~k.t[leader].zombie,
           k.t[leader].exited \/ ~k.t[leader].stopped
    PROVE  LifeInv(ThreadCreated(k, leader)) /\ Keeps(k, ThreadCreated(k, leader))
<1> DEFINE slot == FreeSlot(k.t)
           l == k.t[leader]
           task == NewThread(l, k.n)
           j == ThreadCreated(k, leader)
<1>1. KernelInv(k) /\ IsKernelState(k) /\ KernelInv(j) /\ LifeOK(k.t)
    BY ThreadCreatedMoves DEF LifeInv, KernelInv, Moves
<1>2. slot \notin DOMAIN k.t
    BY FirstOfInSet DEF HasRoom, FreeSlot
<1>3. /\ task.tid = k.n /\ task.kstack = k.n /\ task.running
      /\ ~task.exited /\ ~task.stopped /\ ~task.zombie /\ task.leader = leader
      /\ task.ppid = l.ppid
    BY DEF NewThread, NewTask
<1>4. /\ j.t = Publish(k.t, slot, task) /\ j.n = k.n + 1 /\ j.u = k.u /\ j.d = k.d
      /\ j.f = k.f
    BY <1>1 DEF ThreadCreated, IsKernelState
<1>5. l.ppid # 0 => Alive(k.t, l.ppid)
    BY <1>1 DEF LifeOK, ParentsOK
<1> HIDE DEF task, slot, j
<1>6. j.f \subseteq k.f \cup {p \in {task.pid} : task.leader = slot}
    BY <1>4
<1>7. LifeInv(j) /\ Keeps(k, j)
    BY <1>1, <1>2, <1>3, <1>4, <1>5, <1>6, PublishLife
<1>8. QED
    BY <1>7 DEF j

(* A failed spawn uses up a pid and nothing else.                          *)
LEMMA BadImageLife ==
    ASSUME NEW k, LifeInv(k), NEW c \in Cpus, HasRoom(k)
    PROVE  /\ LifeInv([k EXCEPT !.n = @ + 1, !.r[c] = 0])
           /\ Keeps(k, [k EXCEPT !.n = @ + 1, !.r[c] = 0])
<1> DEFINE j == [k EXCEPT !.n = @ + 1, !.r[c] = 0]
<1>1. KernelInv(k) /\ IsKernelState(k) /\ k.n \in Int
    BY DEF LifeInv, KernelInv, KernelStateOK
<1>m. Moves(k, j, c)
    BY <1>1, BadImageMoves
<1>2. j.t = k.t /\ j.u = k.u /\ j.d = k.d /\ j.f = k.f /\ j.n = k.n + 1
    BY <1>1 DEF IsKernelState
<1> HIDE DEF j
<1>3. LifeInv(j)
    BY <1>m, <1>2 DEF LifeInv, FdsOK, Moves
<1>4. Keeps(k, j)
    BY <1>1, <1>2 DEF Keeps
<1>5. QED
    BY <1>3, <1>4 DEF j

(* The tail of syscall_handler_locked.                                     *)
LEMMA CompleteLife ==
    ASSUME NEW k, LifeInv(k), NEW c \in Cpus, NEW s \in DOMAIN k.t
    PROVE  LifeInv(Complete(k, c, s)) /\ Settles(k, Complete(k, c, s), c)
<1> DEFINE k1 == Return(k, s)
<1>1. LifeInv(k1) /\ Settles(k, k1, c)
    BY ReturnLife
<1> HIDE DEF k1
<1>2. LifeInv(Schedule(k1, c)) /\ Settles(k, Schedule(k1, c), c)
    BY <1>1, ScheduleLife, SettlesTransitive
<1>3. LifeInv(DeliverPending(k1, c)) /\ Settles(k, DeliverPending(k1, c), c)
    BY <1>1, DeliverLife, SettlesTransitive
<1>4. QED
    BY <1>2, <1>3 DEF Complete, k1

(* Detaching a thread rewrites it quietly and may free it.                 *)
LEMMA DetachLife ==
    ASSUME NEW k, LifeInv(k), FdsDrained(k), NEW s \in DOMAIN k.t
    PROVE  LET T == [k.t EXCEPT ![s].detached = TRUE]
               j == [k EXCEPT !.t = ReapThread(T, k.o, s)]
           IN  LifeInv(j) /\ Keeps(k, j)
<1> DEFINE x == [k.t[s] EXCEPT !.detached = TRUE]
           T == [k.t EXCEPT ![s] = x]
           U == ReapThread(T, k.o, s)
           j == [k EXCEPT !.t = U]
<1>1. /\ KernelInv(k) /\ IsKernelState(k) /\ LifeOK(k.t) /\ k.t[s] \in Task /\ ParentsOK(k.t)
      /\ TableOK(k.t)
    BY TaskTyped DEF LifeInv, LifeOK, KernelInv, KernelStateOK
<1>2. x \in Task /\ SameFrame(s, k.t[s], x) /\ SameFlags(k.t[s], x) /\ x.ppid = k.t[s].ppid
    BY <1>1 DEF Task, SameFrame, SameFlags
<1>3. T = [k.t EXCEPT ![s].detached = TRUE]
    BY <1>1 DEF Task
<1> HIDE DEF x
<1>4. Evolves(k.t, T)
    BY <1>1, <1>2, UpdateEvolves
<1>5. /\ DOMAIN T = DOMAIN k.t
      /\ \A r \in DOMAIN T : SameFlags(k.t[r], T[r]) /\ T[r].ppid = k.t[r].ppid
    BY <1>2 DEF SameFlags
<1> HIDE DEF T
<1>6. TableOK(T) /\ GroupOK(T) /\ UniqueStacks(T) /\ Shrinks(k.t, T, k.o)
    BY <1>1, <1>4, EvolvesKeeps, EvolvesShrinks DEF Evolves, KernelInv
<1>7. \A p : Alive(k.t, p) => Alive(T, p)
    BY <1>5 DEF Alive, SameFlags
<1>8. ParentsOK(T) /\ Reaps(k.t, T)
    BY <1>1, <1>5, <1>7 DEF ParentsOK, Reaps
<1>9. Shrinks(k.t, U, k.o) /\ Reaps(k.t, U)
    BY <1>6, <1>8, ReapThreadShrinks, ShrinksTransitive, ReapThreadReaps, ReapsTransitive
<1> HIDE DEF U
<1>10. Prunes(k, j) /\ j.t = U /\ j.f = k.f
    BY <1>1, <1>9, PruneTable DEF IsKernelState
<1> HIDE DEF j
<1>11. LifeInv(j) /\ Keeps(k, j)
    BY <1>9, <1>10, PruneLife
<1>12. QED
    BY <1>3, <1>11 DEF j, U

(* Joining a thread frees it.                                              *)
LEMMA JoinLife ==
    ASSUME NEW k, LifeInv(k), FdsDrained(k), NEW s
    PROVE  /\ LifeInv([k EXCEPT !.t = ReapThread(k.t, k.o, s)])
           /\ Keeps(k, [k EXCEPT !.t = ReapThread(k.t, k.o, s)])
           /\ Prunes(k, [k EXCEPT !.t = ReapThread(k.t, k.o, s)])
<1> DEFINE U == ReapThread(k.t, k.o, s)
           j == [k EXCEPT !.t = U]
<1>1. /\ KernelInv(k) /\ IsKernelState(k) /\ ParentsOK(k.t)
      /\ TableOK(k.t) /\ GroupOK(k.t) /\ UniqueStacks(k.t)
    BY DEF LifeInv, LifeOK, KernelInv, KernelStateOK
<1>2. Shrinks(k.t, U, k.o) /\ Reaps(k.t, U)
    BY <1>1, ReapThreadShrinks, ReapThreadReaps
<1> HIDE DEF U
<1>3. Prunes(k, j) /\ j.t = U /\ j.f = k.f
    BY <1>1, <1>2, PruneTable DEF IsKernelState
<1> HIDE DEF j
<1>4. LifeInv(j) /\ Keeps(k, j)
    BY <1>2, <1>3, PruneLife
<1>5. QED
    BY <1>3, <1>4 DEF j, U

(* Reporting a child frees it or clears a latch of it.                     *)
LEMMA ReportLife ==
    ASSUME NEW k, LifeInv(k), FdsDrained(k), NEW child \in DOMAIN k.t
    PROVE  LifeInv(Report(k, child)) /\ Keeps(k, Report(k, child)) /\ Prunes(k, Report(k, child))
<1>1. /\ KernelInv(k) /\ IsKernelState(k) /\ ParentsOK(k.t) /\ k.t[child] \in Task
      /\ TableOK(k.t) /\ GroupOK(k.t) /\ UniqueStacks(k.t) /\ ShapeOK(k.t) /\ k.n \in Int
    BY TaskTyped DEF LifeInv, LifeOK, KernelInv, KernelStateOK
<1>2. Prunes(k, Report(k, child))
    BY <1>1, ReportPrunes
<1>3. CASE k.t[child].zombie
    <2> DEFINE U == Reap(k.t, k.o, child)
               j == [k EXCEPT !.t = U]
    <2>1. Report(k, child) = j
        BY <1>1, <1>3 DEF Report, IsKernelState
    <2>2. Reaps(k.t, U)
        BY <1>1, ReapReaps
    <2> HIDE DEF U
    <2>3. Prunes(k, j) /\ j.t = U /\ j.f = k.f
        BY <1>1, <1>2, <2>1 DEF IsKernelState
    <2> HIDE DEF j
    <2>4. LifeInv(j) /\ Keeps(k, j)
        BY <2>2, <2>3, PruneLife
    <2>5. QED
        BY <1>2, <2>1, <2>4
<1>4. CASE ~k.t[child].zombie
    <2> DEFINE a == [k.t[child] EXCEPT !.stop_pending = FALSE]
               b == [k.t[child] EXCEPT !.cont_pending = FALSE]
    <2>1. \/ Report(k, child) = [k EXCEPT !.t[child] = a]
          \/ Report(k, child) = [k EXCEPT !.t[child] = b]
        BY <1>1, <1>4 DEF Report, IsKernelState
    <2>2. a \in Task /\ SameFrame(child, k.t[child], a) /\ QuietTask(k.t[child], a)
        BY <1>1 DEF Task, SameFrame, QuietTask, ShapeOK
    <2>3. b \in Task /\ SameFrame(child, k.t[child], b) /\ QuietTask(k.t[child], b)
        BY <1>1 DEF Task, SameFrame, QuietTask, ShapeOK
    <2> HIDE DEF a, b
    <2>4. ASSUME NEW x \in Task, SameFrame(child, k.t[child], x), QuietTask(k.t[child], x)
          PROVE  LifeInv([k EXCEPT !.t[child] = x]) /\ Keeps(k, [k EXCEPT !.t[child] = x])
        <3> DEFINE j == [k EXCEPT !.t[child] = x]
        <3>1. LifeInv(j) /\ Settles(k, j, BSP)
            BY <2>4, UpdateLife
        <3>2. j.u = k.u /\ j.n = k.n
            BY <1>1 DEF IsKernelState
        <3> HIDE DEF j
        <3>3. Keeps(k, j)
            BY <1>1, <3>1, <3>2, SettlesKeeps
        <3>4. QED
            BY <3>1, <3>3 DEF j
    <2>5. QED
        BY <1>2, <2>1, <2>2, <2>3, <2>4
<1>5. QED
    BY <1>3, <1>4
-----------------------------------------------------------------------------
(* What the two action properties say of one step.                         *)
DeadStep ==
    \A s \in DOMAIN tasks \cap DOMAIN tasks' :
        tasks[s].exited /\ tasks'[s].tid = tasks[s].tid =>
            /\ tasks'[s].exited
            /\ ~tasks'[s].running
            /\ tasks'[s].state = "Zombie"
            /\ \A c \in Cpus : cur'[c] = s => cur[c] = s

StoppedStep ==
    \A s \in DOMAIN tasks \cap DOMAIN tasks' :
        tasks[s].stopped /\ tasks'[s].stopped /\ tasks'[s].tid = tasks[s].tid =>
            \A c \in Cpus : cur'[c] = s => cur[c] = s

LifeStep == LifeInv(K') /\ DeadStep /\ StoppedStep

(* A body that frees slots or creates tasks, then rescheduled its own CPU, *)
(* and hands off.  A slot that was freed and taken again has a new tid.    *)
LEMMA HandoffLife ==
    ASSUME LifeInv(K), NEW k, Keeps(K, k), NEW c \in Cpus,
           NEW j, LifeInv(j), Settles(k, j, c), Handoff(c, j)
    PROVE  LifeStep
<1>1. /\ tasks' = j.t /\ owner' = j.o /\ cur' = j.u /\ cr3' = j.r /\ esp0' = j.e
      /\ nextPid' = j.n /\ deferred' = j.d /\ openFds' = j.f
    BY DEF Handoff
<1>2. j = [t |-> j.t, o |-> j.o, u |-> j.u, r |-> j.r,
           e |-> j.e, n |-> j.n, d |-> j.d, f |-> j.f]
    BY DEF LifeInv, KernelInv, IsKernelState
<1>3. K' = j
    BY <1>1, <1>2 DEF K
<1>4. /\ K.t = tasks /\ K.u = cur /\ ShapeOK(tasks) /\ ShapeOK(tasks')
      /\ K.n \in Int /\ \A s \in DOMAIN tasks : tasks[s].kstack < K.n /\ tasks[s].kstack \in Int
    BY <1>1, TaskTyped DEF LifeInv, LifeOK, KernelInv, KernelStateOK, StacksAllocated, K, Task, Pids
<1>5. ASSUME NEW s \in DOMAIN tasks \cap DOMAIN tasks', tasks'[s].tid = tasks[s].tid
      PROVE  /\ s \in DOMAIN k.t /\ (tasks[s].exited => k.t[s].exited)
    <2>1. tasks'[s].kstack = tasks[s].kstack
        BY <1>4, <1>5 DEF ShapeOK
    <2>2. s \in DOMAIN k.t /\ k.t[s].kstack = tasks[s].kstack
        BY <1>1, <2>1 DEF Settles
    <2>3. QED
        BY <1>4, <2>2 DEF Keeps
<1>6. DeadStep
    <2> SUFFICES ASSUME NEW s \in DOMAIN tasks \cap DOMAIN tasks',
                        tasks[s].exited, tasks'[s].tid = tasks[s].tid
                 PROVE  /\ tasks'[s].exited /\ ~tasks'[s].running /\ tasks'[s].state = "Zombie"
                        /\ \A d \in Cpus : cur'[d] = s => cur[d] = s
        BY DEF DeadStep
    <2>1. s \in DOMAIN k.t /\ k.t[s].exited
        BY <1>5
    <2>2. tasks'[s].exited
        BY <1>1, <2>1 DEF Settles
    <2>3. \A d \in Cpus : cur'[d] = s => cur[d] = s
        BY <1>1, <1>4, <2>1 DEF Settles, Keeps
    <2>4. QED
        BY <1>4, <2>2, <2>3 DEF ShapeOK
<1>7. StoppedStep
    <2> SUFFICES ASSUME NEW s \in DOMAIN tasks \cap DOMAIN tasks',
                        tasks'[s].stopped, tasks'[s].tid = tasks[s].tid
                 PROVE  \A d \in Cpus : cur'[d] = s => cur[d] = s
        BY DEF StoppedStep
    <2>1. s \in DOMAIN k.t
        BY <1>5
    <2>2. QED
        BY <1>1, <1>4, <2>1 DEF Settles, Keeps
<1>8. QED
    BY <1>3, <1>6, <1>7 DEF LifeStep

(* The bodies of system calls also deliver signals.                        *)
LEMMA LeaveLife ==
    ASSUME LifeInv(K), NEW k, Keeps(K, k), NEW c \in Cpus,
           NEW j, LifeInv(j), Settles(k, j, c), Leave(c, j)
    PROVE  LifeStep
<1> DEFINE l == DeliverPending(j, c)
<1>1. LifeInv(l) /\ Settles(j, l, c) /\ Handoff(c, l)
    BY DeliverLife DEF Leave
<1> HIDE DEF l
<1>2. QED
    BY <1>1, SettlesTransitive, HandoffLife

(* The bodies that return a value complete the call first.                 *)
LEMMA LeaveCompleteLife ==
    ASSUME LifeInv(K), NEW k, LifeInv(k), Keeps(K, k), NEW c \in Cpus,
           NEW s \in DOMAIN k.t, Leave(c, Complete(k, c, s))
    PROVE  LifeStep
    BY CompleteLife, LeaveLife

(* The bodies that reschedule right after rewriting tasks.                 *)
LEMMA LeaveScheduleLife ==
    ASSUME LifeInv(K), NEW k, Keeps(K, k), NEW c \in Cpus,
           NEW j, LifeInv(j), Settles(k, j, c), Leave(c, Schedule(j, c))
    PROVE  LifeStep
<1>1. LifeInv(Schedule(j, c)) /\ Settles(k, Schedule(j, c), c)
    BY ScheduleLife, SettlesTransitive
<1>2. QED
    BY <1>1, LeaveLife

(* A step outside the lock that rewrites tasks quietly.                    *)
LEMMA QuietStep ==
    ASSUME Inv, LifeInv(K), Evolves(tasks, tasks'), Quiet(tasks, tasks'),
           UNCHANGED <<owner, cur, cr3, esp0, nextPid, deferred, openFds>>
    PROVE  LifeStep
<1>1. KernelInv(K')
    BY RewriteInPlace
<1>2. /\ K.t = tasks /\ K'.t = tasks' /\ K'.d = K.d /\ K'.f = K.f
    BY DEF K
<1>3. LifeInv(K')
    BY <1>1, <1>2, QuietInv
<1>4. DeadStep /\ StoppedStep
    BY DEF DeadStep, StoppedStep, Quiet, QuietTask
<1>5. QED
    BY <1>3, <1>4 DEF LifeStep
-----------------------------------------------------------------------------
(* One lemma per action.  exit.                                            *)
LEMMA SysExitLife ==
    ASSUME Inv, LifeInv(K), NEW c \in Cpus, SysExit(c)
    PROVE  LifeStep
<1> DEFINE k == Entered
           j == ExitThread(k, cur[c])
<1>1. cur[c] # 0 /\ CanExecute(tasks, cur[c]) /\ Leave(c, Schedule(j, c))
    BY DEF SysExit, Locked, Inv
<1>2. LifeInv(k) /\ Keeps(K, k) /\ Prunes(K, k) /\ Reaps(tasks, k.t)
    BY EnteredLife
<1> HIDE DEF k
<1>3. cur[c] \in DOMAIN k.t
    BY <1>1, <1>2, CallerLife
<1>4. LifeInv(j) /\ Settles(k, j, c)
    BY <1>2, <1>3, ExitThreadLife
<1> HIDE DEF j
<1>5. QED
    BY <1>1, <1>2, <1>4, LeaveScheduleLife

(* exit_group.                                                             *)
LEMMA SysExitGroupLife ==
    ASSUME Inv, LifeInv(K), NEW c \in Cpus, SysExitGroup(c)
    PROVE  LifeStep
<1> DEFINE k == Entered
           leader == ProcessSlot(tasks, cur[c])
           j == ExitProcess(k, leader)
<1>1. cur[c] # 0 /\ CanExecute(tasks, cur[c]) /\ Leave(c, Schedule(j, c))
    BY DEF SysExitGroup, Locked, Inv
<1>2. LifeInv(k) /\ Keeps(K, k) /\ Prunes(K, k) /\ Reaps(tasks, k.t)
    BY EnteredLife
<1> HIDE DEF k
<1>3. leader \in DOMAIN k.t /\ k.t[leader].leader = leader
    BY <1>1, <1>2, CallerLife
<1> HIDE DEF leader
<1>4. LifeInv(j) /\ Settles(k, j, c)
    BY <1>2, <1>3, ExitProcessLife
<1> HIDE DEF j
<1>5. QED
    BY <1>1, <1>2, <1>4, LeaveScheduleLife

(* A user fault.  The thread may already be dead or stopped.               *)
LEMMA FaultExitLife ==
    ASSUME Inv, LifeInv(K), NEW c \in Cpus, FaultExit(c)
    PROVE  LifeStep
<1> DEFINE k == K
           leader == ProcessSlot(tasks, cur[c])
           j == ExitProcess(k, leader)
           l == Schedule(j, c)
<1>1. cur[c] # 0 /\ Handoff(c, l)
    BY DEF FaultExit, Inv
<1>2. LifeInv(k) /\ Keeps(K, k) /\ KernelInv(k) /\ Prunes(K, k)
    BY KeepsReflexive, RewriteNothing, RewritesPrunes DEF LifeInv
<1> HIDE DEF k
<1>3. leader \in DOMAIN k.t /\ k.t[leader].leader = leader
    BY <1>1, <1>2, CallerSurvives DEF Inv
<1> HIDE DEF leader
<1>4. LifeInv(j) /\ Settles(k, j, c)
    BY <1>2, <1>3, ExitProcessLife
<1> HIDE DEF j
<1>5. LifeInv(l) /\ Settles(k, l, c)
    BY <1>4, ScheduleLife, SettlesTransitive
<1> HIDE DEF l
<1>6. QED
    BY <1>1, <1>2, <1>5, HandoffLife

(* A call whose task was stopped or killed while it waited for the lock.   *)
LEMMA LostTurnLife ==
    ASSUME Inv, LifeInv(K), NEW c \in Cpus, LostTurn(c)
    PROVE  LifeStep
<1> DEFINE k == DrainDeferredCleanup(K)
           j == Schedule(k, c)
<1>1. Leave(c, j)
    BY DEF LostTurn
<1>2. LifeInv(k) /\ Keeps(K, k)
    BY DrainLife
<1> HIDE DEF k
<1>3. LifeInv(j) /\ Settles(k, j, c)
    BY <1>2, ScheduleLife
<1> HIDE DEF j
<1>4. QED
    BY <1>1, <1>2, <1>3, LeaveLife

(* sched_yield.                                                            *)
LEMMA SysYieldLife ==
    ASSUME Inv, LifeInv(K), NEW c \in Cpus, SysYield(c)
    PROVE  LifeStep
<1> DEFINE k == Entered
           j == Return(k, cur[c])
<1>1. cur[c] # 0 /\ CanExecute(tasks, cur[c]) /\ Leave(c, Schedule(j, c))
    BY DEF SysYield, Locked, Inv
<1>2. LifeInv(k) /\ Keeps(K, k) /\ Prunes(K, k) /\ Reaps(tasks, k.t)
    BY EnteredLife
<1> HIDE DEF k
<1>3. cur[c] \in DOMAIN k.t
    BY <1>1, <1>2, CallerLife
<1>4. LifeInv(j) /\ Settles(k, j, c)
    BY <1>2, <1>3, ReturnLife
<1> HIDE DEF j
<1>5. QED
    BY <1>1, <1>2, <1>4, LeaveScheduleLife

(* nanosleep blocks its caller, which runs.                                *)
LEMMA SysNanosleepLife ==
    ASSUME Inv, LifeInv(K), NEW c \in Cpus, SysNanosleep(c)
    PROVE  LifeStep
<1> DEFINE k == Entered
           s == cur[c]
           k1 == Return(k, s)
           b == Block(k1.t[s], "Timer")
           x == [b EXCEPT !.deadline = "future"]
           j == [k1 EXCEPT !.t[s] = x]
<1>1. s # 0 /\ CanExecute(tasks, s)
    BY DEF SysNanosleep, Locked, Inv
<1>2. LifeInv(k) /\ Keeps(K, k) /\ Prunes(K, k) /\ Reaps(tasks, k.t)
    BY EnteredLife
<1>3. s \in DOMAIN k.t /\ k.t[s].running
    BY <1>1, <1>2, CallerLife
<1>4. LifeInv(k1) /\ Settles(k, k1, c)
    BY <1>2, <1>3, ReturnLife
<1>5. s \in DOMAIN k1.t /\ IsKernelState(k1) /\ k1.t[s] \in Task /\ SameFrame(s, k1.t[s], k1.t[s])
    BY <1>3, <1>4, TaskTyped DEF Settles, LifeInv, KernelInv
<1>6. k1.t[s].running
    <2>1. k.t[s] \in Task /\ IsKernelState(k)
        BY <1>2, <1>3, TaskTyped DEF LifeInv, KernelInv
    <2> HIDE DEF k, s
    <2>2. k1.t[s] = [k.t[s] EXCEPT !.call = NoCall]
        BY <1>3, <2>1 DEF Return, IsKernelState
    <2>3. QED
        BY <1>3, <2>1, <2>2 DEF Task
<1>7. Leave(c, Schedule(j, c))
    BY <1>5 DEF SysNanosleep, IsKernelState
<1> HIDE DEF k, k1
<1>8. ~k1.t[s].exited /\ ~k1.t[s].stopped
    BY <1>4, <1>5, <1>6 DEF LifeInv, LifeOK, ShapeOK
<1>9. x \in Task /\ SameFrame(s, k1.t[s], x) /\ QuietTask(k1.t[s], x)
    BY <1>5, <1>8 DEF Task, Block, SameFrame, QuietTask, TaskStates, WaitReasons
<1> HIDE DEF x, s
<1>10. LifeInv(j) /\ Settles(k1, j, c)
    BY <1>4, <1>5, <1>9, UpdateLife
<1> HIDE DEF j
<1>11. QED
    BY <1>2, <1>4, <1>7, <1>10, SettlesTransitive, LeaveScheduleLife

(* Blocking the caller, which runs, after the prologue.                    *)
LEMMA BlockStep ==
    ASSUME LifeInv(K), NEW k, LifeInv(k), Keeps(K, k), Prunes(K, k), Reaps(tasks, k.t),
           NEW c \in Cpus, NEW s, s = cur[c], s # 0, CanExecute(tasks, s),
           NEW reason \in WaitReasons, Leave(c, BlockAndRestart(k, c, s, reason))
    PROVE  LifeStep
<1>1. s \in DOMAIN k.t /\ k.t[s].running
    BY CallerLife
<1>2. LifeInv(BlockAndRestart(k, c, s, reason)) /\ Settles(k, BlockAndRestart(k, c, s, reason), c)
    BY <1>1, BlockLife
<1>3. QED
    BY <1>2, LeaveLife

(* A restartable read.                                                     *)
LEMMA SysReadLife ==
    ASSUME Inv, LifeInv(K), NEW c \in Cpus, SysRead(c)
    PROVE  LifeStep
<1> DEFINE k == Entered
           s == cur[c]
<1>1. /\ s # 0 /\ s = cur[c] /\ CanExecute(tasks, s)
      /\ Leave(c, Complete(k, c, s)) \/ Leave(c, BlockAndRestart(k, c, s, "Input"))
    BY DEF SysRead, Locked, Inv
<1>2. LifeInv(k) /\ Keeps(K, k) /\ Prunes(K, k) /\ Reaps(tasks, k.t)
    BY EnteredLife
<1> HIDE DEF k
<1>3. s \in DOMAIN k.t /\ "Input" \in WaitReasons
    BY <1>1, <1>2, CallerLife DEF WaitReasons
<1> HIDE DEF s
<1>4. QED
    BY <1>1, <1>2, <1>3, LeaveCompleteLife, BlockStep

(* A body that keeps every task of k and then completes the call.          *)
LEMMA CompleteStep ==
    ASSUME LifeInv(K), NEW k, LifeInv(k), Keeps(K, k), NEW c \in Cpus,
           NEW s, s = cur[c], s # 0, Leave(c, Complete(k, c, s))
    PROVE  LifeStep
<1>1. s \in DOMAIN k.t
    BY DEF LifeInv, KernelInv, CurrentOK, Keeps, K
<1>2. QED
    BY <1>1, LeaveCompleteLife

(* spawn.                                                                  *)
LEMMA SysSpawnLife ==
    ASSUME Inv, LifeInv(K), NEW c \in Cpus, SysSpawn(c)
    PROVE  LifeStep
<1> DEFINE k == Reaped
           parent == ProcessSlot(tasks, cur[c])
           k1 == IF HasRoom(k) THEN Spawned(k, parent) ELSE k
<1>1. cur[c] # 0 /\ CanExecute(tasks, cur[c]) /\ Leave(c, Complete(k1, c, cur[c]))
    BY DEF SysSpawn, Locked, Inv
<1>2. LifeInv(k) /\ Keeps(K, k) /\ Prunes(K, k) /\ Reaps(tasks, k.t)
    BY ReapedLife
<1> HIDE DEF k
<1>3. parent \in DOMAIN k.t /\ k.t[parent].leader = parent /\ ~k.t[parent].zombie
    BY <1>1, <1>2, CallerLife
<1> HIDE DEF parent
<1>4. LifeInv(k1) /\ Keeps(k, k1)
    BY <1>2, <1>3, SpawnedLife, KeepsReflexive DEF LifeInv
<1> HIDE DEF k1
<1>5. Keeps(K, k1)
    BY <1>2, <1>4, KeepsComposes DEF LifeInv
<1>6. QED
    BY <1>1, <1>4, <1>5, CompleteStep

(* A spawn whose image is rejected.                                        *)
LEMMA SysSpawnBadLife ==
    ASSUME Inv, LifeInv(K), NEW c \in Cpus, SysSpawnBad(c)
    PROVE  LifeStep
<1> DEFINE k == Reaped
           k1 == IF HasRoom(k) THEN [k EXCEPT !.n = @ + 1, !.r[c] = 0] ELSE k
<1>1. cur[c] # 0 /\ Leave(c, Complete(k1, c, cur[c]))
    BY DEF SysSpawnBad, Locked, Inv
<1>2. LifeInv(k) /\ Keeps(K, k)
    BY ReapedLife
<1> HIDE DEF k
<1>3. LifeInv(k1) /\ Keeps(k, k1)
    <2>1. CASE HasRoom(k)
        BY <1>2, <2>1, BadImageLife
    <2>2. CASE ~HasRoom(k)
        BY <1>2, <2>2, KeepsReflexive DEF LifeInv
    <2>3. QED
        BY <2>1, <2>2
<1> HIDE DEF k1
<1>4. Keeps(K, k1)
    BY <1>2, <1>3, KeepsComposes DEF LifeInv
<1>5. QED
    BY <1>1, <1>3, <1>4, CompleteStep

(* thread_create.                                                          *)
LEMMA SysThreadCreateLife ==
    ASSUME Inv, LifeInv(K), NEW c \in Cpus, SysThreadCreate(c)
    PROVE  LifeStep
<1> DEFINE k == Reaped
           leader == ProcessSlot(tasks, cur[c])
           k1 == IF HasRoom(k) THEN ThreadCreated(k, leader) ELSE k
<1>1. cur[c] # 0 /\ CanExecute(tasks, cur[c]) /\ Leave(c, Complete(k1, c, cur[c]))
    BY DEF SysThreadCreate, Locked, Inv
<1>2. LifeInv(k) /\ Keeps(K, k) /\ Prunes(K, k) /\ Reaps(tasks, k.t)
    BY ReapedLife
<1> HIDE DEF k
<1>3. /\ leader \in DOMAIN k.t /\ k.t[leader].leader = leader /\ ~k.t[leader].zombie
      /\ k.t[leader].exited \/ ~k.t[leader].stopped
    BY <1>1, <1>2, CallerLife
<1> HIDE DEF leader
<1>4. LifeInv(k1) /\ Keeps(k, k1)
    BY <1>2, <1>3, ThreadCreatedLife, KeepsReflexive DEF LifeInv
<1> HIDE DEF k1
<1>5. Keeps(K, k1)
    BY <1>2, <1>4, KeepsComposes DEF LifeInv
<1>6. QED
    BY <1>1, <1>4, <1>5, CompleteStep

(* A body that stores its result without completing the call.              *)
LEMMA ReturnStep ==
    ASSUME LifeInv(K), NEW k, LifeInv(k), Keeps(K, k), NEW c \in Cpus,
           NEW s, s = cur[c], s # 0, Leave(c, Return(k, s))
    PROVE  LifeStep
<1>1. s \in DOMAIN k.t
    BY DEF LifeInv, KernelInv, CurrentOK, Keeps, K
<1>2. LifeInv(Return(k, s)) /\ Settles(k, Return(k, s), c)
    BY <1>1, ReturnLife
<1>3. QED
    BY <1>2, LeaveLife

(* thread_join.                                                            *)
LEMMA SysThreadJoinLife ==
    ASSUME Inv, LifeInv(K), NEW c \in Cpus, SysThreadJoin(c)
    PROVE  LifeStep
<1> DEFINE k == Entered
           s == cur[c]
           target == SlotByTid(k.t, tasks[s].call.id)
           j == [k EXCEPT !.t = ReapThread(k.t, k.o, target)]
<1>1. s = cur[c] /\ s # 0 /\ CanExecute(tasks, s) /\ "Thread" \in WaitReasons
    BY DEF SysThreadJoin, Locked, Inv, WaitReasons
<1>2. LifeInv(k) /\ FdsDrained(k) /\ Keeps(K, k) /\ Prunes(K, k) /\ Reaps(tasks, k.t)
    BY EnteredLife
<1>3. \/ Leave(c, Return(k, s))
      \/ Leave(c, Return(j, s))
      \/ Leave(c, BlockAndRestart(k, c, s, "Thread"))
    BY <1>2 DEF SysThreadJoin, LifeInv, KernelInv, IsKernelState
<1> HIDE DEF k, target
<1>4. LifeInv(j) /\ Keeps(k, j)
    BY <1>2, JoinLife
<1> HIDE DEF j, s
<1>5. Keeps(K, j)
    BY <1>2, <1>4, KeepsComposes DEF LifeInv
<1>6. QED
    BY <1>1, <1>2, <1>3, <1>4, <1>5, ReturnStep, BlockStep

(* thread_detach.                                                          *)
LEMMA SysThreadDetachLife ==
    ASSUME Inv, LifeInv(K), NEW c \in Cpus, SysThreadDetach(c)
    PROVE  LifeStep
<1> DEFINE k == Entered
           s == cur[c]
           target == SlotByTid(k.t, tasks[s].call.id)
           T == [k.t EXCEPT ![target].detached = TRUE]
           j == [k EXCEPT !.t = ReapThread(T, k.o, target)]
           k1 == IF ~Joinable(k.t, s, target) THEN k ELSE j
<1>1. s = cur[c] /\ s # 0
    BY DEF SysThreadDetach, Locked, Inv
<1>2. LifeInv(k) /\ FdsDrained(k) /\ Keeps(K, k)
    BY EnteredLife
<1>3. Leave(c, Complete(k1, c, s))
    BY <1>2 DEF SysThreadDetach, LifeInv, KernelInv, IsKernelState
<1> HIDE DEF k
<1>4. target \in DOMAIN k.t \cup {0}
    BY <1>2, FirstOfInSet DEF SlotByTid, LifeInv, KernelInv, KernelStateOK, TableOK
<1> HIDE DEF target, s
<1>5. ASSUME Joinable(k.t, s, target)
      PROVE  LifeInv(j) /\ Keeps(k, j)
    <2>1. target \in DOMAIN k.t
        BY <1>4, <1>5 DEF Joinable
    <2>2. QED
        BY <1>2, <2>1, DetachLife
<1> HIDE DEF j
<1>6. LifeInv(k1) /\ Keeps(k, k1)
    BY <1>2, <1>5, KeepsReflexive DEF LifeInv
<1> HIDE DEF k1
<1>7. Keeps(K, k1)
    BY <1>2, <1>6, KeepsComposes DEF LifeInv
<1>8. QED
    BY <1>1, <1>3, <1>6, <1>7, CompleteStep

(* wait.                                                                   *)
LEMMA SysWaitLife ==
    ASSUME Inv, LifeInv(K), NEW c \in Cpus, SysWait(c)
    PROVE  LifeStep
<1> DEFINE k == Entered
           s == cur[c]
           call == tasks[s].call
           mine == Children(k.t, k.t[ProcessSlot(k.t, s)].pid, call.id)
           child == FirstOf({x \in mine : Reportable(k.t[x], call.arg)})
           notYet == IF child = 0 THEN mine # {}
                     ELSE k.t[child].zombie /\ ~CanReap(k.t, k.o, child)
           k1 == IF child = 0 \/ notYet THEN k ELSE Report(k, child)
<1>1. s = cur[c] /\ s # 0 /\ CanExecute(tasks, s) /\ "Child" \in WaitReasons
    BY DEF SysWait, Locked, Inv, WaitReasons
<1>2. LifeInv(k) /\ FdsDrained(k) /\ Keeps(K, k) /\ Prunes(K, k) /\ Reaps(tasks, k.t)
    BY EnteredLife
<1>3. Leave(c, BlockAndRestart(k, c, s, "Child")) \/ Leave(c, Return(k1, s))
    BY DEF SysWait
<1> HIDE DEF k, call
<1>4. child \in DOMAIN k.t \cup {0}
    <2> DEFINE S == {x \in mine : Reportable(k.t[x], call.arg)}
    <2>1. S \in SUBSET DOMAIN k.t /\ S \in SUBSET Slots
        BY <1>2 DEF Children, LifeInv, KernelInv, KernelStateOK, TableOK
    <2>2. child = FirstOf(S)
        OBVIOUS
    <2> HIDE DEF S, child
    <2>3. QED
        BY <2>1, <2>2, FirstOfInSet
<1> HIDE DEF child, notYet, s
<1>5. LifeInv(k1) /\ Keeps(k, k1)
    BY <1>2, <1>4, ReportLife, KeepsReflexive DEF LifeInv
<1> HIDE DEF k1
<1>6. Keeps(K, k1)
    BY <1>2, <1>5, KeepsComposes DEF LifeInv
<1>7. QED
    BY <1>1, <1>2, <1>3, <1>5, <1>6, ReturnStep, BlockStep

(* kill.                                                                   *)
LEMMA SysKillLife ==
    ASSUME Inv, LifeInv(K), NEW c \in Cpus, SysKill(c)
    PROVE  LifeStep
<1> DEFINE k == Entered
           s == cur[c]
           call == tasks[s].call
           target == SlotByPid(k.t, call.id)
           k1 == IF call.sig = 0 \/ target = 0 THEN k ELSE SignalSlot(k, target, call.sig)
<1>1. s # 0 /\ s = cur[c] /\ CanExecute(tasks, s) /\ Leave(c, Complete(k1, c, s))
    BY DEF SysKill, Locked, Inv
<1>2. LifeInv(k) /\ Keeps(K, k)
    BY EnteredLife
<1> HIDE DEF k
<1>3. call.sig \in {0} \cup Signals
    <2>1. s \in DOMAIN tasks /\ KernelInv(K) /\ K.t = tasks
        BY <1>1 DEF CanExecute, LifeInv, K
    <2>2. QED
        BY <2>1, CallTyped
<1> HIDE DEF call
<1>4. target \in DOMAIN k.t \cup {0}
    BY <1>2, FirstOfInSet DEF SlotByPid, LifeInv, KernelInv, KernelStateOK, TableOK
<1> HIDE DEF target, s
<1>5. LifeInv(k1) /\ Keeps(k, k1)
    BY <1>2, <1>3, <1>4, SignalSlotLife, KeepsReflexive DEF LifeInv
<1> HIDE DEF k1
<1>6. Keeps(K, k1)
    BY <1>2, <1>5, KeepsComposes DEF LifeInv
<1>7. QED
    BY <1>1, <1>5, <1>6, CompleteStep

(* sigaction.                                                              *)
LEMMA SysSigactionLife ==
    ASSUME Inv, LifeInv(K), NEW c \in Cpus, SysSigaction(c)
    PROVE  LifeStep
<1> DEFINE k == Entered
           s == cur[c]
           call == tasks[s].call
           leader == ProcessSlot(tasks, s)
           h == [k.t[leader].handlers EXCEPT ![call.sig] = call.arg]
           x == [k.t[leader] EXCEPT !.handlers = h]
           j == [k EXCEPT !.t[leader] = x]
           k1 == IF call.sig \notin Catchable THEN k ELSE j
<1>1. s # 0 /\ s = cur[c] /\ CanExecute(tasks, s) /\ call.op = "sigaction"
    BY DEF SysSigaction, Locked, Inv
<1>2. LifeInv(k) /\ Keeps(K, k) /\ Prunes(K, k) /\ Reaps(tasks, k.t) /\ KernelInv(k) /\ ShapeOK(k.t)
    BY EnteredLife DEF LifeInv, LifeOK
<1>3. leader \in DOMAIN k.t
    BY <1>1, <1>2, CallerLife
<1>4. k.t[leader] \in Task /\ IsKernelState(k)
    BY <1>2, <1>3, TaskTyped DEF KernelInv
<1>5. Leave(c, Complete(k1, c, s))
    BY <1>3, <1>4 DEF SysSigaction, IsKernelState, Task
<1>6. call.arg \in Dispositions
    <2>1. s \in DOMAIN tasks /\ KernelInv(K) /\ K.t = tasks
        BY <1>1 DEF CanExecute, LifeInv, K
    <2>2. QED
        BY <1>1, <2>1, CallTyped
<1> HIDE DEF k, call, leader
<1>7. h \in [Catchable -> Dispositions]
    BY <1>4, <1>6 DEF Task
<1> HIDE DEF h
<1>8. x \in Task /\ SameFrame(leader, k.t[leader], x) /\ QuietTask(k.t[leader], x)
    BY <1>2, <1>3, <1>4, <1>7 DEF Task, SameFrame, QuietTask, ShapeOK
<1> HIDE DEF x
<1>9. LifeInv(j) /\ Settles(k, j, c)
    BY <1>2, <1>3, <1>8, UpdateLife
<1>10. j.u = k.u /\ j.n = k.n /\ k.n \in Int
    BY <1>2, <1>4 DEF IsKernelState, KernelInv, KernelStateOK
<1> HIDE DEF j
<1>11. LifeInv(k1) /\ Keeps(k, k1)
    BY <1>2, <1>9, <1>10, SettlesKeeps, KeepsReflexive
<1> HIDE DEF k1, s
<1>12. Keeps(K, k1)
    BY <1>2, <1>11, KeepsComposes DEF LifeInv
<1>13. QED
    BY <1>1, <1>5, <1>11, <1>12, CompleteStep

(* A timer interrupt.                                                      *)
LEMMA TimerTickLife ==
    ASSUME Inv, LifeInv(K), NEW c \in Cpus, TimerTick(c)
    PROVE  LifeStep
<1> DEFINE U == WakeWaiters(tasks, "Input")
           w == [K EXCEPT !.t = U]
           k == IF c = BSP THEN w ELSE K
           i == Schedule(k, c)
           j == DeliverPending(i, c)
<1>1. KernelInv(K) /\ K.t = tasks /\ TableOK(tasks) /\ ShapeOK(tasks) /\ K.n \in Int
    BY DEF LifeInv, LifeOK, KernelInv, KernelStateOK, K
<1>2. Handoff(c, j)
    BY DEF TimerTick, K
<1>3. Evolves(tasks, U) /\ Quiet(tasks, U)
    BY <1>1, WakeWaitersEvolves, WakeWaitersQuiet DEF WaitReasons
<1> HIDE DEF U
<1>4. Rewrites(K, w)
    BY <1>1, <1>3, RewriteTable
<1>5. w.t = U /\ w.u = K.u /\ w.d = K.d /\ w.f = K.f /\ w.n = K.n
    BY DEF K
<1> HIDE DEF w
<1>6. KernelInv(w)
    BY <1>1, <1>4, RewritesMoves
<1>7. LifeInv(w) /\ Settles(K, w, c)
    BY <1>1, <1>3, <1>5, <1>6, QuietInv, QuietSettles
<1>8. LifeInv(k) /\ Keeps(K, k)
    BY <1>1, <1>5, <1>7, SettlesKeeps, KeepsReflexive
<1> HIDE DEF k
<1>9. LifeInv(i) /\ Settles(k, i, c)
    BY <1>8, ScheduleLife
<1> HIDE DEF i
<1>10. LifeInv(j) /\ Settles(k, j, c)
    BY <1>9, DeliverLife, SettlesTransitive
<1> HIDE DEF j
<1>11. QED
    BY <1>2, <1>8, <1>10, HandoffLife

(* Entering the kernel through int 0x80.                                   *)
LEMMA EnterSyscallLife ==
    ASSUME Inv, LifeInv(K), NEW c \in Cpus, NEW call \in Calls, EnterSyscall(c, call)
    PROVE  LifeStep
<1> DEFINE s == cur[c]
           x == [tasks[s] EXCEPT !.call = call, !.again = FALSE]
<1>1. s # 0 /\ KernelInv(K) /\ K.t = tasks /\ K.u = cur /\ ShapeOK(tasks) /\ TableOK(tasks)
    BY DEF EnterSyscall, Inv, LifeInv, LifeOK, KernelInv, KernelStateOK, K
<1>2. s \in DOMAIN tasks
    BY <1>1 DEF KernelInv, CurrentOK
<1>3. tasks[s] \in Task
    BY <1>1, <1>2, TaskTyped
<1>4. tasks' = [tasks EXCEPT ![s] = x]
    BY <1>1, <1>2, <1>3 DEF EnterSyscall, TableOK, Task
<1>5. x \in Task /\ SameFrame(s, tasks[s], x) /\ QuietTask(tasks[s], x)
    BY <1>1, <1>2, <1>3 DEF Task, SameFrame, QuietTask, ShapeOK
<1> HIDE DEF x
<1>6. Evolves(tasks, tasks') /\ Quiet(tasks, tasks')
    BY <1>1, <1>2, <1>4, <1>5, UpdateEvolves, UpdateQuiet
<1>7. QED
    BY <1>6, QuietStep DEF EnterSyscall

(* Entering through a fault, and leaving the outgoing stack.               *)
LEMMA SwitchStackLife ==
    ASSUME Inv, LifeInv(K), NEW c \in Cpus, EnterFault(c) \/ FinishHandoff(c)
    PROVE  LifeStep
<1>1. ShapeOK(tasks) /\ TableOK(tasks)
    BY DEF LifeInv, LifeOK, KernelInv, KernelStateOK, K
<1>2. UNCHANGED <<tasks, owner, cur, cr3, esp0, nextPid, deferred, openFds>>
    BY DEF EnterFault, FinishHandoff
<1>3. Evolves(tasks, tasks') /\ Quiet(tasks, tasks')
    BY <1>1, <1>2, EvolvesReflexive, QuietReflexive
<1>4. QED
    BY <1>2, <1>3, QuietStep

(* Time passes.                                                            *)
LEMMA ClockReachesLife ==
    ASSUME Inv, LifeInv(K), NEW s \in Slots, ClockReaches(s)
    PROVE  LifeStep
<1> DEFINE x == [tasks[s] EXCEPT !.deadline = "past"]
<1>1. /\ KernelInv(K) /\ K.t = tasks /\ ShapeOK(tasks) /\ TableOK(tasks)
      /\ s \in DOMAIN tasks
    BY DEF ClockReaches, LifeInv, LifeOK, KernelInv, KernelStateOK, K
<1>2. tasks[s] \in Task
    BY <1>1, TaskTyped
<1>3. tasks' = [tasks EXCEPT ![s] = x]
    BY <1>1, <1>2 DEF ClockReaches, TableOK, Task
<1>4. x \in Task /\ SameFrame(s, tasks[s], x) /\ QuietTask(tasks[s], x)
    BY <1>1, <1>2 DEF Task, SameFrame, QuietTask, ShapeOK
<1> HIDE DEF x
<1>5. Evolves(tasks, tasks') /\ Quiet(tasks, tasks')
    BY <1>1, <1>3, <1>4, UpdateEvolves, UpdateQuiet
<1>6. QED
    BY <1>5, QuietStep DEF ClockReaches
-----------------------------------------------------------------------------
(* Boot.                                                                   *)
LEMMA InitLife ==
    ASSUME Init
    PROVE  LifeInv(K)
<1> DEFINE task == NewTask(1, 0, 1)
<1>1. KernelInv(K) /\ K.t = tasks /\ K.f = {1}
    BY InitInv DEF Inv, K, Init
<1>2. /\ task.tid = 1 /\ task.kstack = 1 /\ task.leader = 1 /\ task.pid = 1 /\ task.ppid = 0
      /\ ~task.exited /\ ~task.stopped /\ ~task.zombie
    BY DEF NewTask
<1>3. DOMAIN tasks = {1} /\ tasks[1] = task
    BY DEF Init
<1> HIDE DEF task
<1>4. LifeOK(tasks)
    BY <1>2, <1>3 DEF LifeOK, ShapeOK, GroupDies, ParentsOK, StopOK
<1>5. FdsOK(K)
    BY <1>1, <1>2, <1>3 DEF FdsOK
<1>6. QED
    BY <1>1, <1>4, <1>5 DEF LifeInv

(* The invariant of the life of processes, on top of Inv.                  *)
Life == Inv /\ LifeInv(K)

(* Every step of every processor keeps it and is such a step.              *)
LEMMA NextLife ==
    ASSUME Life, [Next]_vars
    PROVE  Life' /\ LifeStep
<1>1. Inv'
    BY NextInv DEF Life
<1>2. CASE UNCHANGED vars
    <2>1. ShapeOK(tasks) /\ TableOK(tasks)
        BY DEF Life, LifeInv, LifeOK, KernelInv, KernelStateOK, K
    <2>2. UNCHANGED <<tasks, owner, cur, cr3, esp0, nextPid, deferred, openFds>>
        BY <1>2 DEF vars
    <2>3. Evolves(tasks, tasks') /\ Quiet(tasks, tasks')
        BY <2>1, <2>2, EvolvesReflexive, QuietReflexive
    <2>4. QED
        BY <2>2, <2>3, <1>1, QuietStep DEF Life, LifeStep
<1>3. ASSUME NEW c \in Cpus, NEW call \in Calls, EnterSyscall(c, call)
      PROVE  LifeStep
    BY <1>3, EnterSyscallLife DEF Life
<1>4. ASSUME NEW c \in Cpus, EnterFault(c) \/ FinishHandoff(c) \/ TimerTick(c)
      PROVE  LifeStep
    BY <1>4, SwitchStackLife, TimerTickLife DEF Life
<1>5. ASSUME NEW c \in Cpus, Body(c)
      PROVE  LifeStep
    BY <1>5, SysExitLife, SysExitGroupLife, SysYieldLife, SysNanosleepLife, SysReadLife,
       SysSpawnLife, SysSpawnBadLife, SysThreadCreateLife, SysThreadJoinLife,
       SysThreadDetachLife, SysWaitLife, SysKillLife, SysSigactionLife, LostTurnLife,
       FaultExitLife DEF Body, Life
<1>6. ASSUME NEW s \in Slots, ClockReaches(s)
      PROVE  LifeStep
    BY <1>6, ClockReachesLife DEF Life
<1>7. LifeStep
    BY <1>2, <1>3, <1>4, <1>5, <1>6 DEF Next
<1>8. QED
    BY <1>1, <1>7 DEF Life, LifeStep

(* The second inductive invariant.                                         *)
THEOREM LifeInvariance == Spec => []Life
<1>1. Init => Life
    BY InitInv, InitLife DEF Life
<1>2. Life /\ [Next]_vars => Life'
    BY NextLife
<1>3. QED
    BY <1>1, <1>2, PTL DEF Spec

(* A task's parent is a process that can still wait for it: exit, kill     *)
(* and every reaping hand the children of the dead to pid 1 or to nobody.  *)
THEOREM ParentsCanWait == Spec => []ParentCanWait
<1>1. Life => ParentCanWait
    BY DEF Life, LifeInv, LifeOK, ParentsOK, Alive, ParentCanWait, IsLeader, K
<1>2. QED
    BY <1>1, LifeInvariance, PTL

(* Descriptors never outlive their process: whoever frees the slot of a    *)
(* killed process has drained the deferred clean-up first.                 *)
THEOREM DescriptorsClosed == Spec => []NoLeakedDescriptors
<1>1. ASSUME Life, NEW p \in openFds
      PROVE  SlotByPid(tasks, p) # 0
    <2> DEFINE S == {s \in DOMAIN tasks : tasks[s].pid = p /\ IsLeader(tasks, s)}
    <2>1. K.f = openFds /\ K.t = tasks /\ FdsOK(K) /\ TableOK(tasks)
        BY <1>1 DEF Life, LifeInv, KernelInv, KernelStateOK, K
    <2>2. S # {} /\ S \in SUBSET Slots
        BY <1>1, <2>1 DEF FdsOK, IsLeader, TableOK
    <2>3. SlotByPid(tasks, p) = FirstOf(S)
        BY DEF SlotByPid
    <2> HIDE DEF S
    <2>4. QED
        BY <2>2, <2>3, FirstOfInSet
<1>2. Life => NoLeakedDescriptors
    BY <1>1 DEF NoLeakedDescriptors
<1>3. QED
    BY <1>2, LifeInvariance, PTL

(* While the leader thread lives, the live threads of a process are all    *)
(* stopped or none is.                                                     *)
THEOREM StopsProcessWide == Spec => []StopIsProcessWide
<1>1. Life => StopIsProcessWide
    BY DEF Life, LifeInv, LifeOK, StopOK, StopIsProcessWide, K
<1>2. QED
    BY <1>1, LifeInvariance, PTL

(* Death is final: no wake-up, stop, SIGCONT, late signal or reschedule    *)
(* makes an exited thread runnable or gives it a processor.                *)
THEOREM DeathIsFinal == Spec => DeadStaysDead
<1>1. Life /\ [Next]_vars => [DeadStep]_vars
    BY NextLife DEF LifeStep
<1>2. Spec => [][DeadStep]_vars
    BY <1>1, LifeInvariance, PTL DEF Spec
<1>3. QED
    BY <1>2 DEF DeadStaysDead, DeadStep

(* A stopped thread is not dispatched before SIGCONT resumes it.           *)
THEOREM StoppedWait == Spec => StoppedNotDispatched
<1>1. Life /\ [Next]_vars => [StoppedStep]_vars
    BY NextLife DEF LifeStep
<1>2. Spec => [][StoppedStep]_vars
    BY <1>1, LifeInvariance, PTL DEF Spec
<1>3. QED
    BY <1>2 DEF StoppedNotDispatched, StoppedStep
=============================================================================
