---------------------------- MODULE KernelProofs ----------------------------
(***************************************************************************)
(* Safety of Kernel for any number of slots, processors and pids: types,   *)
(* agreement of TASK_OWNER and CURRENT_TASK, thread groups, kernel stacks  *)
(* and page directories.                                                   *)
(*                                                                         *)
(* First, what the operations of TaskManager do to the task table.  They   *)
(* either rewrite tasks in place without touching identity, group and      *)
(* resources (Evolves), or also free slots that no processor owns          *)
(* (Shrinks).                                                              *)
(***************************************************************************)
EXTENDS Kernel, TLAPS, WellFoundedInduction

(* Every nonempty set of naturals has a least element.                     *)
LEMMA LeastElement ==
    ASSUME NEW S \in SUBSET Nat, S # {}
    PROVE  \E x \in S : \A y \in S : x <= y
<1>1. PICK x \in S : \A y \in S : ~(<<y, x>> \in OpToRel(<, Nat))
    BY NatLessThanWellFounded, WFMin, Zenon
<1>2. \A y \in S : ~(y < x)
    BY <1>1 DEF OpToRel
<1>3. QED
    BY <1>2

(* FirstOf returns an element of the set it searches, or None.             *)
LEMMA FirstOfInSet ==
    ASSUME NEW S \in SUBSET Slots
    PROVE  /\ FirstOf(S) \in S \cup {0}
           /\ FirstOf(S) = 0 <=> S = {}
<1>1. S \in SUBSET Nat /\ 0 \notin S
    BY DEF Slots
<1>2. CASE S # {}
    <2>1. \E x \in S : \A y \in S : x <= y
        BY <1>1, <1>2, LeastElement
    <2>2. Min(S) \in S
        BY <2>1 DEF Min
    <2>3. QED
        BY <1>1, <1>2, <2>2 DEF FirstOf
<1>3. QED
    BY <1>2 DEF FirstOf

(***************************************************************************)
(* What no operation on an occupied slot ever changes: the identity of the *)
(* thread, its process and the resources it was created with; and only a   *)
(* leader ever becomes a zombie.                                           *)
(***************************************************************************)
SameFrame(s, a, b) ==
    /\ a.pid = b.pid
    /\ a.tid = b.tid
    /\ a.leader = b.leader
    /\ a.is_thread = b.is_thread
    /\ a.kstack = b.kstack
    /\ a.pd = b.pd
    /\ b.zombie => a.zombie \/ b.leader = s

GroupOK(T) ==
    \A s \in DOMAIN T :
        /\ T[s].leader \in DOMAIN T
        /\ T[T[s].leader].leader = T[s].leader
        /\ T[T[s].leader].pid = T[s].pid
        /\ T[T[s].leader].pd = T[s].pd
        /\ T[s].is_thread => T[s].leader # s
        /\ T[s].zombie => T[s].leader = s

UniqueStacks(T) == \A a, b \in DOMAIN T : T[a].kstack = T[b].kstack => a = b

(* U is T with some fields of some tasks rewritten.                        *)
Evolves(T, U) ==
    /\ TableOK(U)
    /\ DOMAIN U = DOMAIN T
    /\ \A s \in DOMAIN T : SameFrame(s, T[s], U[s])

(* U is T with some slots freed, none of them owned, and no leader freed   *)
(* under a thread that remains.                                            *)
Shrinks(T, U, o) ==
    /\ TableOK(U)
    /\ GroupOK(U)
    /\ DOMAIN U \subseteq DOMAIN T
    /\ \A s \in DOMAIN T \ DOMAIN U : o[s] = NoCpu
    /\ \A s \in DOMAIN U : SameFrame(s, T[s], U[s])
-----------------------------------------------------------------------------
(* Rewriting fields other than the frame keeps thread groups and stacks.   *)
LEMMA EvolvesKeeps ==
    ASSUME NEW T, NEW U, GroupOK(T), UniqueStacks(T), Evolves(T, U)
    PROVE  GroupOK(U) /\ UniqueStacks(U)
    BY DEF GroupOK, UniqueStacks, Evolves, SameFrame

(* Rewriting twice is rewriting.                                           *)
LEMMA EvolvesTransitive ==
    ASSUME NEW T, NEW U, NEW V, Evolves(T, U), Evolves(U, V)
    PROVE  Evolves(T, V)
    BY DEF Evolves, SameFrame

(* Rewriting nothing is rewriting.                                         *)
LEMMA EvolvesReflexive ==
    ASSUME NEW T, TableOK(T)
    PROVE  Evolves(T, T)
    BY DEF Evolves, SameFrame

(* A rewritten table has lost no slot.                                     *)
LEMMA EvolvesShrinks ==
    ASSUME NEW T, NEW U, NEW o, GroupOK(T), UniqueStacks(T), Evolves(T, U)
    PROVE  Shrinks(T, U, o)
    BY EvolvesKeeps DEF Shrinks, Evolves

(* Freeing slots twice frees slots.                                        *)
LEMMA ShrinksTransitive ==
    ASSUME NEW T, NEW U, NEW V, NEW o, Shrinks(T, U, o), Shrinks(U, V, o)
    PROVE  Shrinks(T, V, o)
    BY DEF Shrinks, SameFrame

(* Freeing slots keeps kernel stacks distinct.                             *)
LEMMA ShrinksKeeps ==
    ASSUME NEW T, NEW U, NEW o, UniqueStacks(T), Shrinks(T, U, o)
    PROVE  GroupOK(U) /\ UniqueStacks(U)
    BY DEF Shrinks, UniqueStacks, SameFrame

(* Replacing one task by one with the same frame.                          *)
LEMMA UpdateEvolves ==
    ASSUME NEW T, TableOK(T), NEW s \in DOMAIN T, NEW x \in Task, SameFrame(s, T[s], x)
    PROVE  Evolves(T, [T EXCEPT ![s] = x])
    BY DEF Evolves, TableOK, SameFrame

(* Replacing every task by one with the same frame.                        *)
LEMMA MapEvolves ==
    ASSUME NEW T, TableOK(T), NEW U, U = [s \in DOMAIN T |-> U[s]],
           \A s \in DOMAIN T : U[s] \in Task /\ SameFrame(s, T[s], U[s])
    PROVE  Evolves(T, U)
    BY DEF Evolves, TableOK
-----------------------------------------------------------------------------
(* wake returns a well-formed task.                                        *)
LEMMA WakeOK ==
    ASSUME NEW task \in Task, NEW s
    PROVE  Wake(task) \in Task /\ SameFrame(s, task, Wake(task))
    BY DEF Wake, Task, SameFrame, TaskStates

(* block returns a well-formed task.                                       *)
LEMMA BlockOK ==
    ASSUME NEW task \in Task, NEW s, NEW reason \in WaitReasons
    PROVE  Block(task, reason) \in Task /\ SameFrame(s, task, Block(task, reason))
    BY DEF Block, Task, SameFrame, TaskStates

(* Marking a thread exited returns a well-formed task.                     *)
LEMMA MarkExitedOK ==
    ASSUME NEW task \in Task, NEW s
    PROVE  MarkExited(task) \in Task /\ SameFrame(s, task, MarkExited(task))
    BY DEF MarkExited, Task, SameFrame, TaskStates

(* wake_waiters only rewrites tasks.                                       *)
LEMMA WakeWaitersEvolves ==
    ASSUME NEW T, TableOK(T), NEW reason
    PROVE  Evolves(T, WakeWaiters(T, reason))
<1>1. \A s \in DOMAIN T : T[s] \in Task
    BY DEF TableOK
<1>2. \A s \in DOMAIN T : SameFrame(s, T[s], T[s])
    BY DEF SameFrame
<1>3. QED
    BY <1>1, <1>2, WakeOK, MapEvolves DEF WakeWaiters

(* wake_expired_timers only rewrites tasks.                                *)
LEMMA WakeExpiredTimersEvolves ==
    ASSUME NEW T, TableOK(T)
    PROVE  Evolves(T, WakeExpiredTimers(T))
<1>1. \A s \in DOMAIN T : T[s] \in Task
    BY DEF TableOK
<1>2. \A s \in DOMAIN T : SameFrame(s, T[s], T[s])
    BY DEF SameFrame
<1>3. ASSUME NEW t \in Task, NEW s
      PROVE  LET w == [t EXCEPT !.deadline = "none"]
             IN  w \in Task /\ SameFrame(s, t, w)
    BY DEF Task, SameFrame
<1>4. ASSUME NEW t \in Task, NEW s
      PROVE  LET w == [Wake(t) EXCEPT !.deadline = "none"]
             IN  w \in Task /\ SameFrame(s, t, w)
    BY <1>3, WakeOK DEF SameFrame
<1> DEFINE U == WakeExpiredTimers(T)
<1>5. U = [s \in DOMAIN T |-> U[s]]
    BY DEF WakeExpiredTimers
<1>6. ASSUME NEW s \in DOMAIN T
      PROVE  U[s] \in Task /\ SameFrame(s, T[s], U[s])
    <2>1. U[s] = T[s] \/ U[s] = [Wake(T[s]) EXCEPT !.deadline = "none"]
        BY DEF WakeExpiredTimers
    <2>2. QED
        BY <1>1, <1>2, <1>4, <2>1
<1>7. QED
    BY <1>5, <1>6, MapEvolves

(* reparent_children_of only rewrites tasks.                               *)
LEMMA ReparentEvolves ==
    ASSUME NEW T, TableOK(T), NEW dead
    PROVE  Evolves(T, ReparentChildrenOf(T, dead))
<1>1. \A s \in DOMAIN T : T[s] \in Task
    BY DEF TableOK
<1>2. \A s \in DOMAIN T : SameFrame(s, T[s], T[s])
    BY DEF SameFrame
<1> DEFINE heir == IF dead # 1 /\ InitSlot(T) # 0 THEN 1 ELSE 0
           U == ReparentChildrenOf(T, dead)
<1>3. heir \in 0..MaxPid
    BY TableAssumption
<1> HIDE DEF heir
<1>4. ASSUME NEW t \in Task, NEW s
      PROVE  LET w == [t EXCEPT !.ppid = heir]
             IN  w \in Task /\ SameFrame(s, t, w)
    BY <1>3 DEF Task, SameFrame
<1>5. U = [s \in DOMAIN T |-> IF T[s].ppid = dead THEN [T[s] EXCEPT !.ppid = heir] ELSE T[s]]
    BY DEF ReparentChildrenOf, heir
<1> HIDE DEF U
<1>6. ASSUME NEW s \in DOMAIN T
      PROVE  U[s] \in Task /\ SameFrame(s, T[s], U[s])
    BY <1>1, <1>2, <1>4, <1>5
<1>7. U = [s \in DOMAIN T |-> U[s]]
    BY <1>5
<1>8. Evolves(T, U)
    BY <1>6, <1>7, MapEvolves
<1>9. QED
    BY <1>8 DEF U

(* Saving the outgoing task only rewrites tasks.                           *)
LEMMA SaveOutgoingEvolves ==
    ASSUME NEW T, TableOK(T), NEW prev
    PROVE  Evolves(T, SaveOutgoing(T, prev))
<1>1. CASE prev \notin DOMAIN T
    BY <1>1, EvolvesReflexive DEF SaveOutgoing
<1>2. CASE prev \in DOMAIN T
    <2> DEFINE saved == [T EXCEPT ![prev].state = IF T[prev].running THEN "Runnable" ELSE @]
    <2>1. T[prev] \in Task
        BY <1>2 DEF TableOK
    <2>2. ASSUME NEW st \in TaskStates
          PROVE  [T[prev] EXCEPT !.state = st] \in Task
                 /\ SameFrame(prev, T[prev], [T[prev] EXCEPT !.state = st])
        BY <2>1 DEF Task, SameFrame
    <2>3. T[prev].state \in TaskStates
        BY <2>1 DEF Task
    <2>4. Evolves(T, saved)
        BY <1>2, <2>2, <2>3, UpdateEvolves DEF TaskStates
    <2>5. Evolves(saved, WakeWaiters(saved, "Child"))
        BY <2>4, WakeWaitersEvolves DEF Evolves
    <2>6. Evolves(WakeWaiters(saved, "Child"), WakeWaiters(WakeWaiters(saved, "Child"), "Thread"))
        BY <2>5, WakeWaitersEvolves DEF Evolves
    <2>7. QED
        BY <1>2, <2>4, <2>5, <2>6, EvolvesTransitive DEF SaveOutgoing
<1>3. QED
    BY <1>1, <1>2
-----------------------------------------------------------------------------
(* Freeing unowned slots that no remaining thread has as its leader.       *)
LEMMA RestrictShrinks ==
    ASSUME NEW T, TableOK(T), GroupOK(T), NEW o,
           NEW keep \in SUBSET DOMAIN T,
           \A s \in DOMAIN T \ keep : o[s] = NoCpu,
           \A s \in keep : T[s].leader \in keep
    PROVE  Shrinks(T, Restrict(T, keep), o)
    BY DEF Shrinks, Restrict, TableOK, GroupOK, SameFrame

(* No thread has a leader slot that is itself a non-leader.                *)
LEMMA LeadersLead ==
    ASSUME NEW T, GroupOK(T), NEW s \in DOMAIN T, NEW x \in DOMAIN T, T[x].leader = s
    PROVE  T[s].leader = s /\ ~T[s].is_thread
    BY DEF GroupOK

(* reap frees a whole, quiescent process or nothing.                       *)
LEMMA ReapShrinks ==
    ASSUME NEW T, TableOK(T), GroupOK(T), UniqueStacks(T), NEW o, NEW s
    PROVE  Shrinks(T, Reap(T, o, s), o)
<1>1. CASE ~CanReap(T, o, s)
    BY <1>1, EvolvesReflexive, EvolvesShrinks DEF Reap
<1>2. CASE CanReap(T, o, s)
    <2> DEFINE U == ReparentChildrenOf(T, T[s].pid)
               keep == DOMAIN T \ (ThreadSlots(T, s) \cup {s})
    <2>1. Evolves(T, U)
        BY ReparentEvolves
    <2>2. Shrinks(T, U, o) /\ TableOK(U) /\ GroupOK(U) /\ UniqueStacks(U) /\ DOMAIN U = DOMAIN T
        BY <2>1, EvolvesShrinks, EvolvesKeeps DEF Evolves
    <2>3. \A x \in DOMAIN T : U[x].leader = T[x].leader
        BY <2>1 DEF Evolves, SameFrame
    <2>4. s \in DOMAIN T /\ T[s].leader = s
        BY <1>2 DEF CanReap, GroupOK
    <2>5. \A x \in DOMAIN T \ keep : o[x] = NoCpu
        BY <1>2, <2>4 DEF CanReap, ProcessQuiescent, ThreadSlots
    <2>6. ASSUME NEW x \in keep
          PROVE  T[x].leader \in keep
        BY <2>4 DEF GroupOK, ThreadSlots
    <2>7. Shrinks(U, Restrict(U, keep), o)
        BY <2>2, <2>3, <2>5, <2>6, RestrictShrinks
    <2>8. QED
        BY <1>2, <2>2, <2>7, ShrinksTransitive DEF Reap
<1>3. QED
    BY <1>1, <1>2

(* reap_thread frees an exited, unowned thread that leads nobody.          *)
LEMMA ReapThreadShrinks ==
    ASSUME NEW T, TableOK(T), GroupOK(T), UniqueStacks(T), NEW o, NEW s
    PROVE  Shrinks(T, ReapThread(T, o, s), o)
<1>1. CASE ~CanReapThread(T, o, s)
    BY <1>1, EvolvesReflexive, EvolvesShrinks DEF ReapThread
<1>2. CASE CanReapThread(T, o, s)
    <2>1. \A x \in DOMAIN T \ {s} : T[x].leader \in DOMAIN T \ {s}
        BY <1>2, LeadersLead DEF CanReapThread, GroupOK
    <2>2. QED
        BY <1>2, <2>1, RestrictShrinks DEF ReapThread, CanReapThread
<1>3. QED
    BY <1>1, <1>2

(* reap_detached_threads frees exited, unowned threads only.               *)
LEMMA ReapDetachedShrinks ==
    ASSUME NEW T, TableOK(T), GroupOK(T), NEW o
    PROVE  Shrinks(T, ReapDetachedThreads(T, o), o)
<1> DEFINE keep == {s \in DOMAIN T : ~(CanReapThread(T, o, s) /\ T[s].detached)}
<1>1. \A s \in DOMAIN T \ keep : o[s] = NoCpu /\ T[s].is_thread
    BY DEF CanReapThread
<1>2. ASSUME NEW s \in keep
      PROVE  T[s].leader \in keep
    <2>1. T[s].leader \in DOMAIN T
        BY DEF GroupOK
    <2>2. ~T[T[s].leader].is_thread
        BY <2>1, LeadersLead
    <2>3. QED
        BY <1>1, <2>1, <2>2
<1>3. keep \in SUBSET DOMAIN T
    OBVIOUS
<1> HIDE DEF keep
<1>4. Shrinks(T, Restrict(T, keep), o)
    BY <1>1, <1>2, <1>3, RestrictShrinks
<1>5. QED
    BY <1>4 DEF ReapDetachedThreads, keep

(* reap_orphans gives orphans to pid 1 or frees quiescent orphans.         *)
LEMMA ReapOrphansShrinks ==
    ASSUME NEW T, TableOK(T), GroupOK(T), UniqueStacks(T), NEW o
    PROVE  Shrinks(T, ReapOrphans(T, o), o)
<1> DEFINE orphans == {s \in DOMAIN T : T[s].pid # 1 /\ ParentGone(T, T[s].ppid)}
           dead == {s \in orphans : CanReap(T, o, s)}
           gone == {s \in DOMAIN T : s \in dead \/ T[s].leader \in dead}
           deadPids == {T[s].pid : s \in dead}
           adopted == [s \in DOMAIN T |-> IF s \in orphans THEN [T[s] EXCEPT !.ppid = 1] ELSE T[s]]
           left == [s \in DOMAIN T |-> IF T[s].ppid \in deadPids THEN [T[s] EXCEPT !.ppid = 0] ELSE T[s]]
           keep == DOMAIN T \ gone
<1>1. \A s \in DOMAIN T : T[s] \in Task /\ SameFrame(s, T[s], T[s])
    BY DEF TableOK, SameFrame
<1>2. 0 \in 0..MaxPid /\ 1 \in 0..MaxPid
    BY TableAssumption
<1>3. ASSUME NEW t \in Task, NEW s, NEW heir \in 0..MaxPid
      PROVE  LET w == [t EXCEPT !.ppid = heir]
             IN  w \in Task /\ SameFrame(s, t, w)
    BY DEF Task, SameFrame
<1>4. CASE InitSlot(T) # 0
    <2> HIDE DEF orphans
    <2>1. ASSUME NEW s \in DOMAIN T
          PROVE  adopted[s] \in Task /\ SameFrame(s, T[s], adopted[s])
        BY <1>1, <1>2, <1>3
    <2>2. ReapOrphans(T, o) = adopted
        BY <1>4 DEF ReapOrphans, orphans
    <2>3. adopted = [s \in DOMAIN T |-> adopted[s]]
        OBVIOUS
    <2> HIDE DEF adopted
    <2>4. Evolves(T, adopted)
        BY <2>1, <2>3, MapEvolves
    <2>5. QED
        BY <2>2, <2>4, EvolvesShrinks
<1>5. CASE InitSlot(T) = 0
    <2>1. \A s \in dead : T[s].leader = s /\ s \in DOMAIN T
        BY DEF CanReap, GroupOK
    <2>2. \A s \in gone : o[s] = NoCpu
        BY <2>1 DEF CanReap, ProcessQuiescent, ThreadSlots
    <2>3. ASSUME NEW s \in keep
          PROVE  T[s].leader \in keep
        BY <2>1 DEF GroupOK
    <2>4. ReapOrphans(T, o) = Restrict(left, keep)
        BY <1>5 DEF ReapOrphans, Restrict
    <2>5. keep \in SUBSET DOMAIN T /\ \A s \in DOMAIN T \ keep : o[s] = NoCpu
        BY <2>2
    <2> HIDE DEF deadPids, dead, gone, keep, orphans
    <2>6. Evolves(T, left)
        <3>1. ASSUME NEW s \in DOMAIN T
              PROVE  left[s] \in Task /\ SameFrame(s, T[s], left[s])
            BY <1>1, <1>2, <1>3
        <3>2. left = [s \in DOMAIN T |-> left[s]]
            OBVIOUS
        <3> HIDE DEF left
        <3>3. QED
            BY <3>1, <3>2, MapEvolves
    <2> HIDE DEF left
    <2>7. /\ Shrinks(T, left, o) /\ TableOK(left) /\ GroupOK(left)
          /\ DOMAIN left = DOMAIN T
          /\ \A s \in DOMAIN T : left[s].leader = T[s].leader
        BY <2>6, EvolvesShrinks, EvolvesKeeps DEF Evolves, SameFrame
    <2>8. Shrinks(left, Restrict(left, keep), o)
        BY <2>3, <2>5, <2>7, RestrictShrinks
    <2>9. QED
        BY <2>4, <2>7, <2>8, ShrinksTransitive
<1>6. QED
    BY <1>4, <1>5

(* get_free_slot's clean-up frees unowned slots only.                      *)
LEMMA ReapForFreeSlotShrinks ==
    ASSUME NEW T, TableOK(T), GroupOK(T), UniqueStacks(T), NEW o
    PROVE  Shrinks(T, ReapForFreeSlot(T, o), o)
<1> DEFINE U == ReapDetachedThreads(T, o)
<1>1. Shrinks(T, U, o)
    BY ReapDetachedShrinks
<1>2. TableOK(U) /\ GroupOK(U) /\ UniqueStacks(U)
    BY <1>1, ShrinksKeeps DEF Shrinks
<1> HIDE DEF U
<1>3. Shrinks(U, ReapOrphans(U, o), o)
    BY <1>2, ReapOrphansShrinks
<1>4. QED
    BY <1>1, <1>3, ShrinksTransitive DEF ReapForFreeSlot, U
-----------------------------------------------------------------------------
(***************************************************************************)
(* The invariant of what the kernel lock protects, and proofs that         *)
(* schedule, signals and reaping keep it.                                  *)
(***************************************************************************)

(* A kernel state is a record of exactly these parts.                      *)
IsKernelState(k) ==
    k = [t |-> k.t, o |-> k.o, u |-> k.u, r |-> k.r,
         e |-> k.e, n |-> k.n, d |-> k.d, f |-> k.f]

OwnersOK(o, u) == \A s \in Slots : \A c \in Cpus : o[s] = c <=> u[c] = s

(* A processor that runs a task has that task's stack in its TSS and its   *)
(* page directory, or the kernel's, loaded.                                *)
CurrentOK(k) ==
    \A c \in Cpus :
        /\ k.u[c] = 0 => k.r[c] = 0
        /\ k.u[c] # 0 => /\ k.u[c] \in DOMAIN k.t
                         /\ k.e[c] = k.t[k.u[c]].kstack
                         /\ k.r[c] \in {0, k.t[k.u[c]].pd}

StacksAllocated(k) == \A s \in DOMAIN k.t : k.t[s].kstack < k.n

KernelInv(k) ==
    /\ IsKernelState(k)
    /\ KernelStateOK(k)
    /\ GroupOK(k.t)
    /\ UniqueStacks(k.t)
    /\ StacksAllocated(k)
    /\ OwnersOK(k.o, k.u)
    /\ CurrentOK(k)

(* What a step leaves alone: owners, current tasks, TSS, cr3, pids.        *)
SameCpus(k, j) ==
    /\ j.o = k.o
    /\ j.u = k.u
    /\ j.e = k.e
    /\ j.r = k.r
    /\ j.n = k.n

(* j is k with unowned slots freed and other tasks rewritten.              *)
Prunes(k, j) ==
    /\ IsKernelState(j)
    /\ Shrinks(k.t, j.t, k.o)
    /\ SameCpus(k, j)
    /\ j.d \subseteq Slots
    /\ j.f \subseteq Pids

(* j is k after CPU c rescheduled, rewrote tasks or created some: no slot  *)
(* is freed and no other processor is affected.                            *)
Moves(k, j, c) ==
    /\ KernelInv(j)
    /\ DOMAIN k.t \subseteq DOMAIN j.t
    /\ \A s \in DOMAIN k.t : j.t[s].kstack = k.t[s].kstack
    /\ \A d \in Cpus \ {c} : j.u[d] = k.u[d] /\ j.e[d] = k.e[d] /\ j.r[d] = k.r[d]

(* Rewriting tasks, as a step that frees nothing.                          *)
Rewrites(k, j) ==
    /\ IsKernelState(j)
    /\ Evolves(k.t, j.t)
    /\ SameCpus(k, j)
    /\ j.d \subseteq Slots
    /\ j.f \subseteq Pids
-----------------------------------------------------------------------------
(* Freeing unowned slots keeps the invariant.                              *)
LEMMA PrunesInv ==
    ASSUME NEW k, KernelInv(k), NEW j, Prunes(k, j)
    PROVE  KernelInv(j)
<1> USE DEF KernelInv, Prunes, SameCpus, Shrinks
<1>1. GroupOK(j.t) /\ UniqueStacks(j.t)
    BY ShrinksKeeps
<1>2. StacksAllocated(j)
    BY DEF StacksAllocated, SameFrame
<1>3. KernelStateOK(j)
    BY DEF KernelStateOK
<1>4. \A c \in Cpus : k.u[c] # 0 => k.u[c] \in DOMAIN j.t
    BY DEF OwnersOK, CurrentOK, KernelStateOK, NoCpu, Cpus, TableOK
<1>5. CurrentOK(j)
    BY <1>4 DEF CurrentOK, SameFrame
<1>6. QED
    BY <1>1, <1>2, <1>3, <1>5

(* Rewriting tasks is a step of any processor that keeps the invariant.    *)
LEMMA RewritesMoves ==
    ASSUME NEW k, KernelInv(k), NEW j, Rewrites(k, j), NEW c
    PROVE  Moves(k, j, c) /\ KernelInv(j)
<1>1. Prunes(k, j)
    BY EvolvesShrinks DEF Rewrites, Prunes, KernelInv
<1>2. KernelInv(j)
    BY <1>1, PrunesInv
<1>3. QED
    BY <1>2 DEF Moves, Rewrites, SameCpus, Evolves, SameFrame

(* Steps of one processor compose.                                         *)
LEMMA MovesTransitive ==
    ASSUME NEW k, NEW j, NEW l, NEW c, Moves(k, j, c), Moves(j, l, c)
    PROVE  Moves(k, l, c)
    BY DEF Moves

(* Doing nothing is a step.                                                *)
LEMMA MovesReflexive ==
    ASSUME NEW k, KernelInv(k), NEW c
    PROVE  Moves(k, k, c)
    BY DEF Moves

(* Rewriting twice is rewriting.                                           *)
LEMMA RewritesTransitive ==
    ASSUME NEW k, NEW j, NEW l, Rewrites(k, j), Rewrites(j, l)
    PROVE  Rewrites(k, l)
    BY EvolvesTransitive DEF Rewrites, SameCpus

(* Freeing slots twice frees slots.                                        *)
LEMMA PrunesTransitive ==
    ASSUME NEW k, NEW j, NEW l, Prunes(k, j), Prunes(j, l)
    PROVE  Prunes(k, l)
    BY ShrinksTransitive DEF Prunes, SameCpus
-----------------------------------------------------------------------------
(* claim_next_task returns a claimable slot that no processor owns, or     *)
(* none.                                                                   *)
LEMMA NextTaskReady ==
    ASSUME NEW T, DOMAIN T \subseteq Slots, NEW o, NEW u, NEW after \in Slots \cup {0}
    PROVE  LET next == NextTask(T, o, u, after)
           IN  \/ next = 0
               \/ /\ next \in DOMAIN T
                  /\ Claimable(T[next])
                  /\ o[next] = NoCpu \/ StaleOwner(o, u, next)
<1> DEFINE ready == {s \in DOMAIN T : Claimable(T[s]) /\ (o[s] = NoCpu \/ StaleOwner(o, u, s))}
           dist == {Distance(s, after) : s \in ready}
<1>1. CASE ready = {}
    BY <1>1 DEF NextTask
<1>2. CASE ready # {}
    <2>1. \A s \in ready : Distance(s, after) \in Nat
        BY TableAssumption DEF Distance, Slots
    <2>a. dist \in SUBSET Nat /\ dist # {}
        BY <1>2, <2>1
    <2> HIDE DEF dist
    <2>b. \E m \in dist : \A d \in dist : m <= d
        BY <2>a, LeastElement
    <2>2. PICK m \in dist : \A d \in dist : m <= d
        BY <2>b
    <2>3. PICK s \in ready : \A r \in ready : Distance(s, after) <= Distance(r, after)
        BY <2>2 DEF dist
    <2>4. NextTask(T, o, u, after) \in ready
        BY <1>2, <2>3 DEF NextTask
    <2>5. QED
        BY <2>4
<1>3. QED
    BY <1>1, <1>2

(* Giving the processor to another task, or to none.                       *)
LEMMA SwitchMoves ==
    ASSUME NEW k, KernelInv(k), NEW c \in Cpus,
           NEW j, IsKernelState(j), Evolves(k.t, j.t),
           NEW next \in DOMAIN k.t \cup {0},
           next # 0 => (k.o[next] = NoCpu \/ next = k.u[c]),
           j.o = [s \in Slots |-> IF s = next THEN c ELSE IF s = k.u[c] THEN NoCpu ELSE k.o[s]],
           j.u = [k.u EXCEPT ![c] = next],
           j.e \in [Cpus -> Pids \cup {0}], j.r \in [Cpus -> Pids \cup {0}],
           \A d \in Cpus \ {c} : j.e[d] = k.e[d] /\ j.r[d] = k.r[d],
           next = 0 => j.r[c] = 0,
           next # 0 => j.e[c] = j.t[next].kstack /\ j.r[c] = j.t[next].pd,
           j.n = k.n, j.d = k.d, j.f = k.f
    PROVE  Moves(k, j, c)
<1>1. /\ IsKernelState(k) /\ KernelStateOK(k) /\ OwnersOK(k.o, k.u) /\ CurrentOK(k)
      /\ GroupOK(k.t) /\ UniqueStacks(k.t) /\ StacksAllocated(k) /\ TableOK(k.t)
    BY DEF KernelInv, KernelStateOK
<1>2. GroupOK(j.t) /\ UniqueStacks(j.t) /\ TableOK(j.t) /\ DOMAIN j.t = DOMAIN k.t
    BY <1>1, EvolvesKeeps DEF Evolves
<1>3. \A s \in DOMAIN k.t : j.t[s].kstack = k.t[s].kstack /\ j.t[s].pd = k.t[s].pd
    BY DEF Evolves, SameFrame
<1>4. StacksAllocated(j)
    BY <1>1, <1>2, <1>3 DEF StacksAllocated
<1>5. /\ k.u \in [Cpus -> Slots \cup {0}] /\ k.o \in [Slots -> Cpus \cup {NoCpu}]
      /\ DOMAIN k.t \subseteq Slots /\ 0 \notin Slots /\ NoCpu \notin Cpus
    BY <1>1 DEF KernelStateOK, TableOK, Slots, NoCpu, Cpus
<1>6. KernelStateOK(j)
    BY <1>1, <1>2, <1>5 DEF KernelStateOK
<1>7. OwnersOK(j.o, j.u)
    BY <1>1, <1>5 DEF OwnersOK
<1>8. CurrentOK(j)
    BY <1>1, <1>2, <1>3, <1>5 DEF CurrentOK
<1>9. QED
    BY <1>2, <1>3, <1>4, <1>5, <1>6, <1>7, <1>8 DEF Moves, KernelInv

(* schedule and schedule_ap keep the invariant and touch no other CPU.     *)
LEMMA ScheduleMoves ==
    ASSUME NEW k, KernelInv(k), NEW c \in Cpus
    PROVE  Moves(k, Schedule(k, c), c)
<1> DEFINE prev == k.u[c]
           t1 == SaveOutgoing(WakeExpiredTimers(k.t), prev)
           o1 == ReleaseOwner(k.o, prev)
           next == NextTask(t1, o1, k.u, prev)
           o2 == RepairedOwners(o1, k.u, next, prev)
           j == Schedule(k, c)
<1>1. /\ IsKernelState(k) /\ KernelStateOK(k) /\ OwnersOK(k.o, k.u) /\ CurrentOK(k)
      /\ GroupOK(k.t) /\ UniqueStacks(k.t) /\ StacksAllocated(k) /\ TableOK(k.t)
    BY DEF KernelInv, KernelStateOK
<1>2. Evolves(k.t, t1)
    <2>1. Evolves(k.t, WakeExpiredTimers(k.t))
        BY <1>1, WakeExpiredTimersEvolves
    <2>2. Evolves(WakeExpiredTimers(k.t), t1)
        BY <2>1, SaveOutgoingEvolves DEF Evolves
    <2>3. QED
        BY <2>1, <2>2, EvolvesTransitive
<1> HIDE DEF t1
<1>3. prev \in Slots \cup {0} /\ (prev # 0 => prev \in DOMAIN k.t /\ k.o[prev] = c)
    BY <1>1 DEF KernelStateOK, CurrentOK, OwnersOK
<1>4. /\ o1 \in [Slots -> Cpus \cup {NoCpu}]
      /\ \A s \in Slots : o1[s] = IF s = prev THEN NoCpu ELSE k.o[s]
    <2>1. 0 \notin Slots
        BY DEF Slots
    <2>2. k.o \in [Slots -> Cpus \cup {NoCpu}]
        BY <1>1 DEF KernelStateOK
    <2> HIDE DEF prev
    <2>3. QED
        BY <1>3, <2>1, <2>2 DEF ReleaseOwner
<1> HIDE DEF o1
<1>5. \A s \in Slots : ~StaleOwner(o1, k.u, s)
    BY <1>1, <1>4 DEF StaleOwner, OwnersOK, KernelStateOK
<1>6. o2 = o1
    BY <1>4, <1>5 DEF RepairedOwners
<1>7. DOMAIN t1 = DOMAIN k.t /\ DOMAIN t1 \subseteq Slots /\ TableOK(t1)
    BY <1>2 DEF Evolves, TableOK
<1>8. next = 0 \/ (next \in DOMAIN t1 /\ o1[next] = NoCpu)
    BY <1>3, <1>5, <1>7, NextTaskReady
<1> HIDE DEF next, o2
<1>a. /\ o1 = [s \in Slots |-> IF s = prev THEN NoCpu ELSE k.o[s]]
      /\ next # 0 => (k.o[next] = NoCpu \/ next = prev)
      /\ next \in DOMAIN k.t \cup {0}
    BY <1>4, <1>7, <1>8
<1>b. /\ k.u \in [Cpus -> Slots \cup {0}]
      /\ k.r \in [Cpus -> Pids \cup {0}]
      /\ k.e \in [Cpus -> Pids \cup {0}]
      /\ 0 \notin Slots
    BY <1>1 DEF KernelStateOK, Slots
<1>9. CASE next = 0
    <2>1. j = [k EXCEPT !.t = t1, !.o = o1, !.u[c] = 0, !.r[c] = 0,
                        !.e[c] = IF c = BSP THEN 0 ELSE @]
        BY <1>6, <1>9 DEF Schedule, t1, o1, next, o2
    <2>2. /\ j.t = t1 /\ j.o = o1 /\ j.n = k.n /\ j.d = k.d /\ j.f = k.f
          /\ j.u = [k.u EXCEPT ![c] = 0] /\ j.r = [k.r EXCEPT ![c] = 0]
          /\ j.e = [k.e EXCEPT ![c] = IF c = BSP THEN 0 ELSE @]
          /\ IsKernelState(j)
        BY <1>1, <2>1 DEF IsKernelState
    <2>3. j.o = [s \in Slots |-> IF s = next THEN c ELSE IF s = k.u[c] THEN NoCpu ELSE k.o[s]]
        BY <1>9, <1>a, <1>b, <2>2
    <2> HIDE DEF j
    <2>4. /\ j.e \in [Cpus -> Pids \cup {0}] /\ j.r \in [Cpus -> Pids \cup {0}]
          /\ \A d \in Cpus \ {c} : j.e[d] = k.e[d] /\ j.r[d] = k.r[d]
          /\ j.r[c] = 0
        BY <1>b, <2>2
    <2>5. Moves(k, j, c)
        BY <1>2, <1>9, <1>a, <2>2, <2>3, <2>4, SwitchMoves
    <2>6. QED
        BY <2>5 DEF j
<1>10. CASE next # 0
    <2>1. j = [k EXCEPT !.t = [t1 EXCEPT ![next].state = "Running"],
                        !.o = [o1 EXCEPT ![next] = c], !.u[c] = next,
                        !.r[c] = t1[next].pd, !.e[c] = t1[next].kstack]
        BY <1>6, <1>10 DEF Schedule, t1, o1, next, o2
    <2> DEFINE t2 == [t1 EXCEPT ![next].state = "Running"]
    <2>2. /\ j.t = t2 /\ j.o = [o1 EXCEPT ![next] = c] /\ j.n = k.n /\ j.d = k.d /\ j.f = k.f
          /\ j.u = [k.u EXCEPT ![c] = next] /\ j.r = [k.r EXCEPT ![c] = t1[next].pd]
          /\ j.e = [k.e EXCEPT ![c] = t1[next].kstack]
          /\ IsKernelState(j)
        BY <1>1, <2>1 DEF IsKernelState
    <2>3. next \in DOMAIN t1 /\ t1[next] \in Task
        BY <1>7, <1>8, <1>10 DEF TableOK
    <2>4. /\ [t1[next] EXCEPT !.state = "Running"] \in Task
          /\ SameFrame(next, t1[next], [t1[next] EXCEPT !.state = "Running"])
        BY <2>3 DEF Task, SameFrame, TaskStates
    <2>5. Evolves(t1, t2)
        BY <1>7, <2>3, <2>4, UpdateEvolves
    <2>6. Evolves(k.t, t2) /\ t2[next].kstack = t1[next].kstack /\ t2[next].pd = t1[next].pd
        BY <1>2, <2>3, <2>5, EvolvesTransitive DEF Evolves, SameFrame
    <2>7. t1[next].kstack \in Pids /\ t1[next].pd \in Pids
        BY <2>3 DEF Task
    <2>8. j.o = [s \in Slots |-> IF s = next THEN c ELSE IF s = k.u[c] THEN NoCpu ELSE k.o[s]]
        BY <1>7, <1>a, <2>2, <2>3
    <2> HIDE DEF j, t2
    <2>9. /\ j.e \in [Cpus -> Pids \cup {0}] /\ j.r \in [Cpus -> Pids \cup {0}]
          /\ \A d \in Cpus \ {c} : j.e[d] = k.e[d] /\ j.r[d] = k.r[d]
          /\ j.e[c] = j.t[next].kstack /\ j.r[c] = j.t[next].pd
        BY <1>b, <2>2, <2>6, <2>7
    <2>10. Moves(k, j, c)
        BY <1>10, <1>a, <2>2, <2>6, <2>8, <2>9, SwitchMoves
    <2>11. QED
        BY <2>10 DEF j
<1>11. QED
    BY <1>9, <1>10
-----------------------------------------------------------------------------
(***************************************************************************)
(* Signals only rewrite tasks, except where delivering one reschedules.    *)
(***************************************************************************)

(* Replacing the table by a rewritten one.                                 *)
LEMMA RewriteTable ==
    ASSUME NEW k, KernelInv(k), NEW U, Evolves(k.t, U)
    PROVE  Rewrites(k, [k EXCEPT !.t = U])
    BY DEF Rewrites, KernelInv, KernelStateOK, SameCpus, IsKernelState

(* Replacing one task.                                                     *)
LEMMA RewriteTask ==
    ASSUME NEW k, KernelInv(k), NEW s \in DOMAIN k.t, NEW x \in Task, SameFrame(s, k.t[s], x)
    PROVE  Rewrites(k, [k EXCEPT !.t[s] = x])
<1>1. Evolves(k.t, [k.t EXCEPT ![s] = x])
    BY UpdateEvolves DEF KernelInv, KernelStateOK
<1>2. [k EXCEPT !.t[s] = x] = [k EXCEPT !.t = [k.t EXCEPT ![s] = x]]
    BY DEF KernelInv, IsKernelState
<1>3. QED
    BY <1>1, <1>2, RewriteTable

(* Rewriting nothing.                                                      *)
LEMMA RewriteNothing ==
    ASSUME NEW k, KernelInv(k)
    PROVE  Rewrites(k, k)
    BY EvolvesReflexive DEF Rewrites, KernelInv, KernelStateOK, SameCpus

(* Tasks of a kernel state are tasks.                                      *)
LEMMA TaskTyped ==
    ASSUME NEW k, KernelInv(k), NEW s \in DOMAIN k.t
    PROVE  k.t[s] \in Task /\ s \in Slots /\ SameFrame(s, k.t[s], k.t[s])
    BY DEF KernelInv, KernelStateOK, TableOK, SameFrame

(* send_signal rewrites the leader.                                        *)
LEMMA SendSignalRewrites ==
    ASSUME NEW k, KernelInv(k), NEW slot, NEW sig \in Signals
    PROVE  Rewrites(k, SendSignal(k, slot, sig))
<1> DEFINE leader == ProcessSlot(k.t, slot)
           t == k.t[leader]
           queued == [t EXCEPT !.pending = @ \cup {sig}]
<1> HIDE DEF leader
<1>1. CASE leader \notin DOMAIN k.t \/ t.zombie
    BY <1>1, RewriteNothing DEF SendSignal, leader
<1>2. CASE leader \in DOMAIN k.t /\ ~t.zombie
    <2>1. t \in Task
        BY <1>2, TaskTyped
    <2>2. queued \in Task /\ SameFrame(leader, t, queued)
        BY <2>1 DEF Task, SameFrame
    <2> HIDE DEF queued
    <2>3. Wake(queued) \in Task /\ SameFrame(leader, queued, Wake(queued))
        BY <2>2, WakeOK
    <2>4. SameFrame(leader, t, Wake(queued))
        BY <2>2, <2>3 DEF SameFrame
    <2>5. Rewrites(k, [k EXCEPT !.t[leader] = queued])
        BY <1>2, <2>2, RewriteTask
    <2>6. Rewrites(k, [k EXCEPT !.t[leader] = Wake(queued)])
        BY <1>2, <2>3, <2>4, RewriteTask
    <2>7. QED
        BY <1>2, <2>5, <2>6 DEF SendSignal, leader, queued
<1>3. QED
    BY <1>1, <1>2

(* stop_task_with_signal rewrites the threads of the process and waiters.  *)
LEMMA StopRewrites ==
    ASSUME NEW k, KernelInv(k), NEW slot, NEW sig \in Signals
    PROVE  Rewrites(k, StopTaskWithSignal(k, slot, sig))
<1> DEFINE leader == ProcessSlot(k.t, slot)
           stop(t) == [t EXCEPT !.running = FALSE, !.state = "Stopped", !.stopped = TRUE]
           halted == [s \in DOMAIN k.t |->
                         IF k.t[s].leader = leader /\ ~k.t[s].exited
                         THEN stop(k.t[s]) ELSE k.t[s]]
           latched == [halted EXCEPT ![leader].stop_pending = TRUE,
                                     ![leader].pending = @ \ {sig, SIGCONT}]
           off == leader \notin DOMAIN k.t \/ k.t[leader].zombie \/ k.t[leader].stopped
<1>1. TableOK(k.t)
    BY DEF KernelInv, KernelStateOK
<1> HIDE DEF leader
<1>2. CASE off
    BY <1>2, RewriteNothing DEF StopTaskWithSignal, leader
<1>3. CASE ~off
    <2>1. ASSUME NEW s, NEW t \in Task
          PROVE  stop(t) \in Task /\ SameFrame(s, t, stop(t))
        BY DEF Task, SameFrame, TaskStates
    <2>2. ASSUME NEW s \in DOMAIN k.t
          PROVE  halted[s] \in Task /\ SameFrame(s, k.t[s], halted[s])
        BY <2>1, TaskTyped
    <2>3. halted = [s \in DOMAIN k.t |-> halted[s]]
        OBVIOUS
    <2>4. StopTaskWithSignal(k, slot, sig) = [k EXCEPT !.t = WakeWaiters(latched, "Child")]
        BY <1>3 DEF StopTaskWithSignal, leader
    <2> HIDE DEF halted
    <2>5. Evolves(k.t, halted)
        BY <1>1, <2>2, <2>3, MapEvolves
    <2>6. leader \in DOMAIN halted /\ halted[leader] \in Task /\ TableOK(halted)
        BY <1>3, <2>2, <2>5 DEF Evolves
    <2> DEFINE l1 == [halted[leader] EXCEPT !.stop_pending = TRUE]
               l2 == [l1 EXCEPT !.pending = @ \ {sig, SIGCONT}]
    <2>7. l1 \in Task /\ SameFrame(leader, halted[leader], l1)
        BY <2>6 DEF Task, SameFrame
    <2> HIDE DEF l1
    <2>8. l2 \in Task /\ SameFrame(leader, halted[leader], l2)
        BY <2>7 DEF Task, SameFrame
    <2>9. latched = [halted EXCEPT ![leader] = l2]
        BY <2>6 DEF l1
    <2>10. Evolves(halted, latched)
        BY <2>6, <2>8, <2>9, UpdateEvolves
    <2> HIDE DEF latched
    <2>11. Evolves(latched, WakeWaiters(latched, "Child"))
        BY <2>10, WakeWaitersEvolves DEF Evolves
    <2>12. Evolves(k.t, WakeWaiters(latched, "Child"))
        BY <2>5, <2>10, <2>11, EvolvesTransitive
    <2>13. QED
        BY <2>4, <2>12, RewriteTable
<1>4. QED
    BY <1>2, <1>3

(* continue_task rewrites the threads of the process and waiters.          *)
LEMMA ContinueRewrites ==
    ASSUME NEW k, KernelInv(k), NEW slot
    PROVE  Rewrites(k, ContinueTask(k, slot))
<1> DEFINE leader == ProcessSlot(k.t, slot)
           resume(t) == [t EXCEPT !.running = TRUE, !.state = "Runnable", !.stopped = FALSE]
           resumed == [s \in DOMAIN k.t |->
                          IF k.t[s].leader = leader /\ ~k.t[s].exited
                          THEN resume(k.t[s]) ELSE k.t[s]]
           was == k.t[leader].stopped
           latched == [resumed EXCEPT ![leader].cont_pending = @ \/ was,
                                      ![leader].pending = @ \ {SIGCONT, SIGSTOP, SIGTSTP}]
           off == leader \notin DOMAIN k.t \/ k.t[leader].zombie
<1>1. TableOK(k.t)
    BY DEF KernelInv, KernelStateOK
<1> HIDE DEF leader
<1>2. CASE off
    BY <1>2, RewriteNothing DEF ContinueTask, leader
<1>3. CASE ~off
    <2>1. ASSUME NEW s, NEW t \in Task
          PROVE  resume(t) \in Task /\ SameFrame(s, t, resume(t))
        BY DEF Task, SameFrame, TaskStates
    <2>2. ASSUME NEW s \in DOMAIN k.t
          PROVE  resumed[s] \in Task /\ SameFrame(s, k.t[s], resumed[s])
        BY <2>1, TaskTyped
    <2>3. resumed = [s \in DOMAIN k.t |-> resumed[s]]
        OBVIOUS
    <2>4. ContinueTask(k, slot) = [k EXCEPT !.t = WakeWaiters(latched, "Child")]
        BY <1>3 DEF ContinueTask, leader
    <2> HIDE DEF resumed
    <2>5. Evolves(k.t, resumed)
        BY <1>1, <2>2, <2>3, MapEvolves
    <2>6. leader \in DOMAIN resumed /\ resumed[leader] \in Task /\ TableOK(resumed)
        BY <1>3, <2>2, <2>5 DEF Evolves
    <2> DEFINE cont == resumed[leader].cont_pending \/ was
               l1 == [resumed[leader] EXCEPT !.cont_pending = cont]
               l2 == [l1 EXCEPT !.pending = @ \ {SIGCONT, SIGSTOP, SIGTSTP}]
    <2>7. cont \in BOOLEAN
        OBVIOUS
    <2> HIDE DEF cont
    <2>8. l1 \in Task /\ SameFrame(leader, resumed[leader], l1)
        BY <2>6, <2>7 DEF Task, SameFrame
    <2> HIDE DEF l1
    <2>9. l2 \in Task /\ SameFrame(leader, resumed[leader], l2)
        BY <2>8 DEF Task, SameFrame
    <2>10. latched = [resumed EXCEPT ![leader] = l2]
        BY <2>6 DEF l1, cont
    <2>11. Evolves(resumed, latched)
        BY <2>6, <2>9, <2>10, UpdateEvolves
    <2> HIDE DEF latched
    <2>12. Evolves(latched, WakeWaiters(latched, "Child"))
        BY <2>11, WakeWaitersEvolves DEF Evolves
    <2>13. Evolves(k.t, WakeWaiters(latched, "Child"))
        BY <2>5, <2>11, <2>12, EvolvesTransitive
    <2>14. QED
        BY <2>4, <2>13, RewriteTable
<1>4. QED
    BY <1>2, <1>3

(* Waking every wait and join after reparenting, as exits and kills do.    *)
LEMMA OrphanAndWakeEvolves ==
    ASSUME NEW T, TableOK(T), NEW dead
    PROVE  LET orphaned == ReparentChildrenOf(T, dead)
           IN  Evolves(T, WakeWaiters(WakeWaiters(orphaned, "Child"), "Thread"))
<1> DEFINE a == ReparentChildrenOf(T, dead)
           b == WakeWaiters(a, "Child")
<1>1. Evolves(T, a)
    BY ReparentEvolves
<1>2. Evolves(a, b)
    BY <1>1, WakeWaitersEvolves DEF Evolves
<1>3. Evolves(b, WakeWaiters(b, "Thread"))
    BY <1>2, WakeWaitersEvolves DEF Evolves
<1>4. QED
    BY <1>1, <1>2, <1>3, EvolvesTransitive

(* force_kill rewrites every task of the process, its children and the     *)
(* waiters.                                                                *)
LEMMA ForceKillRewrites ==
    ASSUME NEW k, KernelInv(k), NEW slot, NEW sig \in Signals
    PROVE  Rewrites(k, ForceKill(k, slot, sig))
<1> DEFINE leader == ProcessSlot(k.t, slot)
           kill(t) == [MarkExited(t) EXCEPT !.pending = {}, !.term = sig]
           killed == [s \in DOMAIN k.t |->
                         IF k.t[s].leader # leader THEN k.t[s]
                         ELSE [kill(k.t[s]) EXCEPT !.zombie = (s = leader)]]
           U == WakeWaiters(WakeWaiters(ReparentChildrenOf(killed, k.t[leader].pid), "Child"), "Thread")
           off == leader \notin DOMAIN k.t \/ k.t[leader].zombie
<1>1. TableOK(k.t) /\ IsKernelState(k) /\ k.d \subseteq Slots /\ k.f \subseteq Pids
    BY DEF KernelInv, KernelStateOK
<1> HIDE DEF leader
<1>2. CASE off
    BY <1>2, RewriteNothing DEF ForceKill, leader
<1>3. CASE ~off
    <2>1. ASSUME NEW s, NEW t \in Task
          PROVE  kill(t) \in Task /\ SameFrame(s, t, kill(t))
        <3> DEFINE m == MarkExited(t)
        <3>1. m \in Task /\ SameFrame(s, t, m)
            BY MarkExitedOK
        <3> HIDE DEF m
        <3>2. [m EXCEPT !.pending = {}, !.term = sig] \in Task
              /\ SameFrame(s, m, [m EXCEPT !.pending = {}, !.term = sig])
            BY <3>1 DEF Task, SameFrame
        <3>3. QED
            BY <3>1, <3>2 DEF SameFrame, m
    <2> HIDE DEF kill
    <2>2. ASSUME NEW s \in DOMAIN k.t, k.t[s].leader = leader
          PROVE  LET w == [kill(k.t[s]) EXCEPT !.zombie = (s = leader)]
                 IN  w \in Task /\ SameFrame(s, k.t[s], w)
        <3> DEFINE m == kill(k.t[s])
                   z == (s = leader)
        <3>1. m \in Task /\ SameFrame(s, k.t[s], m) /\ m.leader = leader
            BY <2>1, <2>2, TaskTyped DEF SameFrame
        <3>2. z \in BOOLEAN /\ (z => s = leader)
            OBVIOUS
        <3> HIDE DEF m, z
        <3>3. /\ [m EXCEPT !.zombie = z] \in Task
              /\ SameFrame(s, k.t[s], [m EXCEPT !.zombie = z])
            BY <3>1, <3>2 DEF Task, SameFrame
        <3>4. QED
            BY <3>3 DEF m, z
    <2>3. ASSUME NEW s \in DOMAIN k.t
          PROVE  killed[s] \in Task /\ SameFrame(s, k.t[s], killed[s])
        BY <2>2, TaskTyped
    <2>4. killed = [s \in DOMAIN k.t |-> killed[s]]
        OBVIOUS
    <2>5. ForceKill(k, slot, sig) = [k EXCEPT !.t = U, !.d = @ \cup {leader}]
        BY <1>3 DEF ForceKill, leader, kill
    <2> HIDE DEF killed
    <2>6. Evolves(k.t, killed)
        BY <1>1, <2>3, <2>4, MapEvolves
    <2>7. Evolves(killed, U)
        BY <2>6, OrphanAndWakeEvolves DEF Evolves
    <2>8. Evolves(k.t, U)
        BY <2>6, <2>7, EvolvesTransitive
    <2>9. leader \in Slots
        BY <1>1, <1>3 DEF TableOK
    <2> HIDE DEF U
    <2>10. QED
        BY <1>1, <2>5, <2>8, <2>9 DEF Rewrites, SameCpus, IsKernelState
<1>4. QED
    BY <1>2, <1>3

(* drain_deferred_cleanup changes no task.                                 *)
LEMMA DrainRewrites ==
    ASSUME NEW k, KernelInv(k)
    PROVE  Rewrites(k, DrainDeferredCleanup(k))
<1> DEFINE closed == {k.t[s].pid : s \in {x \in k.d \cap DOMAIN k.t : k.t[x].zombie}}
<1>1. DrainDeferredCleanup(k) = [k EXCEPT !.d = {}, !.f = @ \ closed]
    BY DEF DrainDeferredCleanup
<1> HIDE DEF closed
<1>2. IsKernelState(k) /\ TableOK(k.t) /\ k.f \subseteq Pids
    BY DEF KernelInv, KernelStateOK
<1>3. Evolves(k.t, k.t)
    BY <1>2, EvolvesReflexive
<1>4. QED
    BY <1>1, <1>2, <1>3 DEF Rewrites, SameCpus, IsKernelState

(* kill(2) on one process rewrites tasks.                                  *)
LEMMA SignalSlotRewrites ==
    ASSUME NEW k, KernelInv(k), NEW slot \in DOMAIN k.t, NEW sig \in Signals
    PROVE  Rewrites(k, SignalSlot(k, slot, sig))
<1> DEFINE resumed == ContinueTask(k, slot)
           handler == k.t[slot].handlers[sig]
<1>1. Rewrites(k, resumed)
    BY ContinueRewrites
<1>2. KernelInv(resumed)
    BY <1>1, RewritesMoves
<1>3. Rewrites(k, SendSignal(resumed, slot, sig))
    BY <1>1, <1>2, SendSignalRewrites, RewritesTransitive
<1>4. /\ Rewrites(k, ForceKill(k, slot, sig))
      /\ Rewrites(k, StopTaskWithSignal(k, slot, sig))
      /\ Rewrites(k, SendSignal(k, slot, sig))
      /\ Rewrites(k, k)
    BY ForceKillRewrites, StopRewrites, SendSignalRewrites, RewriteNothing
<1>5. sig = SIGTSTP => handler \in Dispositions
    <2>1. k.t[slot] \in Task
        BY TaskTyped
    <2>2. SIGTSTP \in Catchable
        BY DEF Catchable, Signals, SIGTSTP, SIGKILL, SIGSTOP
    <2>3. QED
        BY <2>1, <2>2 DEF Task
<1> HIDE DEF resumed, handler
<1>6. \/ SignalSlot(k, slot, sig) = k
      \/ SignalSlot(k, slot, sig) = resumed
      \/ SignalSlot(k, slot, sig) = SendSignal(resumed, slot, sig)
      \/ SignalSlot(k, slot, sig) = ForceKill(k, slot, sig)
      \/ SignalSlot(k, slot, sig) = StopTaskWithSignal(k, slot, sig)
      \/ SignalSlot(k, slot, sig) = SendSignal(k, slot, sig)
    <2> USE DEF SignalSlot, SIGKILL, SIGSTOP, SIGTSTP, SIGCONT
    <2>1. CASE sig = SIGKILL
        BY <2>1
    <2>2. CASE sig = SIGSTOP
        BY <2>2
    <2>3. CASE sig = SIGTSTP
        <3>1. handler = "SIG_DFL" \/ handler = "SIG_IGN" \/ handler = "handler"
            BY <1>5, <2>3 DEF Dispositions
        <3>2. QED
            BY <2>3, <3>1 DEF handler
    <2>4. CASE sig = SIGCONT
        BY <2>4 DEF resumed
    <2>5. CASE sig \notin {SIGKILL, SIGSTOP, SIGTSTP, SIGCONT}
        BY <2>5
    <2>6. QED
        BY <2>1, <2>2, <2>3, <2>4, <2>5
<1>7. QED
    BY <1>1, <1>3, <1>4, <1>6
-----------------------------------------------------------------------------
(* The lowest of a nonempty set of signals is one of them.                 *)
LEMMA LowestSignal ==
    ASSUME NEW S \in SUBSET Signals, S # {}
    PROVE  Min(S) \in S
<1>1. S \in SUBSET Nat
    BY DEF Signals, SIGINT, SIGKILL, SIGTERM, SIGCONT, SIGSTOP, SIGTSTP, SIGWINCH
<1>2. \E x \in S : \A y \in S : x <= y
    BY <1>1, LeastElement
<1>3. QED
    BY <1>2 DEF Min

(* Killing the task on CPU c and rescheduling is a step of CPU c.          *)
LEMMA KillAndSchedule ==
    ASSUME NEW k, KernelInv(k), NEW c \in Cpus, NEW slot, NEW sig \in Signals
    PROVE  Moves(k, Schedule(ForceKill(k, slot, sig), c), c)
<1>1. Moves(k, ForceKill(k, slot, sig), c) /\ KernelInv(ForceKill(k, slot, sig))
    BY ForceKillRewrites, RewritesMoves
<1>2. QED
    BY <1>1, ScheduleMoves, MovesTransitive

(* Dropping pending signals of a task rewrites it.                         *)
LEMMA DropPending ==
    ASSUME NEW k, KernelInv(k), NEW s \in DOMAIN k.t, NEW left \in SUBSET k.t[s].pending
    PROVE  Rewrites(k, [k EXCEPT !.t[s].pending = left])
<1>1. k.t[s] \in Task
    BY TaskTyped
<1>2. [k.t[s] EXCEPT !.pending = left] \in Task
      /\ SameFrame(s, k.t[s], [k.t[s] EXCEPT !.pending = left])
    BY <1>1 DEF Task, SameFrame
<1>3. Rewrites(k, [k EXCEPT !.t[s] = [k.t[s] EXCEPT !.pending = left]])
    BY <1>2, RewriteTask
<1>4. [k EXCEPT !.t[s].pending = left] = [k EXCEPT !.t[s] = [k.t[s] EXCEPT !.pending = left]]
    BY DEF KernelInv, IsKernelState
<1>5. QED
    BY <1>3, <1>4

(* deliver_pending_after_switch is a step of CPU c.                        *)
LEMMA DeliverAfterSwitchMoves ==
    ASSUME NEW k, KernelInv(k), NEW c \in Cpus
    PROVE  Moves(k, DeliverPendingAfterSwitch(k, c), c)
<1> DEFINE leader == ProcessSlot(k.t, k.u[c])
           fatal == k.t[leader].pending \cap DefaultTerminate
<1> HIDE DEF leader
<1>1. CASE k.u[c] = 0 \/ ~Deliverable(k.t, leader)
    BY <1>1, MovesReflexive DEF DeliverPendingAfterSwitch, leader
<1>2. CASE ~(k.u[c] = 0 \/ ~Deliverable(k.t, leader))
    <2>1. leader \in DOMAIN k.t
        BY <1>2 DEF Deliverable
    <2>2. CASE fatal # {}
        <3>1. fatal \in SUBSET Signals
            BY DEF DefaultTerminate, Signals
        <3>2. Min(fatal) \in Signals
            BY <2>2, <3>1, LowestSignal
        <3>3. Moves(k, Schedule(ForceKill(k, leader, Min(fatal)), c), c)
            BY <3>2, KillAndSchedule
        <3>4. QED
            BY <1>2, <2>2, <3>3 DEF DeliverPendingAfterSwitch, leader
    <2>3. CASE fatal = {}
        <3>1. Moves(k, [k EXCEPT !.t[leader].pending = {}], c)
            BY <2>1, DropPending, RewritesMoves
        <3>2. QED
            BY <1>2, <2>3, <3>1 DEF DeliverPendingAfterSwitch, leader
    <2>4. QED
        BY <2>2, <2>3
<1>3. QED
    BY <1>1, <1>2

(* deliver_pending is a step of CPU c.                                     *)
LEMMA DeliverMoves ==
    ASSUME NEW k, KernelInv(k), NEW c \in Cpus
    PROVE  Moves(k, DeliverPending(k, c), c)
<1> DEFINE leader == ProcessSlot(k.t, k.u[c])
           task == k.t[leader]
           first == Min(Decisive(task))
           upTo == {s \in task.pending : s <= first}
<1> HIDE DEF leader
<1>1. CASE k.u[c] = 0 \/ ~Deliverable(k.t, leader)
    BY <1>1, MovesReflexive DEF DeliverPending, leader
<1>2. CASE ~(k.u[c] = 0 \/ ~Deliverable(k.t, leader))
    <2>1. leader \in DOMAIN k.t
        BY <1>2 DEF Deliverable
    <2>2. CASE Decisive(task) = {}
        <3>1. Moves(k, [k EXCEPT !.t[leader].pending = {}], c)
            BY <2>1, DropPending, RewritesMoves
        <3>2. QED
            BY <1>2, <2>2, <3>1 DEF DeliverPending, leader
    <2>3. CASE Decisive(task) # {} /\ Disposition(task, first) = "handler"
        <3>1. Moves(k, [k EXCEPT !.t[leader].pending = task.pending \ upTo], c)
            BY <2>1, DropPending, RewritesMoves
        <3>2. [k EXCEPT !.t[leader].pending = @ \ upTo]
              = [k EXCEPT !.t[leader].pending = task.pending \ upTo]
            BY <2>1 DEF KernelInv, IsKernelState
        <3>3. DeliverPending(k, c) = [k EXCEPT !.t[leader].pending = @ \ upTo]
            BY <1>2, <2>3 DEF DeliverPending, leader
        <3>4. QED
            BY <3>1, <3>2, <3>3
    <2>4. CASE Decisive(task) # {} /\ Disposition(task, first) # "handler"
        <3>1. Decisive(task) \in SUBSET Signals
            BY <2>1, TaskTyped DEF Decisive, Task
        <3>2. first \in Signals
            BY <2>4, <3>1, LowestSignal
        <3> DEFINE j == Schedule(ForceKill(k, leader, first), c)
        <3>3. Moves(k, j, c)
            BY <3>2, KillAndSchedule
        <3>4. Moves(j, DeliverPendingAfterSwitch(j, c), c)
            BY <3>3, DeliverAfterSwitchMoves DEF Moves
        <3>5. DeliverPending(k, c) = DeliverPendingAfterSwitch(j, c)
            BY <1>2, <2>4 DEF DeliverPending, leader
        <3>6. QED
            BY <3>3, <3>4, <3>5, MovesTransitive
    <2>5. QED
        BY <2>2, <2>3, <2>4
<1>3. QED
    BY <1>1, <1>2

-----------------------------------------------------------------------------
(* The bodies of Kernel's steps.                                           *)

(* The parts of a body.  Storing a result in the caller's frame.           *)
LEMMA ReturnRewrites ==
    ASSUME NEW k, KernelInv(k), NEW s \in DOMAIN k.t
    PROVE  Rewrites(k, Return(k, s))
<1>1. k.t[s] \in Task
    BY TaskTyped
<1>2. /\ [k.t[s] EXCEPT !.call = NoCall] \in Task
      /\ SameFrame(s, k.t[s], [k.t[s] EXCEPT !.call = NoCall])
    BY <1>1 DEF Task, SameFrame
<1>3. Return(k, s) = [k EXCEPT !.t[s] = [k.t[s] EXCEPT !.call = NoCall]]
    BY DEF Return, KernelInv, IsKernelState
<1>4. QED
    BY <1>2, <1>3, RewriteTask

(* Blocking the caller, with a rewound frame, and rescheduling.            *)
LEMMA BlockMoves ==
    ASSUME NEW k, KernelInv(k), NEW c \in Cpus, NEW s \in DOMAIN k.t,
           NEW reason \in WaitReasons
    PROVE  Moves(k, BlockAndRestart(k, c, s, reason), c)
<1> DEFINE b == Block(k.t[s], reason)
           x == [b EXCEPT !.again = TRUE]
           j == [k EXCEPT !.t[s] = x]
<1>1. b \in Task /\ SameFrame(s, k.t[s], b)
    BY TaskTyped, BlockOK
<1> HIDE DEF b
<1>2. x \in Task /\ SameFrame(s, k.t[s], x)
    BY <1>1 DEF Task, SameFrame
<1> HIDE DEF x
<1>3. Rewrites(k, j)
    BY <1>2, RewriteTask
<1>4. Moves(k, j, c) /\ KernelInv(j)
    BY <1>3, RewritesMoves
<1>5. BlockAndRestart(k, c, s, reason) = Schedule(j, c)
    BY DEF BlockAndRestart, b, x, KernelInv, IsKernelState
<1> HIDE DEF j
<1>6. QED
    BY <1>4, <1>5, ScheduleMoves, MovesTransitive

(* Rewriting and then rescheduling.                                        *)
LEMMA RewriteThenSchedule ==
    ASSUME NEW k, KernelInv(k), NEW j, Rewrites(k, j), NEW c \in Cpus
    PROVE  Moves(k, Schedule(j, c), c)
<1>1. Moves(k, j, c) /\ KernelInv(j)
    BY RewritesMoves
<1>2. QED
    BY <1>1, ScheduleMoves, MovesTransitive

(* The tail of syscall_handler_locked.                                     *)
LEMMA CompleteMoves ==
    ASSUME NEW k, KernelInv(k), NEW c \in Cpus, NEW s \in DOMAIN k.t
    PROVE  Moves(k, Complete(k, c, s), c)
<1> DEFINE k1 == Return(k, s)
<1>1. Rewrites(k, k1)
    BY ReturnRewrites
<1>2. Moves(k, k1, c) /\ KernelInv(k1)
    BY <1>1, RewritesMoves
<1> HIDE DEF k1
<1>3. Moves(k, Schedule(k1, c), c)
    BY <1>1, RewriteThenSchedule
<1>4. Moves(k, DeliverPending(k1, c), c)
    BY <1>2, DeliverMoves, MovesTransitive
<1>5. QED
    BY <1>3, <1>4 DEF Complete, k1

(* finish_process turns a leader into a zombie.                            *)
LEMMA FinishProcessRewrites ==
    ASSUME NEW k, KernelInv(k), NEW leader \in DOMAIN k.t, k.t[leader].leader = leader
    PROVE  Rewrites(k, FinishProcess(k, leader))
<1> DEFINE m == MarkExited(k.t[leader])
           x == [m EXCEPT !.zombie = TRUE, !.term = 0]
           marked == [k.t EXCEPT ![leader] = x]
           dead == k.t[leader].pid
           U == WakeWaiters(WakeWaiters(ReparentChildrenOf(marked, dead), "Child"), "Thread")
<1>1. m \in Task /\ SameFrame(leader, k.t[leader], m)
    BY TaskTyped, MarkExitedOK
<1> HIDE DEF m
<1>2. x \in Task /\ SameFrame(leader, k.t[leader], x)
    BY <1>1 DEF Task, SameFrame
<1> HIDE DEF x
<1>3. Evolves(k.t, marked)
    BY <1>2, UpdateEvolves DEF KernelInv, KernelStateOK
<1>4. FinishProcess(k, leader) = [k EXCEPT !.t = U, !.f = @ \ {dead}]
    BY DEF FinishProcess, m, x
<1> HIDE DEF marked, dead
<1>5. Evolves(marked, U)
    BY <1>3, OrphanAndWakeEvolves DEF Evolves
<1>6. Evolves(k.t, U)
    BY <1>3, <1>5, EvolvesTransitive
<1> HIDE DEF U
<1>7. QED
    BY <1>4, <1>6 DEF Rewrites, SameCpus, IsKernelState, KernelInv, KernelStateOK

(* exit_group and faults: every thread exits and the leader is a zombie.   *)
LEMMA ExitProcessRewrites ==
    ASSUME NEW k, KernelInv(k), NEW leader \in DOMAIN k.t, k.t[leader].leader = leader
    PROVE  Rewrites(k, ExitProcess(k, leader))
<1> DEFINE marked == [s \in DOMAIN k.t |->
                         IF k.t[s].leader = leader THEN MarkExited(k.t[s]) ELSE k.t[s]]
           j == [k EXCEPT !.t = marked]
<1>1. ASSUME NEW s \in DOMAIN k.t
      PROVE  marked[s] \in Task /\ SameFrame(s, k.t[s], marked[s])
    BY TaskTyped, MarkExitedOK
<1>2. marked = [s \in DOMAIN k.t |-> marked[s]]
    OBVIOUS
<1>3. ExitProcess(k, leader) = FinishProcess(j, leader)
    BY DEF ExitProcess
<1> HIDE DEF marked
<1>4. Evolves(k.t, marked)
    BY <1>1, <1>2, MapEvolves DEF KernelInv, KernelStateOK
<1>5. Rewrites(k, j)
    BY <1>4, RewriteTable
<1>6. KernelInv(j)
    BY <1>5, RewritesMoves
<1>7. leader \in DOMAIN j.t /\ j.t[leader].leader = leader
    BY <1>5 DEF Rewrites, Evolves, SameFrame
<1> HIDE DEF j
<1>8. Rewrites(j, FinishProcess(j, leader))
    BY <1>6, <1>7, FinishProcessRewrites
<1>9. QED
    BY <1>3, <1>5, <1>8, RewritesTransitive

(* exit: the thread, and with the last one the process.                    *)
LEMMA ExitThreadRewrites ==
    ASSUME NEW k, KernelInv(k), NEW s \in DOMAIN k.t
    PROVE  Rewrites(k, ExitThread(k, s))
<1> DEFINE leader == ProcessSlot(k.t, s)
           marked == [k.t EXCEPT ![s] = MarkExited(k.t[s])]
           U == WakeWaiters(marked, "Thread")
           k1 == [k EXCEPT !.t = U]
<1>1. MarkExited(k.t[s]) \in Task /\ SameFrame(s, k.t[s], MarkExited(k.t[s]))
    BY TaskTyped, MarkExitedOK
<1>2. Evolves(k.t, marked)
    BY <1>1, UpdateEvolves DEF KernelInv, KernelStateOK
<1>3. Evolves(marked, U)
    BY <1>2, WakeWaitersEvolves DEF Evolves
<1>4. Evolves(k.t, U)
    BY <1>2, <1>3, EvolvesTransitive
<1>5. ExitThread(k, s) = IF LiveThreadCount(k1.t, leader) = 0 THEN FinishProcess(k1, leader) ELSE k1
    BY DEF ExitThread
<1> HIDE DEF U
<1>6. Rewrites(k, k1)
    BY <1>4, RewriteTable
<1>7. KernelInv(k1)
    BY <1>6, RewritesMoves
<1>8. leader \in DOMAIN k1.t /\ k1.t[leader].leader = leader
    BY <1>6 DEF Rewrites, Evolves, SameFrame, ProcessSlot, KernelInv, GroupOK
<1> HIDE DEF k1, leader
<1>9. Rewrites(k1, FinishProcess(k1, leader))
    BY <1>7, <1>8, FinishProcessRewrites
<1>10. QED
    BY <1>5, <1>6, <1>9, RewritesTransitive
-----------------------------------------------------------------------------
(* Publishing a task in a free slot with the next pid as its stack.        *)
LEMMA PublishMoves ==
    ASSUME NEW k, KernelInv(k), NEW c, HasRoom(k), NEW task \in Task,
           NEW slot, slot = FreeSlot(k.t),
           task.kstack = k.n, ~task.zombie,
           \/ task.leader = slot /\ ~task.is_thread
           \/ /\ task.leader \in DOMAIN k.t
              /\ k.t[task.leader].leader = task.leader
              /\ k.t[task.leader].pid = task.pid
              /\ k.t[task.leader].pd = task.pd,
           NEW fds \in SUBSET Pids
    PROVE  Moves(k, [k EXCEPT !.t = Publish(@, slot, task), !.n = @ + 1, !.f = fds], c)
<1> DEFINE U == Publish(k.t, slot, task)
           n1 == k.n + 1
           j == [k EXCEPT !.t = U, !.n = n1, !.f = fds]
<1> HIDE DEF n1
<1>1. /\ IsKernelState(k) /\ KernelStateOK(k) /\ OwnersOK(k.o, k.u) /\ CurrentOK(k)
      /\ GroupOK(k.t) /\ UniqueStacks(k.t) /\ StacksAllocated(k) /\ TableOK(k.t)
    BY DEF KernelInv, KernelStateOK
<1>2. slot \in Slots \ DOMAIN k.t
    <2>1. FirstOf(Slots \ DOMAIN k.t) \in (Slots \ DOMAIN k.t) \cup {0}
        BY FirstOfInSet
    <2>2. QED
        BY <2>1 DEF HasRoom, FreeSlot
<1>j. j = [k EXCEPT !.t = U, !.n = n1, !.f = fds]
    OBVIOUS
<1> HIDE DEF j, U
<1>3. /\ j.t = U /\ j.o = k.o /\ j.u = k.u /\ j.e = k.e /\ j.r = k.r /\ j.d = k.d
      /\ j.n = n1 /\ j.f = fds /\ IsKernelState(j)
    BY <1>1, <1>j DEF IsKernelState
<1>4. /\ DOMAIN U = DOMAIN k.t \cup {slot} /\ U[slot] = task
      /\ \A s \in DOMAIN k.t : U[s] = k.t[s]
    BY <1>2 DEF Publish, U
<1>5. TableOK(U)
    BY <1>1, <1>2, <1>4 DEF TableOK, Publish, U
<1>6. k.n \in 1..MaxPid
    BY <1>1, TableAssumption DEF HasRoom, KernelStateOK
<1>7. KernelStateOK(j)
    BY <1>1, <1>3, <1>5, <1>6, TableAssumption DEF KernelStateOK, n1
<1>8. GroupOK(U)
    BY <1>1, <1>2, <1>4 DEF GroupOK
<1>9. \A s \in DOMAIN k.t : k.t[s].kstack < k.n /\ k.t[s].kstack \in Pids
    BY <1>1, TaskTyped DEF StacksAllocated, Task
<1>10. UniqueStacks(U)
    BY <1>1, <1>2, <1>4, <1>6, <1>9 DEF UniqueStacks, Pids
<1>11. StacksAllocated(j)
    BY <1>3, <1>4, <1>6, <1>9 DEF StacksAllocated, Pids, n1
<1>12. CurrentOK(j)
    BY <1>1, <1>3, <1>4 DEF CurrentOK
<1>13. KernelInv(j)
    BY <1>1, <1>3, <1>7, <1>8, <1>10, <1>11, <1>12 DEF KernelInv
<1>14. Moves(k, j, c)
    BY <1>3, <1>4, <1>13 DEF Moves
<1>15. QED
    BY <1>14 DEF j, n1, U

(* A task just created is well formed.                                     *)
LEMMA NewTaskOK ==
    ASSUME NEW pid \in Pids, NEW ppid \in 0..MaxPid, NEW slot \in Slots
    PROVE  NewTask(pid, ppid, slot) \in Task
    BY DEF NewTask, Task, TaskStates, Dispositions

(* spawn publishes a leader of its own.                                    *)
LEMMA SpawnedMoves ==
    ASSUME NEW k, KernelInv(k), NEW c, HasRoom(k), NEW parent \in DOMAIN k.t
    PROVE  Moves(k, Spawned(k, parent), c)
<1> DEFINE slot == FreeSlot(k.t)
           task == NewTask(k.n, k.t[parent].pid, slot)
           fds == k.f \cup {k.n}
<1>1. k.n \in Pids /\ k.f \subseteq Pids /\ IsKernelState(k)
    BY TableAssumption DEF HasRoom, KernelInv, KernelStateOK, Pids
<1>2. slot \in Slots
    BY FirstOfInSet DEF HasRoom, FreeSlot
<1>3. k.t[parent].pid \in 0..MaxPid
    BY TaskTyped, TableAssumption DEF Task, Pids
<1>4. task \in Task
    BY <1>1, <1>2, <1>3, NewTaskOK
<1>5. task.kstack = k.n /\ ~task.zombie /\ task.leader = slot /\ ~task.is_thread
    BY DEF NewTask
<1>6. Spawned(k, parent) = [k EXCEPT !.t = Publish(@, slot, task), !.n = @ + 1, !.f = fds]
    BY <1>1 DEF Spawned, IsKernelState
<1>7. fds \in SUBSET Pids
    BY <1>1
<1>8. slot = FreeSlot(k.t)
    OBVIOUS
<1> HIDE DEF task, fds, slot
<1>9. Moves(k, [k EXCEPT !.t = Publish(@, slot, task), !.n = @ + 1, !.f = fds], c)
    BY <1>4, <1>5, <1>7, <1>8, PublishMoves
<1>10. QED
    BY <1>6, <1>9

(* thread_create publishes a member of the caller's process.               *)
LEMMA ThreadCreatedMoves ==
    ASSUME NEW k, KernelInv(k), NEW c, HasRoom(k),
           NEW leader \in DOMAIN k.t, k.t[leader].leader = leader
    PROVE  Moves(k, ThreadCreated(k, leader), c)
<1> DEFINE slot == FreeSlot(k.t)
           l == k.t[leader]
           base == NewTask(l.pid, l.ppid, l.leader)
           task == NewThread(l, k.n)
           fds == k.f
<1>1. k.n \in Pids /\ k.f \subseteq Pids /\ IsKernelState(k)
    BY TableAssumption DEF HasRoom, KernelInv, KernelStateOK, Pids
<1>2. l \in Task
    BY TaskTyped
<1>3. base \in Task /\ base.leader = leader /\ base.pid = l.pid /\ ~base.zombie
    BY <1>2, NewTaskOK DEF Task, NewTask
<1>4. task = [base EXCEPT !.tid = k.n, !.kstack = k.n, !.is_thread = TRUE, !.pd = l.pd]
    BY DEF NewThread
<1> HIDE DEF base, task
<1>5. l.pd \in Pids
    BY <1>2 DEF Task
<1>6. /\ task \in Task /\ task.kstack = k.n /\ ~task.zombie /\ task.leader = leader
      /\ task.pid = l.pid /\ task.pd = l.pd
    BY <1>1, <1>3, <1>4, <1>5 DEF Task
<1>7. ThreadCreated(k, leader) = [k EXCEPT !.t = Publish(@, slot, task), !.n = @ + 1, !.f = fds]
    BY <1>1 DEF ThreadCreated, IsKernelState, task
<1>8. fds \in SUBSET Pids
    BY <1>1
<1>9. slot = FreeSlot(k.t)
    OBVIOUS
<1> HIDE DEF fds, slot
<1>10. Moves(k, [k EXCEPT !.t = Publish(@, slot, task), !.n = @ + 1, !.f = fds], c)
    BY <1>6, <1>8, <1>9, PublishMoves
<1>11. QED
    BY <1>7, <1>10

(* A failed spawn leaves the kernel's page directory on the caller's CPU.  *)
LEMMA BadImageMoves ==
    ASSUME NEW k, KernelInv(k), NEW c \in Cpus, HasRoom(k)
    PROVE  Moves(k, [k EXCEPT !.n = @ + 1, !.r[c] = 0], c)
<1> DEFINE n1 == k.n + 1
           j == [k EXCEPT !.n = n1, !.r[c] = 0]
<1> HIDE DEF n1
<1>1. /\ IsKernelState(k) /\ KernelStateOK(k) /\ OwnersOK(k.o, k.u) /\ CurrentOK(k)
      /\ GroupOK(k.t) /\ UniqueStacks(k.t) /\ StacksAllocated(k) /\ TableOK(k.t)
    BY DEF KernelInv, KernelStateOK
<1>j. j = [k EXCEPT !.n = n1, !.r[c] = 0]
    OBVIOUS
<1> HIDE DEF j
<1>2. /\ j.t = k.t /\ j.o = k.o /\ j.u = k.u /\ j.e = k.e /\ j.d = k.d /\ j.f = k.f
      /\ j.n = n1 /\ j.r = [k.r EXCEPT ![c] = 0] /\ IsKernelState(j)
    BY <1>1, <1>j DEF IsKernelState
<1>3. k.n \in 1..MaxPid
    BY <1>1, TableAssumption DEF HasRoom, KernelStateOK
<1>4. KernelStateOK(j)
    BY <1>1, <1>2, <1>3, TableAssumption DEF KernelStateOK, n1
<1>5. \A s \in DOMAIN k.t : k.t[s].kstack < k.n /\ k.t[s].kstack \in Pids
    BY <1>1, TaskTyped DEF StacksAllocated, Task
<1>6. StacksAllocated(j)
    BY <1>2, <1>3, <1>5 DEF StacksAllocated, Pids, n1
<1>7. CurrentOK(j)
    BY <1>1, <1>2 DEF CurrentOK, KernelStateOK
<1>8. KernelInv(j)
    BY <1>1, <1>2, <1>4, <1>6, <1>7 DEF KernelInv
<1>9. Moves(k, j, c)
    BY <1>1, <1>2, <1>8 DEF Moves, KernelStateOK
<1>10. QED
    BY <1>9 DEF j, n1
-----------------------------------------------------------------------------
(* Replacing the table by one with unowned slots freed.                    *)
LEMMA PruneTable ==
    ASSUME NEW k, KernelInv(k), NEW U, Shrinks(k.t, U, k.o)
    PROVE  Prunes(k, [k EXCEPT !.t = U])
    BY DEF Prunes, KernelInv, KernelStateOK, SameCpus, IsKernelState

(* Rewriting frees nothing.                                                *)
LEMMA RewritesPrunes ==
    ASSUME NEW k, KernelInv(k), NEW j, Rewrites(k, j)
    PROVE  Prunes(k, j)
    BY EvolvesShrinks DEF Rewrites, Prunes, KernelInv

(* The prologue of every system call.                                      *)
LEMMA EnteredPrunes ==
    ASSUME KernelInv(K)
    PROVE  Prunes(K, Entered) /\ KernelInv(Entered)
<1> DEFINE k == DrainDeferredCleanup(K)
           U == ReapDetachedThreads(k.t, k.o)
<1>1. Prunes(K, k) /\ KernelInv(k)
    BY DrainRewrites, RewritesPrunes, PrunesInv
<1>2. Entered = [k EXCEPT !.t = U]
    BY DEF Entered
<1> HIDE DEF k
<1>3. Shrinks(k.t, U, k.o)
    BY <1>1, ReapDetachedShrinks DEF KernelInv, KernelStateOK
<1> HIDE DEF U
<1>4. Prunes(k, Entered)
    BY <1>1, <1>2, <1>3, PruneTable
<1>5. QED
    BY <1>1, <1>4, PrunesTransitive, PrunesInv

(* The prologue of spawn and thread_create.                                *)
LEMMA ReapedPrunes ==
    ASSUME KernelInv(K)
    PROVE  Prunes(K, Reaped) /\ KernelInv(Reaped)
<1> DEFINE k == Entered
           U == ReapForFreeSlot(k.t, k.o)
<1>1. Prunes(K, k) /\ KernelInv(k)
    BY EnteredPrunes
<1>2. k.o = owner
    BY <1>1 DEF Prunes, SameCpus, K
<1>3. Reaped = [k EXCEPT !.t = U]
    BY <1>1, <1>2 DEF Reaped, KernelInv, IsKernelState
<1> HIDE DEF k
<1>4. Shrinks(k.t, U, k.o)
    BY <1>1, ReapForFreeSlotShrinks DEF KernelInv, KernelStateOK
<1> HIDE DEF U
<1>5. Prunes(k, Reaped)
    BY <1>1, <1>3, <1>4, PruneTable
<1>6. QED
    BY <1>1, <1>5, PrunesTransitive, PrunesInv

(* The caller and the leader of its process survive every reaping.         *)
LEMMA CallerSurvives ==
    ASSUME KernelInv(K), NEW k, Prunes(K, k), NEW c \in Cpus, cur[c] # 0
    PROVE  /\ KernelInv(k)
           /\ k.u = cur
           /\ cur[c] \in DOMAIN k.t
           /\ cur[c] \in DOMAIN tasks
           /\ ProcessSlot(tasks, cur[c]) = ProcessSlot(k.t, cur[c])
           /\ ProcessSlot(k.t, cur[c]) \in DOMAIN k.t
           /\ k.t[ProcessSlot(k.t, cur[c])].leader = ProcessSlot(k.t, cur[c])
<1>1. KernelInv(k) /\ k.u = cur
    BY PrunesInv DEF Prunes, SameCpus, K
<1>2. cur[c] \in DOMAIN k.t
    BY <1>1 DEF KernelInv, CurrentOK
<1>3. cur[c] \in DOMAIN tasks /\ k.t[cur[c]].leader = tasks[cur[c]].leader
    BY <1>2 DEF Prunes, Shrinks, SameFrame, K
<1>4. QED
    BY <1>1, <1>2, <1>3 DEF ProcessSlot, KernelInv, GroupOK
-----------------------------------------------------------------------------
(* The stack a processor stands on belongs to a task of the table that no  *)
(* other processor runs.                                                   *)
HoldsStack(c) ==
    \E s \in DOMAIN tasks :
        /\ tasks[s].kstack = stk[c]
        /\ \A d \in Cpus \ {c} : cur[d] # s

StackInv ==
    \A c \in Cpus :
        /\ mode[c] \in {"user", "idle"} => stk[c] = 0
        /\ mode[c] \in {"syscall", "fault"} => stk[c] = esp0[c]
        /\ mode[c] = "handoff" => (stk[c] = 0 \/ HoldsStack(c))

Inv ==
    /\ KernelInv(K)
    /\ lock \in Cpus \cup {NoCpu}
    /\ mode \in [Cpus -> Modes]
    /\ stk \in [Cpus -> Pids \cup {0}]
    /\ userSched \in BOOLEAN
    /\ \A c \in Cpus : mode[c] = "handoff" => lock = c
    /\ \A c \in Cpus : mode[c] \in {"user", "syscall", "fault"} => cur[c] # 0
    /\ StackInv

(* Any body that prunes, moves and hands off keeps the invariant.          *)
LEMMA HandoffInv ==
    ASSUME Inv, NEW c \in Cpus, lock = NoCpu,
           NEW k, Prunes(K, k), NEW j, Moves(k, j, c), Handoff(c, j),
           NEW stack \in Pids \cup {0}, stk' = [stk EXCEPT ![c] = stack],
           stack # 0 => (cur[c] # 0 /\ stack = esp0[c]),
           userSched' \in BOOLEAN
    PROVE  Inv'
<1>1. /\ tasks' = j.t /\ owner' = j.o /\ cur' = j.u /\ cr3' = j.r /\ esp0' = j.e
      /\ nextPid' = j.n /\ deferred' = j.d /\ openFds' = j.f
      /\ lock' = c /\ mode' = [mode EXCEPT ![c] = "handoff"]
    BY DEF Handoff
<1>2. KernelInv(j)
    BY DEF Moves
<1>3. j = [t |-> j.t, o |-> j.o, u |-> j.u, r |-> j.r,
           e |-> j.e, n |-> j.n, d |-> j.d, f |-> j.f]
    BY <1>2 DEF KernelInv, IsKernelState
<1>4. K' = j
    BY <1>1, <1>3 DEF K
<1>5. KernelInv(K') /\ KernelInv(K)
    BY <1>2, <1>4 DEF Inv
<1>6. /\ mode \in [Cpus -> Modes] /\ stk \in [Cpus -> Pids \cup {0}]
      /\ c # NoCpu
    BY DEF Inv, Cpus, NoCpu
<1>7. \A d \in Cpus : mode[d] # "handoff"
    BY <1>6 DEF Inv, NoCpu, Cpus
<1>8. \A d \in Cpus \ {c} : cur'[d] = cur[d] /\ esp0'[d] = esp0[d]
    BY <1>1 DEF Moves, Prunes, SameCpus, K
<1>9. StackInv'
    <2>1. ASSUME NEW d \in Cpus, d # c
          PROVE  /\ mode'[d] \in {"user", "idle"} => stk'[d] = 0
                 /\ mode'[d] \in {"syscall", "fault"} => stk'[d] = esp0'[d]
                 /\ mode'[d] # "handoff"
        BY <1>1, <1>6, <1>7, <1>8, <2>1 DEF Inv, StackInv
    <2>2. ASSUME stack # 0
          PROVE  HoldsStack(c)'
        <3>1. cur[c] \in DOMAIN k.t /\ cur[c] \in DOMAIN tasks
            BY <1>5, <2>2, CallerSurvives
        <3>2. tasks[cur[c]].kstack = stack
            BY <1>5, <2>2 DEF KernelInv, CurrentOK, K
        <3>3. cur[c] \in DOMAIN tasks' /\ tasks'[cur[c]].kstack = stack
            BY <1>1, <3>1, <3>2 DEF Moves, Prunes, Shrinks, SameFrame, K
        <3>4. \A d \in Cpus \ {c} : cur'[d] # cur[c]
            BY <1>5, <1>8, <2>2 DEF KernelInv, OwnersOK, KernelStateOK, K
        <3>5. stk'[c] = stack
            BY <1>6
        <3>6. QED
            BY <3>3, <3>4, <3>5 DEF HoldsStack
    <2>3. mode'[c] = "handoff" /\ stk'[c] = stack
        BY <1>1, <1>6
    <2>4. QED
        BY <2>1, <2>2, <2>3 DEF StackInv
<1>10. /\ lock' \in Cpus \cup {NoCpu} /\ mode' \in [Cpus -> Modes]
       /\ stk' \in [Cpus -> Pids \cup {0}]
       /\ \A d \in Cpus : mode'[d] = "handoff" => lock' = d
    BY <1>1, <1>6, <1>7 DEF Modes
<1>11. \A d \in Cpus : mode'[d] \in {"user", "syscall", "fault"} => cur'[d] # 0
    BY <1>1, <1>6, <1>8 DEF Inv
<1>12. QED
    BY <1>5, <1>9, <1>10, <1>11 DEF Inv

(* The same for the bodies of system calls, which also deliver signals.    *)
LEMMA LeaveInv ==
    ASSUME Inv, NEW c \in Cpus, mode[c] = "syscall", lock = NoCpu,
           NEW k, Prunes(K, k), NEW j, Moves(k, j, c), Leave(c, j)
    PROVE  Inv'
<1> DEFINE l == DeliverPending(j, c)
<1>1. Moves(k, l, c)
    BY DeliverMoves, MovesTransitive DEF Moves
<1>2. Handoff(c, l) /\ stk' = stk /\ userSched' = userSched
    BY DEF Leave
<1>3. /\ stk[c] \in Pids \cup {0} /\ stk' = [stk EXCEPT ![c] = stk[c]]
      /\ cur[c] # 0 /\ stk[c] = esp0[c] /\ userSched' \in BOOLEAN
    BY <1>2 DEF Inv, StackInv
<1> HIDE DEF l
<1>4. QED
    BY <1>1, <1>2, <1>3, HandoffInv

(* exit.                                                                   *)
LEMMA SysExitInv ==
    ASSUME Inv, NEW c \in Cpus, SysExit(c)
    PROVE  Inv'
<1> DEFINE k == Entered
           j == Schedule(ExitThread(k, cur[c]), c)
<1>1. mode[c] = "syscall" /\ lock = NoCpu /\ cur[c] # 0 /\ Leave(c, j)
    BY DEF SysExit, Locked, Inv
<1>2. Prunes(K, k)
    BY EnteredPrunes DEF Inv
<1> HIDE DEF k
<1>3. KernelInv(k) /\ cur[c] \in DOMAIN k.t
    BY <1>1, <1>2, CallerSurvives DEF Inv
<1>4. Moves(k, j, c)
    BY <1>3, ExitThreadRewrites, RewriteThenSchedule
<1> HIDE DEF j
<1>5. QED
    BY <1>1, <1>2, <1>4, LeaveInv

(* exit_group.                                                             *)
LEMMA SysExitGroupInv ==
    ASSUME Inv, NEW c \in Cpus, SysExitGroup(c)
    PROVE  Inv'
<1> DEFINE k == Entered
           leader == ProcessSlot(tasks, cur[c])
           j == Schedule(ExitProcess(k, leader), c)
<1>1. mode[c] = "syscall" /\ lock = NoCpu /\ cur[c] # 0 /\ Leave(c, j)
    BY DEF SysExitGroup, Locked, Inv
<1>2. Prunes(K, k)
    BY EnteredPrunes DEF Inv
<1> HIDE DEF k
<1>3. KernelInv(k) /\ leader \in DOMAIN k.t /\ k.t[leader].leader = leader
    BY <1>1, <1>2, CallerSurvives DEF Inv
<1> HIDE DEF leader
<1>4. Moves(k, j, c)
    BY <1>3, ExitProcessRewrites, RewriteThenSchedule
<1> HIDE DEF j
<1>5. QED
    BY <1>1, <1>2, <1>4, LeaveInv

(* A user fault.                                                           *)
LEMMA FaultExitInv ==
    ASSUME Inv, NEW c \in Cpus, FaultExit(c)
    PROVE  Inv'
<1> DEFINE k == K
           leader == ProcessSlot(tasks, cur[c])
           j == Schedule(ExitProcess(k, leader), c)
<1>1. mode[c] = "fault" /\ lock = NoCpu /\ cur[c] # 0 /\ Handoff(c, j)
    BY DEF FaultExit, Inv
<1>2. Prunes(K, k)
    BY RewriteNothing, RewritesPrunes DEF Inv
<1> HIDE DEF k
<1>3. KernelInv(k) /\ leader \in DOMAIN k.t /\ k.t[leader].leader = leader
    BY <1>1, <1>2, CallerSurvives DEF Inv
<1> HIDE DEF leader
<1>4. Moves(k, j, c)
    BY <1>3, ExitProcessRewrites, RewriteThenSchedule
<1>5. /\ stk[c] \in Pids \cup {0} /\ stk' = [stk EXCEPT ![c] = stk[c]]
      /\ stk[c] = esp0[c] /\ userSched' \in BOOLEAN
    BY <1>1 DEF Inv, StackInv, FaultExit
<1> HIDE DEF j
<1>6. QED
    BY <1>1, <1>2, <1>4, <1>5, HandoffInv

(* A call whose task was stopped or killed while it waited for the lock.   *)
LEMMA LostTurnInv ==
    ASSUME Inv, NEW c \in Cpus, LostTurn(c)
    PROVE  Inv'
<1> DEFINE k == DrainDeferredCleanup(K)
           j == Schedule(k, c)
<1>1. mode[c] = "syscall" /\ lock = NoCpu /\ Leave(c, j)
    BY DEF LostTurn
<1>2. Prunes(K, k)
    BY DrainRewrites, RewritesPrunes DEF Inv
<1> HIDE DEF k
<1>3. KernelInv(k)
    BY <1>2, PrunesInv DEF Inv
<1>4. Moves(k, j, c)
    BY <1>3, ScheduleMoves
<1> HIDE DEF j
<1>5. QED
    BY <1>1, <1>2, <1>4, LeaveInv

(* sched_yield.                                                            *)
LEMMA SysYieldInv ==
    ASSUME Inv, NEW c \in Cpus, SysYield(c)
    PROVE  Inv'
<1> DEFINE k == Entered
           j == Schedule(Return(k, cur[c]), c)
<1>1. mode[c] = "syscall" /\ lock = NoCpu /\ cur[c] # 0 /\ Leave(c, j)
    BY DEF SysYield, Locked, Inv
<1>2. Prunes(K, k)
    BY EnteredPrunes DEF Inv
<1> HIDE DEF k
<1>3. KernelInv(k) /\ cur[c] \in DOMAIN k.t
    BY <1>1, <1>2, CallerSurvives DEF Inv
<1>4. Moves(k, j, c)
    BY <1>3, ReturnRewrites, RewriteThenSchedule
<1> HIDE DEF j
<1>5. QED
    BY <1>1, <1>2, <1>4, LeaveInv

(* nanosleep.                                                              *)
LEMMA SysNanosleepInv ==
    ASSUME Inv, NEW c \in Cpus, SysNanosleep(c)
    PROVE  Inv'
<1> DEFINE k == Entered
           s == cur[c]
           k1 == Return(k, s)
           b == Block(k1.t[s], "Timer")
           x == [b EXCEPT !.deadline = "future"]
           k2 == [k1 EXCEPT !.t[s] = x]
           j == Schedule(k2, c)
<1>1. mode[c] = "syscall" /\ lock = NoCpu /\ s # 0
    BY DEF SysNanosleep, Locked, Inv
<1>2. Prunes(K, k)
    BY EnteredPrunes DEF Inv
<1>3. KernelInv(k) /\ s \in DOMAIN k.t
    BY <1>1, <1>2, CallerSurvives DEF Inv
<1>4. Rewrites(k, k1)
    BY <1>3, ReturnRewrites
<1>5. KernelInv(k1) /\ s \in DOMAIN k1.t
    BY <1>3, <1>4, RewritesMoves DEF Rewrites, Evolves
<1>6. Leave(c, j)
    BY <1>5 DEF SysNanosleep, KernelInv, IsKernelState
<1> HIDE DEF k, k1
<1>7. b \in Task /\ SameFrame(s, k1.t[s], b)
    BY <1>5, TaskTyped, BlockOK DEF WaitReasons
<1> HIDE DEF b
<1>8. x \in Task /\ SameFrame(s, k1.t[s], x)
    BY <1>7 DEF Task, SameFrame
<1> HIDE DEF x
<1>9. Rewrites(k1, k2)
    BY <1>5, <1>8, RewriteTask
<1> HIDE DEF k2
<1>10. Moves(k, j, c)
    BY <1>3, <1>4, <1>9, RewritesTransitive, RewriteThenSchedule
<1> HIDE DEF j
<1>11. QED
    BY <1>1, <1>2, <1>6, <1>10, LeaveInv

(* A restartable read.                                                     *)
LEMMA SysReadInv ==
    ASSUME Inv, NEW c \in Cpus, SysRead(c)
    PROVE  Inv'
<1> DEFINE k == Entered
           j1 == Complete(k, c, cur[c])
           j2 == BlockAndRestart(k, c, cur[c], "Input")
<1>1. mode[c] = "syscall" /\ lock = NoCpu /\ cur[c] # 0 /\ (Leave(c, j1) \/ Leave(c, j2))
    BY DEF SysRead, Locked, Inv
<1>2. Prunes(K, k)
    BY EnteredPrunes DEF Inv
<1> HIDE DEF k
<1>3. KernelInv(k) /\ cur[c] \in DOMAIN k.t
    BY <1>1, <1>2, CallerSurvives DEF Inv
<1>4. Moves(k, j1, c) /\ Moves(k, j2, c)
    BY <1>3, CompleteMoves, BlockMoves DEF WaitReasons
<1> HIDE DEF j1, j2
<1>5. QED
    BY <1>1, <1>2, <1>4, LeaveInv

(* A body that moves to k1 and then completes the call.                    *)
LEMMA CompleteInv ==
    ASSUME Inv, NEW c \in Cpus, mode[c] = "syscall", lock = NoCpu, NEW s, s = cur[c],
           NEW k, Prunes(K, k), NEW k1, Moves(k, k1, c), Leave(c, Complete(k1, c, s))
    PROVE  Inv'
<1>1. KernelInv(k1) /\ s # 0
    BY DEF Moves, Inv
<1>2. s \in DOMAIN k.t
    BY <1>1, CallerSurvives DEF Inv
<1>3. s \in DOMAIN k1.t
    BY <1>2 DEF Moves
<1>4. Moves(k, Complete(k1, c, s), c)
    BY <1>1, <1>3, CompleteMoves, MovesTransitive
<1>5. QED
    BY <1>4, LeaveInv

(* spawn keeps the invariant, with or without room for the child.          *)
LEMMA SysSpawnInv ==
    ASSUME Inv, NEW c \in Cpus, SysSpawn(c)
    PROVE  Inv'
<1> DEFINE k == Reaped
           parent == ProcessSlot(tasks, cur[c])
           k1 == IF HasRoom(k) THEN Spawned(k, parent) ELSE k
<1>1. mode[c] = "syscall" /\ lock = NoCpu /\ cur[c] # 0 /\ Leave(c, Complete(k1, c, cur[c]))
    BY DEF SysSpawn, Locked, Inv
<1>2. Prunes(K, k)
    BY ReapedPrunes DEF Inv
<1> HIDE DEF k
<1>3. KernelInv(k) /\ parent \in DOMAIN k.t
    BY <1>1, <1>2, CallerSurvives DEF Inv
<1> HIDE DEF parent
<1>4. Moves(k, k1, c)
    BY <1>3, SpawnedMoves, MovesReflexive
<1> HIDE DEF k1
<1>5. QED
    BY <1>1, <1>2, <1>4, CompleteInv

(* A spawn whose image is rejected.                                        *)
LEMMA SysSpawnBadInv ==
    ASSUME Inv, NEW c \in Cpus, SysSpawnBad(c)
    PROVE  Inv'
<1> DEFINE k == Reaped
           k1 == IF HasRoom(k) THEN [k EXCEPT !.n = @ + 1, !.r[c] = 0] ELSE k
<1>1. mode[c] = "syscall" /\ lock = NoCpu /\ cur[c] # 0 /\ Leave(c, Complete(k1, c, cur[c]))
    BY DEF SysSpawnBad, Locked, Inv
<1>2. Prunes(K, k)
    BY ReapedPrunes DEF Inv
<1> HIDE DEF k
<1>3. KernelInv(k)
    BY <1>2, PrunesInv DEF Inv
<1>4. Moves(k, k1, c)
    BY <1>3, BadImageMoves, MovesReflexive
<1> HIDE DEF k1
<1>5. QED
    BY <1>1, <1>2, <1>4, CompleteInv

(* thread_create.                                                          *)
LEMMA SysThreadCreateInv ==
    ASSUME Inv, NEW c \in Cpus, SysThreadCreate(c)
    PROVE  Inv'
<1> DEFINE k == Reaped
           leader == ProcessSlot(tasks, cur[c])
           k1 == IF HasRoom(k) THEN ThreadCreated(k, leader) ELSE k
<1>1. mode[c] = "syscall" /\ lock = NoCpu /\ cur[c] # 0 /\ Leave(c, Complete(k1, c, cur[c]))
    BY DEF SysThreadCreate, Locked, Inv
<1>2. Prunes(K, k)
    BY ReapedPrunes DEF Inv
<1> HIDE DEF k
<1>3. KernelInv(k) /\ leader \in DOMAIN k.t /\ k.t[leader].leader = leader
    BY <1>1, <1>2, CallerSurvives DEF Inv
<1> HIDE DEF leader
<1>4. Moves(k, k1, c)
    BY <1>3, ThreadCreatedMoves, MovesReflexive
<1> HIDE DEF k1
<1>5. QED
    BY <1>1, <1>2, <1>4, CompleteInv

(* A body that only prunes and stores its result.                          *)
LEMMA PruneAndReturnInv ==
    ASSUME Inv, NEW c \in Cpus, mode[c] = "syscall", lock = NoCpu,
           NEW s, s = cur[c], NEW k, Prunes(K, k), Leave(c, Return(k, s))
    PROVE  Inv'
<1>1. s # 0
    BY DEF Inv
<1>2. KernelInv(k) /\ s \in DOMAIN k.t
    BY <1>1, CallerSurvives DEF Inv
<1>3. Moves(k, Return(k, s), c)
    BY <1>2, ReturnRewrites, RewritesMoves
<1>4. QED
    BY <1>3, LeaveInv

(* A body that blocks its caller.                                          *)
LEMMA BlockInv ==
    ASSUME Inv, NEW c \in Cpus, mode[c] = "syscall", lock = NoCpu,
           NEW s, s = cur[c], NEW k, Prunes(K, k),
           NEW reason \in WaitReasons, Leave(c, BlockAndRestart(k, c, s, reason))
    PROVE  Inv'
<1>1. s # 0
    BY DEF Inv
<1>2. KernelInv(k) /\ s \in DOMAIN k.t
    BY <1>1, CallerSurvives DEF Inv
<1>3. Moves(k, BlockAndRestart(k, c, s, reason), c)
    BY <1>2, BlockMoves
<1>4. QED
    BY <1>3, LeaveInv

(* thread_join.                                                            *)
LEMMA SysThreadJoinInv ==
    ASSUME Inv, NEW c \in Cpus, SysThreadJoin(c)
    PROVE  Inv'
<1> DEFINE k == Entered
           s == cur[c]
           target == SlotByTid(k.t, tasks[s].call.id)
           U == ReapThread(k.t, k.o, target)
           j == [k EXCEPT !.t = U]
<1>1. mode[c] = "syscall" /\ lock = NoCpu
    BY DEF SysThreadJoin, Locked
<1>2. Prunes(K, k) /\ KernelInv(k)
    BY EnteredPrunes DEF Inv
<1>3. \/ Leave(c, Return(k, s))
      \/ Leave(c, Return(j, s))
      \/ Leave(c, BlockAndRestart(k, c, s, "Thread"))
    BY <1>2 DEF SysThreadJoin, KernelInv, IsKernelState
<1> HIDE DEF k, target
<1>4. Shrinks(k.t, U, k.o)
    BY <1>2, ReapThreadShrinks DEF KernelInv, KernelStateOK
<1> HIDE DEF U
<1>5. Prunes(K, j)
    BY <1>2, <1>4, PruneTable, PrunesTransitive
<1> HIDE DEF j
<1>6. s = cur[c] /\ "Thread" \in WaitReasons
    BY DEF WaitReasons
<1> HIDE DEF s
<1>7. QED
    BY <1>1, <1>2, <1>3, <1>5, <1>6, PruneAndReturnInv, BlockInv

(* thread_detach.                                                          *)
LEMMA SysThreadDetachInv ==
    ASSUME Inv, NEW c \in Cpus, SysThreadDetach(c)
    PROVE  Inv'
<1> DEFINE k == Entered
           s == cur[c]
           target == SlotByTid(k.t, tasks[s].call.id)
           x == [k.t[target] EXCEPT !.detached = TRUE]
           T == [k.t EXCEPT ![target] = x]
           U == ReapThread(T, k.o, target)
           j == [k EXCEPT !.t = U]
           k1 == IF ~Joinable(k.t, s, target) THEN k ELSE j
<1>1. mode[c] = "syscall" /\ lock = NoCpu
    BY DEF SysThreadDetach, Locked
<1>2. Prunes(K, k) /\ KernelInv(k)
    BY EnteredPrunes DEF Inv
<1>3. Leave(c, Complete(k1, c, s))
    BY <1>2 DEF SysThreadDetach, KernelInv, IsKernelState
<1>a. s = cur[c]
    OBVIOUS
<1> HIDE DEF k
<1>4. target \in DOMAIN k.t \cup {0}
    BY <1>2, FirstOfInSet DEF SlotByTid, KernelInv, KernelStateOK, TableOK
<1> HIDE DEF target, s
<1>5. ASSUME Joinable(k.t, s, target)
      PROVE  Prunes(K, j)
    <2>1. target \in DOMAIN k.t
        BY <1>4, <1>5 DEF Joinable
    <2>2. k.t[target] \in Task
        BY <1>2, <2>1, TaskTyped
    <2>3. x \in Task /\ SameFrame(target, k.t[target], x)
        BY <2>2 DEF Task, SameFrame
    <2> HIDE DEF x
    <2>4. Evolves(k.t, T)
        BY <1>2, <2>1, <2>3, UpdateEvolves DEF KernelInv, KernelStateOK
    <2> HIDE DEF T
    <2>5. TableOK(T) /\ GroupOK(T) /\ UniqueStacks(T) /\ Shrinks(k.t, T, k.o)
        BY <1>2, <2>4, EvolvesKeeps, EvolvesShrinks DEF Evolves, KernelInv
    <2>6. Shrinks(k.t, U, k.o)
        BY <2>5, ReapThreadShrinks, ShrinksTransitive
    <2> HIDE DEF U
    <2>7. QED
        BY <1>2, <2>6, PruneTable, PrunesTransitive
<1> HIDE DEF j
<1>6. Prunes(K, k1)
    BY <1>2, <1>5
<1> HIDE DEF k1
<1>7. Moves(k1, k1, c)
    BY <1>6, PrunesInv, MovesReflexive DEF Inv
<1>8. QED
    BY <1>1, <1>3, <1>6, <1>7, <1>a, CompleteInv

(* Reporting a child frees it or clears a latch of it.                     *)
LEMMA ReportPrunes ==
    ASSUME NEW k, KernelInv(k), NEW child \in DOMAIN k.t
    PROVE  Prunes(k, Report(k, child))
<1>1. k.t[child] \in Task /\ IsKernelState(k)
    BY TaskTyped DEF KernelInv
<1>2. CASE k.t[child].zombie
    <2> DEFINE U == Reap(k.t, k.o, child)
    <2>1. Report(k, child) = [k EXCEPT !.t = U]
        BY <1>1, <1>2 DEF Report, IsKernelState
    <2>2. Shrinks(k.t, U, k.o)
        BY ReapShrinks DEF KernelInv, KernelStateOK
    <2> HIDE DEF U
    <2>3. QED
        BY <2>1, <2>2, PruneTable
<1>3. CASE ~k.t[child].zombie
    <2> DEFINE a == [k.t[child] EXCEPT !.stop_pending = FALSE]
               b == [k.t[child] EXCEPT !.cont_pending = FALSE]
    <2>1. \/ Report(k, child) = [k EXCEPT !.t[child] = a]
          \/ Report(k, child) = [k EXCEPT !.t[child] = b]
        BY <1>1, <1>3 DEF Report, IsKernelState
    <2>2. /\ a \in Task /\ SameFrame(child, k.t[child], a)
          /\ b \in Task /\ SameFrame(child, k.t[child], b)
        BY <1>1 DEF Task, SameFrame
    <2> HIDE DEF a, b
    <2>3. QED
        BY <2>1, <2>2, RewriteTask, RewritesPrunes
<1>4. QED
    BY <1>2, <1>3

(* wait.                                                                   *)
LEMMA SysWaitInv ==
    ASSUME Inv, NEW c \in Cpus, SysWait(c)
    PROVE  Inv'
<1> DEFINE k == Entered
           s == cur[c]
           call == tasks[s].call
           mine == Children(k.t, k.t[ProcessSlot(k.t, s)].pid, call.id)
           child == FirstOf({x \in mine : Reportable(k.t[x], call.arg)})
           notYet == IF child = 0 THEN mine # {}
                     ELSE k.t[child].zombie /\ ~CanReap(k.t, k.o, child)
           k1 == IF child = 0 \/ notYet THEN k ELSE Report(k, child)
<1>1. mode[c] = "syscall" /\ lock = NoCpu
    BY DEF SysWait, Locked
<1>2. Prunes(K, k) /\ KernelInv(k)
    BY EnteredPrunes DEF Inv
<1>3. Leave(c, BlockAndRestart(k, c, s, "Child")) \/ Leave(c, Return(k1, s))
    BY DEF SysWait
<1>4. s = cur[c] /\ "Child" \in WaitReasons
    BY DEF WaitReasons
<1> HIDE DEF k, call
<1>5. child \in DOMAIN k.t \cup {0}
    <2> DEFINE S == {x \in mine : Reportable(k.t[x], call.arg)}
    <2>1. S \in SUBSET DOMAIN k.t /\ S \in SUBSET Slots
        BY <1>2 DEF Children, KernelInv, KernelStateOK, TableOK
    <2>2. child = FirstOf(S)
        OBVIOUS
    <2> HIDE DEF S, child
    <2>3. QED
        BY <2>1, <2>2, FirstOfInSet
<1> HIDE DEF child, notYet, s
<1>6. Prunes(K, k1)
    BY <1>2, <1>5, ReportPrunes, PrunesTransitive
<1> HIDE DEF k1
<1>7. QED
    BY <1>1, <1>2, <1>3, <1>4, <1>6, PruneAndReturnInv, BlockInv

(* The arguments of the call a task makes are ones user programs make.     *)
LEMMA CallTyped ==
    ASSUME NEW k, KernelInv(k), NEW s \in DOMAIN k.t
    PROVE  /\ k.t[s].call.sig \in {0} \cup Signals
           /\ k.t[s].call.op = "sigaction" => k.t[s].call.arg \in Dispositions
<1>1. k.t[s].call \in Calls \cup {NoCall}
    BY TaskTyped DEF Task
<1>2. QED
    BY <1>1, CallsAssumption DEF NoCall, Call

(* kill.                                                                   *)
LEMMA SysKillInv ==
    ASSUME Inv, NEW c \in Cpus, SysKill(c)
    PROVE  Inv'
<1> DEFINE k == Entered
           s == cur[c]
           call == tasks[s].call
           target == SlotByPid(k.t, call.id)
           k1 == IF call.sig = 0 \/ target = 0 THEN k ELSE SignalSlot(k, target, call.sig)
<1>1. mode[c] = "syscall" /\ lock = NoCpu /\ s # 0 /\ s = cur[c] /\ Leave(c, Complete(k1, c, s))
    BY DEF SysKill, Locked, Inv
<1>2. Prunes(K, k) /\ KernelInv(k)
    BY EnteredPrunes DEF Inv
<1> HIDE DEF k
<1>3. s \in DOMAIN tasks
    BY <1>1, <1>2, CallerSurvives DEF Inv
<1>4. KernelInv(K) /\ K.t = tasks
    BY DEF Inv, K
<1>5. call.sig \in {0} \cup Signals
    BY <1>3, <1>4, CallTyped
<1> HIDE DEF call
<1>6. target \in DOMAIN k.t \cup {0}
    BY <1>2, FirstOfInSet DEF SlotByPid, KernelInv, KernelStateOK, TableOK
<1> HIDE DEF target, s
<1>7. Rewrites(k, k1)
    BY <1>2, <1>5, <1>6, SignalSlotRewrites, RewriteNothing
<1> HIDE DEF k1
<1>8. Moves(k, k1, c)
    BY <1>2, <1>7, RewritesMoves
<1>9. QED
    BY <1>1, <1>2, <1>8, CompleteInv

(* sigaction.                                                              *)
LEMMA SysSigactionInv ==
    ASSUME Inv, NEW c \in Cpus, SysSigaction(c)
    PROVE  Inv'
<1> DEFINE k == Entered
           s == cur[c]
           call == tasks[s].call
           leader == ProcessSlot(tasks, s)
           h == [k.t[leader].handlers EXCEPT ![call.sig] = call.arg]
           x == [k.t[leader] EXCEPT !.handlers = h]
           j == [k EXCEPT !.t[leader] = x]
           k1 == IF call.sig \notin Catchable THEN k ELSE j
<1>1. mode[c] = "syscall" /\ lock = NoCpu /\ s # 0 /\ s = cur[c] /\ call.op = "sigaction"
    BY DEF SysSigaction, Locked, Inv
<1>2. Prunes(K, k) /\ KernelInv(k)
    BY EnteredPrunes DEF Inv
<1>3. leader \in DOMAIN k.t /\ s \in DOMAIN tasks
    BY <1>1, <1>2, CallerSurvives DEF Inv
<1>4. k.t[leader] \in Task
    BY <1>2, <1>3, TaskTyped
<1>5. Leave(c, Complete(k1, c, s))
    BY <1>2, <1>3, <1>4 DEF SysSigaction, KernelInv, IsKernelState, Task
<1>6. KernelInv(K) /\ K.t = tasks
    BY DEF Inv, K
<1>7. call.arg \in Dispositions
    BY <1>1, <1>3, <1>6, CallTyped
<1> HIDE DEF k, call, leader
<1>8. h \in [Catchable -> Dispositions]
    BY <1>4, <1>7 DEF Task
<1> HIDE DEF h
<1>9. x \in Task /\ SameFrame(leader, k.t[leader], x)
    BY <1>4, <1>8 DEF Task, SameFrame
<1> HIDE DEF x
<1>10. Rewrites(k, j)
    BY <1>2, <1>3, <1>9, RewriteTask
<1> HIDE DEF j
<1>11. Rewrites(k, k1)
    BY <1>2, <1>10, RewriteNothing
<1> HIDE DEF k1, s
<1>12. Moves(k, k1, c)
    BY <1>2, <1>11, RewritesMoves
<1>13. QED
    BY <1>1, <1>2, <1>5, <1>12, CompleteInv

(* A timer interrupt.                                                      *)
LEMMA TimerTickInv ==
    ASSUME Inv, NEW c \in Cpus, TimerTick(c)
    PROVE  Inv'
<1> DEFINE U == WakeWaiters(tasks, "Input")
           w == [K EXCEPT !.t = U]
           k == IF c = BSP THEN w ELSE K
           j == DeliverPending(Schedule(k, c), c)
           stack == IF mode[c] = "user" THEN esp0[c] ELSE 0
<1>1. KernelInv(K) /\ K.t = tasks /\ K.e = esp0
    BY DEF Inv, K
<1>2. /\ lock = NoCpu /\ Handoff(c, j) /\ stk' = [stk EXCEPT ![c] = stack]
      /\ userSched' \in BOOLEAN
    BY DEF TimerTick, K
<1>3. stack \in Pids \cup {0} /\ (stack # 0 => cur[c] # 0 /\ stack = esp0[c])
    BY <1>1 DEF Inv, KernelInv, KernelStateOK
<1>4. Evolves(tasks, U)
    BY <1>1, WakeWaitersEvolves DEF KernelInv, KernelStateOK
<1> HIDE DEF U, stack
<1>5. Rewrites(K, w)
    BY <1>1, <1>4, RewriteTable
<1> HIDE DEF w
<1>6. Rewrites(K, k)
    BY <1>1, <1>5, RewriteNothing
<1> HIDE DEF k
<1>7. Prunes(K, k) /\ KernelInv(k)
    BY <1>1, <1>6, RewritesPrunes, PrunesInv
<1>8. Moves(k, Schedule(k, c), c)
    BY <1>7, ScheduleMoves
<1>9. Moves(k, j, c)
    BY <1>8, DeliverMoves, MovesTransitive DEF Moves
<1> HIDE DEF j
<1>10. QED
    BY <1>2, <1>3, <1>7, <1>9, HandoffInv

(* A step outside the lock that rewrites tasks keeps what the lock         *)
(* protects, and every processor keeps the stack it stands on.             *)
LEMMA RewriteInPlace ==
    ASSUME Inv, Evolves(tasks, tasks'),
           UNCHANGED <<owner, cur, cr3, esp0, nextPid, deferred, openFds>>
    PROVE  /\ KernelInv(K')
           /\ \A c \in Cpus : stk'[c] = stk[c] /\ HoldsStack(c) => HoldsStack(c)'
<1>1. KernelInv(K) /\ K.t = tasks /\ IsKernelState(K) /\ IsKernelState(K')
    BY DEF Inv, K, IsKernelState
<1>2. K' = [K EXCEPT !.t = tasks']
    BY DEF K
<1>3. Rewrites(K, K')
    BY <1>1, <1>2, RewriteTable
<1>4. KernelInv(K')
    BY <1>1, <1>3, RewritesMoves
<1>5. QED
    BY <1>4 DEF HoldsStack, Evolves, SameFrame

(* Entering the kernel through int 0x80.                                   *)
LEMMA EnterSyscallInv ==
    ASSUME Inv, NEW c \in Cpus, NEW call \in Calls, EnterSyscall(c, call)
    PROVE  Inv'
<1> DEFINE s == cur[c]
           x == [tasks[s] EXCEPT !.call = call, !.again = FALSE]
<1>1. mode[c] = "user" /\ s # 0 /\ KernelInv(K) /\ K.t = tasks /\ K.u = cur
    BY DEF EnterSyscall, Inv, K
<1>2. s \in DOMAIN tasks
    BY <1>1 DEF KernelInv, CurrentOK
<1>3. tasks[s] \in Task /\ TableOK(tasks)
    BY <1>1, <1>2, TaskTyped DEF KernelInv, KernelStateOK
<1>4. tasks' = [tasks EXCEPT ![s] = x]
    BY <1>2, <1>3 DEF EnterSyscall, TableOK, Task
<1>5. x \in Task /\ SameFrame(s, tasks[s], x)
    BY <1>3 DEF Task, SameFrame
<1> HIDE DEF x
<1>6. Evolves(tasks, tasks')
    BY <1>2, <1>3, <1>4, <1>5, UpdateEvolves
<1>7. /\ KernelInv(K')
      /\ \A d \in Cpus : stk'[d] = stk[d] /\ HoldsStack(d) => HoldsStack(d)'
    BY <1>6, RewriteInPlace DEF EnterSyscall
<1>8. /\ mode' = [mode EXCEPT ![c] = "syscall"] /\ stk' = [stk EXCEPT ![c] = esp0[c]]
      /\ lock' = lock /\ userSched' = userSched /\ cur' = cur /\ esp0' = esp0
      /\ esp0[c] \in Pids \cup {0}
    BY <1>1 DEF EnterSyscall, KernelInv, KernelStateOK, K
<1>9. StackInv'
    BY <1>7, <1>8 DEF Inv, StackInv
<1>10. QED
    BY <1>1, <1>7, <1>8, <1>9 DEF Inv, Modes

(* Entering the kernel through a fault.                                    *)
LEMMA EnterFaultInv ==
    ASSUME Inv, NEW c \in Cpus, EnterFault(c)
    PROVE  Inv'
<1>1. mode[c] = "user" /\ KernelInv(K) /\ TableOK(tasks) /\ cur[c] # 0
    BY DEF EnterFault, Inv, KernelInv, KernelStateOK, K
<1>2. Evolves(tasks, tasks')
    BY <1>1, EvolvesReflexive DEF EnterFault
<1>3. /\ KernelInv(K')
      /\ \A d \in Cpus : stk'[d] = stk[d] /\ HoldsStack(d) => HoldsStack(d)'
    BY <1>2, RewriteInPlace DEF EnterFault
<1>4. /\ mode' = [mode EXCEPT ![c] = "fault"] /\ stk' = [stk EXCEPT ![c] = esp0[c]]
      /\ lock' = lock /\ userSched' = userSched /\ cur' = cur /\ esp0' = esp0
      /\ esp0[c] \in Pids \cup {0}
    BY <1>1 DEF EnterFault, KernelInv, KernelStateOK, K
<1>5. StackInv'
    BY <1>3, <1>4 DEF Inv, StackInv
<1>6. QED
    BY <1>1, <1>3, <1>4, <1>5 DEF Inv, Modes

(* Leaving the outgoing stack and the lock.                                *)
LEMMA FinishHandoffInv ==
    ASSUME Inv, NEW c \in Cpus, FinishHandoff(c)
    PROVE  Inv'
<1>1. mode[c] = "handoff" /\ KernelInv(K) /\ TableOK(tasks)
    BY DEF FinishHandoff, Inv, KernelInv, KernelStateOK, K
<1>2. Evolves(tasks, tasks')
    BY <1>1, EvolvesReflexive DEF FinishHandoff
<1>3. KernelInv(K')
    BY <1>2, RewriteInPlace DEF FinishHandoff
<1>4. /\ mode' = [mode EXCEPT ![c] = IF cur[c] = 0 THEN "idle" ELSE "user"]
      /\ stk' = [stk EXCEPT ![c] = 0]
      /\ lock' = NoCpu /\ userSched' = userSched /\ cur' = cur /\ esp0' = esp0
    BY DEF FinishHandoff
<1>5. \A d \in Cpus \ {c} : mode[d] # "handoff"
    BY <1>1 DEF Inv
<1>6. StackInv'
    BY <1>4, <1>5 DEF Inv, StackInv
<1>7. QED
    BY <1>3, <1>4, <1>5, <1>6 DEF Inv, Modes

(* Time passes.                                                            *)
LEMMA ClockReachesInv ==
    ASSUME Inv, NEW s \in Slots, ClockReaches(s)
    PROVE  Inv'
<1> DEFINE x == [tasks[s] EXCEPT !.deadline = "past"]
<1>1. KernelInv(K) /\ K.t = tasks /\ s \in DOMAIN tasks
    BY DEF ClockReaches, Inv, K
<1>2. tasks[s] \in Task /\ TableOK(tasks)
    BY <1>1, TaskTyped DEF KernelInv, KernelStateOK
<1>3. tasks' = [tasks EXCEPT ![s] = x]
    BY <1>1, <1>2 DEF ClockReaches, TableOK, Task
<1>4. x \in Task /\ SameFrame(s, tasks[s], x)
    BY <1>2 DEF Task, SameFrame
<1> HIDE DEF x
<1>5. Evolves(tasks, tasks')
    BY <1>1, <1>2, <1>3, <1>4, UpdateEvolves
<1>6. /\ KernelInv(K')
      /\ \A d \in Cpus : stk'[d] = stk[d] /\ HoldsStack(d) => HoldsStack(d)'
    BY <1>5, RewriteInPlace DEF ClockReaches
<1>7. UNCHANGED <<owner, cur, esp0, lock, mode, stk, userSched>>
    BY DEF ClockReaches
<1>8. StackInv'
    BY <1>6, <1>7 DEF Inv, StackInv
<1>9. QED
    BY <1>6, <1>7, <1>8 DEF Inv
-----------------------------------------------------------------------------
(* Init is well formed when there is a pid for init itself.                *)
LEMMA InitInv ==
    ASSUME Init
    PROVE  Inv
<1> DEFINE task == NewTask(1, 0, 1)
<1>1. 1 \in Pids /\ 0 \in 0..MaxPid /\ 1 \in Slots /\ 2 \in 1..(MaxPid + 1)
    BY TableAssumption DEF Pids, Slots
<1>2. task \in Task
    BY <1>1, NewTaskOK
<1>3. /\ task.leader = 1 /\ task.pid = 1 /\ task.pd = 1 /\ task.kstack = 1
      /\ ~task.is_thread /\ ~task.zombie
    BY DEF NewTask
<1>4. DOMAIN tasks = {1} /\ tasks[1] = task /\ tasks \in [{1} -> Task]
    BY <1>2 DEF Init
<1> HIDE DEF task
<1>5. /\ IsKernelState(K) /\ K.t = tasks /\ K.o = owner /\ K.u = cur /\ K.r = cr3
      /\ K.e = esp0 /\ K.n = 2 /\ K.d = {} /\ K.f = {1}
    BY DEF K, IsKernelState, Init
<1>6. TableOK(tasks)
    BY <1>1, <1>4 DEF TableOK
<1>7. KernelStateOK(K)
    BY <1>1, <1>5, <1>6 DEF KernelStateOK, Init
<1>8. GroupOK(tasks) /\ UniqueStacks(tasks) /\ StacksAllocated(K)
    BY <1>3, <1>4, <1>5 DEF GroupOK, UniqueStacks, StacksAllocated
<1>9. OwnersOK(owner, cur) /\ CurrentOK(K)
    BY <1>5 DEF OwnersOK, CurrentOK, Init, Slots, Cpus, NoCpu
<1>10. KernelInv(K)
    BY <1>5, <1>7, <1>8, <1>9 DEF KernelInv
<1>11. StackInv
    BY DEF StackInv, Init
<1>12. QED
    BY <1>10, <1>11 DEF Inv, Init, Modes

(* Every step of every processor keeps the invariant.                      *)
LEMMA NextInv ==
    ASSUME Inv, [Next]_vars
    PROVE  Inv'
<1>1. CASE UNCHANGED vars
    BY <1>1 DEF vars, Inv, K, StackInv, HoldsStack
<1>2. ASSUME NEW c \in Cpus, NEW call \in Calls, EnterSyscall(c, call)
      PROVE  Inv'
    BY <1>2, EnterSyscallInv
<1>3. ASSUME NEW c \in Cpus, EnterFault(c) \/ FinishHandoff(c) \/ TimerTick(c)
      PROVE  Inv'
    BY <1>3, EnterFaultInv, FinishHandoffInv, TimerTickInv
<1>4. ASSUME NEW c \in Cpus, Body(c)
      PROVE  Inv'
    BY <1>4, SysExitInv, SysExitGroupInv, SysYieldInv, SysNanosleepInv, SysReadInv,
       SysSpawnInv, SysSpawnBadInv, SysThreadCreateInv, SysThreadJoinInv,
       SysThreadDetachInv, SysWaitInv, SysKillInv, SysSigactionInv, LostTurnInv,
       FaultExitInv DEF Body
<1>5. ASSUME NEW s \in Slots, ClockReaches(s)
      PROVE  Inv'
    BY <1>5, ClockReachesInv
<1>6. QED
    BY <1>1, <1>2, <1>3, <1>4, <1>5 DEF Next

(* The inductive invariant: everything below is a consequence of it.       *)
THEOREM Invariance == Spec => []Inv
<1>1. Init => Inv
    BY InitInv
<1>2. Inv /\ [Next]_vars => Inv'
    BY NextInv
<1>3. QED
    BY <1>1, <1>2, PTL DEF Spec

(* Type correctness, for any number of slots, processors and pids: every   *)
(* slot, pid and signal number that the bodies of system calls, faults and *)
(* interrupts store is one that exists.                                    *)
THEOREM TypeCorrect == Spec => []TypeOK
<1>1. Inv => TypeOK
    BY DEF Inv, TypeOK, KernelInv
<1>2. QED
    BY <1>1, Invariance, PTL

(* TASK_OWNER and the per-CPU CURRENT_TASK never disagree, so the repair   *)
(* in claim_next_task is never needed and no task runs on two processors.  *)
THEOREM OwnersAgree == Spec => []OwnerMatchesCurrent
<1>1. Inv => OwnerMatchesCurrent
    BY DEF Inv, KernelInv, OwnersOK, OwnerMatchesCurrent, K
<1>2. QED
    BY <1>1, Invariance, PTL

(* No leader is reaped, nor its slot reused, under a thread that exists:   *)
(* reap, reap_thread, reap_detached_threads and reap_orphans free whole    *)
(* processes or single non-leaders.                                        *)
THEOREM GroupsIntact == Spec => []ThreadGroupIntact
<1>1. Inv => ThreadGroupIntact
    BY DEF Inv, KernelInv, GroupOK, ThreadGroupIntact, IsLeader, K
<1>2. QED
    BY <1>1, Invariance, PTL

(* The kernel stack a processor stands on is used by no other processor:   *)
(* the lock is held until the hand-off has left it.                        *)
THEOREM StacksExclusive == Spec => []KernelStackExclusive
<1>1. ASSUME Inv
      PROVE  KernelStackExclusive
    <2> SUFFICES ASSUME NEW c \in Cpus, NEW d \in Cpus, c # d, stk[c] # 0
                 PROVE  /\ stk[d] # stk[c]
                        /\ esp0[d] # stk[c] \/ cur[d] = 0
                        /\ cur[d] # 0 => tasks[cur[d]].kstack # stk[c]
        BY DEF KernelStackExclusive
    <2>1. KernelInv(K) /\ K.t = tasks /\ K.u = cur /\ K.e = esp0
        BY <1>1 DEF Inv, K
    <2>2. ASSUME NEW b \in Cpus, stk[b] # 0
          PROVE  HoldsStack(b)
        <3>1. mode[b] \in Modes
            BY <1>1 DEF Inv
        <3>2. CASE mode[b] = "handoff"
            BY <1>1, <2>2, <3>2 DEF Inv, StackInv
        <3>3. CASE mode[b] \in {"syscall", "fault"}
            <4>1. stk[b] = esp0[b] /\ cur[b] # 0
                BY <1>1, <3>3 DEF Inv, StackInv
            <4>2. cur[b] \in DOMAIN tasks /\ tasks[cur[b]].kstack = stk[b]
                BY <2>1, <4>1 DEF KernelInv, CurrentOK
            <4>3. \A a \in Cpus \ {b} : cur[a] # cur[b]
                BY <2>1, <4>1 DEF KernelInv, OwnersOK, KernelStateOK, K
            <4>4. QED
                BY <4>2, <4>3 DEF HoldsStack
        <3>4. QED
            BY <1>1, <2>2, <3>1, <3>2, <3>3 DEF Inv, StackInv, Modes
    <2>3. PICK s \in DOMAIN tasks : tasks[s].kstack = stk[c] /\ cur[d] # s
        BY <2>2 DEF HoldsStack
    <2>4. UniqueStacks(tasks)
        BY <2>1 DEF KernelInv
    <2>5. cur[d] # 0 => /\ cur[d] \in DOMAIN tasks
                        /\ esp0[d] = tasks[cur[d]].kstack
                        /\ tasks[cur[d]].kstack # stk[c]
        BY <2>1, <2>3, <2>4 DEF KernelInv, CurrentOK, UniqueStacks
    <2>6. stk[d] # stk[c]
        <3>1. CASE mode[d] = "handoff"
            <4>1. mode[c] \in {"syscall", "fault"}
                BY <1>1, <3>1 DEF Inv, StackInv, Modes
            <4>2. stk[c] = esp0[c] /\ cur[c] # 0
                BY <1>1, <4>1 DEF Inv, StackInv
            <4>3. cur[c] \in DOMAIN tasks /\ tasks[cur[c]].kstack = stk[c]
                BY <2>1, <4>2 DEF KernelInv, CurrentOK
            <4>4. SUFFICES ASSUME stk[d] = stk[c]
                           PROVE  FALSE
                OBVIOUS
            <4>5. PICK r \in DOMAIN tasks : tasks[r].kstack = stk[d] /\ cur[c] # r
                BY <2>2, <4>4 DEF HoldsStack
            <4>6. QED
                BY <2>4, <4>3, <4>4, <4>5 DEF UniqueStacks
        <3>2. CASE mode[d] # "handoff"
            BY <1>1, <2>5, <3>2 DEF Inv, StackInv, Modes
        <3>3. QED
            BY <3>1, <3>2
    <2>7. QED
        BY <2>5, <2>6
<1>2. QED
    BY <1>1, Invariance, PTL

(* Reaping never frees the stack a processor stands on nor the page        *)
(* directory it has loaded.                                                *)
THEOREM MemorySafe == Spec => []NoUseAfterFree
<1>1. ASSUME Inv
      PROVE  NoUseAfterFree
    <2> SUFFICES ASSUME NEW c \in Cpus
                 PROVE  /\ stk[c] # 0 => \E s \in DOMAIN tasks : tasks[s].kstack = stk[c]
                        /\ cr3[c] # 0 => \E s \in DOMAIN tasks :
                                            IsLeader(tasks, s) /\ tasks[s].pd = cr3[c]
        BY DEF NoUseAfterFree
    <2>1. /\ KernelInv(K) /\ K.t = tasks /\ K.u = cur /\ K.e = esp0 /\ K.r = cr3
          /\ mode[c] \in Modes
        BY <1>1 DEF Inv, K
    <2>2. cur[c] # 0 => /\ cur[c] \in DOMAIN tasks
                        /\ esp0[c] = tasks[cur[c]].kstack
                        /\ cr3[c] \in {0, tasks[cur[c]].pd}
        BY <2>1 DEF KernelInv, CurrentOK
    <2>3. cur[c] = 0 => cr3[c] = 0
        BY <2>1 DEF KernelInv, CurrentOK
    <2>4. cr3[c] # 0 => \E s \in DOMAIN tasks : IsLeader(tasks, s) /\ tasks[s].pd = cr3[c]
        BY <2>1, <2>2, <2>3 DEF KernelInv, GroupOK, IsLeader
    <2>5. stk[c] # 0 => \E s \in DOMAIN tasks : tasks[s].kstack = stk[c]
        BY <1>1, <2>1, <2>2 DEF Inv, StackInv, HoldsStack, Modes
    <2>6. QED
        BY <2>4, <2>5
<1>2. QED
    BY <1>1, Invariance, PTL
=============================================================================
