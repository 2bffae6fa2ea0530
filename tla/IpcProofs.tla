----------------------------- MODULE IpcProofs -----------------------------
(***************************************************************************)
(* What processes talk through, for every value of the constants: the      *)
(* mutex and the timed waits, for any number of threads, rounds, SIGCONTs  *)
(* and clock ticks; the counts that pipes keep of their ends and the FIFO  *)
(* channels they implement, for any number of processes, descriptors,      *)
(* pipes and bytes; and the socket tables, for any number of threads,      *)
(* sockets and packets.                                                    *)
(***************************************************************************)
EXTENDS MCIpc, FiniteSetTheorems, FunctionTheorems, SequenceTheorems, WellFoundedInduction, TLAPS

(***************************************************************************)
(* The mutex.  Mutual exclusion needs that the word is zero exactly when   *)
(* nobody is inside.  That no wake-up is lost is inductive only together   *)
(* with the thread between its load of the word and its sleep, which holds *)
(* the kernel lock.                                                        *)
(***************************************************************************)
LockerPcs == {"idle", "load", "cas", "swap", "wait", "enqueue", "asleep", "wake", "critical"}
Trying == {"wake", "load", "cas", "swap", "wait"}

FutexTyped ==
    /\ word \in {0, 1, 2}
    /\ locker \in [Lockers -> [pc : LockerPcs, state : {0, 1, 2}, rounds : Int]]
    /\ klock \in Lockers \cup {"free"}
    /\ queued \subseteq Lockers

OneInside ==
    /\ \A t, u \in Lockers : LockAt(t, "critical") /\ LockAt(u, "critical") => t = u
    /\ word = 0 <=> \A t \in Lockers : ~LockAt(t, "critical")

Sleepers ==
    /\ \A t \in queued : LockAt(t, "asleep")
    /\ \A t \in Lockers : LockAt(t, "enqueue") => klock = t

NoLostWake ==
    queued # {} \/ klock # "free" => word = 2 \/ \E t \in Lockers : locker[t].pc \in Trying

FutexInv == FutexTyped /\ OneInside /\ Sleepers /\ NoLostWake

(* The mutex starts free, with nobody inside or asleep.                    *)
LEMMA FutexInitInv ==
    ASSUME FutexInit
    PROVE  FutexInv
    BY FutexAssumption
    DEF FutexInit, FutexInv, FutexTyped, OneInside, Sleepers, NoLostWake, LockAt, LockerPcs

(* A step of one thread that leaves the queue and the kernel lock alone.   *)
LEMMA UserStepInv ==
    ASSUME FutexInv, NEW t \in Lockers,
           \/ try_lock(t) \/ reload(t) \/ compare_exchange(t) \/ swap_contended(t) \/ unlock(t)
    PROVE  FutexInv'
<1> DEFINE pcs == [u \in Lockers |-> locker[u].pc]
<1>1. FutexTyped /\ klock' = klock /\ queued' = queued
    BY DEF FutexInv, KeepFutex, try_lock, reload, compare_exchange, swap_contended, unlock
<1>2. /\ FutexTyped'
      /\ locker[t].pc \in {"idle", "load", "cas", "swap", "critical"}
      /\ \A u \in Lockers \ {t} : locker'[u] = locker[u]
    BY <1>1 DEF FutexTyped, LockAt, LockGoto, LockSaw, LockerPcs,
       try_lock, reload, compare_exchange, swap_contended, unlock
<1>3. \/ word = 0 /\ word' \in {1, 2} /\ locker'[t].pc = "critical" /\ locker[t].pc # "critical"
                  /\ (word' = 2 \/ locker[t].pc = "idle")
      \/ word' = word /\ locker'[t].pc \in Trying /\ locker[t].pc # "critical"
      \/ word # 0 /\ word' = 2 /\ locker'[t].pc \in Trying /\ locker[t].pc # "critical"
      \/ locker[t].pc = "critical" /\ word' = 0
                  /\ locker'[t].pc = (IF word = 2 THEN "wake" ELSE "idle")
    BY <1>1 DEF FutexTyped, LockAt, LockGoto, LockSaw, LockerPcs, Trying,
       try_lock, reload, compare_exchange, swap_contended, unlock
<1>4. OneInside'
    BY <1>1, <1>2, <1>3 DEF FutexInv, FutexTyped, OneInside, LockAt, Trying
<1>5. Sleepers'
    BY <1>1, <1>2, <1>3 DEF FutexInv, FutexTyped, Sleepers, LockAt, Trying
<1>6. NoLostWake'
    BY <1>1, <1>2, <1>3 DEF FutexInv, FutexTyped, NoLostWake, Trying
<1>7. QED
    BY <1>2, <1>4, <1>5, <1>6 DEF FutexInv

(* FUTEX_WAIT and FUTEX_WAKE.                                              *)
LEMMA FutexCallInv ==
    ASSUME FutexInv, NEW t \in Lockers, futex_load(t) \/ futex_block(t) \/ futex_wake(t)
    PROVE  FutexInv'
<1>1. FutexTyped /\ word' = word /\ "free" \notin Lockers
    BY FutexAssumption DEF FutexInv, futex_load, futex_block, futex_wake
<1>2. CASE futex_load(t)
    <2>1. /\ FutexTyped' /\ queued' = queued /\ locker[t].pc = "wait" /\ klock = "free"
          /\ \A u \in Lockers \ {t} : locker'[u] = locker[u]
          /\ \/ word = 2 /\ klock' = t /\ locker'[t].pc = "enqueue"
             \/ klock' = "free" /\ locker'[t].pc = "load"
        BY <1>1, <1>2 DEF futex_load, FutexTyped, LockAt, LockGoto, LockerPcs
    <2>2. OneInside' /\ Sleepers'
        BY <1>1, <2>1 DEF FutexInv, OneInside, Sleepers, LockAt, FutexTyped
    <2>3. NoLostWake'
        BY <1>1, <2>1 DEF NoLostWake, Trying
    <2>4. QED
        BY <2>1, <2>2, <2>3 DEF FutexInv
<1>3. CASE futex_block(t)
    <2>1. /\ FutexTyped' /\ queued' = queued \cup {t} /\ locker[t].pc = "enqueue"
          /\ \A u \in Lockers \ {t} : locker'[u] = locker[u]
          /\ klock' = "free" /\ locker'[t].pc = "asleep"
        BY <1>1, <1>3 DEF futex_block, FutexTyped, LockAt, LockGoto, LockerPcs
    <2>2. klock = t
        BY <2>1 DEF FutexInv, Sleepers, LockAt
    <2>3. OneInside' /\ Sleepers'
        BY <1>1, <2>1, <2>2 DEF FutexInv, OneInside, Sleepers, LockAt, FutexTyped
    <2>4. NoLostWake'
        BY <1>1, <2>1, <2>2 DEF FutexInv, NoLostWake, Trying
    <2>5. QED
        BY <2>1, <2>3, <2>4 DEF FutexInv
<1>4. CASE futex_wake(t)
    <2>1. locker[t].pc = "wake" /\ klock = "free" /\ klock' = klock
        BY <1>4 DEF futex_wake, wake_lock, LockAt
    <2>2. CASE queued = {}
        <3>1. /\ FutexTyped' /\ queued' = {} /\ locker'[t].pc = "idle"
              /\ \A u \in Lockers \ {t} : locker'[u] = locker[u]
            BY <1>1, <1>4, <2>1, <2>2 DEF futex_wake, FutexTyped, LockGoto, LockerPcs
        <3>2. OneInside' /\ Sleepers' /\ NoLostWake'
            BY <1>1, <2>1, <3>1 DEF FutexInv, OneInside, Sleepers, NoLostWake, LockAt, FutexTyped
        <3>3. QED
            BY <3>1, <3>2 DEF FutexInv
    <2>3. CASE queued # {}
        <3>1. PICK w \in queued :
                  /\ queued' = queued \ {w}
                  /\ locker' = [locker EXCEPT ![t].pc = "idle", ![w].pc = "load"]
            BY <1>4, <2>3 DEF futex_wake
        <3>2. w \in Lockers /\ locker[w].pc = "asleep" /\ w # t
            BY <2>1, <3>1 DEF FutexInv, FutexTyped, Sleepers, LockAt
        <3>3. /\ FutexTyped' /\ locker'[t].pc = "idle" /\ locker'[w].pc = "load"
              /\ \A u \in Lockers \ {t, w} : locker'[u] = locker[u]
            BY <1>1, <2>1, <3>1, <3>2 DEF FutexTyped, LockerPcs
        <3>4. OneInside' /\ Sleepers'
            BY <1>1, <2>1, <3>1, <3>2, <3>3 DEF FutexInv, OneInside, Sleepers, LockAt, FutexTyped
        <3>5. NoLostWake'
            BY <3>2, <3>3 DEF NoLostWake, Trying
        <3>6. QED
            BY <3>3, <3>4, <3>5 DEF FutexInv
    <2>4. QED
        BY <2>2, <2>3
<1>5. QED
    BY <1>2, <1>3, <1>4

(* SIGCONT wakes every sleeper.                                            *)
LEMMA ContinueTaskInv ==
    ASSUME FutexInv, continue_task
    PROVE  FutexInv'
<1>1. FutexTyped /\ word' = word /\ klock = "free" /\ klock' = klock /\ queued' = {}
    BY DEF FutexInv, continue_task
<1>2. /\ FutexTyped'
      /\ \A t \in queued : locker'[t].pc = "load" /\ locker[t].pc = "asleep"
      /\ \A t \in Lockers \ queued : locker'[t] = locker[t]
    BY <1>1 DEF FutexInv, Sleepers, LockAt, continue_task, FutexTyped, LockerPcs
<1>3. \A t \in Lockers : \A pc \in {"critical", "enqueue"} : LockAt(t, pc)' <=> LockAt(t, pc)
    BY <1>1, <1>2 DEF FutexTyped, LockAt
<1>4. OneInside' /\ Sleepers' /\ NoLostWake'
    BY <1>1, <1>3 DEF FutexInv, OneInside, Sleepers, NoLostWake
<1>5. QED
    BY <1>2, <1>4 DEF FutexInv

(* Every step of the mutex and of the kernel below it.                     *)
LEMMA FutexNextInv ==
    ASSUME FutexInv, [FutexNext]_futexVars
    PROVE  FutexInv'
<1>1. CASE UNCHANGED futexVars
    BY <1>1 DEF futexVars, FutexInv, FutexTyped, OneInside, Sleepers, NoLostWake, LockAt
<1>2. CASE FutexNext
    BY <1>2, UserStepInv, FutexCallInv, ContinueTaskInv DEF FutexNext, LockerStep
<1>3. QED
    BY <1>1, <1>2

(* What the invariant says of the two properties.                          *)
LEMMA FutexInvSound ==
    ASSUME FutexInv
    PROVE  MutualExclusion /\ SleeperHasWaker
<1>1. MutualExclusion
    <2> DEFINE S == {t \in Lockers : LockAt(t, "critical")}
    <2>1. S = {} \/ \E t \in Lockers : S = {t}
        BY DEF FutexInv, OneInside
    <2>2. Cardinality(S) <= 1
        BY <2>1, FS_EmptySet, FS_Singleton
    <2>3. QED
        BY <2>2 DEF MutualExclusion
<1>2. SleeperHasWaker
    BY DEF FutexInv, FutexTyped, OneInside, NoLostWake, SleeperHasWaker, Trying
<1>3. QED
    BY <1>1, <1>2

(* lib/src/mutex.rs on sys_futex, for any number of threads: the guard is  *)
(* exclusive and no thread sleeps without one that will wake it, whatever  *)
(* SIGCONTs and failed weak exchanges come in between.                     *)
THEOREM MutexSafe == FutexSpec => [](MutualExclusion /\ SleeperHasWaker)
<1>1. FutexInit => FutexInv
    BY FutexInitInv
<1>2. FutexInv /\ [FutexNext]_futexVars => FutexInv'
    BY FutexNextInv
<1>3. FutexInv => MutualExclusion /\ SleeperHasWaker
    BY FutexInvSound
<1>4. QED
    BY <1>1, <1>2, <1>3, PTL DEF FutexSpec
-----------------------------------------------------------------------------
(***************************************************************************)
(* The deadline that nanosleep, FUTEX_WAIT and poll share.  Unless SIGCONT *)
(* ended a wait with its deadline set, a call in progress has its own      *)
(* deadline in wake_deadline_ms, and between calls there is none.          *)
(***************************************************************************)
TimedInv ==
    /\ uptime \in Nat \ {0} /\ deadline \in Nat /\ due \in Nat /\ repoll \in Nat
    /\ early \in BOOLEAN /\ stale \in BOOLEAN
    /\ blockedOn \in {"running", "Futex", "Timer", "Poll"}
    /\ blockedOn = "Poll" => repoll # 0
    /\ blockedOn \in {"Futex", "Timer"} => repoll = 0
    /\ ~stale =>
        /\ blockedOn # "running" \/ repoll # 0 => deadline = due /\ due # 0
        /\ blockedOn = "running" /\ repoll = 0 => deadline = 0
        /\ ~early

(* One execution of sys_poll with its deadline still ahead or just set.    *)
LEMMA PollOnceInv ==
    ASSUME TimedInv, NEW ms \in Nat \ {0}, NEW end \in Nat \ {0}, blockedOn = "running",
           ~stale => poll_deadline(ms) = end,
           PollOnce(ms, end), due' = end, UNCHANGED <<uptime, stale>>
    PROVE  TimedInv'
    BY DEF TimedInv, PollOnce, poll_deadline

(* Every call, tick, wake-up and SIGCONT.                                  *)
LEMMA TimedNextInv ==
    ASSUME TimedInv, [TimedNext]_timedVars
    PROVE  TimedInv'
<1>1. CASE UNCHANGED timedVars
    BY <1>1 DEF timedVars, TimedInv
<1>2. ASSUME NEW ms \in 1..MaxTimeout, poll_first(ms)
      PROVE  TimedInv'
    <2>1. ms \in Nat \ {0} /\ uptime + ms \in Nat \ {0} /\ blockedOn = "running" /\ repoll = 0
        BY <1>2, TimedAssumption DEF TimedInv, poll_first, MayStart
    <2>2. ~stale => poll_deadline(ms) = uptime + ms
        BY <2>1 DEF TimedInv, poll_deadline
    <2>3. QED
        BY <1>2, <2>1, <2>2, PollOnceInv DEF poll_first
<1>3. ASSUME NEW ms \in 1..MaxTimeout, NEW c \in {"Futex", "Timer"}, timed_wait(c, ms)
      PROVE  TimedInv'
    <2>1. ms \in Nat \ {0}
        BY TimedAssumption
    <2>2. QED
        BY <1>3, <2>1 DEF TimedInv, timed_wait, MayStart
<1>4. CASE poll_again
    <2>1. /\ blockedOn = "running" /\ repoll \in Nat \ {0} /\ due' = due
          /\ PollOnce(repoll, due) /\ UNCHANGED <<uptime, stale>>
        BY <1>4 DEF TimedInv, poll_again
    <2>2. CASE ~stale
        <3>1. due \in Nat \ {0} /\ poll_deadline(repoll) = due
            BY <2>1, <2>2 DEF TimedInv, poll_deadline
        <3>2. QED
            BY <2>1, <3>1, PollOnceInv
    <2>3. CASE stale
        <3>1. stale' /\ stale' \in BOOLEAN
            BY <2>1, <2>3, Zenon DEF TimedInv
        <3>2. early' \in BOOLEAN
            BY <2>1, Zenon DEF TimedInv, PollOnce
        <3>3. QED
            BY <2>1, <3>1, <3>2 DEF TimedInv, PollOnce, poll_deadline
    <2>4. QED
        BY <2>2, <2>3 DEF TimedInv
<1>5. CASE timer_tick
    <2>1. early' \in BOOLEAN
        BY <1>5, Zenon DEF timer_tick
    <2>2. ~stale => ~early'
        <3>1. ~stale /\ blockedOn \in {"Futex", "Timer"} => deadline = due
            BY DEF TimedInv
        <3>2. deadline # 0 /\ uptime + 1 >= deadline /\ deadline = due => ~(uptime + 1 < due)
            BY DEF TimedInv
        <3>3. ~stale => ~early
            BY DEF TimedInv
        <3>4. early' = (early \/ (/\ blockedOn \in {"Futex", "Timer"}
                                 /\ deadline # 0 /\ uptime + 1 >= deadline
                                 /\ uptime + 1 < due))
            BY <1>5, Zenon DEF timer_tick
        <3>5. QED
            BY <3>1, <3>2, <3>3, <3>4, Zenon
    <2>3. QED
        BY <1>5, <2>1, <2>2 DEF TimedInv, timer_tick
<1>6. CASE wake_poll
    BY <1>6 DEF TimedInv, wake_poll
<1>7. CASE sigcont
    <2>1. stale' \in BOOLEAN
        BY <1>7, Zenon DEF sigcont
    <2>2. ~stale' => ~stale /\ blockedOn \notin {"Futex", "Timer"}
        BY <1>7, Zenon DEF sigcont
    <2>3. QED
        BY <1>7, <2>1, <2>2 DEF TimedInv, sigcont
<1>8. ASSUME TimedNext
      PROVE  TimedInv'
    <2>1. CASE \E ms \in 1..MaxTimeout :
                  poll_first(ms) \/ \E c \in {"Futex", "Timer"} : timed_wait(c, ms)
        BY <2>1, <1>2, <1>3, Zenon
    <2>2. QED
        BY <1>8, <2>1, <1>4, <1>5, <1>6, <1>7, Zenon DEF TimedNext
<1>9. QED
    BY <1>1, <1>8
-----------------------------------------------------------------------------
(* The invariants of the two, each while its component runs.               *)
WaitsInv == (part = "futex" => FutexInv) /\ (part = "timed" => TimedInv)

(* Mutex and timed waits of MCIpc's composition, for every value of the    *)
(* constants: the mutex of lib/src/mutex.rs is exclusive and loses no      *)
(* wake-up, and a call with a timeout (sys_poll, sys_futex, nanosleep)     *)
(* waits for its own deadline and does not report it early.                *)
THEOREM WaitsAreSound == MCSpec => []WaitsSound
<1>1. MCInit => WaitsInv
    <2>1. MCInit => FutexInit /\ TimedInit
        BY Zenon DEF MCInit
    <2>2. ASSUME TimedInit
          PROVE  TimedInv
        <3>1. early \in BOOLEAN /\ stale \in BOOLEAN /\ ~early
            BY <2>2, Zenon DEF TimedInit
        <3>2. QED
            BY <2>2, <3>1 DEF TimedInit, TimedInv
    <2>3. QED
        BY <2>1, <2>2, FutexInitInv, Zenon DEF WaitsInv
<1>2. ASSUME WaitsInv, [MCNext]_mcVars
      PROVE  WaitsInv'
    <2>1. part' = part
        BY <1>2 DEF MCNext, mcVars
    <2>2. CASE part = "futex"
        BY <1>2, <2>1, <2>2, FutexNextInv DEF MCNext, mcVars, futexVars, WaitsInv
    <2>3. CASE part = "timed"
        BY <1>2, <2>1, <2>3, TimedNextInv DEF MCNext, mcVars, timedVars, WaitsInv
    <2>4. QED
        BY <2>1, <2>2, <2>3 DEF WaitsInv
<1>3. WaitsInv => WaitsSound
    BY FutexInvSound DEF WaitsInv, WaitsSound, TimedInv, DeadlineExact, TimeoutNotEarly
<1>4. QED
    BY <1>1, <1>2, <1>3, PTL DEF MCSpec
-----------------------------------------------------------------------------
(* The least element of a set of naturals.                                 *)
LEMMA LeastOf ==
    ASSUME NEW S \in SUBSET Nat, S # {}
    PROVE  \E m \in S : \A x \in S : m <= x
<1>1. PICK m \in S : \A x \in S : ~(<<x, m>> \in OpToRel(<, Nat))
    BY NatLessThanWellFounded, WFMin, Zenon
<1>2. \A x \in S : ~(x < m)
    BY <1>1 DEF OpToRel
<1>3. QED
    BY <1>2

(* The least free slot of a table is a free slot.                          *)
LEMMA LeastIn ==
    ASSUME NEW S \in SUBSET Nat, S # {}
    PROVE  Least(S) \in S
    BY LeastOf DEF Least

(***************************************************************************)
(* States as records, and what the counts need of them.                    *)
(***************************************************************************)
IsState(s) ==
    s = [pipes |-> s.pipes, table |-> s.table, state |-> s.state, parent |-> s.parent,
         nonblock |-> s.nonblock, call |-> s.call, pending |-> s.pending,
         deferred |-> s.deferred, got |-> s.got]

IsRing(x) ==
    /\ x = [buf |-> x.buf, head |-> x.head, tail |-> x.tail, len |-> x.len,
            readers |-> x.readers, writers |-> x.writers, in_use |-> x.in_use]
    /\ x.in_use \in BOOLEAN

Dead(s, p) == s.state[p] \in {"none", "zombie"}

OfPipe(s, i, end) == {e \in OpenFiles(s) : e.pipe = i /\ e.end = end}

(* The counts of one pipe.                                                 *)
Counted(s, i) ==
    /\ s.pipes[i].in_use <=> OfPipe(s, i, "r") \cup OfPipe(s, i, "w") # {}
    /\ s.pipes[i].in_use => /\ s.pipes[i].readers = Cardinality(OfPipe(s, i, "r"))
                            /\ s.pipes[i].writers = Cardinality(OfPipe(s, i, "w"))

ShapeOK(s) ==
    /\ IsState(s)
    /\ s.table = [p \in Procs |-> [fd \in Fds |-> s.table[p][fd]]]
    /\ \A p \in Procs, fd \in Fds : IsPipe(s.table[p][fd]) => s.table[p][fd].pipe \in PipeIds
    /\ s.pipes = [i \in PipeIds |-> s.pipes[i]]
    /\ \A i \in PipeIds : IsRing(s.pipes[i])
    /\ s.state = [p \in Procs |-> s.state[p]]
    /\ s.deferred \subseteq Procs

(* A dead process holds pipe ends only until its clean-up.                 *)
DeadClosed(s) ==
    \A p \in Procs : Dead(s, p) /\ p \notin s.deferred => \A fd \in Fds : ~IsPipe(s.table[p][fd])

PipeInv(s) ==
    /\ ShapeOK(s)
    /\ \A p \in s.deferred : s.state[p] = "zombie"
    /\ DeadClosed(s)
    /\ \A i \in PipeIds : Counted(s, i)

(* There are finitely many open file descriptions.                         *)
LEMMA OpenFilesFinite ==
    ASSUME NEW s
    PROVE  IsFiniteSet(OpenFiles(s))
<1>1. IsFiniteSet(Fds)
    BY DescriptorAssumption, FS_Interval DEF Fds
<1>2. IsFiniteSet(Slots)
    BY <1>1, DescriptorAssumption, FS_Product DEF Slots
<1>3. IsFiniteSet(PipeSlots(s))
    BY <1>2, FS_Subset DEF PipeSlots
<1> DEFINE f == [slot \in PipeSlots(s) |-> At(s, slot)]
<1>4. f \in Surjection(PipeSlots(s), OpenFiles(s))
    BY DEF Surjection, OpenFiles
<1>5. QED
    BY <1>3, <1>4, FS_Surjection

(***************************************************************************)
(* A step that leaves tables, counts and the dead alone.                   *)
(***************************************************************************)
Calm(s, t) ==
    /\ IsState(t)
    /\ t.table = s.table /\ t.deferred = s.deferred
    /\ t.pipes = [i \in PipeIds |-> t.pipes[i]]
    /\ \A i \in PipeIds : /\ IsRing(t.pipes[i])
                          /\ t.pipes[i].readers = s.pipes[i].readers
                          /\ t.pipes[i].writers = s.pipes[i].writers
                          /\ t.pipes[i].in_use = s.pipes[i].in_use
    /\ t.state = [p \in Procs |-> t.state[p]]
    /\ \A p \in Procs : t.state[p] = s.state[p] \/ (~Dead(s, p) /\ ~Dead(t, p))

LEMMA SameFiles ==
    ASSUME NEW s, NEW t, t.table = s.table
    PROVE  OpenFiles(t) = OpenFiles(s)
    BY DEF OpenFiles, PipeSlots, At

LEMMA CalmInv ==
    ASSUME NEW s, NEW t, PipeInv(s), Calm(s, t)
    PROVE  PipeInv(t)
<1>1. ShapeOK(t)
    BY DEF PipeInv, ShapeOK, Calm
<1>2. \A p \in t.deferred : t.state[p] = "zombie"
    BY DEF PipeInv, ShapeOK, Calm, Dead
<1>3. DeadClosed(t)
    BY DEF PipeInv, DeadClosed, Calm, Dead
<1>4. OpenFiles(t) = OpenFiles(s)
    BY SameFiles DEF Calm
<1>5. \A i \in PipeIds : Counted(t, i)
    BY <1>4 DEF PipeInv, Calm, Counted, OfPipe
<1>6. QED
    BY <1>1, <1>2, <1>3, <1>5 DEF PipeInv

LEMMA CalmTrans ==
    ASSUME NEW s, NEW t, NEW u, Calm(s, t), Calm(t, u)
    PROVE  Calm(s, u)
    BY DEF Calm, Dead

LEMMA CalmSelf ==
    ASSUME NEW s, PipeInv(s)
    PROVE  Calm(s, s)
    BY DEF Calm, PipeInv, ShapeOK

LEMMA WakeCalm ==
    ASSUME NEW s, PipeInv(s), NEW reason \in {"input", "child"}
    PROVE  Calm(s, WakeWaiters(s, reason))
<1> DEFINE st == [p \in Procs |-> IF s.state[p] = reason THEN "running" ELSE s.state[p]]
           t == WakeWaiters(s, reason)
<1>1. /\ t.pipes = s.pipes /\ t.table = s.table /\ t.deferred = s.deferred
      /\ t.state = st
      /\ IsState(t)
    BY DEF PipeInv, ShapeOK, IsState, WakeWaiters
<1>2. \A p \in Procs : t.state[p] = s.state[p] \/ (~Dead(s, p) /\ ~Dead(t, p))
    BY <1>1 DEF Dead
<1>3. QED
    BY <1>1, <1>2 DEF Calm, PipeInv, ShapeOK

(* A call that changes fields the counts do not depend on.                 *)
LEMMA SameFieldsCalm ==
    ASSUME NEW s, PipeInv(s), NEW t, IsState(t), t.pipes = s.pipes, t.table = s.table,
           t.deferred = s.deferred, t.state = s.state
    PROVE  Calm(s, t)
    BY DEF Calm, PipeInv, ShapeOK

LEMMA FieldsCalm ==
    ASSUME NEW s, PipeInv(s), NEW x, NEW p \in Procs
    PROVE  /\ Calm(s, [s EXCEPT !.nonblock = x])
           /\ Calm(s, [s EXCEPT !.got[p] = x])
           /\ Calm(s, [s EXCEPT !.call[p] = x])
<1>1. IsState(s)
    BY DEF PipeInv, ShapeOK
<1>2. Calm(s, [s EXCEPT !.nonblock = x])
    <2> DEFINE t == [s EXCEPT !.nonblock = x]
    <2>1. IsState(t) /\ t.pipes = s.pipes /\ t.table = s.table /\ t.deferred = s.deferred /\ t.state = s.state
        BY <1>1 DEF IsState
    <2>2. QED
        BY <2>1, SameFieldsCalm
<1>3. Calm(s, [s EXCEPT !.got[p] = x])
    <2> DEFINE t == [s EXCEPT !.got[p] = x]
    <2>1. IsState(t) /\ t.pipes = s.pipes /\ t.table = s.table /\ t.deferred = s.deferred /\ t.state = s.state
        BY <1>1 DEF IsState
    <2>2. QED
        BY <2>1, SameFieldsCalm
<1>4. Calm(s, [s EXCEPT !.call[p] = x])
    <2> DEFINE t == [s EXCEPT !.call[p] = x]
    <2>1. IsState(t) /\ t.pipes = s.pipes /\ t.table = s.table /\ t.deferred = s.deferred /\ t.state = s.state
        BY <1>1 DEF IsState
    <2>2. QED
        BY <2>1, SameFieldsCalm
<1>5. QED
    BY <1>2, <1>3, <1>4

(* A process that runs or waits may change to another such state.          *)
LEMMA SameButState ==
    ASSUME NEW s, PipeInv(s), NEW t, NEW p \in Procs, ~Dead(s, p),
           NEW st \in {"running", "input", "child"},
           IsState(t), t.pipes = s.pipes, t.table = s.table, t.deferred = s.deferred,
           t.state = [s.state EXCEPT ![p] = st]
    PROVE  Calm(s, t)
<1>1. t.state = [q \in Procs |-> t.state[q]] /\ \A q \in Procs : t.state[q] = IF q = p THEN st ELSE s.state[q]
    BY DEF PipeInv, ShapeOK
<1>2. QED
    BY <1>1 DEF Calm, PipeInv, ShapeOK, Dead

LEMMA BlockCalm ==
    ASSUME NEW s, PipeInv(s), NEW p \in Procs, ~Dead(s, p), NEW st \in {"running", "input", "child"},
           NEW c
    PROVE  Calm(s, [s EXCEPT !.state[p] = st, !.call[p] = c])
<1> SUFFICES ASSUME NEW t, t = [s EXCEPT !.state[p] = st, !.call[p] = c]
             PROVE  Calm(s, t)
    OBVIOUS
<1>1. IsState(s)
    BY DEF PipeInv, ShapeOK
<1>2. IsState(t)
    BY <1>1 DEF IsState
<1>3. t.pipes = s.pipes /\ t.table = s.table /\ t.deferred = s.deferred
    BY <1>1 DEF IsState
<1>4. t.state = [s.state EXCEPT ![p] = st]
    BY <1>1 DEF IsState
<1>5. QED
    BY <1>2, <1>3, <1>4, SameButState

LEMMA WakeOneCalm ==
    ASSUME NEW s, PipeInv(s), NEW p \in Procs, ~Dead(s, p), NEW st \in {"running", "input", "child"},
           NEW ps
    PROVE  Calm(s, [s EXCEPT !.pending = ps, !.state[p] = st])
<1> SUFFICES ASSUME NEW t, t = [s EXCEPT !.pending = ps, !.state[p] = st]
             PROVE  Calm(s, t)
    OBVIOUS
<1>1. IsState(s)
    BY DEF PipeInv, ShapeOK
<1>2. IsState(t)
    BY <1>1 DEF IsState
<1>3. t.pipes = s.pipes /\ t.table = s.table /\ t.deferred = s.deferred
    BY <1>1 DEF IsState
<1>4. t.state = [s.state EXCEPT ![p] = st]
    BY <1>1 DEF IsState
<1>5. QED
    BY <1>2, <1>3, <1>4, SameButState

(* A ring is read or written.                                              *)
LEMMA RingCalm ==
    ASSUME NEW s, PipeInv(s), NEW i \in PipeIds, NEW a, NEW b, NEW c, NEW d, NEW p \in Procs
    PROVE  /\ Calm(s, [s EXCEPT !.pipes[i].tail = a, !.pipes[i].len = b, !.got[p] = d])
           /\ Calm(s, [s EXCEPT !.pipes[i].head = a, !.pipes[i].len = b, !.pipes[i].buf = c])
<1>1. IsState(s) /\ s.pipes = [j \in PipeIds |-> s.pipes[j]] /\ \A j \in PipeIds : IsRing(s.pipes[j])
    BY DEF PipeInv, ShapeOK
<1>2. ASSUME NEW t, NEW x, IsState(t), t.table = s.table, t.deferred = s.deferred, t.state = s.state,
             t.pipes = [s.pipes EXCEPT ![i] = x], IsRing(x),
             x.readers = s.pipes[i].readers, x.writers = s.pipes[i].writers,
             x.in_use = s.pipes[i].in_use
      PROVE  Calm(s, t)
    <2>1. t.pipes = [j \in PipeIds |-> IF j = i THEN x ELSE s.pipes[j]]
        BY <1>1, <1>2
    <2>2. QED
        BY <1>1, <1>2, <2>1 DEF Calm, PipeInv, ShapeOK
<1>3. ASSUME NEW t, t = [s EXCEPT !.pipes[i].tail = a, !.pipes[i].len = b, !.got[p] = d]
      PROVE  Calm(s, t)
    <2>1. IsState(t)
        BY <1>1, <1>3 DEF IsState
    <2>2. t.table = s.table /\ t.deferred = s.deferred /\ t.state = s.state
        BY <1>1, <1>3 DEF IsState
    <2>3. t.pipes = [s.pipes EXCEPT ![i].tail = a, ![i].len = b]
        BY <1>1, <1>3 DEF IsState
    <2>4. PICK x : x = [s.pipes[i] EXCEPT !.tail = a, !.len = b]
        OBVIOUS
    <2>5. IsRing(x) /\ x.readers = s.pipes[i].readers /\ x.writers = s.pipes[i].writers
            /\ x.in_use = s.pipes[i].in_use
        <3>1. IsRing(s.pipes[i])
            BY <1>1
        <3>2. /\ x.readers = s.pipes[i].readers /\ x.writers = s.pipes[i].writers
              /\ x.in_use = s.pipes[i].in_use
            BY <3>1, <2>4 DEF IsRing
        <3>3. IsRing(x)
            BY <3>1, <3>2, <2>4 DEF IsRing
        <3>4. QED
            BY <3>2, <3>3
    <2>6. t.pipes = [s.pipes EXCEPT ![i] = x]
        <3>1. t.pipes = [j \in PipeIds |-> t.pipes[j]]
            BY <1>1, <2>3
        <3>2. \A j \in PipeIds : j # i => t.pipes[j] = s.pipes[j]
            BY <1>1, <2>3
        <3>3. t.pipes[i] = x
            BY <1>1, <2>3, <2>4
        <3>4. QED
            BY <1>1, <3>1, <3>2, <3>3
    <2>7. QED
        BY <1>2, <2>1, <2>2, <2>5, <2>6
<1>4. ASSUME NEW t, t = [s EXCEPT !.pipes[i].head = a, !.pipes[i].len = b, !.pipes[i].buf = c]
      PROVE  Calm(s, t)
    <2>1. IsState(t)
        BY <1>1, <1>4 DEF IsState
    <2>2. t.table = s.table /\ t.deferred = s.deferred /\ t.state = s.state
        BY <1>1, <1>4 DEF IsState
    <2>3. t.pipes = [s.pipes EXCEPT ![i].head = a, ![i].len = b, ![i].buf = c]
        BY <1>1, <1>4 DEF IsState
    <2>4. PICK x : x = [s.pipes[i] EXCEPT !.head = a, !.len = b, !.buf = c]
        OBVIOUS
    <2>5. IsRing(x) /\ x.readers = s.pipes[i].readers /\ x.writers = s.pipes[i].writers
            /\ x.in_use = s.pipes[i].in_use
        <3>1. IsRing(s.pipes[i])
            BY <1>1
        <3>2. /\ x.readers = s.pipes[i].readers /\ x.writers = s.pipes[i].writers
              /\ x.in_use = s.pipes[i].in_use
            BY <3>1, <2>4 DEF IsRing
        <3>3. IsRing(x)
            BY <3>1, <3>2, <2>4 DEF IsRing
        <3>4. QED
            BY <3>2, <3>3
    <2>6. t.pipes = [s.pipes EXCEPT ![i] = x]
        <3>1. t.pipes = [j \in PipeIds |-> t.pipes[j]]
            BY <1>1, <2>3
        <3>2. \A j \in PipeIds : j # i => t.pipes[j] = s.pipes[j]
            BY <1>1, <2>3
        <3>3. t.pipes[i] = x
            BY <1>1, <2>3, <2>4
        <3>4. QED
            BY <1>1, <3>1, <3>2, <3>3
    <2>7. QED
        BY <1>2, <2>1, <2>2, <2>5, <2>6
<1>5. QED
    BY <1>3, <1>4
-----------------------------------------------------------------------------
(* What remains of the open file descriptions of one end of a pipe.        *)
LEMMA EndCounted ==
    ASSUME NEW R, IsFiniteSet(R), NEW gone \in SUBSET R
    PROVE  /\ Minus(Cardinality(R), Cardinality(gone)) = Cardinality(R \ gone)
           /\ Cardinality(R \ gone) > 0 <=> R \ gone # {}
<1>1. R \cap gone = gone /\ IsFiniteSet(gone) /\ IsFiniteSet(R \ gone)
    BY FS_Subset, FS_Difference
<1>2. Cardinality(R \ gone) = Cardinality(R) - Cardinality(gone)
    BY <1>1, FS_Difference
<1>3. Cardinality(R) \in Nat /\ Cardinality(gone) \in Nat /\ Cardinality(R \ gone) \in Nat
    BY <1>1, FS_CardinalityType
<1>4. Cardinality(R \ gone) = 0 <=> R \ gone = {}
    BY <1>1, FS_EmptySet
<1>5. QED
    BY <1>2, <1>3, <1>4 DEF Minus
-----------------------------------------------------------------------------
(* Descriptors are closed: the open file descriptions that remain are      *)
(* those that another slot shares.                                         *)
CloseLeaves(s, slots, t) ==
    /\ IsState(t) /\ t.deferred = s.deferred
    /\ t.table = [p \in Procs |-> [fd \in Fds |-> t.table[p][fd]]]
    /\ \A p \in Procs, fd \in Fds :
           t.table[p][fd] = IF <<p, fd>> \in slots THEN Free ELSE s.table[p][fd]
    /\ t.pipes = [i \in PipeIds |-> CloseEnds(s.pipes[i],
           Cardinality({e \in Dropped(s, slots) : e.pipe = i /\ e.end = "r"}),
           Cardinality({e \in Dropped(s, slots) : e.pipe = i /\ e.end = "w"}))]
    /\ t.state = [p \in Procs |-> t.state[p]]
    /\ \A p \in Procs : t.state[p] = s.state[p] \/ (~Dead(s, p) /\ ~Dead(t, p))

LEMMA CloseFields ==
    ASSUME NEW s, PipeInv(s), NEW slots
    PROVE  CloseLeaves(s, slots, Close(s, slots))
<1> SUFFICES ASSUME NEW t, t = Close(s, slots)
             PROVE  CloseLeaves(s, slots, t)
    OBVIOUS
<1> DEFINE gone == Dropped(s, slots)
           Of(i, end) == Cardinality({e \in gone : e.pipe = i /\ e.end = end})
           tb == [p \in Procs |->
                      [fd \in Fds |-> IF <<p, fd>> \in slots THEN Free ELSE s.table[p][fd]]]
           pp == [i \in PipeIds |-> CloseEnds(s.pipes[i], Of(i, "r"), Of(i, "w"))]
           nb == s.nonblock \ {e.ofd : e \in gone}
<1>0. IsState(s) /\ s.state = [p \in Procs |-> s.state[p]]
    BY DEF PipeInv, ShapeOK
<1>1. PICK u : u = [s EXCEPT !.table = tb, !.pipes = pp, !.nonblock = nb]
    OBVIOUS
<1>2. Close(s, slots) = IF gone = {} THEN u ELSE WakeWaiters(u, "input")
    BY <1>1 DEF Close
<1> HIDE DEF tb, pp, nb
<1>3. /\ IsState(u)
      /\ u.table = tb /\ u.pipes = pp /\ u.deferred = s.deferred /\ u.state = s.state
    BY <1>0, <1>1 DEF IsState
<1>4. CASE gone = {}
    BY <1>0, <1>2, <1>3, <1>4 DEF tb, pp, CloseLeaves
<1>5. CASE gone # {}
    <2>1. t = WakeWaiters(u, "input")
        BY <1>2, <1>5
    <2>2. /\ IsState(t)
          /\ t.table = tb /\ t.pipes = pp /\ t.deferred = s.deferred
          /\ t.state = [p \in Procs |-> IF s.state[p] = "input" THEN "running" ELSE s.state[p]]
        BY <1>3, <2>1 DEF IsState, WakeWaiters
    <2>3. QED
        BY <2>2 DEF tb, pp, Dead, CloseLeaves
<1>6. QED
    BY <1>4, <1>5

LEMMA CloseFiles ==
    ASSUME NEW s, PipeInv(s), NEW slots
    PROVE  /\ OpenFiles(Close(s, slots)) = OpenFiles(s) \ Dropped(s, slots)
           /\ Dropped(s, slots) \subseteq OpenFiles(s)
<1>0. PICK t : t = Close(s, slots)
    OBVIOUS
<1>1. \A slot \in Slots : At(t, slot) = IF slot \in slots THEN Free ELSE At(s, slot)
    <2>1. ASSUME NEW p \in Procs, NEW fd \in Fds
          PROVE  At(t, <<p, fd>>) = IF <<p, fd>> \in slots THEN Free ELSE At(s, <<p, fd>>)
        <3>1. CloseLeaves(s, slots, t)
            BY <1>0, CloseFields
        <3>2. t.table[p][fd] = IF <<p, fd>> \in slots THEN Free ELSE s.table[p][fd]
            BY <3>1 DEF CloseLeaves
        <3>3. QED
            BY <3>2 DEF At
    <2>2. QED
        BY <2>1 DEF Slots
<1>2. ~IsPipe(Free)
    BY DEF IsPipe, Free, Ends
<1>3. PipeSlots(t) = PipeSlots(s) \ slots
    BY <1>1, <1>2 DEF PipeSlots
<1>4. OpenFiles(t) = {At(s, slot) : slot \in PipeSlots(s) \ slots}
    <2>1. \A slot \in PipeSlots(s) \ slots : At(t, slot) = At(s, slot)
        BY <1>1 DEF PipeSlots
    <2>2. OpenFiles(t) = {At(t, slot) : slot \in PipeSlots(s) \ slots}
        BY <1>3 DEF OpenFiles
    <2>3. QED
        BY <2>1, <2>2, Zenon
<1>5. QED
    BY <1>0, <1>4 DEF OpenFiles, Dropped

LEMMA CloseInv ==
    ASSUME NEW s, PipeInv(s), NEW slots
    PROVE  PipeInv(Close(s, slots))
<1> DEFINE gone == Dropped(s, slots)
           G(i, end) == {e \in gone : e.pipe = i /\ e.end = end}
<1>1. PICK t : t = Close(s, slots)
    OBVIOUS
<1>2. /\ IsState(t) /\ t.deferred = s.deferred
      /\ t.table = [p \in Procs |-> [fd \in Fds |-> t.table[p][fd]]]
      /\ \A p \in Procs, fd \in Fds :
             t.table[p][fd] = IF <<p, fd>> \in slots THEN Free ELSE s.table[p][fd]
      /\ t.pipes = [i \in PipeIds |-> CloseEnds(s.pipes[i], Cardinality(G(i, "r")), Cardinality(G(i, "w")))]
      /\ t.state = [p \in Procs |-> t.state[p]]
      /\ \A p \in Procs : t.state[p] = s.state[p] \/ (~Dead(s, p) /\ ~Dead(t, p))
    <2>1. CloseLeaves(s, slots, t)
        BY <1>1, CloseFields
    <2>2. QED
        BY <2>1 DEF CloseLeaves
<1>3. ~IsPipe(Free)
    BY DEF IsPipe, Free, Ends
<1>4. OpenFiles(t) = OpenFiles(s) \ gone /\ gone \subseteq OpenFiles(s)
    BY <1>1, CloseFiles
<1> HIDE DEF gone
<1>5. ASSUME NEW i \in PipeIds
      PROVE  IsRing(t.pipes[i]) /\ Counted(t, i)
    <2>1. /\ G(i, "r") \in SUBSET OfPipe(s, i, "r") /\ G(i, "w") \in SUBSET OfPipe(s, i, "w")
          /\ OfPipe(t, i, "r") = OfPipe(s, i, "r") \ G(i, "r")
          /\ OfPipe(t, i, "w") = OfPipe(s, i, "w") \ G(i, "w")
        BY <1>4 DEF OfPipe
    <2>2. IsFiniteSet(OfPipe(s, i, "r")) /\ IsFiniteSet(OfPipe(s, i, "w"))
        BY OpenFilesFinite, FS_Subset DEF OfPipe
    <2>3. IsRing(s.pipes[i]) /\ Counted(s, i)
        BY DEF PipeInv, ShapeOK
    <2>4. t.pipes[i] = CloseEnds(s.pipes[i], Cardinality(G(i, "r")), Cardinality(G(i, "w")))
        BY <1>2
    <2> DEFINE R == OfPipe(s, i, "r")
               W == OfPipe(s, i, "w")
               gr == G(i, "r")
               gw == G(i, "w")
    <2>5. /\ s.pipes[i].in_use <=> R \cup W # {}
          /\ s.pipes[i].in_use => /\ s.pipes[i].readers = Cardinality(R)
                                  /\ s.pipes[i].writers = Cardinality(W)
        BY <2>3 DEF Counted
    <2> HIDE DEF G, R, W, gr, gw
    <2>6. /\ IsRing(t.pipes[i])
          /\ t.pipes[i].in_use <=> (R \ gr) \cup (W \ gw) # {}
          /\ t.pipes[i].in_use => /\ t.pipes[i].readers = Cardinality(R \ gr)
                                  /\ t.pipes[i].writers = Cardinality(W \ gw)
        <3>1. IsFiniteSet(R) /\ IsFiniteSet(W) /\ gr \in SUBSET R /\ gw \in SUBSET W
            BY <2>1, <2>2 DEF R, W, gr, gw
        <3>2. /\ Minus(Cardinality(R), Cardinality(gr)) = Cardinality(R \ gr)
              /\ Cardinality(R \ gr) > 0 <=> R \ gr # {}
            BY <3>1, EndCounted
        <3>3. /\ Minus(Cardinality(W), Cardinality(gw)) = Cardinality(W \ gw)
              /\ Cardinality(W \ gw) > 0 <=> W \ gw # {}
            BY <3>1, EndCounted
        <3>4. PICK x : x = s.pipes[i]
            OBVIOUS
        <3>5. IsRing(x) /\ t.pipes[i] = CloseEnds(x, Cardinality(gr), Cardinality(gw))
            BY <2>3, <2>4, <3>4 DEF gr, gw
        <3>6. CASE x.in_use
            <4> DEFINE nr == Minus(x.readers, Cardinality(gr))
                       nw == Minus(x.writers, Cardinality(gw))
            <4>1. t.pipes[i] = [x EXCEPT !.readers = nr, !.writers = nw, !.in_use = nr > 0 \/ nw > 0]
                BY <3>5, <3>6 DEF CloseEnds
            <4>2. nr = Cardinality(R \ gr) /\ nw = Cardinality(W \ gw)
                BY <2>5, <3>2, <3>3, <3>4, <3>6
            <4>3. (nr > 0 \/ nw > 0) <=> (R \ gr) \cup (W \ gw) # {}
                BY <3>2, <3>3, <4>2
            <4> HIDE DEF nr, nw
            <4>4. /\ t.pipes[i].in_use = (nr > 0 \/ nw > 0)
                  /\ t.pipes[i].readers = nr
                  /\ t.pipes[i].writers = nw
                BY <3>5, <4>1 DEF IsRing
            <4>5. IsRing(t.pipes[i])
                BY <3>5, <4>1, <4>4 DEF IsRing
            <4>6. QED
                BY <4>2, <4>3, <4>4, <4>5
        <3>7. CASE ~x.in_use
            <4>1. R = {} /\ W = {}
                BY <2>5, <3>4, <3>7
            <4>2. t.pipes[i] = x
                BY <3>5, <3>7 DEF CloseEnds
            <4>3. QED
                BY <3>5, <3>7, <4>1, <4>2
        <3>8. QED
            BY <3>6, <3>7
    <2>7. QED
        BY <2>1, <2>4, <2>6 DEF Counted, R, W, gr, gw
<1>6. ShapeOK(t)
    BY <1>2, <1>3, <1>5 DEF PipeInv, ShapeOK
<1>7. \A p \in t.deferred : t.state[p] = "zombie"
    BY <1>2 DEF PipeInv, ShapeOK, Dead
<1>8. DeadClosed(t)
    BY <1>2, <1>3 DEF PipeInv, DeadClosed, Dead
<1>9. QED
    BY <1>1, <1>5, <1>6, <1>7, <1>8 DEF PipeInv
-----------------------------------------------------------------------------
(* A process dies: pipes and tables stay as they are, and a process that   *)
(* waits for it may wake.                                                  *)
Buries(s, p, t) ==
    /\ IsState(t) /\ t.table = s.table /\ t.pipes = s.pipes /\ t.deferred = s.deferred
    /\ t.state = [q \in Procs |-> t.state[q]]
    /\ t.state[p] = "zombie"
    /\ \A q \in Procs \ {p} : t.state[q] = s.state[q] \/ (~Dead(s, q) /\ ~Dead(t, q))

LEMMA BuryFields ==
    ASSUME NEW s, PipeInv(s), NEW p \in Procs
    PROVE  Buries(s, p, Bury(s, p))
<1>0. IsState(s) /\ s.state = [q \in Procs |-> s.state[q]]
    BY DEF PipeInv, ShapeOK
<1>1. PICK a : a = [s EXCEPT !.state[p] = "zombie", !.call[p] = NoCall, !.pending = @ \ {p}]
    OBVIOUS
<1>2. /\ IsState(a)
      /\ a.table = s.table /\ a.pipes = s.pipes /\ a.deferred = s.deferred
      /\ a.state = [s.state EXCEPT ![p] = "zombie"]
    <2>1. IsState(a)
        BY <1>0, <1>1 DEF IsState
    <2>2. a.table = s.table /\ a.pipes = s.pipes /\ a.deferred = s.deferred
        BY <1>0, <1>1 DEF IsState
    <2>3. a.state = [s.state EXCEPT ![p] = "zombie"]
        BY <1>0, <1>1 DEF IsState
    <2>4. QED
        BY <2>1, <2>2, <2>3
<1>3. PICK b : b = Reparent(a, p)
    OBVIOUS
<1>4. /\ IsState(b)
      /\ b.table = a.table /\ b.pipes = a.pipes /\ b.deferred = a.deferred /\ b.state = a.state
    BY <1>2, <1>3 DEF IsState, Reparent
<1>5. PICK t : t = WakeWaiters(b, "child")
    OBVIOUS
<1>6. /\ IsState(t)
      /\ t.table = b.table /\ t.pipes = b.pipes /\ t.deferred = b.deferred
      /\ t.state = [q \in Procs |-> IF b.state[q] = "child" THEN "running" ELSE b.state[q]]
    BY <1>4, <1>5 DEF IsState, WakeWaiters
<1>7. \A q \in Procs : b.state[q] = IF q = p THEN "zombie" ELSE s.state[q]
    BY <1>0, <1>2, <1>4
<1>8. t = Bury(s, p)
    BY <1>1, <1>3, <1>5 DEF Bury
<1>9. Buries(s, p, t)
    BY <1>2, <1>4, <1>6, <1>7 DEF Buries, Dead
<1>10. QED
    BY <1>8, <1>9

(* exit: the descriptors are closed first.                                 *)
LEMMA BuryInv ==
    ASSUME NEW s, PipeInv(s), NEW p \in Procs, \A fd \in Fds : ~IsPipe(s.table[p][fd])
    PROVE  PipeInv(Bury(s, p))
<1>1. PICK t : t = Bury(s, p)
    OBVIOUS
<1>2. Buries(s, p, t)
    BY <1>1, BuryFields
<1>3. ShapeOK(t)
    BY <1>2 DEF Buries, PipeInv, ShapeOK
<1>4. \A q \in t.deferred : t.state[q] = "zombie"
    BY <1>2 DEF Buries, PipeInv, ShapeOK, Dead
<1>5. DeadClosed(t)
    BY <1>2 DEF Buries, PipeInv, DeadClosed, Dead
<1>6. OpenFiles(t) = OpenFiles(s)
    BY <1>2, SameFiles DEF Buries
<1>7. \A i \in PipeIds : Counted(t, i)
    BY <1>2, <1>6 DEF Buries, PipeInv, Counted, OfPipe
<1>8. QED
    BY <1>1, <1>3, <1>4, <1>5, <1>7 DEF PipeInv

(* kill: the descriptors wait for the clean-up.                            *)
LEMMA ForceKillInv ==
    ASSUME NEW s, PipeInv(s), NEW p \in Procs
    PROVE  PipeInv(ForceKill(s, p))
<1>1. CASE Dead(s, p)
    BY <1>1 DEF ForceKill, Dead
<1>2. CASE ~Dead(s, p)
    <2>1. PICK b : b = Bury(s, p)
        OBVIOUS
    <2>2. Buries(s, p, b)
        BY <2>1, BuryFields
    <2>3. PICK t : t = [b EXCEPT !.deferred = b.deferred \cup {p}]
        OBVIOUS
    <2>4. t = ForceKill(s, p)
        BY <1>2, <2>1, <2>3 DEF ForceKill, Dead
    <2>5. /\ IsState(t) /\ t.table = s.table /\ t.pipes = s.pipes /\ t.state = b.state
          /\ t.deferred = s.deferred \cup {p}
        BY <2>2, <2>3 DEF Buries, IsState
    <2>6. ShapeOK(t)
        BY <2>2, <2>5 DEF Buries, PipeInv, ShapeOK
    <2>7. \A q \in t.deferred : t.state[q] = "zombie"
        BY <2>2, <2>5 DEF Buries, PipeInv, ShapeOK, Dead
    <2>8. DeadClosed(t)
        BY <2>2, <2>5 DEF Buries, PipeInv, DeadClosed, Dead
    <2>9. OpenFiles(t) = OpenFiles(s)
        BY <2>5, SameFiles
    <2>10. \A i \in PipeIds : Counted(t, i)
        BY <2>5, <2>9 DEF PipeInv, Counted, OfPipe
    <2>11. QED
        BY <2>4, <2>6, <2>7, <2>8, <2>10 DEF PipeInv
<1>3. QED
    BY <1>1, <1>2

(* The clean-up on entry to every call: nobody dead holds a pipe end.      *)
LEMMA DrainInv ==
    ASSUME NEW s, PipeInv(s)
    PROVE  /\ PipeInv(DrainDeferredCleanup(s))
           /\ DrainDeferredCleanup(s).deferred = {}
           /\ \A p \in Procs : Dead(DrainDeferredCleanup(s), p) <=> Dead(s, p)
<1> DEFINE slots == AllOf({p \in s.deferred : s.state[p] = "zombie"})
<1>1. PICK u : u = Close(s, slots)
    OBVIOUS
<1>2. PipeInv(u) /\ CloseLeaves(s, slots, u)
    BY <1>1, CloseInv, CloseFields
<1>3. PICK t : t = [u EXCEPT !.deferred = {}]
    OBVIOUS
<1>4. t = DrainDeferredCleanup(s)
    BY <1>1, <1>3 DEF DrainDeferredCleanup
<1>5. /\ IsState(t) /\ t.table = u.table /\ t.pipes = u.pipes /\ t.state = u.state
      /\ t.deferred = {}
    BY <1>2, <1>3 DEF CloseLeaves, IsState
<1>6. ShapeOK(t)
    BY <1>2, <1>5 DEF PipeInv, ShapeOK
<1>7. DeadClosed(t)
    <2>1. ASSUME NEW p \in Procs, Dead(t, p), NEW fd \in Fds
          PROVE  ~IsPipe(t.table[p][fd])
        <3>1. CASE p \in s.deferred
            <4>1. <<p, fd>> \in slots
                BY <3>1 DEF AllOf, PipeInv
            <4>2. t.table[p][fd] = Free
                BY <1>2, <1>5, <4>1 DEF CloseLeaves
            <4>3. QED
                BY <4>2 DEF Free, IsPipe, Ends
        <3>2. CASE p \notin s.deferred
            <4>1. p \notin u.deferred /\ Dead(u, p)
                BY <1>2, <1>5, <2>1, <3>2 DEF CloseLeaves, Dead
            <4>2. QED
                BY <1>2, <1>5, <4>1 DEF PipeInv, DeadClosed
        <3>3. QED
            BY <3>1, <3>2
    <2>2. QED
        BY <2>1 DEF DeadClosed
<1>8. OpenFiles(t) = OpenFiles(u)
    BY <1>5, SameFiles
<1>9. \A i \in PipeIds : Counted(t, i)
    BY <1>2, <1>5, <1>8 DEF PipeInv, Counted, OfPipe
<1>10. \A p \in Procs : Dead(t, p) <=> Dead(s, p)
    BY <1>2, <1>5 DEF CloseLeaves, Dead
<1>11. PipeInv(t)
    BY <1>5, <1>6, <1>7, <1>9 DEF PipeInv
<1>12. QED
    BY <1>4, <1>5, <1>10, <1>11

(* Reaping drops tables without closing anything, after the clean-up.      *)
LEMMA ReapInv ==
    ASSUME NEW s, PipeInv(s), s.deferred = {}, NEW ps \in SUBSET Procs,
           \A p \in ps : s.state[p] = "zombie"
    PROVE  /\ PipeInv(Reap(s, ps)) /\ Reap(s, ps).deferred = {}
           /\ \A p \in Procs : Dead(Reap(s, ps), p) <=> Dead(s, p)
<1> DEFINE st == [p \in Procs |-> IF p \in ps THEN "none" ELSE s.state[p]]
           pa == [p \in Procs |-> IF p \in ps THEN NoProc ELSE s.parent[p]]
           tb == [p \in Procs |-> IF p \in ps THEN Empty ELSE s.table[p]]
<1>1. PICK t : t = [s EXCEPT !.state = st, !.parent = pa, !.table = tb]
    OBVIOUS
<1>2. t = Reap(s, ps)
    BY <1>1 DEF Reap
<1>3. IsState(s)
    BY DEF PipeInv, ShapeOK
<1> HIDE DEF st, pa, tb
<1>4. IsState(t) /\ t.state = st /\ t.table = tb /\ t.pipes = s.pipes /\ t.deferred = s.deferred
    BY <1>1, <1>3 DEF IsState
<1>5. ASSUME NEW p \in Procs, NEW fd \in Fds
      PROVE  /\ ~IsPipe(t.table[p][fd]) => ~IsPipe(s.table[p][fd])
             /\ IsPipe(t.table[p][fd]) => t.table[p][fd] = s.table[p][fd]
    <2>1. CASE p \in ps
        <3>1. t.table[p][fd] = Free
            BY <1>4, <2>1 DEF tb, Empty
        <3>2. ~IsPipe(s.table[p][fd])
            BY <2>1 DEF PipeInv, DeadClosed, Dead
        <3>3. QED
            BY <3>1, <3>2 DEF Free, IsPipe, Ends
    <2>2. CASE p \notin ps
        BY <1>4, <2>2 DEF tb
    <2>3. QED
        BY <2>1, <2>2
<1>6. ShapeOK(t)
    <2>1. t.table = [p \in Procs |-> [fd \in Fds |-> t.table[p][fd]]]
        BY <1>4 DEF tb, Empty, PipeInv, ShapeOK
    <2>2. \A p \in Procs, fd \in Fds : IsPipe(t.table[p][fd]) => t.table[p][fd].pipe \in PipeIds
        BY <1>5 DEF PipeInv, ShapeOK
    <2>3. QED
        BY <1>4, <2>1, <2>2 DEF st, PipeInv, ShapeOK
<1>7. \A p \in Procs : Dead(t, p) <=> Dead(s, p)
    BY <1>4 DEF st, Dead
<1>8. DeadClosed(t)
    BY <1>4, <1>5, <1>7 DEF PipeInv, DeadClosed
<1>9. OpenFiles(t) = OpenFiles(s)
    <2>1. ASSUME NEW slot \in Slots
          PROVE  /\ IsPipe(At(t, slot)) <=> IsPipe(At(s, slot))
                 /\ IsPipe(At(t, slot)) => At(t, slot) = At(s, slot)
        <3>1. slot[1] \in Procs /\ slot[2] \in Fds
            BY DEF Slots
        <3>2. QED
            BY <1>5, <3>1 DEF At
    <2>2. PipeSlots(t) = PipeSlots(s)
        BY <2>1 DEF PipeSlots
    <2>3. \A slot \in PipeSlots(s) : At(t, slot) = At(s, slot)
        BY <2>1, <2>2 DEF PipeSlots
    <2>4. QED
        BY <2>2, <2>3, Zenon DEF OpenFiles
<1>10. \A i \in PipeIds : Counted(t, i)
    BY <1>4, <1>9 DEF PipeInv, Counted, OfPipe
<1>11. QED
    BY <1>2, <1>4, <1>6, <1>7, <1>8, <1>10 DEF PipeInv
-----------------------------------------------------------------------------
(* Open file descriptions, entry by entry.                                 *)
LEMMA InOpenFiles ==
    ASSUME NEW s, NEW e
    PROVE  e \in OpenFiles(s) <=> IsPipe(e) /\ \E p \in Procs, fd \in Fds : s.table[p][fd] = e
<1>1. ASSUME e \in OpenFiles(s)
      PROVE  IsPipe(e) /\ \E p \in Procs, fd \in Fds : s.table[p][fd] = e
    <2>1. PICK slot \in Slots : IsPipe(At(s, slot)) /\ e = At(s, slot)
        BY <1>1 DEF OpenFiles, PipeSlots
    <2>2. slot[1] \in Procs /\ slot[2] \in Fds
        BY DEF Slots
    <2>3. QED
        BY <2>1, <2>2 DEF At
<1>2. ASSUME IsPipe(e), NEW p \in Procs, NEW fd \in Fds, s.table[p][fd] = e
      PROVE  e \in OpenFiles(s)
    <2>1. <<p, fd>> \in Slots /\ At(s, <<p, fd>>) = e
        BY <1>2 DEF Slots, At
    <2>2. QED
        BY <1>2, <2>1 DEF OpenFiles, PipeSlots
<1>3. QED
    BY <1>1, <1>2

(* alloc: the lowest free descriptor.                                      *)
LEMMA AllocFdFree ==
    ASSUME NEW s, NEW p, FreeFds(s, p) # {}
    PROVE  AllocFd(s, p) \in FreeFds(s, p)
<1>1. FreeFds(s, p) \in SUBSET Nat
    BY DescriptorAssumption DEF FreeFds, Fds
<1>2. \E fd \in FreeFds(s, p) : \A g \in FreeFds(s, p) : fd <= g
    BY <1>1, LeastOf
<1>3. QED
    BY <1>2 DEF AllocFd

(* An entry is installed in a table.                                       *)
Installs(s, p, fd, e, t) ==
    /\ IsState(t) /\ t.pipes = s.pipes /\ t.deferred = s.deferred /\ t.state = s.state
    /\ t.table = [q \in Procs |-> [g \in Fds |-> t.table[q][g]]]
    /\ \A q \in Procs, g \in Fds : t.table[q][g] = IF q = p /\ g = fd THEN e ELSE s.table[q][g]

LEMMA InstallFields ==
    ASSUME NEW s, IsState(s), s.table = [q \in Procs |-> [g \in Fds |-> s.table[q][g]]],
           NEW p \in Procs, NEW fd \in Fds, NEW e
    PROVE  Installs(s, p, fd, e, Install(s, p, fd, e))
<1>1. PICK t : t = [s EXCEPT !.table[p][fd] = e]
    OBVIOUS
<1>2. IsState(t) /\ t.pipes = s.pipes /\ t.deferred = s.deferred /\ t.state = s.state
    BY <1>1 DEF IsState
<1>3. t.table = [s.table EXCEPT ![p][fd] = e]
    BY <1>1 DEF IsState
<1>4. t.table = [q \in Procs |-> [g \in Fds |-> IF q = p /\ g = fd THEN e ELSE s.table[q][g]]]
    <2>1. t.table = [s.table EXCEPT ![p] = [s.table[p] EXCEPT ![fd] = e]]
        BY <1>3
    <2>2. [s.table[p] EXCEPT ![fd] = e] = [g \in Fds |-> IF g = fd THEN e ELSE s.table[p][g]]
        OBVIOUS
    <2>3. QED
        BY <2>1, <2>2
<1>5. Installs(s, p, fd, e, t)
    BY <1>2, <1>4 DEF Installs
<1>6. t = Install(s, p, fd, e)
    BY <1>1 DEF Install
<1>7. QED
    BY <1>5, <1>6

(* A descriptor is duplicated: dup2 and dup.                               *)
LEMMA Dup2Inv ==
    ASSUME NEW s, PipeInv(s), NEW p \in Procs, ~Dead(s, p), NEW old \in Fds, NEW new \in Fds
    PROVE  PipeInv(Dup2(s, p, old, new))
<1>1. CASE s.table[p][old] = Free \/ old = new
    BY <1>1 DEF Dup2
<1>2. CASE ~(s.table[p][old] = Free \/ old = new)
    <2> DEFINE e == s.table[p][old]
    <2>1. PICK u : u = Close(s, {<<p, new>>})
        OBVIOUS
    <2>2. PipeInv(u) /\ CloseLeaves(s, {<<p, new>>}, u)
        BY <2>1, CloseInv, CloseFields
    <2>3. PICK t : t = Install(u, p, new, e)
        OBVIOUS
    <2>4. t = Dup2(s, p, old, new)
        BY <1>2, <2>1, <2>3 DEF Dup2
    <2>5. Installs(u, p, new, e, t)
        BY <2>2, <2>3, InstallFields DEF CloseLeaves
    <2>6. u.table[p][old] = e /\ u.table[p][new] = Free /\ ~Dead(u, p)
        BY <1>2, <2>2 DEF CloseLeaves, Dead
    <2> HIDE DEF e
    <2>7. \A q \in Procs, g \in Fds : t.table[q][g] = IF q = p /\ g = new THEN u.table[p][old] ELSE u.table[q][g]
        BY <2>5, <2>6 DEF Installs
    <2>8. ShapeOK(t)
        <3>1. \A q \in Procs, g \in Fds : IsPipe(t.table[q][g]) => t.table[q][g].pipe \in PipeIds
            BY <2>2, <2>7 DEF PipeInv, ShapeOK
        <3>2. QED
            BY <2>2, <2>5, <3>1 DEF Installs, PipeInv, ShapeOK
    <2>9. DeadClosed(t) /\ \A q \in t.deferred : t.state[q] = "zombie"
        BY <2>2, <2>5, <2>6, <2>7 DEF Installs, PipeInv, DeadClosed, Dead
    <2>10. OpenFiles(t) = OpenFiles(u)
        <3>1. ~IsPipe(Free)
            BY DEF IsPipe, Free, Ends
        <3>2. ASSUME NEW x
              PROVE  x \in OpenFiles(t) <=> x \in OpenFiles(u)
            <4>1. ASSUME IsPipe(x), NEW q \in Procs, NEW g \in Fds, t.table[q][g] = x
                  PROVE  \E q1 \in Procs, g1 \in Fds : u.table[q1][g1] = x
                BY <4>1, <2>7
            <4>2. ASSUME IsPipe(x), NEW q \in Procs, NEW g \in Fds, u.table[q][g] = x
                  PROVE  \E q1 \in Procs, g1 \in Fds : t.table[q1][g1] = x
                BY <4>2, <2>6, <2>7, <3>1
            <4>3. QED
                BY <4>1, <4>2, InOpenFiles
        <3>3. QED
            BY <3>2
    <2>11. \A i \in PipeIds : Counted(t, i)
        <3>1. t.pipes = u.pipes
            BY <2>5 DEF Installs
        <3>2. \A i \in PipeIds : Counted(u, i)
            BY <2>2 DEF PipeInv
        <3>3. QED
            BY <2>10, <3>1, <3>2 DEF Counted, OfPipe
    <2>12. QED
        BY <2>4, <2>8, <2>9, <2>11 DEF PipeInv
<1>3. QED
    BY <1>1, <1>2

(* pipe: two new descriptions of a pipe nobody refers to, or nothing.      *)
LEMMA PipeMadeInv ==
    ASSUME NEW s, PipeInv(s), NEW p \in Procs, ~Dead(s, p), NEW i \in FreePipes(s)
    PROVE  PipeInv(PipeMade(s, p, i))
<1>1. i \in PipeIds /\ ~s.pipes[i].in_use
    BY DEF FreePipes
<1>2. OfPipe(s, i, "r") = {} /\ OfPipe(s, i, "w") = {}
    BY <1>1 DEF PipeInv, Counted
<1>3. /\ IsState(s) /\ s.pipes = [j \in PipeIds |-> s.pipes[j]]
      /\ s.table = [q \in Procs |-> [g \in Fds |-> s.table[q][g]]]
    BY DEF PipeInv, ShapeOK
<1>4. IsRing(NoPipe) /\ ~NoPipe.in_use
    BY DEF NoPipe, IsRing
<1>5. PICK x : x = [NoPipe EXCEPT !.readers = 1, !.writers = 1, !.in_use = TRUE]
    OBVIOUS
<1>6. IsRing(x) /\ x.in_use /\ x.readers = 1 /\ x.writers = 1
    BY <1>5 DEF NoPipe, IsRing
<1>7. CASE Cardinality(FreeFds(s, p)) < 2
    <2>1. PICK t : t = [s EXCEPT !.pipes[i] = NoPipe]
        OBVIOUS
    <2>2. /\ IsState(t) /\ t.table = s.table /\ t.state = s.state /\ t.deferred = s.deferred
          /\ t.pipes = [s.pipes EXCEPT ![i] = NoPipe]
        BY <1>3, <2>1 DEF IsState
    <2>3. t.pipes = [j \in PipeIds |-> IF j = i THEN NoPipe ELSE s.pipes[j]]
        BY <1>3, <2>2
    <2>4. ShapeOK(t)
        BY <1>4, <2>2, <2>3 DEF PipeInv, ShapeOK
    <2>5. DeadClosed(t) /\ \A q \in t.deferred : t.state[q] = "zombie"
        BY <2>2 DEF PipeInv, DeadClosed, Dead
    <2>6. OpenFiles(t) = OpenFiles(s)
        BY <2>2, SameFiles
    <2>7. \A j \in PipeIds : Counted(t, j)
        <3>1. ASSUME NEW j \in PipeIds, j # i
              PROVE  Counted(t, j)
            BY <2>3, <2>6, <3>1 DEF PipeInv, Counted, OfPipe
        <3>2. Counted(t, i)
            BY <1>1, <1>2, <1>4, <2>3, <2>6 DEF Counted, OfPipe
        <3>3. QED
            BY <3>1, <3>2
    <2>8. PipeInv(t)
        BY <2>4, <2>5, <2>7 DEF PipeInv
    <2>9. PipeInv(WakeWaiters(t, "input"))
        BY <2>8, WakeCalm, CalmInv
    <2>10. PipeMade(s, p, i) = WakeWaiters(t, "input")
        BY <1>7, <2>1 DEF PipeMade
    <2>11. QED
        BY <2>9, <2>10
<1>8. CASE ~(Cardinality(FreeFds(s, p)) < 2)
    <2>1. PICK s1 : s1 = [s EXCEPT !.pipes[i] = x]
        OBVIOUS
    <2>2. /\ IsState(s1) /\ s1.table = s.table /\ s1.state = s.state /\ s1.deferred = s.deferred
          /\ s1.pipes = [s.pipes EXCEPT ![i] = x]
        BY <1>3, <2>1 DEF IsState
    <2>3. s1.pipes = [j \in PipeIds |-> IF j = i THEN x ELSE s.pipes[j]]
        BY <1>3, <2>2
    <2>4. PICK f1, e1 : /\ f1 = AllocFd(s1, p)
                        /\ e1 = [end |-> "r", pipe |-> i, ofd |-> NewOfd(s1, 2 * i)]
        OBVIOUS
    <2>5. PICK s2 : s2 = Install(s1, p, f1, e1)
        OBVIOUS
    <2>6. PICK f2, e2 : /\ f2 = AllocFd(s2, p)
                        /\ e2 = [end |-> "w", pipe |-> i, ofd |-> NewOfd(s2, 2 * i + 1)]
        OBVIOUS
    <2>7. PICK t : t = Install(s2, p, f2, e2)
        OBVIOUS
    <2>8. PipeMade(s, p, i) = t
        BY <1>5, <1>8, <2>1, <2>4, <2>5, <2>6, <2>7 DEF PipeMade
    <2>9. f1 \in Fds /\ s.table[p][f1] = Free
        <3>1. FreeFds(s, p) # {}
            BY <1>8, FS_EmptySet
        <3>2. FreeFds(s1, p) = FreeFds(s, p)
            BY <2>2 DEF FreeFds
        <3>3. f1 \in FreeFds(s, p)
            BY <2>4, <3>1, <3>2, AllocFdFree
        <3>4. QED
            BY <3>3 DEF FreeFds
    <2>10. Installs(s1, p, f1, e1, s2)
        BY <1>3, <2>2, <2>5, <2>9, InstallFields
    <2>11. /\ e1 # Free /\ IsPipe(e1) /\ e1.pipe = i /\ e1.end = "r"
           /\ e2 # Free /\ IsPipe(e2) /\ e2.pipe = i /\ e2.end = "w"
        BY <2>4, <2>6 DEF IsPipe, Ends, Free
    <2>12. f2 \in Fds /\ f2 # f1 /\ s.table[p][f2] = Free
        <3>1. FreeFds(s2, p) = FreeFds(s, p) \ {f1}
            BY <2>2, <2>10, <2>11 DEF FreeFds, Installs
        <3>2. FreeFds(s, p) # {f1}
            BY <1>8, FS_Singleton
        <3>3. f1 \in FreeFds(s, p)
            BY <2>9 DEF FreeFds
        <3>4. FreeFds(s2, p) # {}
            BY <3>1, <3>2, <3>3
        <3>5. f2 \in FreeFds(s, p) \ {f1}
            BY <2>6, <3>1, <3>4, AllocFdFree
        <3>6. QED
            BY <3>5 DEF FreeFds
    <2>13. Installs(s2, p, f2, e2, t)
        <3>1. IsState(s2) /\ s2.table = [q \in Procs |-> [g \in Fds |-> s2.table[q][g]]]
            BY <2>10 DEF Installs
        <3>2. QED
            BY <2>7, <2>12, <3>1, InstallFields
    <2>14. /\ IsState(t) /\ t.pipes = s1.pipes /\ t.state = s.state /\ t.deferred = s.deferred
           /\ t.table = [q \in Procs |-> [g \in Fds |-> t.table[q][g]]]
        <3>1. s2.pipes = s1.pipes /\ s2.state = s1.state /\ s2.deferred = s1.deferred
            BY <2>10 DEF Installs
        <3>2. /\ IsState(t) /\ t.pipes = s2.pipes /\ t.state = s2.state /\ t.deferred = s2.deferred
              /\ t.table = [q \in Procs |-> [g \in Fds |-> t.table[q][g]]]
            BY <2>13 DEF Installs
        <3>3. QED
            BY <2>2, <3>1, <3>2
    <2>15. ASSUME NEW q \in Procs, NEW g \in Fds
           PROVE  t.table[q][g] = IF q = p /\ g = f2 THEN e2
                                  ELSE IF q = p /\ g = f1 THEN e1 ELSE s.table[q][g]
        BY <2>2, <2>10, <2>13 DEF Installs
    <2>16. ShapeOK(t)
        <3>1. \A q \in Procs, g \in Fds : IsPipe(t.table[q][g]) => t.table[q][g].pipe \in PipeIds
            BY <1>1, <2>11, <2>15 DEF PipeInv, ShapeOK
        <3>2. QED
            BY <1>6, <2>3, <2>14, <3>1 DEF PipeInv, ShapeOK
    <2>17. DeadClosed(t) /\ \A q \in t.deferred : t.state[q] = "zombie"
        <3>1. ASSUME NEW q \in Procs, Dead(t, q), q \notin t.deferred, NEW g \in Fds
              PROVE  ~IsPipe(t.table[q][g])
            <4>1. q # p /\ Dead(s, q) /\ q \notin s.deferred
                BY <2>14, <3>1 DEF Dead
            <4>2. t.table[q][g] = s.table[q][g]
                BY <2>15, <4>1
            <4>3. QED
                BY <4>1, <4>2 DEF PipeInv, DeadClosed
        <3>2. QED
            BY <2>14, <3>1 DEF PipeInv, DeadClosed
    <2>18. OpenFiles(t) = OpenFiles(s) \cup {e1, e2}
        <3>1. ~IsPipe(Free)
            BY DEF IsPipe, Free, Ends
        <3>2. ASSUME NEW y \in OpenFiles(t)
              PROVE  y \in OpenFiles(s) \cup {e1, e2}
            <4>1. IsPipe(y) /\ \E q \in Procs, g \in Fds : t.table[q][g] = y
                BY InOpenFiles
            <4>2. PICK q \in Procs, g \in Fds : t.table[q][g] = y
                BY <4>1
            <4>3. y \in {e1, e2} \/ s.table[q][g] = y
                BY <2>15, <4>2
            <4>4. QED
                BY <4>1, <4>3, InOpenFiles
        <3>3. ASSUME NEW y \in OpenFiles(s)
              PROVE  y \in OpenFiles(t)
            <4>1. IsPipe(y) /\ \E q \in Procs, g \in Fds : s.table[q][g] = y
                BY InOpenFiles
            <4>2. PICK q \in Procs, g \in Fds : s.table[q][g] = y
                BY <4>1
            <4>3. t.table[q][g] = y
                BY <2>9, <2>12, <2>15, <3>1, <4>1, <4>2
            <4>4. QED
                BY <4>1, <4>3, InOpenFiles
        <3>4. t.table[p][f1] = e1 /\ t.table[p][f2] = e2
            BY <2>9, <2>12, <2>15
        <3>5. e1 \in OpenFiles(t) /\ e2 \in OpenFiles(t)
            BY <2>9, <2>11, <2>12, <3>4, InOpenFiles
        <3>6. QED
            BY <3>2, <3>3, <3>5
    <2>19. \A j \in PipeIds : Counted(t, j)
        <3>1. ASSUME NEW j \in PipeIds, j # i
              PROVE  Counted(t, j)
            <4>1. OfPipe(t, j, "r") = OfPipe(s, j, "r") /\ OfPipe(t, j, "w") = OfPipe(s, j, "w")
                BY <2>11, <2>18, <3>1 DEF OfPipe
            <4>2. t.pipes[j] = s.pipes[j]
                BY <2>3, <2>14, <3>1
            <4>3. QED
                BY <4>1, <4>2 DEF PipeInv, Counted
        <3>2. Counted(t, i)
            <4>1. OfPipe(t, i, "r") = {e1} /\ OfPipe(t, i, "w") = {e2}
                BY <1>2, <2>11, <2>18 DEF OfPipe
            <4>2. t.pipes[i] = x
                BY <1>1, <2>3, <2>14
            <4>3. Cardinality({e1}) = 1 /\ Cardinality({e2}) = 1
                BY FS_Singleton
            <4>4. QED
                BY <1>6, <4>1, <4>2, <4>3 DEF Counted
        <3>3. QED
            BY <3>1, <3>2
    <2>20. QED
        BY <2>8, <2>16, <2>17, <2>19 DEF PipeInv
<1>9. QED
    BY <1>7, <1>8

(* spawn: the child's descriptors are copies of its parent's.              *)
Spawned(s, p, child, from) ==
    [s EXCEPT !.state[child] = "running", !.parent[child] = p,
              !.table[child] = [fd \in Fds |->
                  IF fd \notin StdFds THEN Free
                  ELSE IF s.table[p][from[fd]] = Free THEN Console
                  ELSE s.table[p][from[fd]]]]

LEMMA SpawnInv ==
    ASSUME NEW s, PipeInv(s), s.deferred = {}, NEW p \in Procs, ~Dead(s, p), NEW child \in Procs,
           s.state[child] = "none", NEW from \in [StdFds -> Fds]
    PROVE  PipeInv(Spawned(s, p, child, from))
<1> DEFINE tb == [fd \in Fds |-> IF fd \notin StdFds THEN Free
                                ELSE IF s.table[p][from[fd]] = Free THEN Console
                                ELSE s.table[p][from[fd]]]
<1>1. PICK t : t = [s EXCEPT !.state[child] = "running", !.parent[child] = p, !.table[child] = tb]
    OBVIOUS
<1>2. t = Spawned(s, p, child, from)
    BY <1>1 DEF Spawned
<1>3. /\ IsState(s) /\ s.state = [q \in Procs |-> s.state[q]]
      /\ s.table = [q \in Procs |-> [fd \in Fds |-> s.table[q][fd]]]
    BY DEF PipeInv, ShapeOK
<1>4. \A fd \in Fds : ~IsPipe(tb[fd]) \/ \E g \in Fds : tb[fd] = s.table[p][g]
    BY DEF IsPipe, Free, Console, Ends
<1>5. tb = [fd \in Fds |-> tb[fd]]
    OBVIOUS
<1> HIDE DEF tb
<1>6. IsState(t) /\ t.pipes = s.pipes /\ t.deferred = {}
    BY <1>1, <1>3 DEF IsState
<1>7. t.state = [s.state EXCEPT ![child] = "running"] /\ t.table = [s.table EXCEPT ![child] = tb]
    BY <1>1, <1>3 DEF IsState
<1>8. /\ t.state = [q \in Procs |-> IF q = child THEN "running" ELSE s.state[q]]
      /\ t.table = [q \in Procs |-> IF q = child THEN tb ELSE s.table[q]]
    BY <1>3, <1>7
<1>9. ASSUME NEW q \in Procs, NEW g \in Fds
      PROVE  /\ IsPipe(t.table[q][g]) =>
                    \E q1 \in Procs, g1 \in Fds : s.table[q1][g1] = t.table[q][g]
             /\ IsPipe(s.table[q][g]) => t.table[q][g] = s.table[q][g]
    <2>1. CASE q = child
        <3>1. ~IsPipe(s.table[q][g])
            BY <2>1 DEF PipeInv, DeadClosed, Dead
        <3>2. t.table[q][g] = tb[g]
            BY <1>8, <2>1
        <3>3. QED
            BY <1>4, <3>1, <3>2
    <2>2. CASE q # child
        <3>1. t.table[q][g] = s.table[q][g]
            BY <1>8, <2>2
        <3>2. QED
            BY <3>1
    <2>3. QED
        BY <2>1, <2>2
<1>10. ShapeOK(t)
    <2>1. t.table = [q \in Procs |-> [g \in Fds |-> t.table[q][g]]]
        BY <1>3, <1>5, <1>8
    <2>2. ASSUME NEW q \in Procs, NEW g \in Fds, IsPipe(t.table[q][g])
          PROVE  t.table[q][g].pipe \in PipeIds
        <3>1. PICK q1 \in Procs, g1 \in Fds : s.table[q1][g1] = t.table[q][g]
            BY <1>9, <2>2
        <3>2. QED
            BY <2>2, <3>1 DEF PipeInv, ShapeOK
    <2>3. QED
        BY <1>6, <1>8, <2>1, <2>2 DEF PipeInv, ShapeOK
<1>11. DeadClosed(t) /\ \A q \in t.deferred : t.state[q] = "zombie"
    <2>1. ASSUME NEW q \in Procs, Dead(t, q), NEW g \in Fds
          PROVE  ~IsPipe(t.table[q][g])
        <3>1. q # child /\ Dead(s, q)
            BY <1>8, <2>1 DEF Dead
        <3>2. t.table[q][g] = s.table[q][g]
            BY <1>8, <3>1
        <3>3. QED
            BY <3>1, <3>2 DEF PipeInv, DeadClosed
    <2>2. QED
        BY <1>6, <2>1 DEF DeadClosed
<1>12. OpenFiles(t) = OpenFiles(s)
    <2>1. ASSUME NEW y \in OpenFiles(t)
          PROVE  y \in OpenFiles(s)
        <3>1. IsPipe(y) /\ \E q \in Procs, g \in Fds : t.table[q][g] = y
            BY InOpenFiles
        <3>2. PICK q \in Procs, g \in Fds : t.table[q][g] = y
            BY <3>1
        <3>3. \E q1 \in Procs, g1 \in Fds : s.table[q1][g1] = y
            BY <1>9, <3>1, <3>2
        <3>4. QED
            BY <3>1, <3>3, InOpenFiles
    <2>2. ASSUME NEW y \in OpenFiles(s)
          PROVE  y \in OpenFiles(t)
        <3>1. IsPipe(y) /\ \E q \in Procs, g \in Fds : s.table[q][g] = y
            BY InOpenFiles
        <3>2. PICK q \in Procs, g \in Fds : s.table[q][g] = y
            BY <3>1
        <3>3. t.table[q][g] = y
            BY <1>9, <3>1, <3>2
        <3>4. QED
            BY <3>1, <3>3, InOpenFiles
    <2>3. QED
        BY <2>1, <2>2
<1>13. \A i \in PipeIds : Counted(t, i)
    BY <1>6, <1>12 DEF PipeInv, Counted, OfPipe
<1>14. QED
    BY <1>2, <1>10, <1>11, <1>13 DEF PipeInv
-----------------------------------------------------------------------------
(* Where a call ends.                                                      *)
LEMMA BecomeInv ==
    ASSUME NEW t, PipeInv(t), Become(t)
    PROVE  PipeInv(Now)'
<1>1. IsState(t)
    BY DEF PipeInv, ShapeOK
<1>2. Now' = t
    BY <1>1 DEF Now, Become, IsState
<1>3. QED
    BY <1>2

LEMMA ReturnInv ==
    ASSUME NEW s, PipeInv(s), NEW p \in Procs, Return(s, p)
    PROVE  PipeInv(Now)'
<1>1. PICK u : u = [s EXCEPT !.call[p] = NoCall]
    OBVIOUS
<1>2. PipeInv(u)
    BY <1>1, FieldsCalm, CalmInv
<1>3. PipeInv(Deliver(u, p))
    BY <1>2, ForceKillInv DEF Deliver
<1>4. Become(Deliver(u, p))
    BY <1>1 DEF Return
<1>5. QED
    BY <1>3, <1>4, BecomeInv

LEMMA BlockInv ==
    ASSUME NEW s, PipeInv(s), NEW p \in Procs, ~Dead(s, p), NEW c, NEW reason \in {"input", "child"},
           BlockAndRestart(s, p, c, reason)
    PROVE  PipeInv(Now)'
<1>1. PICK u : u = [s EXCEPT !.state[p] = reason, !.call[p] = c]
    OBVIOUS
<1>2. PipeInv(u)
    BY <1>1, BlockCalm, CalmInv
<1>3. Become(u)
    BY <1>1 DEF BlockAndRestart
<1>4. QED
    BY <1>2, <1>3, BecomeInv

LEMMA EnteredInv ==
    ASSUME PipeInv(Now)
    PROVE  /\ PipeInv(Entered) /\ Entered.deferred = {}
           /\ \A p \in Procs : state[p] = "running" => ~Dead(Entered, p)
<1>1. /\ PipeInv(Entered) /\ Entered.deferred = {}
      /\ \A p \in Procs : Dead(Entered, p) <=> Dead(Now, p)
    BY DrainInv DEF Entered
<1>2. Now.state = state
    BY DEF Now
<1>3. QED
    BY <1>1, <1>2 DEF Dead

(* read and write.                                                         *)
LEMMA TryReadInv ==
    ASSUME NEW s, PipeInv(s), NEW p \in Procs, NEW i \in PipeIds, NEW count
    PROVE  PipeInv(TryRead(s, p, i, count))
<1> DEFINE n == Lesser(count, s.pipes[i].len)
           a == Wrapped(s.pipes[i].tail + n)
           b == s.pipes[i].len - n
           d == [k \in 1..n |-> s.pipes[i].buf[(s.pipes[i].tail + k - 1) % BufSize]]
<1>1. PICK u : u = [s EXCEPT !.pipes[i].tail = a, !.pipes[i].len = b, !.got[p] = d]
    OBVIOUS
<1>2. TryRead(s, p, i, count) = WakeWaiters(u, "input")
    BY <1>1 DEF TryRead
<1> HIDE DEF n, a, b, d
<1>3. PipeInv(u)
    BY <1>1, RingCalm, CalmInv
<1>4. QED
    BY <1>2, <1>3, WakeCalm, CalmInv

LEMMA TryWriteInv ==
    ASSUME NEW s, PipeInv(s), NEW p \in Procs, NEW i \in PipeIds, NEW data
    PROVE  PipeInv(TryWrite(s, i, data))
<1> DEFINE n == Lesser(Len(data), BufSize - s.pipes[i].len)
           At0(x) == (x + BufSize - s.pipes[i].head) % BufSize
           a == Wrapped(s.pipes[i].head + n)
           b == s.pipes[i].len + n
           c == [x \in Index |-> IF At0(x) < n THEN data[At0(x) + 1] ELSE s.pipes[i].buf[x]]
<1>1. PICK u : u = [s EXCEPT !.pipes[i].head = a, !.pipes[i].len = b, !.pipes[i].buf = c]
    OBVIOUS
<1>2. TryWrite(s, i, data) = WakeWaiters(u, "input")
    BY <1>1 DEF TryWrite
<1> HIDE DEF n, a, b, c
<1>3. PipeInv(u)
    BY <1>1, RingCalm, CalmInv
<1>4. QED
    BY <1>2, <1>3, WakeCalm, CalmInv

LEMMA ReadInv ==
    ASSUME PipeInv(Now), NEW p \in Procs, NEW fd \in Fds, NEW n, SysRead(p, fd, n)
    PROVE  PipeInv(Now)'
<1> DEFINE c == [op |-> "read", fd |-> fd, count |-> n]
<1>1. PICK s : s = Entered
    OBVIOUS
<1>2. state[p] = "running"
    BY DEF SysRead, Enters
<1>3. PipeInv(s) /\ ~Dead(s, p)
    BY <1>1, <1>2, EnteredInv
<1>4. PICK e : e = s.table[p][fd]
    OBVIOUS
<1>5. e.end = "r" => e.pipe \in PipeIds
    BY <1>3, <1>4 DEF PipeInv, ShapeOK, IsPipe, Ends
<1>6. \/ Return(s, p)
      \/ Return([s EXCEPT !.got[p] = Eof], p)
      \/ e.end = "r" /\ Return(TryRead(s, p, e.pipe, n), p)
      \/ BlockAndRestart(s, p, c, "input")
    BY <1>1, <1>4 DEF SysRead
<1>7. CASE Return(s, p)
    BY <1>3, <1>7, ReturnInv
<1>8. CASE Return([s EXCEPT !.got[p] = Eof], p)
    <2>1. PICK u : u = [s EXCEPT !.got[p] = Eof]
        OBVIOUS
    <2>2. PipeInv(u)
        BY <1>3, <2>1, FieldsCalm, CalmInv
    <2>3. QED
        BY <1>8, <2>1, <2>2, ReturnInv
<1>9. CASE e.end = "r" /\ Return(TryRead(s, p, e.pipe, n), p)
    BY <1>3, <1>5, <1>9, TryReadInv, ReturnInv
<1>10. CASE BlockAndRestart(s, p, c, "input")
    BY <1>3, <1>10, BlockInv
<1>11. QED
    BY <1>6, <1>7, <1>8, <1>9, <1>10

LEMMA WriteInv ==
    ASSUME PipeInv(Now), NEW p \in Procs, NEW fd \in Fds, NEW data, SysWrite(p, fd, data)
    PROVE  PipeInv(Now)'
<1> DEFINE c == [op |-> "write", fd |-> fd, data |-> data]
<1>1. PICK s : s = Entered
    OBVIOUS
<1>2. state[p] = "running"
    BY DEF SysWrite, Enters
<1>3. PipeInv(s) /\ ~Dead(s, p)
    BY <1>1, <1>2, EnteredInv
<1>4. PICK e : e = s.table[p][fd]
    OBVIOUS
<1>5. e.end = "w" => e.pipe \in PipeIds
    BY <1>3, <1>4 DEF PipeInv, ShapeOK, IsPipe, Ends
<1>6. \/ Return(s, p)
      \/ e.end = "w" /\ Return(TryWrite(s, e.pipe, data), p)
      \/ BlockAndRestart(s, p, c, "input")
    BY <1>1, <1>4 DEF SysWrite
<1>7. CASE Return(s, p)
    BY <1>3, <1>7, ReturnInv
<1>8. CASE e.end = "w" /\ Return(TryWrite(s, e.pipe, data), p)
    BY <1>3, <1>5, <1>8, TryWriteInv, ReturnInv
<1>9. CASE BlockAndRestart(s, p, c, "input")
    BY <1>3, <1>9, BlockInv
<1>10. QED
    BY <1>6, <1>7, <1>8, <1>9

(* pipe, close, dup, dup2 and fcntl.                                       *)
LEMMA PipeCallInv ==
    ASSUME PipeInv(Now), NEW p \in Procs, SysPipe(p)
    PROVE  PipeInv(Now)'
<1>1. PICK s : s = Entered
    OBVIOUS
<1>2. state[p] = "running"
    BY DEF SysPipe, Enters
<1>3. PipeInv(s) /\ ~Dead(s, p)
    BY <1>1, <1>2, EnteredInv
<1>4. PICK i : i = CHOOSE m \in FreePipes(s) : \A j \in FreePipes(s) : m <= j
    OBVIOUS
<1>5. Return(IF FreePipes(s) = {} THEN s ELSE PipeMade(s, p, i), p)
    BY <1>1, <1>4 DEF SysPipe
<1>6. FreePipes(s) # {} => i \in FreePipes(s)
    <2>1. FreePipes(s) \in SUBSET Nat
        BY DescriptorAssumption DEF FreePipes, PipeIds
    <2>2. FreePipes(s) # {} => \E m \in FreePipes(s) : \A j \in FreePipes(s) : m <= j
        BY <2>1, LeastOf
    <2>3. QED
        BY <1>4, <2>2
<1>7. CASE FreePipes(s) = {}
    BY <1>3, <1>5, <1>7, ReturnInv
<1>8. CASE FreePipes(s) # {}
    <2>1. PipeInv(PipeMade(s, p, i))
        BY <1>3, <1>6, <1>8, PipeMadeInv
    <2>2. Return(PipeMade(s, p, i), p)
        BY <1>5, <1>8
    <2>3. QED
        BY <2>1, <2>2, ReturnInv
<1>9. QED
    BY <1>7, <1>8

LEMMA FdCallsInv ==
    ASSUME PipeInv(Now), NEW p \in Procs, NEW fd \in Fds
    PROVE  /\ SysClose(p, fd) => PipeInv(Now)'
           /\ SysDup(p, fd) => PipeInv(Now)'
           /\ \A on \in BOOLEAN : SysSetNonblock(p, fd, on) => PipeInv(Now)'
           /\ \A new \in Fds : SysDup2(p, fd, new) => PipeInv(Now)'
<1>1. PICK s : s = Entered
    OBVIOUS
<1>2. PipeInv(s) /\ (state[p] = "running" => ~Dead(s, p))
    BY <1>1, EnteredInv
<1>3. ASSUME SysClose(p, fd)
      PROVE  PipeInv(Now)'
    <2>1. PICK t : t = Close(s, {<<p, fd>>})
        OBVIOUS
    <2>2. Return(t, p)
        BY <1>1, <1>3, <2>1 DEF SysClose
    <2>3. PipeInv(t)
        BY <1>2, <2>1, CloseInv
    <2>4. QED
        BY <2>2, <2>3, ReturnInv
<1>4. ASSUME SysDup(p, fd)
      PROVE  PipeInv(Now)'
    <2>1. ~Dead(s, p)
        BY <1>2, <1>4 DEF SysDup, Enters
    <2>2. Return(IF FreeFds(s, p) = {} THEN s ELSE Dup2(s, p, fd, AllocFd(s, p)), p)
        BY <1>1, <1>4 DEF SysDup
    <2>3. CASE FreeFds(s, p) = {}
        BY <1>2, <2>2, <2>3, ReturnInv
    <2>4. CASE FreeFds(s, p) # {}
        <3>1. AllocFd(s, p) \in Fds
            BY <2>4, AllocFdFree DEF FreeFds
        <3>2. PipeInv(Dup2(s, p, fd, AllocFd(s, p)))
            BY <1>2, <2>1, <3>1, Dup2Inv
        <3>3. QED
            BY <2>2, <2>4, <3>2, ReturnInv
    <2>5. QED
        BY <2>3, <2>4
<1>5. ASSUME NEW on \in BOOLEAN, SysSetNonblock(p, fd, on)
      PROVE  PipeInv(Now)'
    <2>1. \/ Return(s, p)
          \/ \E x : Return([s EXCEPT !.nonblock = x], p)
        BY <1>1, <1>5 DEF SysSetNonblock
    <2>2. ASSUME NEW x, Return([s EXCEPT !.nonblock = x], p)
          PROVE  PipeInv(Now)'
        BY <1>2, <2>2, FieldsCalm, CalmInv, ReturnInv
    <2>3. QED
        BY <1>2, <2>1, <2>2, ReturnInv
<1>6. ASSUME NEW new \in Fds, SysDup2(p, fd, new)
      PROVE  PipeInv(Now)'
    <2>1. ~Dead(s, p)
        BY <1>2, <1>6 DEF SysDup2, Enters
    <2>2. Return(Dup2(s, p, fd, new), p)
        BY <1>1, <1>6 DEF SysDup2
    <2>3. PipeInv(Dup2(s, p, fd, new))
        BY <1>2, <2>1, Dup2Inv
    <2>4. QED
        BY <2>2, <2>3, ReturnInv
<1>7. QED
    BY <1>3, <1>4, <1>5, <1>6

(* spawn, exit, kill and wait.                                             *)
LEMMA SpawnCallInv ==
    ASSUME PipeInv(Now), NEW p \in Procs, NEW child \in Procs, NEW from \in [StdFds -> Fds],
           SysSpawn(p, child, from)
    PROVE  PipeInv(Now)'
<1>1. PICK s0 : s0 = Entered
    OBVIOUS
<1>2. state[p] = "running"
    BY DEF SysSpawn, Enters
<1>3. PipeInv(s0) /\ s0.deferred = {} /\ ~Dead(s0, p)
    BY <1>1, <1>2, EnteredInv
<1>4. PICK s : s = Reap(s0, Orphans(s0))
    OBVIOUS
<1>5. Orphans(s0) \in SUBSET Procs /\ \A q \in Orphans(s0) : s0.state[q] = "zombie"
    BY DEF Orphans
<1>6. PipeInv(s) /\ s.deferred = {} /\ ~Dead(s, p)
    BY <1>3, <1>4, <1>5, ReapInv
<1>7. CASE s.state[child] # "none"
    <2>1. Return(s, p)
        BY <1>1, <1>4, <1>7 DEF SysSpawn
    <2>2. QED
        BY <1>6, <2>1, ReturnInv
<1>8. CASE s.state[child] = "none"
    <2>1. Return(Spawned(s, p, child, from), p)
        BY <1>1, <1>4, <1>8 DEF SysSpawn, Spawned
    <2>2. PipeInv(Spawned(s, p, child, from))
        BY <1>6, <1>8, SpawnInv
    <2>3. QED
        BY <2>1, <2>2, ReturnInv
<1>9. QED
    BY <1>7, <1>8

LEMMA ExitInv ==
    ASSUME PipeInv(Now), NEW p \in Procs, SysExit(p)
    PROVE  PipeInv(Now)'
<1>1. PICK s : s = Entered
    OBVIOUS
<1>2. PipeInv(s)
    BY <1>1, EnteredInv
<1>3. PICK u : u = Close(s, AllOf({p}))
    OBVIOUS
<1>4. PipeInv(u) /\ CloseLeaves(s, AllOf({p}), u)
    BY <1>2, <1>3, CloseInv, CloseFields
<1>5. ASSUME NEW fd \in Fds
      PROVE  ~IsPipe(u.table[p][fd])
    <2>1. <<p, fd>> \in AllOf({p})
        BY DEF AllOf
    <2>2. u.table[p][fd] = Free
        BY <1>4, <2>1 DEF CloseLeaves
    <2>3. QED
        BY <2>2 DEF IsPipe, Free, Ends
<1>6. PipeInv(Bury(u, p))
    BY <1>4, <1>5, BuryInv
<1>7. Become(Bury(u, p))
    BY <1>1, <1>3 DEF SysExit
<1>8. QED
    BY <1>6, <1>7, BecomeInv

LEMMA SignalCallsInv ==
    ASSUME PipeInv(Now), NEW p \in Procs, NEW q \in Procs
    PROVE  /\ SysKill(p, q) => PipeInv(Now)'
           /\ SysTerminate(p, q) => PipeInv(Now)'
           /\ Signalled(p) => PipeInv(Now)'
<1>1. PICK s : s = Entered
    OBVIOUS
<1>2. PipeInv(s)
    BY <1>1, EnteredInv
<1>3. ASSUME SysKill(p, q)
      PROVE  PipeInv(Now)'
    <2>1. Return(ForceKill(s, q), p)
        BY <1>1, <1>3 DEF SysKill
    <2>2. PipeInv(ForceKill(s, q))
        BY <1>2, ForceKillInv
    <2>3. QED
        BY <2>1, <2>2, ReturnInv
<1>4. ASSUME SysTerminate(p, q)
      PROVE  PipeInv(Now)'
    <2>1. PICK u : u = [s EXCEPT !.pending = s.pending \cup {q}, !.state[q] = "running"]
        OBVIOUS
    <2>2. Return(IF Dead(s, q) THEN s ELSE u, p)
        BY <1>1, <1>4, <2>1 DEF SysTerminate, Dead
    <2>3. CASE Dead(s, q)
        BY <1>2, <2>2, <2>3, ReturnInv
    <2>4. CASE ~Dead(s, q)
        <3>1. PipeInv(u)
            <4>1. PICK ps : ps = s.pending \cup {q}
                OBVIOUS
            <4>2. u = [s EXCEPT !.pending = ps, !.state[q] = "running"]
                BY <2>1, <4>1
            <4>3. Calm(s, [s EXCEPT !.pending = ps, !.state[q] = "running"])
                BY <1>2, <2>4, WakeOneCalm
            <4>4. QED
                BY <1>2, <4>2, <4>3, CalmInv
        <3>2. QED
            BY <2>2, <2>4, <3>1, ReturnInv
    <2>5. QED
        BY <2>3, <2>4
<1>5. ASSUME Signalled(p)
      PROVE  PipeInv(Now)'
    BY <1>5, ForceKillInv, BecomeInv DEF Signalled
<1>6. QED
    BY <1>3, <1>4, <1>5

LEMMA WaitInv ==
    ASSUME PipeInv(Now), NEW p \in Procs, SysWait(p)
    PROVE  PipeInv(Now)'
<1>1. PICK s : s = Entered
    OBVIOUS
<1>2. state[p] = "running"
    BY DEF SysWait, Enters
<1>3. PipeInv(s) /\ s.deferred = {} /\ ~Dead(s, p)
    BY <1>1, <1>2, EnteredInv
<1>4. \/ \E q \in Procs : s.state[q] = "zombie" /\ Return(Reap(s, {q}), p)
      \/ Return(s, p)
      \/ BlockAndRestart(s, p, [op |-> "wait"], "child")
    BY <1>1 DEF SysWait
<1>5. ASSUME NEW q \in Procs, s.state[q] = "zombie", Return(Reap(s, {q}), p)
      PROVE  PipeInv(Now)'
    <2>1. PipeInv(Reap(s, {q}))
        BY <1>3, <1>5, ReapInv
    <2>2. QED
        BY <1>5, <2>1, ReturnInv
<1>6. CASE Return(s, p)
    BY <1>3, <1>6, ReturnInv
<1>7. CASE BlockAndRestart(s, p, [op |-> "wait"], "child")
    BY <1>3, <1>7, BlockInv
<1>8. QED
    BY <1>4, <1>5, <1>6, <1>7

(* The initial state, and every step.                                      *)
LEMMA PipeInitInv ==
    ASSUME Init
    PROVE  PipeInv(Now)
<1>1. PICK s : s = Now
    OBVIOUS
<1>2. IsState(s)
    BY <1>1 DEF Now, IsState
<1>3. /\ s.pipes = [i \in PipeIds |-> NoPipe]
      /\ s.table = [p \in Procs |-> IF p = Root THEN WithStdio ELSE Empty]
      /\ s.state = [p \in Procs |-> IF p = Root THEN "running" ELSE "none"]
      /\ s.deferred = {}
    BY <1>1 DEF Now, Init
<1>4. IsRing(NoPipe) /\ ~NoPipe.in_use
    BY DEF NoPipe, IsRing
<1>5. ASSUME NEW p \in Procs, NEW fd \in Fds
      PROVE  ~IsPipe(s.table[p][fd])
    <2>1. s.table[p][fd] \in {Free, Console}
        BY <1>3 DEF WithStdio, Empty
    <2>2. QED
        BY <2>1 DEF Free, Console, IsPipe, Ends
<1>6. ShapeOK(s)
    <2>1. s.table = [p \in Procs |-> [fd \in Fds |-> s.table[p][fd]]]
        BY <1>3 DEF WithStdio, Empty
    <2>2. QED
        BY <1>2, <1>3, <1>4, <1>5, <2>1 DEF ShapeOK
<1>7. OpenFiles(s) = {}
    <2>1. \A y : y \notin OpenFiles(s)
        BY <1>5, InOpenFiles
    <2>2. QED
        BY <2>1
<1>8. \A i \in PipeIds : Counted(s, i)
    BY <1>3, <1>4, <1>7 DEF Counted, OfPipe
<1>9. DeadClosed(s)
    BY <1>5 DEF DeadClosed
<1>10. QED
    BY <1>1, <1>3, <1>6, <1>8, <1>9 DEF PipeInv

LEMMA PipeNextInv ==
    ASSUME PipeInv(Now), [Next]_vars
    PROVE  PipeInv(Now)'
<1>1. CASE UNCHANGED vars
    <2>1. Now' = Now
        BY <1>1 DEF vars, Now
    <2>2. QED
        BY <2>1
<1>2. CASE Tick
    <2>1. PipeInv(WakeWaiters(Now, "input"))
        BY WakeCalm, CalmInv
    <2>2. QED
        BY <1>2, <2>1, BecomeInv DEF Tick
<1>3. ASSUME NEW p \in Procs, ReadOrWrite(p)
      PROVE  PipeInv(Now)'
    BY <1>3, ReadInv, WriteInv DEF ReadOrWrite
<1>4. QED
    BY <1>1, <1>2, <1>3, PipeCallInv, FdCallsInv, SpawnCallInv, ExitInv, SignalCallsInv, WaitInv
       DEF Next

LEMMA PipeInvCounts ==
    ASSUME PipeInv(Now)
    PROVE  EndsMatchDescriptors
<1>1. Now.pipes = pipes
    BY DEF Now
<1>2. QED
    BY <1>1 DEF PipeInv, Counted, OfPipe, EndsMatchDescriptors

(* Whatever order processes open, duplicate, inherit, close, exit and are  *)
(* killed in, a pipe (pipe.rs) counts exactly the open file descriptions   *)
(* of its two ends that descriptor tables reach (file.rs), and is in use   *)
(* while there is one: the deferred clean-up of a killed process           *)
(* (signal.rs, DEFERRED_KILL_CLEANUP) closes each of its ends once.        *)
THEOREM EndsCounted == Spec => []EndsMatchDescriptors
<1>1. Init => PipeInv(Now)
    BY PipeInitInv
<1>2. PipeInv(Now) /\ [Next]_vars => PipeInv(Now)'
    BY PipeNextInv
<1>3. PipeInv(Now) => EndsMatchDescriptors
    BY PipeInvCounts
<1>4. QED
    BY <1>1, <1>2, <1>3, PTL DEF Spec

-----------------------------------------------------------------------------
(***************************************************************************)
(* Pipes as channels.  The bytes between tail and head, in the order of    *)
(* the ring, are the queue of the channel.                                 *)
(***************************************************************************)
RingOK(x) ==
    /\ x.buf \in [Index -> Bytes]
    /\ x.head \in Index /\ x.tail \in Index /\ x.len \in 0..BufSize
    /\ x.head = (x.tail + x.len) % BufSize

View(P) == [i \in PipeIds |-> IF P[i].in_use THEN Contents(P[i]) ELSE Closed]

(* An index that went once around the ring.                                *)
LEMMA Around ==
    ASSUME NEW a \in Nat, a < 2 * BufSize
    PROVE  /\ a % BufSize = IF a < BufSize THEN a ELSE a - BufSize
           /\ a % BufSize \in Index
<1>1. BufSize \in Nat \ {0}
    BY DescriptorAssumption
<1>2. a % BufSize = IF a < BufSize THEN a ELSE a - BufSize
    BY <1>1
<1>3. QED
    BY <1>1, <1>2 DEF Index

LEMMA Turn ==
    ASSUME NEW a \in Nat, NEW b \in Nat, a < BufSize, b <= BufSize
    PROVE  (a + b) % BufSize = IF a + b < BufSize THEN a + b ELSE a + b - BufSize
<1>1. BufSize \in Nat \ {0}
    BY DescriptorAssumption
<1>2. QED
    BY <1>1, Around

(* Sequences cut in two, and joined.                                       *)
LEMMA CutSeq ==
    ASSUME NEW S, NEW c \in Seq(S), NEW n \in 1..Len(c)
    PROVE  /\ SubSeq(c, n + 1, Len(c)) \in Seq(S) /\ Len(SubSeq(c, n + 1, Len(c))) = Len(c) - n
           /\ \A k \in 1..(Len(c) - n) : SubSeq(c, n + 1, Len(c))[k] = c[n + k]
<1>1. Len(c) \in Nat /\ n \in Nat /\ n <= Len(c)
    BY LenProperties
<1>2. QED
    BY <1>1

LEMMA FirstOf ==
    ASSUME NEW S, NEW c, NEW n \in Nat, \A k \in 1..n : c[k] \in S
    PROVE  /\ SubSeq(c, 1, n) \in Seq(S) /\ Len(SubSeq(c, 1, n)) = n
           /\ \A k \in 1..n : SubSeq(c, 1, n)[k] = c[k]
<1>1. /\ SubSeq(c, 1, n) \in Seq(S) /\ Len(SubSeq(c, 1, n)) = IF 1 <= n THEN n - 1 + 1 ELSE 0
      /\ \A k \in 1..(n - 1 + 1) : SubSeq(c, 1, n)[k] = c[1 + k - 1]
    BY SubSeqProperties
<1>2. QED
    BY <1>1

LEMMA ContentsFacts ==
    ASSUME NEW x, RingOK(x)
    PROVE  /\ Contents(x) \in Seq(Bytes) /\ Len(Contents(x)) = x.len
           /\ \A k \in 1..x.len : Contents(x)[k] = x.buf[(x.tail + k - 1) % BufSize]
           /\ Contents(x) # Closed
<1>1. BufSize \in Nat \ {0} /\ x.len \in Nat /\ x.len <= BufSize /\ x.tail \in Nat /\ x.tail < BufSize
    BY DescriptorAssumption DEF RingOK, Index
<1>2. PICK c : c = Contents(x)
    OBVIOUS
<1>3. ASSUME NEW k \in 1..x.len
      PROVE  x.buf[(x.tail + k - 1) % BufSize] \in Bytes
    <2>1. x.tail + k - 1 \in Nat /\ x.tail + k - 1 < 2 * BufSize
        BY <1>1
    <2>2. (x.tail + k - 1) % BufSize \in Index
        BY <1>1, <2>1, Around
    <2>3. QED
        BY <2>2 DEF RingOK
<1>4. c \in [1..x.len -> Bytes]
    BY <1>2, <1>3 DEF Contents
<1>5. c \in Seq(Bytes) /\ Len(c) = x.len
    BY <1>1, <1>4
<1>6. \A k \in 1..x.len : c[k] = x.buf[(x.tail + k - 1) % BufSize]
    BY <1>2 DEF Contents
<1>7. c # Closed
    <2>1. SUFFICES ASSUME c = Closed PROVE FALSE
        OBVIOUS
    <2>2. Len(c) = 1 /\ c[1] = "closed"
        BY <2>1 DEF Closed
    <2>3. c[1] \in Bytes
        BY <1>5, <2>2, ElementOfSeq
    <2>4. QED
        BY <2>2, <2>3, DescriptorAssumption
<1>8. QED
    BY <1>2, <1>5, <1>6, <1>7

(* n bytes are read: the oldest ones.                                      *)
LEMMA ReadRing ==
    ASSUME NEW x, RingOK(x), NEW n \in 1..x.len, NEW y,
           y.buf = x.buf, y.head = x.head, y.tail = (x.tail + n) % BufSize, y.len = x.len - n
    PROVE  /\ RingOK(y)
           /\ Contents(y) = SubSeq(Contents(x), n + 1, Len(Contents(x)))
           /\ [k \in 1..n |-> x.buf[(x.tail + k - 1) % BufSize]] = SubSeq(Contents(x), 1, n)
<1>1. /\ BufSize \in Nat \ {0} /\ x.len \in Nat /\ x.len <= BufSize /\ x.tail \in Nat /\ x.tail < BufSize
      /\ n \in Nat /\ n <= x.len /\ n >= 1
    BY DescriptorAssumption DEF RingOK, Index
<1>2. /\ y.tail \in Index
      /\ y.tail = IF x.tail + n < BufSize THEN x.tail + n ELSE x.tail + n - BufSize
    <2>1. PICK a \in Nat : a = x.tail + n /\ a < 2 * BufSize
        BY <1>1
    <2>2. QED
        BY <1>1, <2>1, Around
<1>3. y.len \in 0..BufSize /\ y.tail \in Nat
    BY <1>1, <1>2 DEF Index
<1>4. x.head = IF x.tail + x.len < BufSize THEN x.tail + x.len ELSE x.tail + x.len - BufSize
    <2>1. PICK a \in Nat : a = x.tail + x.len /\ a < 2 * BufSize
        BY <1>1
    <2>2. QED
        BY <1>1, <2>1, Around DEF RingOK
<1>5. (y.tail + y.len) % BufSize = IF y.tail + y.len < BufSize THEN y.tail + y.len ELSE y.tail + y.len - BufSize
    <2>1. PICK a \in Nat : a = y.tail + y.len /\ a < 2 * BufSize
        BY <1>1, <1>2, <1>3
    <2>2. QED
        BY <1>1, <2>1, Around
<1>6. y.head = (y.tail + y.len) % BufSize
    BY <1>1, <1>2, <1>3, <1>4, <1>5
<1>7. RingOK(y)
    BY <1>2, <1>3, <1>6 DEF RingOK
<1>8. PICK c, d : c = Contents(x) /\ d = Contents(y)
    OBVIOUS
<1>9. /\ c \in Seq(Bytes) /\ Len(c) = x.len
      /\ \A k \in 1..x.len : c[k] = x.buf[(x.tail + k - 1) % BufSize]
    BY <1>8, ContentsFacts
<1>10. /\ d \in Seq(Bytes) /\ Len(d) = y.len
       /\ \A k \in 1..y.len : d[k] = x.buf[(y.tail + k - 1) % BufSize]
    <2>1. /\ d \in Seq(Bytes) /\ Len(d) = y.len
          /\ \A k \in 1..y.len : d[k] = y.buf[(y.tail + k - 1) % BufSize]
        BY <1>7, <1>8, ContentsFacts, Zenon
    <2>2. QED
        BY <2>1, Zenon
<1>11. PICK b : b = SubSeq(c, n + 1, Len(c))
    OBVIOUS
<1>12. b \in Seq(Bytes) /\ Len(b) = x.len - n /\ \A k \in 1..(x.len - n) : b[k] = c[n + k]
    <2>1. c \in Seq(Bytes) /\ n \in 1..Len(c)
        BY <1>9
    <2>2. b \in Seq(Bytes) /\ Len(b) = Len(c) - n /\ \A k \in 1..(Len(c) - n) : b[k] = c[n + k]
        BY <1>11, <2>1, CutSeq
    <2>3. QED
        BY <1>9, <2>2
<1>13. ASSUME NEW k \in 1..y.len
       PROVE  d[k] = b[k]
    <2>1. k \in Nat /\ k >= 1 /\ k <= x.len - n /\ n + k \in 1..x.len
        BY <1>1
    <2>2. (y.tail + k - 1) % BufSize = IF y.tail + k - 1 < BufSize THEN y.tail + k - 1 ELSE y.tail + k - 1 - BufSize
        <3>1. PICK a \in Nat : a = y.tail + k - 1 /\ a < 2 * BufSize
            BY <1>1, <1>2, <2>1
        <3>2. QED
            BY <1>1, <3>1, Around
    <2>3. (x.tail + (n + k) - 1) % BufSize =
            IF x.tail + (n + k) - 1 < BufSize THEN x.tail + (n + k) - 1 ELSE x.tail + (n + k) - 1 - BufSize
        <3>1. PICK a \in Nat : a = x.tail + (n + k) - 1 /\ a < 2 * BufSize
            BY <1>1, <2>1
        <3>2. QED
            BY <1>1, <3>1, Around
    <2>4. (y.tail + k - 1) % BufSize = (x.tail + (n + k) - 1) % BufSize
        BY <1>1, <1>2, <2>1, <2>2, <2>3
    <2>5. d[k] = x.buf[(y.tail + k - 1) % BufSize]
        BY <1>10
    <2>6. c[n + k] = x.buf[(x.tail + (n + k) - 1) % BufSize]
        BY <1>9, <2>1
    <2>7. b[k] = c[n + k]
        BY <1>12, <2>1
    <2>8. QED
        BY <2>4, <2>5, <2>6, <2>7
<1>14. d = b
    BY <1>10, <1>12, <1>13, SeqEqual
<1>15. PICK a, e : a = SubSeq(c, 1, n) /\ e = [k \in 1..n |-> x.buf[(x.tail + k - 1) % BufSize]]
    OBVIOUS
<1>16. a \in Seq(Bytes) /\ Len(a) = n /\ \A k \in 1..n : a[k] = c[k]
    BY <1>1, <1>9, <1>15
<1>17. \A k \in 1..n : k \in 1..x.len /\ c[k] \in Bytes
    BY <1>1, <1>9, ElementOfSeq
<1>18. e = [k \in 1..n |-> c[k]]
    BY <1>9, <1>15, <1>17
<1>19. e \in Seq(Bytes) /\ Len(e) = n /\ \A k \in 1..n : e[k] = c[k]
    <2>1. e \in [1..n -> Bytes]
        BY <1>17, <1>18
    <2>2. QED
        BY <1>1, <1>18, <2>1
<1>20. e = a
    BY <1>16, <1>19, SeqEqual
<1>21. QED
    BY <1>7, <1>8, <1>11, <1>14, <1>15, <1>20

(* n bytes are written: behind the newest one.                             *)
LEMMA WriteRing ==
    ASSUME NEW x, RingOK(x), NEW n \in 1..BufSize, x.len + n <= BufSize,
           NEW data, \A k \in 1..n : data[k] \in Bytes, NEW y,
           y.buf = [j \in Index |-> IF (j + BufSize - x.head) % BufSize < n
                                    THEN data[((j + BufSize - x.head) % BufSize) + 1] ELSE x.buf[j]],
           y.head = (x.head + n) % BufSize, y.tail = x.tail, y.len = x.len + n
    PROVE  /\ RingOK(y)
           /\ Contents(y) = Contents(x) \o SubSeq(data, 1, n)
<1>1. /\ BufSize \in Nat \ {0} /\ x.len \in Nat /\ x.len <= BufSize /\ x.tail \in Nat /\ x.tail < BufSize
      /\ x.head \in Nat /\ x.head < BufSize /\ n \in Nat /\ n >= 1
    <2>1. BufSize \in Nat \ {0}
        BY DescriptorAssumption
    <2>2. n \in Nat /\ n >= 1
        BY <2>1
    <2>3. x.len \in Nat /\ x.len <= BufSize /\ x.tail \in Nat /\ x.tail < BufSize
        BY <2>1 DEF RingOK, Index
    <2>4. x.head \in Nat /\ x.head < BufSize
        BY <2>1 DEF RingOK, Index
    <2>5. QED
        BY <2>1, <2>2, <2>3, <2>4
<1>2. x.head = IF x.tail + x.len < BufSize THEN x.tail + x.len ELSE x.tail + x.len - BufSize
    BY <1>1, Turn, Zenon DEF RingOK
<1>3. /\ y.head \in Index
      /\ y.head = IF x.head + n < BufSize THEN x.head + n ELSE x.head + n - BufSize
    <2>1. PICK a \in Nat : a = x.head + n /\ a < 2 * BufSize
        BY <1>1
    <2>2. QED
        BY <1>1, <2>1, Around
<1>4. (y.tail + y.len) % BufSize = IF y.tail + y.len < BufSize THEN y.tail + y.len ELSE y.tail + y.len - BufSize
    <2>1. PICK a \in Nat : a = y.tail + y.len /\ a < 2 * BufSize
        BY <1>1
    <2>2. QED
        BY <1>1, <2>1, Around
<1>5. y.head = (y.tail + y.len) % BufSize
    BY <1>1, <1>2, <1>3, <1>4
<1>6. ASSUME NEW j \in Index
      PROVE  /\ j \in Nat /\ j < BufSize
             /\ (j + BufSize - x.head) % BufSize = IF j < x.head THEN j + BufSize - x.head ELSE j - x.head
             /\ (j + BufSize - x.head) % BufSize \in Nat
    <2>1. j \in Nat /\ j < BufSize
        BY <1>1 DEF Index
    <2>2. PICK a \in Nat : a = j + BufSize - x.head /\ a < 2 * BufSize
        BY <1>1, <2>1
    <2>3. a % BufSize = IF a < BufSize THEN a ELSE a - BufSize
        BY <1>1, <2>2, Around
    <2>4. a % BufSize = IF j < x.head THEN j + BufSize - x.head ELSE j - x.head
        BY <1>1, <2>1, <2>2, <2>3
    <2>5. a % BufSize \in Nat
        BY <1>1, <2>1, <2>4
    <2>6. QED
        BY <2>1, <2>2, <2>4, <2>5
<1>7. y.buf \in [Index -> Bytes]
    <2>1. ASSUME NEW j \in Index
          PROVE  y.buf[j] \in Bytes
        <3>1. PICK m : m = (j + BufSize - x.head) % BufSize
            OBVIOUS
        <3>2. m \in Nat
            BY <1>6, <3>1
        <3>3. y.buf[j] = IF m < n THEN data[m + 1] ELSE x.buf[j]
            BY <3>1
        <3>4. m < n => m + 1 \in 1..n
            BY <1>1, <3>2
        <3>5. QED
            BY <3>3, <3>4 DEF RingOK
    <2>2. QED
        BY <2>1
<1>8. RingOK(y)
    BY <1>1, <1>3, <1>5, <1>7 DEF RingOK
<1>9. PICK c, d, b, w : c = Contents(x) /\ d = Contents(y) /\ b = SubSeq(data, 1, n) /\ w = c \o b
    OBVIOUS
<1>10. /\ c \in Seq(Bytes) /\ Len(c) = x.len
       /\ \A k \in 1..x.len : c[k] = x.buf[(x.tail + k - 1) % BufSize]
    BY <1>9, ContentsFacts
<1>11. /\ d \in Seq(Bytes) /\ Len(d) = x.len + n
       /\ \A k \in 1..(x.len + n) : d[k] = y.buf[(x.tail + k - 1) % BufSize]
    <2>1. /\ d \in Seq(Bytes) /\ Len(d) = y.len
          /\ \A k \in 1..y.len : d[k] = y.buf[(y.tail + k - 1) % BufSize]
        BY <1>8, <1>9, ContentsFacts, Zenon
    <2>2. QED
        BY <2>1, Zenon
<1>12. b \in Seq(Bytes) /\ Len(b) = n /\ \A k \in 1..n : b[k] = data[k]
    <2>1. /\ SubSeq(data, 1, n) \in Seq(Bytes) /\ Len(SubSeq(data, 1, n)) = n
          /\ \A k \in 1..n : SubSeq(data, 1, n)[k] = data[k]
        <3>1. n \in Nat
            BY <1>1
        <3>2. QED
            BY <3>1, FirstOf
    <2>2. QED
        BY <1>9, <2>1
<1>13. /\ w \in Seq(Bytes) /\ Len(w) = x.len + n
       /\ \A k \in 1..(x.len + n) : w[k] = IF k <= x.len THEN c[k] ELSE b[k - x.len]
    <2>1. /\ w \in Seq(Bytes) /\ Len(w) = Len(c) + Len(b)
          /\ \A k \in 1..(Len(c) + Len(b)) : w[k] = IF k <= Len(c) THEN c[k] ELSE b[k - Len(c)]
        <3>1. w = c \o b /\ c \in Seq(Bytes) /\ b \in Seq(Bytes)
            BY <1>9, <1>10, <1>12
        <3>2. QED
            BY <3>1, ConcatProperties
    <2>2. QED
        BY <1>10, <1>12, <2>1, Zenon
<1>14. ASSUME NEW k \in 1..(x.len + n)
       PROVE  d[k] = w[k]
    <2>1. k \in Nat /\ k >= 1 /\ k <= x.len + n
        BY <1>1
    <2>2. PICK j : j = (x.tail + k - 1) % BufSize
        OBVIOUS
    <2>3. j \in Index /\ j = IF x.tail + k - 1 < BufSize THEN x.tail + k - 1 ELSE x.tail + k - 1 - BufSize
        <3>1. PICK a \in Nat : a = x.tail + k - 1 /\ a < 2 * BufSize
            BY <1>1, <2>1
        <3>2. QED
            BY <1>1, <2>2, <3>1, Around
    <2>4. PICK m : m = (j + BufSize - x.head) % BufSize
        OBVIOUS
    <2>5. j \in Nat /\ j < BufSize /\ m \in Nat /\ m = IF j < x.head THEN j + BufSize - x.head ELSE j - x.head
        BY <1>6, <2>3, <2>4
    <2>6. y.buf[j] = IF m < n THEN data[m + 1] ELSE x.buf[j]
        BY <2>3, <2>4
    <2>7. d[k] = y.buf[j]
        BY <1>11, <2>2
    <2>8. CASE k <= x.len
        <3>1. ~(m < n)
            BY <1>1, <1>2, <2>1, <2>3, <2>5, <2>8
        <3>2. c[k] = x.buf[j]
            BY <1>10, <2>1, <2>2, <2>8
        <3>3. QED
            BY <1>13, <2>6, <2>7, <2>8, <3>1, <3>2
    <2>9. CASE ~(k <= x.len)
        <3>0. j = IF x.tail + k - 1 < BufSize THEN x.tail + k - 1 ELSE x.tail + k - 1 - BufSize
            BY <2>3
        <3>1. m = k - x.len - 1 /\ m < n /\ m + 1 = k - x.len /\ k - x.len \in 1..n
            <4>1. m = k - x.len - 1
                <5>1. CASE x.tail + x.len < BufSize
                    BY <1>1, <1>2, <2>1, <3>0, <2>5, <2>9, <5>1
                <5>2. CASE ~(x.tail + x.len < BufSize)
                    BY <1>1, <1>2, <2>1, <3>0, <2>5, <2>9, <5>2
                <5>3. QED
                    BY <5>1, <5>2
            <4>2. QED
                BY <1>1, <2>1, <2>9, <4>1
        <3>2. b[k - x.len] = data[m + 1]
            BY <1>12, <3>1
        <3>3. QED
            BY <1>13, <2>6, <2>7, <2>9, <3>1, <3>2
    <2>10. QED
        BY <2>8, <2>9
<1>15. d = w
    BY <1>11, <1>13, <1>14, SeqEqual
<1>16. QED
    BY <1>8, <1>9, <1>15
-----------------------------------------------------------------------------
(* Pipes are closed, and nothing else happens to them.                     *)
Rings(P) == \A i \in PipeIds : RingOK(P[i])

Frees(P, Q) ==
    \A i \in PipeIds :
        RingOK(Q[i]) /\ (Q[i].in_use => P[i].in_use /\ Contents(Q[i]) = Contents(P[i]))

LEMMA SameRing ==
    ASSUME NEW x, NEW y, RingOK(x), y.buf = x.buf, y.head = x.head, y.tail = x.tail, y.len = x.len
    PROVE  RingOK(y) /\ Contents(y) = Contents(x)
    BY DEF RingOK, Contents

LEMMA WakeEffect ==
    ASSUME NEW s, IsState(s), NEW reason
    PROVE  /\ IsState(WakeWaiters(s, reason)) /\ WakeWaiters(s, reason).pipes = s.pipes
           /\ WakeWaiters(s, reason).got = s.got
<1> DEFINE st == [p \in Procs |-> IF s.state[p] = reason THEN "running" ELSE s.state[p]]
<1>1. PICK t : t = [s EXCEPT !.state = st]
    OBVIOUS
<1>2. t = WakeWaiters(s, reason)
    BY <1>1 DEF WakeWaiters
<1> HIDE DEF st
<1>3. IsState(t) /\ t.pipes = s.pipes /\ t.got = s.got
    BY <1>1 DEF IsState
<1>4. QED
    BY <1>2, <1>3

LEMMA CloseEffect ==
    ASSUME NEW s, PipeInv(s), Rings(s.pipes), NEW slots
    PROVE  Frees(s.pipes, Close(s, slots).pipes) /\ Close(s, slots).got = s.got
<1>1. PICK t : t = Close(s, slots)
    OBVIOUS
<1>2. t.pipes = [i \in PipeIds |-> CloseEnds(s.pipes[i],
           Cardinality({e \in Dropped(s, slots) : e.pipe = i /\ e.end = "r"}),
           Cardinality({e \in Dropped(s, slots) : e.pipe = i /\ e.end = "w"}))]
    <2>1. CloseLeaves(s, slots, t)
        BY <1>1, CloseFields
    <2>2. QED
        BY <2>1, Zenon DEF CloseLeaves
<1>3. ASSUME NEW x, IsRing(x), RingOK(x), NEW r, NEW w, NEW y, y = CloseEnds(x, r, w)
      PROVE  RingOK(y) /\ (y.in_use => x.in_use /\ Contents(y) = Contents(x))
    <2>1. y.buf = x.buf /\ y.head = x.head /\ y.tail = x.tail /\ y.len = x.len
        BY <1>3 DEF IsRing, CloseEnds
    <2>2. y.in_use => x.in_use
        BY <1>3 DEF CloseEnds
    <2>3. QED
        BY <1>3, <2>1, <2>2, SameRing
<1>4. \A i \in PipeIds : IsRing(s.pipes[i]) /\ RingOK(s.pipes[i])
    BY DEF PipeInv, ShapeOK, Rings
<1>5. Frees(s.pipes, t.pipes)
    <2>1. ASSUME NEW i \in PipeIds
          PROVE  /\ RingOK(t.pipes[i])
                 /\ t.pipes[i].in_use => s.pipes[i].in_use /\ Contents(t.pipes[i]) = Contents(s.pipes[i])
        <3>0. PICK r, w : /\ r = Cardinality({e \in Dropped(s, slots) : e.pipe = i /\ e.end = "r"})
                          /\ w = Cardinality({e \in Dropped(s, slots) : e.pipe = i /\ e.end = "w"})
            OBVIOUS
        <3>1. t.pipes[i] = CloseEnds(s.pipes[i], r, w)
            BY <1>2, <3>0
        <3>2. QED
            BY <1>3, <1>4, <3>1
    <2>2. QED
        BY <2>1 DEF Frees
<1>6. t.got = s.got
    <2> DEFINE gone == Dropped(s, slots)
               Of(i, end) == Cardinality({e \in gone : e.pipe = i /\ e.end = end})
               tb == [p \in Procs |->
                          [fd \in Fds |-> IF <<p, fd>> \in slots THEN Free ELSE s.table[p][fd]]]
               pp == [i \in PipeIds |-> CloseEnds(s.pipes[i], Of(i, "r"), Of(i, "w"))]
               nb == s.nonblock \ {e.ofd : e \in gone}
    <2>1. PICK u : u = [s EXCEPT !.table = tb, !.pipes = pp, !.nonblock = nb]
        OBVIOUS
    <2>2. t = IF gone = {} THEN u ELSE WakeWaiters(u, "input")
        BY <1>1, <2>1 DEF Close
    <2> HIDE DEF tb, pp, nb, gone
    <2>3. IsState(s)
        BY DEF PipeInv, ShapeOK
    <2>4. IsState(u) /\ u.got = s.got
        BY <2>1, <2>3 DEF IsState
    <2>5. QED
        BY <2>2, <2>4, WakeEffect
<1>7. QED
    BY <1>1, <1>5, <1>6

LEMMA BuryEffect ==
    ASSUME NEW s, PipeInv(s), NEW p \in Procs
    PROVE  Bury(s, p).pipes = s.pipes /\ Bury(s, p).got = s.got
<1>1. PICK a : a = [s EXCEPT !.state[p] = "zombie", !.call[p] = NoCall, !.pending = @ \ {p}]
    OBVIOUS
<1>2. IsState(s)
    BY DEF PipeInv, ShapeOK
<1>3. IsState(a)
    BY <1>1, <1>2 DEF IsState
<1>4. a.pipes = s.pipes /\ a.got = s.got
    BY <1>1, <1>2 DEF IsState
<1>5. PICK b : b = Reparent(a, p)
    OBVIOUS
<1>6. IsState(b) /\ b.pipes = a.pipes /\ b.got = a.got
    BY <1>3, <1>5 DEF IsState, Reparent
<1>7. Bury(s, p) = WakeWaiters(b, "child")
    BY <1>1, <1>5 DEF Bury
<1>8. QED
    BY <1>4, <1>6, <1>7, WakeEffect

LEMMA KillEffect ==
    ASSUME NEW s, PipeInv(s), NEW p \in Procs
    PROVE  ForceKill(s, p).pipes = s.pipes /\ ForceKill(s, p).got = s.got
<1>1. PICK b : b = Bury(s, p)
    OBVIOUS
<1>2. IsState(b) /\ b.pipes = s.pipes /\ b.got = s.got
    BY <1>1, BuryFields, BuryEffect DEF Buries
<1>3. PICK t : t = [b EXCEPT !.deferred = b.deferred \cup {p}]
    OBVIOUS
<1>4. t.pipes = s.pipes /\ t.got = s.got
    BY <1>2, <1>3 DEF IsState
<1>5. ForceKill(s, p) = s \/ ForceKill(s, p) = t
    BY <1>1, <1>3 DEF ForceKill
<1>6. QED
    BY <1>4, <1>5

LEMMA ReapEffect ==
    ASSUME NEW s, PipeInv(s), NEW ps
    PROVE  Reap(s, ps).pipes = s.pipes /\ Reap(s, ps).got = s.got
<1> DEFINE st == [p \in Procs |-> IF p \in ps THEN "none" ELSE s.state[p]]
           pa == [p \in Procs |-> IF p \in ps THEN NoProc ELSE s.parent[p]]
           tb == [p \in Procs |-> IF p \in ps THEN Empty ELSE s.table[p]]
<1>1. PICK t : t = [s EXCEPT !.state = st, !.parent = pa, !.table = tb]
    OBVIOUS
<1>2. t = Reap(s, ps)
    BY <1>1 DEF Reap
<1> HIDE DEF st, pa, tb
<1>3. IsState(s)
    BY DEF PipeInv, ShapeOK
<1>4. t.pipes = s.pipes /\ t.got = s.got
    BY <1>1, <1>3 DEF IsState
<1>5. QED
    BY <1>2, <1>4

LEMMA InstallEffect ==
    ASSUME NEW s, IsState(s), NEW p, NEW fd, NEW e
    PROVE  /\ IsState(Install(s, p, fd, e)) /\ Install(s, p, fd, e).pipes = s.pipes
           /\ Install(s, p, fd, e).got = s.got
    BY DEF Install, IsState

LEMMA SpawnEffect ==
    ASSUME NEW s, PipeInv(s), NEW p, NEW child, NEW from
    PROVE  Spawned(s, p, child, from).pipes = s.pipes /\ Spawned(s, p, child, from).got = s.got
<1>1. IsState(s)
    BY DEF PipeInv, ShapeOK
<1>2. PICK t : t = Spawned(s, p, child, from)
    OBVIOUS
<1>3. PICK f : f = [fd \in Fds |-> IF fd \notin StdFds THEN Free
                                   ELSE IF s.table[p][from[fd]] = Free THEN Console
                                   ELSE s.table[p][from[fd]]]
    OBVIOUS
<1>4. t = [s EXCEPT !.state[child] = "running", !.parent[child] = p, !.table[child] = f]
    BY <1>2, <1>3 DEF Spawned
<1>5. t.pipes = s.pipes /\ t.got = s.got
    BY <1>1, <1>4 DEF IsState
<1>6. QED
    BY <1>2, <1>5

(* What a call leaves behind when it returns or blocks.                    *)
LEMMA ReturnEffect ==
    ASSUME NEW s, PipeInv(s), NEW p \in Procs, Return(s, p)
    PROVE  pipes' = s.pipes /\ got' = s.got
<1>1. PICK u : u = [s EXCEPT !.call[p] = NoCall]
    OBVIOUS
<1>2. PipeInv(u)
    BY <1>1, FieldsCalm, CalmInv
<1>3. IsState(s)
    BY DEF PipeInv, ShapeOK
<1>4. u.pipes = s.pipes /\ u.got = s.got
    BY <1>1, <1>3 DEF IsState
<1>5. PICK t : t = Deliver(u, p)
    OBVIOUS
<1>6. t.pipes = u.pipes /\ t.got = u.got
    BY <1>2, <1>5, KillEffect DEF Deliver
<1>7. pipes' = t.pipes /\ got' = t.got
    BY <1>1, <1>5 DEF Return, Become
<1>8. QED
    BY <1>4, <1>6, <1>7

LEMMA BlockEffect ==
    ASSUME NEW s, PipeInv(s), NEW p, NEW c, NEW reason, BlockAndRestart(s, p, c, reason)
    PROVE  pipes' = s.pipes /\ got' = s.got
<1>1. PICK u : u = [s EXCEPT !.state[p] = reason, !.call[p] = c]
    OBVIOUS
<1>2. IsState(s)
    BY DEF PipeInv, ShapeOK
<1>3. u.pipes = s.pipes /\ u.got = s.got
    BY <1>1, <1>2 DEF IsState
<1>4. pipes' = u.pipes /\ got' = u.got
    BY <1>1 DEF BlockAndRestart, Become
<1>5. QED
    BY <1>3, <1>4

LEMMA EnteredEffect ==
    ASSUME PipeInv(Now), Rings(pipes)
    PROVE  Frees(pipes, Entered.pipes) /\ Entered.got = got /\ Rings(Entered.pipes)
<1>1. Now.pipes = pipes /\ Now.got = got
    BY DEF Now
<1> DEFINE slots == AllOf({p \in Now.deferred : Now.state[p] = "zombie"})
<1>2. PICK s, u : s = Now /\ u = Close(s, slots)
    OBVIOUS
<1>3. IsState(u)
    BY <1>2, CloseFields DEF CloseLeaves
<1>4. Frees(pipes, u.pipes) /\ u.got = got
    BY <1>1, <1>2, CloseEffect
<1>5. PICK t : t = [u EXCEPT !.deferred = {}]
    OBVIOUS
<1>6. t = Entered
    BY <1>2, <1>5 DEF Entered, DrainDeferredCleanup
<1>7. t.pipes = u.pipes /\ t.got = u.got
    BY <1>3, <1>5 DEF IsState
<1>8. QED
    BY <1>4, <1>6, <1>7 DEF Frees, Rings
-----------------------------------------------------------------------------
(* A step of the channels from q to r, while what was read goes from g to  *)
(* h, that begins with the pipes the clean-up left.                        *)
Does(q, r, g, h) ==
    \/ r = q /\ h = g
    \/ \E i \in PipeIds : q[i] = Closed /\ r = [q EXCEPT ![i] = <<>>] /\ h = g
    \/ \E i \in PipeIds, n \in 1..BufSize, s \in [1..BufSize -> Bytes] :
          /\ q[i] # Closed /\ Len(q[i]) + n <= BufSize
          /\ r = [q EXCEPT ![i] = q[i] \o SubSeq(s, 1, n)] /\ h = g
    \/ \E i \in PipeIds, p \in Procs :
          /\ q[i] # Closed
          /\ \/ \E n \in 1..Len(q[i]) :
                   /\ h = [g EXCEPT ![p] = SubSeq(q[i], 1, n)]
                   /\ r = [q EXCEPT ![i] = SubSeq(q[i], n + 1, Len(q[i]))]
             \/ q[i] = <<>> /\ h = [g EXCEPT ![p] = Eof] /\ r = q

LEMMA StepIsNext ==
    ASSUME NEW Q, Frees(pipes, Q), Does(View(Q), View(pipes'), got, got')
    PROVE  Channel!Next
<1>1. PICK gone : gone = {i \in PipeIds : ~Q[i].in_use}
    OBVIOUS
<1> DEFINE q == [i \in PipeIds |-> IF i \in gone THEN Closed
                                   ELSE [j \in PipeIds |-> IF pipes[j].in_use THEN Contents(pipes[j])
                                                           ELSE Closed][i]]
<1>2. View(Q) = q
    BY <1>1 DEF View, Frees
<1>3. gone \in SUBSET PipeIds
    BY <1>1
<1>4. PICK r : r = [j \in PipeIds |-> IF pipes'[j].in_use THEN Contents(pipes'[j]) ELSE Closed]
    OBVIOUS
<1>5. View(pipes') = r
    BY <1>4 DEF View
<1>6. Does(q, r, got, got')
    BY <1>2, <1>5
<1>7. Channel!Step(q)
    <2> HIDE DEF q
    <2>1. CASE r = q /\ got' = got
        BY <1>4, <2>1 DEF Channel!Step
    <2>2. CASE \E i \in PipeIds : q[i] = Closed /\ r = [q EXCEPT ![i] = <<>>] /\ got' = got
        BY <1>4, <2>2 DEF Channel!Step
    <2>3. CASE \E i \in PipeIds, n \in 1..BufSize, s \in [1..BufSize -> Bytes] :
                 /\ q[i] # Closed /\ Len(q[i]) + n <= BufSize
                 /\ r = [q EXCEPT ![i] = q[i] \o SubSeq(s, 1, n)] /\ got' = got
        BY <1>4, <2>3 DEF Channel!Step
    <2>4. ASSUME NEW i \in PipeIds, NEW p \in Procs, q[i] # Closed, NEW n \in 1..Len(q[i]),
                 got' = [got EXCEPT ![p] = SubSeq(q[i], 1, n)],
                 r = [q EXCEPT ![i] = SubSeq(q[i], n + 1, Len(q[i]))]
          PROVE  Channel!Step(q)
        BY <1>4, <2>4 DEF Channel!Step
    <2>5. ASSUME NEW i \in PipeIds, NEW p \in Procs, q[i] # Closed, q[i] = <<>>,
                 got' = [got EXCEPT ![p] = Eof], r = q
          PROVE  Channel!Step(q)
        BY <1>4, <2>5 DEF Channel!Step
    <2>6. QED
        BY <1>6, <2>1, <2>2, <2>3, <2>4, <2>5, Zenon DEF Does
<1>8. \E g \in SUBSET PipeIds :
          Channel!Step([i \in PipeIds |-> IF i \in g THEN Closed
                                          ELSE [j \in PipeIds |-> IF pipes[j].in_use THEN Contents(pipes[j])
                                                                  ELSE Closed][i]])
    BY <1>3, <1>7, Zenon DEF Channel!Step
<1>9. QED
    BY <1>8 DEF Channel!Next, Channel!Step

LEMMA SilentStep ==
    ASSUME NEW Q, Frees(pipes, Q), pipes' = Q, got' = got
    PROVE  Channel!Next /\ Rings(pipes')
<1>1. Does(View(Q), View(pipes'), got, got')
    BY DEF Does
<1>2. QED
    BY <1>1, StepIsNext DEF Frees, Rings

LEMMA OpenStep ==
    ASSUME NEW Q, Frees(pipes, Q), NEW i \in PipeIds, ~Q[i].in_use,
           NEW x, RingOK(x), x.in_use, x.len = 0,
           \A j \in PipeIds : pipes'[j] = IF j = i THEN x ELSE Q[j], got' = got
    PROVE  Channel!Next /\ Rings(pipes')
<1>1. Contents(x) = <<>>
    <2>1. Contents(x) \in Seq(Bytes) /\ Len(Contents(x)) = 0
        BY ContentsFacts
    <2>2. QED
        BY <2>1, EmptySeq
<1>2. View(Q)[i] = Closed
    BY DEF View
<1>3. View(pipes') = [View(Q) EXCEPT ![i] = <<>>]
    BY <1>1 DEF View
<1>4. Does(View(Q), View(pipes'), got, got')
    BY <1>2, <1>3 DEF Does
<1>5. QED
    BY <1>4, StepIsNext DEF Frees, Rings

AllBytes(data, n) == \A k \in 1..n : data[k] \in Bytes

(* The pipes go from Q to R by a write of n bytes to pipe i.               *)
Writes(Q, R, i, data, n, x) ==
    /\ i \in PipeIds /\ Q[i].in_use /\ n \in 1..BufSize /\ Q[i].len + n <= BufSize /\ AllBytes(data, n)
    /\ RingOK(x) /\ x.in_use /\ Contents(x) = Contents(Q[i]) \o SubSeq(data, 1, n)
    /\ \A j \in PipeIds : R[j] = IF j = i THEN x ELSE Q[j]

LEMMA WriteStep ==
    ASSUME NEW Q, Frees(pipes, Q), NEW i, NEW data, NEW n, NEW x, Writes(Q, pipes', i, data, n, x),
           got' = got
    PROVE  Channel!Next /\ Rings(pipes')
<1>0. /\ i \in PipeIds /\ Q[i].in_use /\ n \in 1..BufSize /\ Q[i].len + n <= BufSize /\ AllBytes(data, n)
      /\ RingOK(x) /\ x.in_use /\ Contents(x) = Contents(Q[i]) \o SubSeq(data, 1, n)
      /\ \A j \in PipeIds : pipes'[j] = IF j = i THEN x ELSE Q[j]
    BY DEF Writes
<1>1. RingOK(Q[i])
    BY <1>0 DEF Frees
<1>2. View(Q)[i] # Closed /\ View(Q)[i] = Contents(Q[i]) /\ Len(View(Q)[i]) + n <= BufSize
    BY <1>0, <1>1, ContentsFacts DEF View
<1>3. PICK b \in Bytes : TRUE
    BY DescriptorAssumption
<1>4. PICK s : s = [k \in 1..BufSize |-> IF k <= n THEN data[k] ELSE b]
    OBVIOUS
<1>5. BufSize \in Nat /\ n \in Nat /\ n <= BufSize
    BY <1>0, DescriptorAssumption
<1>6. s \in [1..BufSize -> Bytes] /\ \A k \in 1..n : s[k] = data[k] /\ s[k] \in Bytes
    BY <1>0, <1>4, <1>5 DEF AllBytes
<1>7. SubSeq(s, 1, n) = SubSeq(data, 1, n)
    <2>1. PICK a, d : a = SubSeq(s, 1, n) /\ d = SubSeq(data, 1, n)
        OBVIOUS
    <2>2. a \in Seq(Bytes) /\ Len(a) = n /\ \A k \in 1..n : a[k] = s[k]
        BY <1>5, <1>6, <2>1, FirstOf
    <2>3. d \in Seq(Bytes) /\ Len(d) = n /\ \A k \in 1..n : d[k] = data[k]
        BY <1>0, <1>5, <2>1, FirstOf DEF AllBytes
    <2>4. a = d
        BY <1>6, <2>2, <2>3, SeqEqual
    <2>5. QED
        BY <2>1, <2>4
<1>8. View(pipes') = [View(Q) EXCEPT ![i] = View(Q)[i] \o SubSeq(s, 1, n)]
    BY <1>0, <1>2, <1>7 DEF View
<1>9. Does(View(Q), View(pipes'), got, got')
    BY <1>0, <1>2, <1>6, <1>8 DEF Does
<1>10. QED
    BY <1>0, <1>9, StepIsNext DEF Frees, Rings

LEMMA ReadStep ==
    ASSUME NEW Q, Frees(pipes, Q), NEW i \in PipeIds, Q[i].in_use, NEW p \in Procs,
           NEW n \in 1..Q[i].len,
           NEW x, RingOK(x), x.in_use, Contents(x) = SubSeq(Contents(Q[i]), n + 1, Len(Contents(Q[i]))),
           \A j \in PipeIds : pipes'[j] = IF j = i THEN x ELSE Q[j],
           got' = [got EXCEPT ![p] = SubSeq(Contents(Q[i]), 1, n)]
    PROVE  Channel!Next /\ Rings(pipes')
<1>1. RingOK(Q[i])
    BY DEF Frees
<1>2. View(Q)[i] # Closed /\ View(Q)[i] = Contents(Q[i]) /\ Len(View(Q)[i]) = Q[i].len
    BY <1>1, ContentsFacts DEF View
<1>3. View(pipes') = [View(Q) EXCEPT ![i] = SubSeq(View(Q)[i], n + 1, Len(View(Q)[i]))]
    BY <1>2 DEF View
<1>4. n \in 1..Len(View(Q)[i]) /\ got' = [got EXCEPT ![p] = SubSeq(View(Q)[i], 1, n)]
    BY <1>2
<1>5. Does(View(Q), View(pipes'), got, got')
    BY <1>2, <1>3, <1>4 DEF Does
<1>6. QED
    BY <1>5, StepIsNext DEF Frees, Rings

LEMMA EofStep ==
    ASSUME NEW Q, Frees(pipes, Q), NEW i \in PipeIds, Q[i].in_use, NEW p \in Procs, Q[i].len = 0,
           pipes' = Q, got' = [got EXCEPT ![p] = Eof]
    PROVE  Channel!Next /\ Rings(pipes')
<1>1. RingOK(Q[i])
    BY DEF Frees
<1>2. View(Q)[i] # Closed /\ View(Q)[i] = <<>>
    <2>1. Contents(Q[i]) \in Seq(Bytes) /\ Len(Contents(Q[i])) = 0 /\ Contents(Q[i]) # Closed
        BY <1>1, ContentsFacts
    <2>2. QED
        BY <2>1, EmptySeq DEF View
<1>3. Does(View(Q), View(pipes'), got, got')
    BY <1>2 DEF Does
<1>4. QED
    BY <1>3, StepIsNext DEF Frees, Rings
-----------------------------------------------------------------------------
(* A descriptor of a pipe end names a pipe that is in use.                 *)
LEMMA HeldInUse ==
    ASSUME NEW s, PipeInv(s), NEW p \in Procs, NEW fd \in Fds, IsPipe(s.table[p][fd])
    PROVE  s.table[p][fd].pipe \in PipeIds /\ s.pipes[s.table[p][fd].pipe].in_use
<1>1. PICK e : e = s.table[p][fd]
    OBVIOUS
<1>2. e.pipe \in PipeIds /\ e.end \in {"r", "w"}
    BY <1>1 DEF PipeInv, ShapeOK, IsPipe, Ends
<1>3. e \in OpenFiles(s)
    BY <1>1, InOpenFiles
<1>4. e \in OfPipe(s, e.pipe, "r") \cup OfPipe(s, e.pipe, "w")
    BY <1>2, <1>3 DEF OfPipe
<1>5. QED
    BY <1>1, <1>2, <1>4 DEF PipeInv, Counted

(* n bytes are read into p, or the first n bytes of data are written: x is *)
(* the ring that is left.                                                  *)
Takes(s, t, p, i, n, x) ==
    /\ RingOK(x) /\ x.in_use = s.pipes[i].in_use
    /\ Contents(x) = SubSeq(Contents(s.pipes[i]), n + 1, Len(Contents(s.pipes[i])))
    /\ \A j \in PipeIds : t.pipes[j] = IF j = i THEN x ELSE s.pipes[j]
    /\ t.got = [s.got EXCEPT ![p] = SubSeq(Contents(s.pipes[i]), 1, n)]

Adds(s, t, i, data, n, x) ==
    /\ s.pipes[i].len + n <= BufSize /\ \A k \in 1..n : data[k] \in Bytes
    /\ RingOK(x) /\ x.in_use = s.pipes[i].in_use
    /\ Contents(x) = Contents(s.pipes[i]) \o SubSeq(data, 1, n)
    /\ \A j \in PipeIds : t.pipes[j] = IF j = i THEN x ELSE s.pipes[j]
    /\ t.got = s.got

LEMMA TryReadEffect ==
    ASSUME NEW s, PipeInv(s), NEW p \in Procs, NEW i \in PipeIds, NEW count \in Nat \ {0},
           RingOK(s.pipes[i]), s.pipes[i].len > 0, NEW t, t = TryRead(s, p, i, count)
    PROVE  \E n, x : n \in 1..s.pipes[i].len /\ Takes(s, t, p, i, n, x)
<1>1. PICK y : y = s.pipes[i]
    OBVIOUS
<1>2. PICK n : n = Lesser(count, y.len)
    OBVIOUS
<1>3. y.len \in Nat
    BY <1>1, DescriptorAssumption DEF RingOK
<1>4. n \in 1..y.len
    BY <1>1, <1>2, <1>3 DEF Lesser
<1>5. PICK a, b, d : /\ a = (y.tail + n) % BufSize /\ b = y.len - n
                     /\ d = [k \in 1..n |-> y.buf[(y.tail + k - 1) % BufSize]]
    OBVIOUS
<1>6. PICK u : u = [s EXCEPT !.pipes[i].tail = a, !.pipes[i].len = b, !.got[p] = d]
    OBVIOUS
<1>7. t = WakeWaiters(u, "input")
    BY <1>1, <1>2, <1>5, <1>6 DEF TryRead, Wrapped
<1>8. IsState(s) /\ s.pipes = [j \in PipeIds |-> s.pipes[j]] /\ IsRing(y)
    BY <1>1 DEF PipeInv, ShapeOK
<1>9. IsState(u)
    BY <1>6, <1>8 DEF IsState
<1>10. u.got = [s.got EXCEPT ![p] = d] /\ u.pipes = [s.pipes EXCEPT ![i].tail = a, ![i].len = b]
    BY <1>6, <1>8 DEF IsState
<1>11. PICK x : x = [y EXCEPT !.tail = a, !.len = b]
    OBVIOUS
<1>12. x.buf = y.buf /\ x.head = y.head /\ x.tail = a /\ x.len = b /\ x.in_use = y.in_use
    BY <1>8, <1>11 DEF IsRing
<1>13. \A j \in PipeIds : u.pipes[j] = IF j = i THEN x ELSE s.pipes[j]
    <2>1. u.pipes[i] = x
        BY <1>1, <1>8, <1>10, <1>11
    <2>2. \A j \in PipeIds : j # i => u.pipes[j] = s.pipes[j]
        BY <1>8, <1>10
    <2>3. QED
        BY <2>1, <2>2
<1>14. /\ RingOK(x) /\ Contents(x) = SubSeq(Contents(y), n + 1, Len(Contents(y)))
       /\ d = SubSeq(Contents(y), 1, n)
    <2>1. RingOK(y) /\ x.tail = (y.tail + n) % BufSize /\ x.len = y.len - n
        BY <1>1, <1>5, <1>12
    <2>2. QED
        BY <1>4, <1>5, <1>12, <2>1, ReadRing, Zenon
<1>15. t.pipes = u.pipes /\ t.got = u.got
    BY <1>7, <1>9, WakeEffect
<1>16. QED
    <2>1. Takes(s, t, p, i, n, x)
        BY <1>1, <1>10, <1>12, <1>13, <1>14, <1>15 DEF Takes
    <2>2. QED
        BY <1>1, <1>4, <2>1

LEMMA TryWriteEffect ==
    ASSUME NEW s, PipeInv(s), NEW i \in PipeIds, NEW data \in Data,
           RingOK(s.pipes[i]), s.pipes[i].len < BufSize, NEW t, t = TryWrite(s, i, data)
    PROVE  \E n, x : n \in 1..BufSize /\ Adds(s, t, i, data, n, x)
<1>1. PICK y : y = s.pipes[i]
    OBVIOUS
<1>2. PICK n : n = Lesser(Len(data), BufSize - y.len)
    OBVIOUS
<1>3. y.len \in Nat /\ y.len <= BufSize /\ BufSize \in Nat \ {0}
    BY <1>1, DescriptorAssumption DEF RingOK
<1>4. PICK m \in 1..MaxCount : data \in [1..m -> Bytes]
    BY DEF Data
<1>5. m \in Nat /\ m >= 1 /\ Len(data) = m
    BY <1>4, DescriptorAssumption
<1>6. n \in 1..BufSize /\ y.len + n <= BufSize /\ n <= m
    BY <1>1, <1>2, <1>3, <1>5 DEF Lesser
<1>7. \A k \in 1..n : data[k] \in Bytes
    BY <1>4, <1>5, <1>6
<1>8. PICK a, b, c : /\ a = (y.head + n) % BufSize /\ b = y.len + n
                     /\ c = [j \in Index |-> IF (j + BufSize - y.head) % BufSize < n
                                             THEN data[((j + BufSize - y.head) % BufSize) + 1] ELSE y.buf[j]]
    OBVIOUS
<1>9. PICK u : u = [s EXCEPT !.pipes[i].head = a, !.pipes[i].len = b, !.pipes[i].buf = c]
    OBVIOUS
<1>10. t = WakeWaiters(u, "input")
    <2>1. y.head = s.pipes[i].head /\ y.len = s.pipes[i].len /\ y.buf = s.pipes[i].buf
        BY <1>1
    <2>2. QED
        BY <1>1, <1>2, <1>8, <1>9 DEF TryWrite, Wrapped
<1>11. IsState(s) /\ s.pipes = [j \in PipeIds |-> s.pipes[j]] /\ IsRing(y)
    BY <1>1 DEF PipeInv, ShapeOK
<1>12. IsState(u)
    BY <1>9, <1>11 DEF IsState
<1>13. u.got = s.got /\ u.pipes = [s.pipes EXCEPT ![i].head = a, ![i].len = b, ![i].buf = c]
    BY <1>9, <1>11 DEF IsState
<1>14. PICK x : x = [y EXCEPT !.head = a, !.len = b, !.buf = c]
    OBVIOUS
<1>15. x.buf = c /\ x.head = a /\ x.tail = y.tail /\ x.len = b /\ x.in_use = y.in_use
    BY <1>11, <1>14 DEF IsRing
<1>16. \A j \in PipeIds : u.pipes[j] = IF j = i THEN x ELSE s.pipes[j]
    <2>1. u.pipes[i] = x
        BY <1>1, <1>11, <1>13, <1>14
    <2>2. \A j \in PipeIds : j # i => u.pipes[j] = s.pipes[j]
        BY <1>11, <1>13
    <2>3. QED
        BY <2>1, <2>2
<1>17. RingOK(x) /\ Contents(x) = Contents(y) \o SubSeq(data, 1, n)
    <2>1. RingOK(y) /\ n \in 1..BufSize /\ y.len + n <= BufSize /\ \A k \in 1..n : data[k] \in Bytes
        BY <1>1, <1>6, <1>7
    <2>2. /\ x.buf = [j \in Index |-> IF (j + BufSize - y.head) % BufSize < n
                                      THEN data[((j + BufSize - y.head) % BufSize) + 1] ELSE y.buf[j]]
          /\ x.head = (y.head + n) % BufSize /\ x.tail = y.tail /\ x.len = y.len + n
        BY <1>8, <1>15, Zenon
    <2>3. QED
        BY <2>1, <2>2, WriteRing, Zenon
<1>18. t.pipes = u.pipes /\ t.got = u.got
    BY <1>10, <1>12, WakeEffect
<1>19. QED
    <2>1. Adds(s, t, i, data, n, x)
        BY <1>1, <1>6, <1>7, <1>13, <1>15, <1>16, <1>17, <1>18 DEF Adds
    <2>2. QED
        BY <1>6, <2>1
-----------------------------------------------------------------------------
(* Every step of the descriptors is a step of the channels.                *)
LEMMA ReadIsStep ==
    ASSUME PipeInv(Now), Rings(pipes), NEW p \in Procs, NEW fd \in Fds, NEW n \in 1..MaxCount,
           SysRead(p, fd, n)
    PROVE  Channel!Next /\ Rings(pipes')
<1> DEFINE c == [op |-> "read", fd |-> fd, count |-> n]
<1>1. PICK s : s = Entered
    OBVIOUS
<1>2. PipeInv(s) /\ Frees(pipes, s.pipes) /\ s.got = got /\ Rings(s.pipes)
    BY <1>1, EnteredInv, EnteredEffect
<1>3. PICK e : e = s.table[p][fd]
    OBVIOUS
<1>4. e.end = "r" => e.pipe \in PipeIds /\ s.pipes[e.pipe].in_use
    BY <1>2, <1>3, HeldInUse DEF IsPipe, Ends
<1>5. \/ Return(s, p)
      \/ e.end = "r" /\ AtEof(s.pipes[e.pipe]) /\ Return([s EXCEPT !.got[p] = Eof], p)
      \/ e.end = "r" /\ s.pipes[e.pipe].len > 0 /\ Return(TryRead(s, p, e.pipe, n), p)
      \/ BlockAndRestart(s, p, c, "input")
    BY <1>1, <1>3 DEF SysRead
<1>6. CASE Return(s, p)
    <2>1. pipes' = s.pipes /\ got' = got
        BY <1>2, <1>6, ReturnEffect
    <2>2. QED
        BY <1>2, <2>1, SilentStep
<1>7. CASE e.end = "r" /\ AtEof(s.pipes[e.pipe]) /\ Return([s EXCEPT !.got[p] = Eof], p)
    <2>1. PICK u : u = [s EXCEPT !.got[p] = Eof]
        OBVIOUS
    <2>2. PipeInv(u)
        BY <1>2, <2>1, FieldsCalm, CalmInv
    <2>3. u.pipes = s.pipes /\ u.got = [s.got EXCEPT ![p] = Eof]
        BY <1>2, <2>1 DEF PipeInv, ShapeOK, IsState
    <2>4. pipes' = u.pipes /\ got' = u.got
        BY <1>7, <2>1, <2>2, ReturnEffect
    <2>5. s.pipes[e.pipe].len = 0
        BY <1>7 DEF AtEof
    <2>6. QED
        BY <1>2, <1>4, <1>7, <2>3, <2>4, <2>5, EofStep
<1>8. CASE e.end = "r" /\ s.pipes[e.pipe].len > 0 /\ Return(TryRead(s, p, e.pipe, n), p)
    <2>1. PICK t, i : t = TryRead(s, p, e.pipe, n) /\ i = e.pipe
        OBVIOUS
    <2>2. i \in PipeIds /\ s.pipes[i].in_use /\ RingOK(s.pipes[i]) /\ s.pipes[i].len > 0
        BY <1>2, <1>4, <1>8, <2>1 DEF Rings
    <2>3. PipeInv(t)
        BY <1>2, <2>1, <2>2, TryReadInv
    <2>4. pipes' = t.pipes /\ got' = t.got
        BY <1>8, <2>1, <2>3, ReturnEffect
    <2>5. n \in Nat \ {0} /\ t = TryRead(s, p, i, n)
        BY <2>1, DescriptorAssumption
    <2>6. PICK k, x : k \in 1..s.pipes[i].len /\ Takes(s, t, p, i, k, x)
        BY <1>2, <2>2, <2>5, TryReadEffect
    <2>7. /\ \A j \in PipeIds : pipes'[j] = IF j = i THEN x ELSE s.pipes[j]
          /\ got' = [got EXCEPT ![p] = SubSeq(Contents(s.pipes[i]), 1, k)]
          /\ x.in_use /\ RingOK(x)
          /\ Contents(x) = SubSeq(Contents(s.pipes[i]), k + 1, Len(Contents(s.pipes[i])))
        BY <1>2, <2>2, <2>4, <2>6 DEF Takes
    <2>8. QED
        BY <1>2, <2>2, <2>6, <2>7, ReadStep
<1>9. CASE BlockAndRestart(s, p, c, "input")
    <2>1. pipes' = s.pipes /\ got' = got
        BY <1>2, <1>9, BlockEffect
    <2>2. QED
        BY <1>2, <2>1, SilentStep
<1>10. QED
    BY <1>5, <1>6, <1>7, <1>8, <1>9

LEMMA WriteIsStep ==
    ASSUME PipeInv(Now), Rings(pipes), NEW p \in Procs, NEW fd \in Fds, NEW data \in Data,
           SysWrite(p, fd, data)
    PROVE  Channel!Next /\ Rings(pipes')
<1> DEFINE c == [op |-> "write", fd |-> fd, data |-> data]
<1>1. PICK s : s = Entered
    OBVIOUS
<1>2. PipeInv(s) /\ Frees(pipes, s.pipes) /\ s.got = got /\ Rings(s.pipes)
    BY <1>1, EnteredInv, EnteredEffect
<1>3. PICK e : e = s.table[p][fd]
    OBVIOUS
<1>4. e.end = "w" => e.pipe \in PipeIds /\ s.pipes[e.pipe].in_use
    BY <1>2, <1>3, HeldInUse DEF IsPipe, Ends
<1>5. \/ Return(s, p)
      \/ e.end = "w" /\ s.pipes[e.pipe].len < BufSize /\ Return(TryWrite(s, e.pipe, data), p)
      \/ BlockAndRestart(s, p, c, "input")
    BY <1>1, <1>3 DEF SysWrite
<1>6. CASE Return(s, p)
    <2>1. pipes' = s.pipes /\ got' = got
        BY <1>2, <1>6, ReturnEffect
    <2>2. QED
        BY <1>2, <2>1, SilentStep
<1>7. CASE e.end = "w" /\ s.pipes[e.pipe].len < BufSize /\ Return(TryWrite(s, e.pipe, data), p)
    <2>1. PICK t, i : t = TryWrite(s, e.pipe, data) /\ i = e.pipe
        OBVIOUS
    <2>2. i \in PipeIds /\ s.pipes[i].in_use /\ RingOK(s.pipes[i]) /\ s.pipes[i].len < BufSize
        BY <1>2, <1>4, <1>7, <2>1 DEF Rings
    <2>3. PipeInv(t)
        BY <1>2, <2>1, <2>2, TryWriteInv
    <2>4. pipes' = t.pipes /\ got' = t.got
        BY <1>7, <2>1, <2>3, ReturnEffect
    <2>5. t = TryWrite(s, i, data)
        BY <2>1
    <2>6. PICK k, x : k \in 1..BufSize /\ Adds(s, t, i, data, k, x)
        BY <1>2, <2>2, <2>5, TryWriteEffect
    <2>7. /\ \A j \in PipeIds : pipes'[j] = IF j = i THEN x ELSE s.pipes[j]
          /\ got' = got /\ x.in_use /\ RingOK(x)
          /\ Contents(x) = Contents(s.pipes[i]) \o SubSeq(data, 1, k)
        BY <1>2, <2>2, <2>4, <2>6 DEF Adds
    <2>8. s.pipes[i].len + k <= BufSize /\ AllBytes(data, k)
        BY <2>6 DEF Adds, AllBytes
    <2>9. Writes(s.pipes, pipes', i, data, k, x)
        BY <2>2, <2>6, <2>7, <2>8 DEF Writes
    <2>10. got' = got
        BY <2>7
    <2>11. QED
        BY <1>2, <2>9, <2>10, WriteStep
<1>8. CASE BlockAndRestart(s, p, c, "input")
    <2>1. pipes' = s.pipes /\ got' = got
        BY <1>2, <1>8, BlockEffect
    <2>2. QED
        BY <1>2, <2>1, SilentStep
<1>9. QED
    BY <1>5, <1>6, <1>7, <1>8

(* The other calls change the pipes only by closing ends.                  *)
LEMMA FreesTrans ==
    ASSUME NEW P, NEW Q, NEW R, Frees(P, Q), Frees(Q, R)
    PROVE  Frees(P, R)
    BY DEF Frees

LEMMA FreesSelf ==
    ASSUME NEW P, Rings(P)
    PROVE  Frees(P, P)
    BY DEF Frees, Rings

LEMMA QuietReturn ==
    ASSUME NEW s, PipeInv(s), Frees(pipes, s.pipes), s.got = got, NEW p \in Procs, Return(s, p)
    PROVE  Channel!Next /\ Rings(pipes')
<1>1. pipes' = s.pipes /\ got' = got
    BY ReturnEffect
<1>2. QED
    BY <1>1, SilentStep

LEMMA NoPipeRing == RingOK(NoPipe) /\ ~NoPipe.in_use
<1>1. BufSize \in Nat \ {0} /\ (CHOOSE b \in Bytes : TRUE) \in Bytes
    BY DescriptorAssumption
<1>2. 0 % BufSize = 0 /\ 0 \in Index
    BY <1>1 DEF Index
<1>3. QED
    BY <1>1, <1>2 DEF NoPipe, RingOK

(* t has the ring x in the place of pipe i.                                *)
Makes(s, t, i, x) ==
    /\ t.got = s.got
    /\ x = NoPipe \/ (RingOK(x) /\ x.in_use /\ x.len = 0)
    /\ t.pipes = [j \in PipeIds |-> IF j = i THEN x ELSE s.pipes[j]]

LEMMA PipeMadeEffect ==
    ASSUME NEW s, PipeInv(s), NEW p, NEW i \in PipeIds
    PROVE  \E x : Makes(s, PipeMade(s, p, i), i, x)
<1>1. IsState(s) /\ s.pipes = [j \in PipeIds |-> s.pipes[j]]
    BY DEF PipeInv, ShapeOK
<1>2. ASSUME NEW x
      PROVE  /\ IsState([s EXCEPT !.pipes[i] = x]) /\ [s EXCEPT !.pipes[i] = x].got = s.got
             /\ [s EXCEPT !.pipes[i] = x].pipes = [j \in PipeIds |-> IF j = i THEN x ELSE s.pipes[j]]
    <2>1. PICK t : t = [s EXCEPT !.pipes[i] = x]
        OBVIOUS
    <2>2. IsState(t) /\ t.got = s.got /\ t.pipes = [s.pipes EXCEPT ![i] = x]
        BY <1>1, <2>1 DEF IsState
    <2>3. QED
        BY <1>1, <2>1, <2>2
<1>3. CASE Cardinality(FreeFds(s, p)) < 2
    <2>1. PICK t : t = [s EXCEPT !.pipes[i] = NoPipe]
        OBVIOUS
    <2>2. PipeMade(s, p, i) = WakeWaiters(t, "input")
        BY <1>3, <2>1 DEF PipeMade
    <2>3. /\ IsState(t) /\ t.got = s.got
          /\ t.pipes = [j \in PipeIds |-> IF j = i THEN NoPipe ELSE s.pipes[j]]
        BY <1>2, <2>1
    <2>4. Makes(s, PipeMade(s, p, i), i, NoPipe)
        BY <2>2, <2>3, WakeEffect DEF Makes
    <2>5. QED
        BY <2>4
<1>4. CASE ~(Cardinality(FreeFds(s, p)) < 2)
    <2>1. PICK x : x = [NoPipe EXCEPT !.readers = 1, !.writers = 1, !.in_use = TRUE]
        OBVIOUS
    <2>2. RingOK(x) /\ x.in_use /\ x.len = 0
        <3>1. x.buf = NoPipe.buf /\ x.head = NoPipe.head /\ x.tail = NoPipe.tail /\ x.len = NoPipe.len
            BY <2>1 DEF NoPipe
        <3>2. QED
            BY <2>1, <3>1, NoPipeRing, SameRing DEF NoPipe
    <2>3. PICK s1 : s1 = [s EXCEPT !.pipes[i] = x]
        OBVIOUS
    <2>4. PICK f1, e1 : /\ f1 = AllocFd(s1, p)
                        /\ e1 = [end |-> "r", pipe |-> i, ofd |-> NewOfd(s1, 2 * i)]
        OBVIOUS
    <2>5. PICK s2 : s2 = Install(s1, p, f1, e1)
        OBVIOUS
    <2>6. PICK f2, e2 : /\ f2 = AllocFd(s2, p)
                        /\ e2 = [end |-> "w", pipe |-> i, ofd |-> NewOfd(s2, 2 * i + 1)]
        OBVIOUS
    <2>7. PipeMade(s, p, i) = Install(s2, p, f2, e2)
        <3>1. PipeMade(s, p, i) = Install(s2, p, AllocFd(s2, p), e2)
            <4>1. s2 = Install(s1, p, AllocFd(s1, p), [end |-> "r", pipe |-> i, ofd |-> NewOfd(s1, 2 * i)])
                BY <2>4, <2>5
            <4>2. QED
                BY <1>4, <2>1, <2>3, <2>6, <4>1, Zenon DEF PipeMade
        <3>2. QED
            BY <2>6, <3>1
    <2>8. IsState(s2) /\ s2.pipes = s1.pipes /\ s2.got = s.got
        <3>1. IsState(s1) /\ s1.got = s.got
            BY <1>2, <2>3
        <3>2. QED
            BY <2>5, <3>1, InstallEffect
    <2>9. PipeMade(s, p, i).pipes = s1.pipes /\ PipeMade(s, p, i).got = s.got
        BY <2>7, <2>8, InstallEffect
    <2>10. s1.pipes = [j \in PipeIds |-> IF j = i THEN x ELSE s.pipes[j]]
        BY <1>2, <2>3
    <2>11. Makes(s, PipeMade(s, p, i), i, x)
        BY <2>2, <2>9, <2>10 DEF Makes
    <2>12. QED
        BY <2>11
<1>5. QED
    BY <1>3, <1>4

LEMMA PipeCallIsStep ==
    ASSUME PipeInv(Now), Rings(pipes), NEW p \in Procs, SysPipe(p)
    PROVE  Channel!Next /\ Rings(pipes')
<1>1. PICK s : s = Entered
    OBVIOUS
<1>2. state[p] = "running"
    BY DEF SysPipe, Enters
<1>3. PipeInv(s) /\ ~Dead(s, p) /\ Frees(pipes, s.pipes) /\ s.got = got /\ Rings(s.pipes)
    BY <1>1, <1>2, EnteredInv, EnteredEffect
<1>4. PICK i : i = CHOOSE m \in FreePipes(s) : \A j \in FreePipes(s) : m <= j
    OBVIOUS
<1>5. Return(IF FreePipes(s) = {} THEN s ELSE PipeMade(s, p, i), p)
    BY <1>1, <1>4 DEF SysPipe
<1>6. FreePipes(s) # {} => i \in FreePipes(s)
    <2>1. FreePipes(s) \in SUBSET Nat
        BY DescriptorAssumption DEF FreePipes, PipeIds
    <2>2. FreePipes(s) # {} => \E m \in FreePipes(s) : \A j \in FreePipes(s) : m <= j
        BY <2>1, LeastOf
    <2>3. QED
        BY <1>4, <2>2
<1>7. CASE FreePipes(s) = {}
    BY <1>3, <1>5, <1>7, QuietReturn
<1>8. CASE FreePipes(s) # {}
    <2>1. PICK t : t = PipeMade(s, p, i)
        OBVIOUS
    <2>2. i \in PipeIds /\ ~s.pipes[i].in_use
        BY <1>6, <1>8 DEF FreePipes
    <2>3. PipeInv(t) /\ Return(t, p)
        BY <1>3, <1>5, <1>6, <1>8, <2>1, PipeMadeInv
    <2>4. PICK x : Makes(s, t, i, x)
        BY <1>3, <2>1, <2>2, PipeMadeEffect
    <2>5. /\ t.got = got /\ (x = NoPipe \/ (RingOK(x) /\ x.in_use /\ x.len = 0))
          /\ t.pipes = [j \in PipeIds |-> IF j = i THEN x ELSE s.pipes[j]]
        BY <1>3, <2>4 DEF Makes
    <2>6. CASE x = NoPipe
        <3>1. Frees(pipes, t.pipes)
            BY <1>3, <2>5, <2>6, NoPipeRing DEF Frees
        <3>2. QED
            BY <2>3, <2>5, <3>1, QuietReturn
    <2>7. CASE RingOK(x) /\ x.in_use /\ x.len = 0
        <3>1. pipes' = t.pipes /\ got' = got
            BY <2>3, <2>5, ReturnEffect
        <3>2. \A j \in PipeIds : pipes'[j] = IF j = i THEN x ELSE s.pipes[j]
            BY <2>5, <3>1
        <3>3. QED
            BY <1>3, <2>2, <2>7, <3>1, <3>2, OpenStep
    <2>8. QED
        BY <2>5, <2>6, <2>7
<1>9. QED
    BY <1>7, <1>8

LEMMA Dup2Effect ==
    ASSUME NEW s, PipeInv(s), Rings(s.pipes), NEW p, NEW old, NEW new
    PROVE  Frees(s.pipes, Dup2(s, p, old, new).pipes) /\ Dup2(s, p, old, new).got = s.got
<1>1. CASE s.table[p][old] = Free \/ old = new
    BY <1>1, FreesSelf DEF Dup2
<1>2. CASE ~(s.table[p][old] = Free \/ old = new)
    <2>1. PICK u : u = Close(s, {<<p, new>>})
        OBVIOUS
    <2>2. PipeInv(u) /\ Frees(s.pipes, u.pipes) /\ u.got = s.got
        BY <2>1, CloseInv, CloseEffect
    <2>3. Dup2(s, p, old, new) = Install(u, p, new, s.table[p][old])
        BY <1>2, <2>1 DEF Dup2
    <2>4. IsState(u)
        BY <2>2 DEF PipeInv, ShapeOK
    <2>5. QED
        BY <2>2, <2>3, <2>4, InstallEffect
<1>3. QED
    BY <1>1, <1>2

LEMMA FdCallsAreSteps ==
    ASSUME PipeInv(Now), Rings(pipes), NEW p \in Procs, NEW fd \in Fds
    PROVE  /\ SysClose(p, fd) => Channel!Next /\ Rings(pipes')
           /\ SysDup(p, fd) => Channel!Next /\ Rings(pipes')
           /\ \A on \in BOOLEAN : SysSetNonblock(p, fd, on) => Channel!Next /\ Rings(pipes')
           /\ \A new \in Fds : SysDup2(p, fd, new) => Channel!Next /\ Rings(pipes')
<1>1. PICK s : s = Entered
    OBVIOUS
<1>2. /\ PipeInv(s) /\ Frees(pipes, s.pipes) /\ s.got = got /\ Rings(s.pipes)
      /\ state[p] = "running" => ~Dead(s, p)
    BY <1>1, EnteredInv, EnteredEffect
<1>3. ASSUME SysClose(p, fd)
      PROVE  Channel!Next /\ Rings(pipes')
    <2>1. PICK t : t = Close(s, {<<p, fd>>})
        OBVIOUS
    <2>2. Return(t, p)
        BY <1>1, <1>3, <2>1 DEF SysClose
    <2>3. PipeInv(t) /\ Frees(s.pipes, t.pipes) /\ t.got = got
        BY <1>2, <2>1, CloseInv, CloseEffect
    <2>4. QED
        BY <1>2, <2>2, <2>3, FreesTrans, QuietReturn
<1>4. ASSUME NEW new \in Fds, ~Dead(s, p), Return(Dup2(s, p, fd, new), p)
      PROVE  Channel!Next /\ Rings(pipes')
    <2>1. PICK t : t = Dup2(s, p, fd, new)
        OBVIOUS
    <2>2. PipeInv(t) /\ Frees(s.pipes, t.pipes) /\ t.got = got /\ Return(t, p)
        BY <1>2, <1>4, <2>1, Dup2Inv, Dup2Effect
    <2>3. QED
        BY <1>2, <2>2, FreesTrans, QuietReturn
<1>5. ASSUME SysDup(p, fd)
      PROVE  Channel!Next /\ Rings(pipes')
    <2>1. ~Dead(s, p)
        BY <1>2, <1>5 DEF SysDup, Enters
    <2>2. Return(IF FreeFds(s, p) = {} THEN s ELSE Dup2(s, p, fd, AllocFd(s, p)), p)
        BY <1>1, <1>5 DEF SysDup
    <2>3. CASE FreeFds(s, p) = {}
        BY <1>2, <2>2, <2>3, QuietReturn
    <2>4. CASE FreeFds(s, p) # {}
        <3>1. AllocFd(s, p) \in Fds
            BY <2>4, AllocFdFree DEF FreeFds
        <3>2. QED
            BY <1>4, <2>1, <2>2, <2>4, <3>1
    <2>5. QED
        BY <2>3, <2>4
<1>6. ASSUME NEW on \in BOOLEAN, SysSetNonblock(p, fd, on)
      PROVE  Channel!Next /\ Rings(pipes')
    <2>1. \/ Return(s, p)
          \/ \E x : Return([s EXCEPT !.nonblock = x], p)
        BY <1>1, <1>6 DEF SysSetNonblock
    <2>2. ASSUME NEW x, Return([s EXCEPT !.nonblock = x], p)
          PROVE  Channel!Next /\ Rings(pipes')
        <3>1. PICK t : t = [s EXCEPT !.nonblock = x]
            OBVIOUS
        <3>2. PipeInv(t)
            BY <1>2, <3>1, FieldsCalm, CalmInv
        <3>3. t.pipes = s.pipes /\ t.got = s.got
            BY <1>2, <3>1 DEF PipeInv, ShapeOK, IsState
        <3>4. Return(t, p) /\ Frees(pipes, t.pipes) /\ t.got = got
            BY <1>2, <2>2, <3>1, <3>3
        <3>5. QED
            BY <3>2, <3>4, QuietReturn
    <2>3. QED
        BY <1>2, <2>1, <2>2, QuietReturn
<1>7. ASSUME NEW new \in Fds, SysDup2(p, fd, new)
      PROVE  Channel!Next /\ Rings(pipes')
    <2>1. ~Dead(s, p)
        BY <1>2, <1>7 DEF SysDup2, Enters
    <2>2. Return(Dup2(s, p, fd, new), p)
        BY <1>1, <1>7 DEF SysDup2
    <2>3. QED
        BY <1>4, <2>1, <2>2
<1>8. QED
    BY <1>3, <1>5, <1>6, <1>7

LEMMA SpawnIsStep ==
    ASSUME PipeInv(Now), Rings(pipes), NEW p \in Procs, NEW child \in Procs, NEW from \in [StdFds -> Fds],
           SysSpawn(p, child, from)
    PROVE  Channel!Next /\ Rings(pipes')
<1>1. PICK s0 : s0 = Entered
    OBVIOUS
<1>2. state[p] = "running"
    BY DEF SysSpawn, Enters
<1>3. /\ PipeInv(s0) /\ s0.deferred = {} /\ ~Dead(s0, p)
      /\ Frees(pipes, s0.pipes) /\ s0.got = got
    BY <1>1, <1>2, EnteredInv, EnteredEffect
<1>4. PICK s : s = Reap(s0, Orphans(s0))
    OBVIOUS
<1>5. Orphans(s0) \in SUBSET Procs /\ \A q \in Orphans(s0) : s0.state[q] = "zombie"
    BY DEF Orphans
<1>6. PipeInv(s) /\ s.deferred = {} /\ ~Dead(s, p)
    BY <1>3, <1>4, <1>5, ReapInv
<1>7. Frees(pipes, s.pipes) /\ s.got = got
    BY <1>3, <1>4, ReapEffect
<1>8. CASE s.state[child] # "none"
    <2>1. Return(s, p)
        BY <1>1, <1>4, <1>8 DEF SysSpawn
    <2>2. QED
        BY <1>6, <1>7, <2>1, QuietReturn
<1>9. CASE s.state[child] = "none"
    <2>1. PICK t : t = Spawned(s, p, child, from)
        OBVIOUS
    <2>2. Return(t, p)
        BY <1>1, <1>4, <1>9, <2>1 DEF SysSpawn, Spawned
    <2>3. PipeInv(t)
        BY <1>6, <1>9, <2>1, SpawnInv
    <2>4. Frees(pipes, t.pipes) /\ t.got = got
        BY <1>6, <1>7, <2>1, SpawnEffect
    <2>5. QED
        BY <2>2, <2>3, <2>4, QuietReturn
<1>10. QED
    BY <1>8, <1>9

LEMMA ExitIsStep ==
    ASSUME PipeInv(Now), Rings(pipes), NEW p \in Procs, SysExit(p)
    PROVE  Channel!Next /\ Rings(pipes')
<1>1. PICK s : s = Entered
    OBVIOUS
<1>2. PipeInv(s) /\ Frees(pipes, s.pipes) /\ s.got = got /\ Rings(s.pipes)
    BY <1>1, EnteredInv, EnteredEffect
<1>3. PICK u : u = Close(s, AllOf({p}))
    OBVIOUS
<1>4. PipeInv(u) /\ Frees(s.pipes, u.pipes) /\ u.got = got
    BY <1>2, <1>3, CloseInv, CloseEffect
<1>5. PICK t : t = Bury(u, p)
    OBVIOUS
<1>6. t.pipes = u.pipes /\ t.got = got
    BY <1>4, <1>5, BuryEffect
<1>7. pipes' = t.pipes /\ got' = t.got
    BY <1>1, <1>3, <1>5 DEF SysExit, Become
<1>8. QED
    BY <1>2, <1>4, <1>6, <1>7, FreesTrans, SilentStep

LEMMA SignalCallsAreSteps ==
    ASSUME PipeInv(Now), Rings(pipes), NEW p \in Procs, NEW q \in Procs
    PROVE  /\ SysKill(p, q) => Channel!Next /\ Rings(pipes')
           /\ SysTerminate(p, q) => Channel!Next /\ Rings(pipes')
           /\ Signalled(p) => Channel!Next /\ Rings(pipes')
<1>1. PICK s : s = Entered
    OBVIOUS
<1>2. PipeInv(s) /\ Frees(pipes, s.pipes) /\ s.got = got
    BY <1>1, EnteredInv, EnteredEffect
<1>3. ASSUME SysKill(p, q)
      PROVE  Channel!Next /\ Rings(pipes')
    <2>1. PICK t : t = ForceKill(s, q)
        OBVIOUS
    <2>2. PipeInv(t) /\ t.pipes = s.pipes /\ t.got = s.got
        BY <1>2, <2>1, ForceKillInv, KillEffect
    <2>3. Return(t, p) /\ Frees(pipes, t.pipes) /\ t.got = got
        BY <1>1, <1>2, <1>3, <2>1, <2>2 DEF SysKill
    <2>4. QED
        BY <2>2, <2>3, QuietReturn
<1>4. ASSUME SysTerminate(p, q)
      PROVE  Channel!Next /\ Rings(pipes')
    <2>1. PICK ps : ps = s.pending \cup {q}
        OBVIOUS
    <2>2. PICK u : u = [s EXCEPT !.pending = ps, !.state[q] = "running"]
        OBVIOUS
    <2>3. Return(IF Dead(s, q) THEN s ELSE u, p)
        BY <1>1, <1>4, <2>1, <2>2 DEF SysTerminate, Dead
    <2>4. CASE Dead(s, q)
        BY <1>2, <2>3, <2>4, QuietReturn
    <2>5. CASE ~Dead(s, q)
        <3>1. Calm(s, [s EXCEPT !.pending = ps, !.state[q] = "running"])
            BY <1>2, <2>5, WakeOneCalm
        <3>2. PipeInv(u)
            BY <1>2, <2>2, <3>1, CalmInv
        <3>3. u.pipes = s.pipes /\ u.got = s.got
            BY <1>2, <2>2 DEF PipeInv, ShapeOK, IsState
        <3>4. Return(u, p) /\ Frees(pipes, u.pipes) /\ u.got = got
            BY <1>2, <2>3, <2>5, <3>3
        <3>5. QED
            BY <3>2, <3>4, QuietReturn
    <2>6. QED
        BY <2>4, <2>5
<1>5. ASSUME Signalled(p)
      PROVE  Channel!Next /\ Rings(pipes')
    <2>1. PICK t : t = ForceKill(Now, p)
        OBVIOUS
    <2>2. t.pipes = pipes /\ t.got = got
        BY <2>1, KillEffect DEF Now
    <2>3. pipes' = pipes /\ got' = got
        BY <1>5, <2>1, <2>2 DEF Signalled, Become
    <2>4. QED
        BY <2>3, FreesSelf, SilentStep
<1>6. QED
    BY <1>3, <1>4, <1>5

LEMMA WaitIsStep ==
    ASSUME PipeInv(Now), Rings(pipes), NEW p \in Procs, SysWait(p)
    PROVE  Channel!Next /\ Rings(pipes')
<1>1. PICK s : s = Entered
    OBVIOUS
<1>2. PipeInv(s) /\ s.deferred = {} /\ Frees(pipes, s.pipes) /\ s.got = got
    BY <1>1, EnteredInv, EnteredEffect
<1>3. \/ \E q \in Procs : s.state[q] = "zombie" /\ Return(Reap(s, {q}), p)
      \/ Return(s, p)
      \/ BlockAndRestart(s, p, [op |-> "wait"], "child")
    BY <1>1 DEF SysWait
<1>4. ASSUME NEW q \in Procs, s.state[q] = "zombie", Return(Reap(s, {q}), p)
      PROVE  Channel!Next /\ Rings(pipes')
    <2>1. PICK t : t = Reap(s, {q})
        OBVIOUS
    <2>2. PipeInv(t)
        BY <1>2, <1>4, <2>1, ReapInv
    <2>3. t.pipes = s.pipes /\ t.got = s.got
        BY <1>2, <2>1, ReapEffect
    <2>4. Return(t, p) /\ Frees(pipes, t.pipes) /\ t.got = got
        BY <1>2, <1>4, <2>1, <2>3
    <2>5. QED
        BY <2>2, <2>4, QuietReturn
<1>5. CASE Return(s, p)
    BY <1>2, <1>5, QuietReturn
<1>6. CASE BlockAndRestart(s, p, [op |-> "wait"], "child")
    <2>1. pipes' = s.pipes /\ got' = got
        BY <1>2, <1>6, BlockEffect
    <2>2. QED
        BY <1>2, <2>1, SilentStep
<1>7. QED
    BY <1>3, <1>4, <1>5, <1>6

(* Every step of the kernel is a step of the channels.                     *)
LEMMA NextIsStep ==
    ASSUME PipeInv(Now), Rings(pipes), Next
    PROVE  Channel!Next /\ Rings(pipes')
<1>1. CASE Tick
    <2>1. PICK t : t = WakeWaiters(Now, "input")
        OBVIOUS
    <2>2. IsState(Now) /\ Now.pipes = pipes /\ Now.got = got
        BY DEF Now, IsState
    <2>3. t.pipes = pipes /\ t.got = got
        BY <2>1, <2>2, WakeEffect
    <2>4. pipes' = pipes /\ got' = got
        BY <1>1, <2>1, <2>3 DEF Tick, Become
    <2>5. QED
        BY <2>4, FreesSelf, SilentStep
<1>2. ASSUME NEW p \in Procs, ReadOrWrite(p)
      PROVE  Channel!Next /\ Rings(pipes')
    BY <1>2, ReadIsStep, WriteIsStep DEF ReadOrWrite
<1>3. QED
    BY <1>1, <1>2, PipeCallIsStep, FdCallsAreSteps, SpawnIsStep, ExitIsStep, SignalCallsAreSteps, WaitIsStep
       DEF Next

(* pipe.rs implements bounded FIFO channels, for every number of pipes and *)
(* every ring size: whatever read, write, dup, close, spawn, exit and kill *)
(* do in whatever order, no byte is lost, repeated or reordered by         *)
(* wrap-around, partial transfers, restarted calls or the reuse of a pipe  *)
(* number, and end of file comes only after the last byte was read.        *)
THEOREM PipesAreChannels == Spec => ImplementsChannel
<1>1. Init => PipeInv(Now) /\ Rings(pipes) /\ Channel!Init
    <2> SUFFICES ASSUME Init
                 PROVE  PipeInv(Now) /\ Rings(pipes) /\ Channel!Init
        OBVIOUS
    <2>1. \A i \in PipeIds : pipes[i] = NoPipe
        BY DEF Init
    <2>2. Rings(pipes)
        BY <2>1, NoPipeRing DEF Rings
    <2>3. Channel!Init
        BY <2>1, NoPipeRing DEF Init, Channel!Init
    <2>4. QED
        BY <2>2, <2>3, PipeInitInv
<1>2. PipeInv(Now) /\ Rings(pipes) /\ [Next]_vars
          => PipeInv(Now)' /\ Rings(pipes)' /\ [Channel!Next]_(Channel!vars)
    <2> SUFFICES ASSUME PipeInv(Now), Rings(pipes), [Next]_vars
                 PROVE  PipeInv(Now)' /\ Rings(pipes)' /\ [Channel!Next]_(Channel!vars)
        OBVIOUS
    <2>1. PipeInv(Now)'
        BY PipeNextInv
    <2>2. CASE Next
        BY <2>1, <2>2, NextIsStep
    <2>3. CASE UNCHANGED vars
        <3>1. pipes' = pipes /\ got' = got
            BY <2>3 DEF vars
        <3>2. QED
            BY <2>1, <3>1 DEF Channel!vars
    <2>4. QED
        BY <2>2, <2>3
<1>3. QED
    BY <1>1, <1>2, PTL DEF Spec, ImplementsChannel, Channel!Spec

-----------------------------------------------------------------------------
(***************************************************************************)
(* Sockets.  The descriptors, the socket table and the stack's set agree   *)
(* at every step; that a restarted connect begins one handshake needs the  *)
(* flag a blocked call keeps.                                              *)
(***************************************************************************)
(* Put and Drop on a table of slots.                                       *)
LEMMA PutFacts ==
    ASSUME NEW f, NEW k, NEW v
    PROVE  /\ DOMAIN Put(f, k, v) = DOMAIN f \cup {k}
           /\ Put(f, k, v)[k] = v
           /\ \A x \in DOMAIN f \ {k} : Put(f, k, v)[x] = f[x]
    BY DEF Put

LEMMA DropFacts ==
    ASSUME NEW f, NEW S
    PROVE  /\ DOMAIN Drop(f, S) = DOMAIN f \ S
           /\ \A x \in DOMAIN f \ S : Drop(f, S)[x] = f[x]
    BY DEF Drop

(* A thread that has not begun a handshake has not counted one.            *)
CallerOK(c) ==
    /\ c = [call |-> c.call, sock |-> c.sock, wait |-> c.wait, started |-> c.started, syns |-> c.syns]
    /\ c.syns \in {0, 1}
    /\ ~c.started => c.syns = 0

NetInv ==
    /\ SocketTablesAgree
    /\ caller = [t \in Callers |-> caller[t]]
    /\ \A t \in Callers : CallerOK(caller[t])

LEMMA NetInitInv == NetInit => NetInv
    BY DEF NetInit, NetInv, SocketTablesAgree, CallerOK, Idle, NoEntries

(* A call returns, or blocks with the handshakes it has begun.             *)
LEMMA ReturnOK ==
    ASSUME NetInv, NEW t \in Callers, NetReturn(t)
    PROVE  caller' = [u \in Callers |-> caller'[u]] /\ \A u \in Callers : CallerOK(caller'[u])
    BY DEF NetInv, NetReturn, CallerOK, Idle

LEMMA BlockOK ==
    ASSUME NetInv, NEW t \in Callers, NEW what, NEW s, NEW started, NEW syns,
           syns \in {0, 1}, ~started => syns = 0,
           block_and_restart(t, what, s, started, syns)
    PROVE  caller' = [u \in Callers |-> caller'[u]] /\ \A u \in Callers : CallerOK(caller'[u])
<1>1. PICK c : c = [call |-> what, sock |-> s, wait |-> WaitReason(what), started |-> started, syns |-> syns]
    OBVIOUS
<1>2. CallerOK(c)
    BY <1>1 DEF CallerOK
<1>3. caller' = [caller EXCEPT ![t] = c]
    BY <1>1 DEF block_and_restart
<1>4. QED
    BY <1>2, <1>3 DEF NetInv

LEMMA BlocksOK ==
    ASSUME NetInv, NEW t \in Callers, NEW what, NEW s, Blocks(t, what, s)
    PROVE  NetInv'
<1>1. caller' = [u \in Callers |-> caller'[u]] /\ \A u \in Callers : CallerOK(caller'[u])
    BY BlockOK DEF Blocks, NetInv, CallerOK
<1>2. QED
    BY <1>1 DEF NetInv, SocketTablesAgree, Blocks, KeepNet

LEMMA ReturnsOK ==
    ASSUME NetInv, NEW t \in Callers, NetReturn(t), KeepNet
    PROVE  NetInv'
    BY ReturnOK DEF NetInv, SocketTablesAgree, KeepNet

(* A step that rewrites a handle or a socket state in place.               *)
LEMMA InPlaceOK ==
    ASSUME NetInv, DOMAIN handles' = DOMAIN handles, DOMAIN sockets' = DOMAIN sockets,
           UNCHANGED <<openFds, removals>>,
           caller' = [u \in Callers |-> caller'[u]] /\ \A u \in Callers : CallerOK(caller'[u])
    PROVE  NetInv'
    BY DEF NetInv, SocketTablesAgree

LEMMA FreeIdFacts ==
    ASSUME NetInv, FreeIds # {}
    PROVE  Least(FreeIds) \notin DOMAIN handles /\ Least(FreeIds) \notin DOMAIN sockets
<1>1. FreeIds \in SUBSET Nat
    BY DEF FreeIds, SockIds
<1>2. Least(FreeIds) \in FreeIds
    BY <1>1, LeastIn
<1>3. QED
    BY <1>2 DEF NetInv, SocketTablesAgree, FreeIds

LEMMA RestartableInv ==
    ASSUME NetInv, NEW t \in Callers, Restartable(t)
    PROVE  NetInv'
<1>1. CASE ebadf(t)
    BY <1>1, ReturnsOK DEF ebadf
<1>2. ASSUME NEW s \in SockIds, sys_bind(t, s)
      PROVE  NetInv'
    <2>1. CASE Contended
        BY <1>2, <2>1, BlocksOK DEF sys_bind
    <2>2. CASE ~Contended
        BY <1>2, <2>2, ReturnOK, InPlaceOK DEF sys_bind
    <2>3. QED
        BY <2>1, <2>2
<1>3. ASSUME NEW s \in SockIds, sys_accept4(t, s)
      PROVE  NetInv'
    <2>1. CASE NetReturn(t) /\ KeepNet
        BY <2>1, ReturnsOK
    <2>2. CASE Blocks(t, "accept", s)
        BY <2>2, BlocksOK
    <2>3. CASE /\ FreeIds # {} /\ accept_tcp(s) /\ NetReturn(t) /\ s \in openFds
        <3>1. PICK id : id = Least(FreeIds)
            OBVIOUS
        <3>2. id \notin DOMAIN handles /\ id \notin DOMAIN sockets
            BY <2>3, <3>1, FreeIdFacts
        <3>3. /\ DOMAIN handles' = DOMAIN handles \cup {id}
              /\ DOMAIN sockets' = DOMAIN sockets \cup {id}
              /\ openFds' = openFds \cup {id} /\ removals' = removals
            BY <2>3, <3>1, <3>2 DEF accept_tcp, Put
        <3>4. SocketTablesAgree'
            BY <3>2, <3>3 DEF NetInv, SocketTablesAgree
        <3>5. QED
            BY <2>3, <3>4, ReturnOK DEF NetInv
    <2>4. QED
        BY <1>3, <2>1, <2>2, <2>3 DEF sys_accept4, NetCalls
<1>4. ASSUME NEW s \in SockIds, sys_recvfrom(t, s)
      PROVE  NetInv'
    <2>1. CASE Blocks(t, "recv", s)
        BY <2>1, BlocksOK
    <2>2. CASE ~Blocks(t, "recv", s)
        BY <1>4, <2>2, ReturnOK, InPlaceOK DEF sys_recvfrom
    <2>3. QED
        BY <2>1, <2>2
<1>5. ASSUME NEW s \in SockIds, sys_sendto(t, s)
      PROVE  NetInv'
    BY <1>5, BlocksOK, ReturnsOK DEF sys_sendto
<1>6. ASSUME NEW s \in SockIds, sys_poll(t, s)
      PROVE  NetInv'
    <2>1. CASE Blocks(t, "poll", s)
        BY <2>1, BlocksOK
    <2>2. CASE ~Blocks(t, "poll", s)
        <3>1. NetReturn(t) /\ DOMAIN sockets' = DOMAIN sockets /\ UNCHANGED <<handles, openFds, removals>>
            BY <1>6, <2>2 DEF sys_poll
        <3>2. QED
            BY <3>1, ReturnOK, InPlaceOK
    <2>3. QED
        BY <2>1, <2>2
<1>7. ASSUME NEW s \in SockIds, NEW nonblocking \in BOOLEAN, sys_connect(t, s, nonblocking)
      PROVE  NetInv'
    <2>1. CASE Blocks(t, "connect", s)
        BY <2>1, BlocksOK
    <2>2. CASE NetReturn(t) /\ KeepNet
        BY <2>2, ReturnsOK
    <2>3. CASE NetReturn(t) /\ Connected(s)
        BY <2>3, ReturnOK, InPlaceOK DEF Connected
    <2>4. CASE /\ NewHandshake(caller[t])
               /\ handles' = [handles EXCEPT ![s].st = "synsent"]
               /\ sockets' = [sockets EXCEPT ![s] = "Connecting"]
               /\ IF nonblocking THEN NetReturn(t)
                  ELSE block_and_restart(t, "connect", s, TRUE, caller[t].syns + 1)
               /\ UNCHANGED <<openFds, removals, bottom, ready, packets>>
        <3>1. caller[t].syns = 0
            BY <2>4 DEF NewHandshake, NetInv, CallerOK
        <3>2. caller' = [u \in Callers |-> caller'[u]] /\ \A u \in Callers : CallerOK(caller'[u])
            <4>1. CASE nonblocking
                BY <2>4, <4>1, ReturnOK
            <4>2. CASE ~nonblocking
                <5>1. block_and_restart(t, "connect", s, TRUE, 1)
                    <6>1. caller[t].syns + 1 = 1
                        BY <3>1
                    <6>2. block_and_restart(t, "connect", s, TRUE, caller[t].syns + 1)
                        BY <2>4, <4>2, Zenon
                    <6>3. QED
                        BY <6>1, <6>2, Zenon
                <5>2. QED
                    BY <5>1, BlockOK
            <4>3. QED
                BY <4>1, <4>2
        <3>3. QED
            BY <2>4, <3>2, InPlaceOK
    <2>5. QED
        BY <1>7, <2>1, <2>2, <2>3, <2>4 DEF sys_connect
<1>8. QED
    BY <1>1, <1>2, <1>3, <1>4, <1>5, <1>6, <1>7 DEF Restartable

LEMMA NetNextInv ==
    ASSUME NetInv, [NetNext]_netVars
    PROVE  NetInv'
<1>1. ASSUME NEW t \in Callers, sys_socket(t)
      PROVE  NetInv'
    <2>1. PICK id : id = Least(FreeIds)
        OBVIOUS
    <2>2. id \notin DOMAIN handles /\ id \notin DOMAIN sockets
        BY <1>1, <2>1, FreeIdFacts DEF sys_socket
    <2>3. /\ DOMAIN handles' = DOMAIN handles \cup {id}
          /\ DOMAIN sockets' = DOMAIN sockets \cup {id}
          /\ openFds' = openFds \cup {id} /\ removals' = removals /\ caller' = caller
        BY <1>1, <2>1, <2>2 DEF sys_socket, Put
    <2>4. QED
        BY <2>2, <2>3 DEF NetInv, SocketTablesAgree
<1>2. ASSUME NEW t \in Callers, NEW s \in SockIds, sys_listen(t, s) \/ sys_shutdown(t, s)
      PROVE  NetInv'
    <2>1. DOMAIN sockets' = DOMAIN sockets /\ UNCHANGED <<handles, openFds, removals, caller>>
        BY <1>2 DEF sys_listen, sys_shutdown
    <2>2. QED
        BY <2>1 DEF NetInv, SocketTablesAgree
<1>3. ASSUME NEW t \in Callers, NEW s \in SockIds, close_descriptor(t, s)
      PROVE  NetInv'
    <2>1. DOMAIN sockets' = DOMAIN sockets \ {s}
        BY <1>3, DropFacts DEF close_descriptor
    <2>2. QED
        BY <1>3, <2>1 DEF close_descriptor, NetInv, SocketTablesAgree
<1>4. CASE bottom_half_begin
    <2>1. DOMAIN handles' = DOMAIN handles \ removals
        BY <1>4, DropFacts DEF bottom_half_begin
    <2>2. QED
        BY <1>4, <2>1 DEF bottom_half_begin, NetInv, SocketTablesAgree
<1>5. CASE poll_budgeted
    <2>1. DOMAIN handles' = DOMAIN handles /\ UNCHANGED <<sockets, openFds, removals, caller>>
        BY <1>5 DEF poll_budgeted
    <2>2. QED
        BY <2>1 DEF NetInv, SocketTablesAgree
<1>6. CASE service_network_wakes
    <2>1. \A u \in Callers : caller'[u] = caller[u] \/ caller'[u] = [caller[u] EXCEPT !.wait = "no"]
        BY <1>6 DEF service_network_wakes
    <2>2. \A u \in Callers : CallerOK(caller'[u])
        BY <2>1 DEF NetInv, CallerOK
    <2>3. caller' = [u \in Callers |-> caller'[u]]
        BY <1>6 DEF service_network_wakes
    <2>4. QED
        BY <1>6, <2>2, <2>3 DEF service_network_wakes, NetInv, SocketTablesAgree
<1>7. CASE UNCHANGED netVars
    BY <1>7 DEF netVars, NetInv, SocketTablesAgree
<1>8. QED
    BY <1>1, <1>2, <1>3, <1>4, <1>5, <1>6, <1>7, RestartableInv DEF NetNext

LEMMA NetInvSound ==
    ASSUME NetInv
    PROVE  SocketTablesAgree /\ ConnectStartsOnce
    BY DEF NetInv, CallerOK, ConnectStartsOnce

(* The record has the interface's address.                                 *)
IfInv ==
    /\ net = [mode |-> net.mode, state |-> net.state, ip |-> net.ip]
    /\ RecordMatchesInterface

LEMMA IfNextInv ==
    ASSUME IfInv, [IfNext]_ifVars
    PROVE  IfInv'
<1>1. ASSUME NEW addr \in Statics, set_static(addr)
      PROVE  IfInv'
    BY <1>1, InterfaceAssumption DEF set_static, apply_ipv4, IfInv, RecordMatchesInterface
<1>2. ASSUME NEW addr \in Leases, dhcp_configured(addr)
      PROVE  IfInv'
    BY <1>2, InterfaceAssumption DEF dhcp_configured, apply_ipv4, IfInv, RecordMatchesInterface
<1>3. CASE start_dhcp
    BY <1>3 DEF start_dhcp, clear_ipv4, IfInv, RecordMatchesInterface
<1>4. CASE dhcp_deconfigured
    BY <1>4 DEF dhcp_deconfigured, clear_ipv4, IfInv, RecordMatchesInterface
<1>5. CASE UNCHANGED ifVars
    BY <1>5 DEF ifVars, IfInv, RecordMatchesInterface
<1>6. QED
    BY <1>1, <1>2, <1>3, <1>4, <1>5 DEF IfNext

LEMMA IfInitInv == IfInit => IfInv
    BY DEF IfInit, IfInv, RecordMatchesInterface

SocketsInv == (part = "net" => NetInv) /\ (part = "interface" => IfInv)

(* Sockets of MCIpc's composition, for every value of the constants: the   *)
(* descriptors, the socket table and the stack (net/stack.rs) agree while  *)
(* closes are deferred and the bottom half runs on another processor, a    *)
(* connect executed again begins no second handshake (sys_connect), and    *)
(* the recorded address is the interface's (net/stack.rs, apply_ipv4).     *)
THEOREM SocketsAreSound == MCSpec => []SocketsSound
<1>1. MCInit => SocketsInv
    <2>1. MCInit => NetInit /\ IfInit
        BY Zenon DEF MCInit
    <2>2. QED
        BY <2>1, NetInitInv, IfInitInv, Zenon DEF SocketsInv
<1>2. ASSUME SocketsInv, [MCNext]_mcVars
      PROVE  SocketsInv'
    <2>1. part' = part
        BY <1>2 DEF MCNext, mcVars
    <2>2. CASE part = "net"
        BY <1>2, <2>1, <2>2, NetNextInv DEF MCNext, mcVars, netVars, SocketsInv
    <2>3. CASE part = "interface"
        BY <1>2, <2>1, <2>3, IfNextInv DEF MCNext, mcVars, ifVars, SocketsInv
    <2>4. QED
        BY <2>1, <2>2, <2>3 DEF SocketsInv
<1>3. SocketsInv => SocketsSound
    BY NetInvSound DEF SocketsInv, SocketsSound, IfInv
<1>4. QED
    BY <1>1, <1>2, <1>3, PTL DEF MCSpec
=============================================================================
