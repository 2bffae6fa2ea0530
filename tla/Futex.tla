------------------------------- MODULE Futex -------------------------------
(***************************************************************************)
(* The userspace mutex of lib/src/mutex.rs on top of sys_futex (kernel     *)
(* syscalls/handler.rs).                                                   *)
(*                                                                         *)
(* A user instruction on the mutex word is one step and needs no lock.     *)
(* FUTEX_WAIT holds the kernel lock from loading the word to blocking, so  *)
(* it is two steps with the lock held between them; stores by other        *)
(* processors fall between the two, FUTEX_WAKE cannot.  SIGCONT makes      *)
(* every thread runnable, futex waiters included.                          *)
(***************************************************************************)
EXTENDS Tables, FiniteSets

CONSTANTS
    Lockers,       \* threads that take the mutex
    MaxRounds,     \* times each of them takes it
    MaxContinues   \* SIGCONTs sent

ASSUME FutexAssumption == MaxRounds \in Nat /\ "free" \notin Lockers

VARIABLES
    word,      \* the mutex word: 0 unlocked, 1 locked, 2 contended
    locker,    \* thread -> program counter, last value seen, rounds left
    klock,     \* the thread inside FUTEX_WAIT with the kernel lock, or "free"
    queued,    \* threads Blocked(Futex) with the key of the word
    continues  \* SIGCONTs sent so far

futexVars == <<word, locker, klock, queued, continues>>

FutexInit ==
    /\ word = 0
    /\ locker = [t \in Lockers |-> [pc |-> "idle", state |-> 0, rounds |-> MaxRounds]]
    /\ klock = "free"
    /\ queued = {}
    /\ continues = 0

LockAt(t, pc) == locker[t].pc = pc
LockGoto(t, pc) == locker' = [locker EXCEPT ![t].pc = pc]
LockSaw(t, pc, v) == locker' = [locker EXCEPT ![t].pc = pc, ![t].state = v]

KeepFutex == UNCHANGED <<klock, queued, continues>>

(***************************************************************************)
(* Mutex::lock and MutexGuard::drop.                                       *)
(***************************************************************************)
try_lock(t) ==
    /\ LockAt(t, "idle") /\ locker[t].rounds > 0
    /\ IF word = 0 THEN word' = 1 /\ LockGoto(t, "critical")
                   ELSE word' = word /\ LockGoto(t, "load")
    /\ KeepFutex

\* The relaxed load before the loop and after each wait.
reload(t) ==
    /\ LockAt(t, "load")
    /\ LockSaw(t, IF word = 0 THEN "cas" ELSE IF word = 2 THEN "wait" ELSE "swap", word)
    /\ UNCHANGED word /\ KeepFutex

\* Mutant: a thread that has waited takes the lock as uncontended.
compare_exchange_1(t) ==
    /\ LockAt(t, "cas")
    /\ IF word = 0 THEN word' = 1 /\ LockGoto(t, "critical")
       ELSE word' = word /\ LockSaw(t, IF word = 2 THEN "wait" ELSE "swap", word)
    /\ KeepFutex

\* Mutant: the result of the exchange is not looked at.
compare_exchange_blind(t) ==
    /\ LockAt(t, "cas") /\ word' = 2 /\ LockGoto(t, "critical")
    /\ KeepFutex

\* compare_exchange_weak(0, 2), which may also fail spuriously.
compare_exchange(t) ==
    /\ LockAt(t, "cas")
    /\ \/ word = 0 /\ word' = 2 /\ LockGoto(t, "critical")
       \/ word' = word /\ LockSaw(t, IF word = 0 THEN "cas" ELSE IF word = 2 THEN "wait" ELSE "swap", word)
    /\ KeepFutex

swap_contended(t) ==
    /\ LockAt(t, "swap") /\ word' = 2
    /\ LockGoto(t, IF word = 0 THEN "critical" ELSE "wait")
    /\ KeepFutex

unlock(t) ==
    /\ LockAt(t, "critical") /\ word' = 0
    /\ locker' = [locker EXCEPT ![t].pc = IF word = 2 THEN "wake" ELSE "idle",
                                ![t].rounds = @ - 1]
    /\ KeepFutex

(***************************************************************************)
(* sys_futex.                                                              *)
(***************************************************************************)
\* FUTEX_WAIT takes the kernel lock and loads the word: EAGAIN unless it is 2.
futex_load(t) ==
    /\ LockAt(t, "wait") /\ klock = "free"
    /\ IF word = 2 THEN klock' = t /\ LockGoto(t, "enqueue")
                   ELSE klock' = klock /\ LockGoto(t, "load")
    /\ UNCHANGED <<word, queued, continues>>

\* block(Futex), and schedule gives the lock away.
futex_block(t) ==
    /\ LockAt(t, "enqueue")
    /\ klock' = "free" /\ queued' = queued \cup {t} /\ LockGoto(t, "asleep")
    /\ UNCHANGED <<word, continues>>

\* Mutant: the waker does not wait for the kernel lock.
wake_lock_free == TRUE

wake_lock == klock = "free"

\* FUTEX_WAKE(1): the waiter in the lowest slot; slots are in no known order.
futex_wake(t) ==
    /\ LockAt(t, "wake") /\ wake_lock
    /\ IF queued = {}
       THEN LockGoto(t, "idle") /\ UNCHANGED queued
       ELSE \E w \in queued :
            /\ queued' = queued \ {w}
            /\ locker' = [locker EXCEPT ![t].pc = "idle", ![w].pc = "load"]
    /\ UNCHANGED <<word, klock, continues>>

\* continue_task: the wait returns 0 though nobody called FUTEX_WAKE.
continue_task ==
    /\ klock = "free" /\ continues < MaxContinues /\ continues' = continues + 1
    /\ queued' = {}
    /\ locker' = [t \in Lockers |-> IF t \in queued THEN [locker[t] EXCEPT !.pc = "load"] ELSE locker[t]]
    /\ UNCHANGED <<word, klock>>

LockerStep(t) ==
    \/ try_lock(t) \/ reload(t) \/ compare_exchange(t) \/ swap_contended(t) \/ unlock(t)
    \/ futex_load(t) \/ futex_block(t) \/ futex_wake(t)

FutexNext == continue_task \/ \E t \in Lockers : LockerStep(t)

\* Threads are scheduled; a weak exchange does not fail for ever.
FutexFairness == \A t \in Lockers : WF_futexVars(LockerStep(t))

FutexSpec == FutexInit /\ [][FutexNext]_futexVars /\ FutexFairness

(***************************************************************************)
(* Properties.                                                             *)
(***************************************************************************)
\* The guard of Mutex::lock is exclusive, also after spurious wake-ups and
\* failed weak exchanges.
MutualExclusion == Cardinality({t \in Lockers : LockAt(t, "critical")}) <= 1

\* No wake-up is lost: while a thread sleeps on the word, the word says
\* contended (so the owner will wake somebody), or a thread is on its way to
\* wake one or to try the lock itself.
SleeperHasWaker ==
    queued # {} =>
        \/ word = 2 /\ \E t \in Lockers : LockAt(t, "critical")
        \/ \E t \in Lockers : locker[t].pc \in {"wake", "load", "cas", "swap", "wait"}

\* A thread that finds the mutex taken gets it and gives it back: no store, wake-up or
\* SIGCONT between its loads of the word and its sleep leaves it asleep.
EveryLockIsTaken == \A t \in Lockers : []<>LockAt(t, "idle")

(***************************************************************************)
(* The deadline of a blocked task, wake_deadline_ms, which nanosleep,      *)
(* FUTEX_WAIT and poll share (syscalls/handler.rs, multitasking/task.rs).  *)
(* One thread makes timed calls one after the other; the timer expires     *)
(* deadlines, SIGCONT makes a blocked thread runnable at any time.         *)
(*                                                                         *)
(* poll is executed again after each wake-up and keeps the deadline it     *)
(* finds; FUTEX_WAIT and nanosleep set theirs and are not executed again.  *)
(* `due` is when the call the program made ends; `early` records a timeout *)
(* reported before that, `stale` that SIGCONT ended a wait with its deadline *)
(* still set.                                                              *)
(***************************************************************************)
CONSTANTS
    MaxUptime,     \* bound on the clock
    MaxTimeout,    \* longest timeout
    MaxCont,       \* SIGCONTs sent
    TimedCalls     \* the calls the program makes

ASSUME TimedAssumption == MaxTimeout \in Nat

VARIABLES
    blockedOn,   \* WaitReason of the thread, or "running"
    repoll,      \* the timeout of the poll to execute again, 0 when there is none
    deadline,    \* wake_deadline_ms
    due,         \* end of the call in progress
    uptime,
    sigconts,
    early,
    stale

timedVars == <<blockedOn, repoll, deadline, due, uptime, sigconts, early, stale>>

TimedInit ==
    /\ blockedOn = "running" /\ repoll = 0 /\ deadline = 0 /\ due = 0
    /\ uptime = 1 /\ sigconts = 0 /\ early = FALSE /\ stale = FALSE

MayStart(call) == call \in TimedCalls /\ blockedOn = "running" /\ repoll = 0

\* FUTEX_WAIT and nanosleep.
timed_wait(call, ms) ==
    /\ MayStart(call)
    /\ blockedOn' = call /\ deadline' = uptime + ms /\ due' = uptime + ms
    /\ UNCHANGED <<repoll, uptime, sigconts, early, stale>>

\* Mutant: every execution counts from now.
poll_deadline_fresh(ms) == uptime + ms

\* sys_poll sets the deadline only when there is none.
poll_deadline(ms) == IF deadline = 0 THEN uptime + ms ELSE deadline

\* One execution of sys_poll, which finds a descriptor ready or none.
PollOnce(ms, end) ==
    \/ deadline' = 0 /\ repoll' = 0 /\ UNCHANGED <<blockedOn, early>>
    \/ /\ uptime >= poll_deadline(ms)
       /\ deadline' = 0 /\ repoll' = 0 /\ early' = (early \/ uptime < end)
       /\ UNCHANGED blockedOn
    \/ /\ uptime < poll_deadline(ms)
       /\ deadline' = poll_deadline(ms) /\ repoll' = ms /\ blockedOn' = "Poll"
       /\ UNCHANGED early

poll_first(ms) ==
    /\ MayStart("Poll")
    /\ due' = uptime + ms /\ PollOnce(ms, uptime + ms)
    /\ UNCHANGED <<uptime, sigconts, stale>>

poll_again ==
    /\ blockedOn = "running" /\ repoll # 0
    /\ PollOnce(repoll, due)
    /\ UNCHANGED <<due, uptime, sigconts, stale>>

\* A tick, and wake_expired_timers.
timer_tick ==
    LET expired == deadline # 0 /\ uptime + 1 >= deadline IN
    /\ uptime < MaxUptime /\ uptime' = uptime + 1
    /\ blockedOn' = IF blockedOn # "running" /\ expired THEN "running" ELSE blockedOn
    /\ deadline' = IF blockedOn \in {"Futex", "Timer"} /\ expired THEN 0 ELSE deadline
    /\ early' = (early \/ (blockedOn \in {"Futex", "Timer"} /\ expired /\ uptime + 1 < due))
    /\ UNCHANGED <<repoll, due, sigconts, stale>>

\* A descriptor of the poll may have become ready.
wake_poll ==
    /\ blockedOn = "Poll" /\ blockedOn' = "running"
    /\ UNCHANGED <<repoll, deadline, due, uptime, sigconts, early, stale>>

\* continue_task: state = Runnable, the deadline stays.
sigcont ==
    /\ sigconts < MaxCont /\ sigconts' = sigconts + 1
    /\ blockedOn' = "running"
    /\ stale' = (stale \/ blockedOn \in {"Futex", "Timer"})
    /\ UNCHANGED <<repoll, deadline, due, uptime, early>>

TimedNext ==
    \/ \E ms \in 1..MaxTimeout : poll_first(ms) \/ \E call \in {"Futex", "Timer"} : timed_wait(call, ms)
    \/ poll_again \/ timer_tick \/ wake_poll \/ sigcont

TimedSpec == TimedInit /\ [][TimedNext]_timedVars

(***************************************************************************)
(* Properties.                                                             *)
(***************************************************************************)
\* A blocked call waits for its own deadline, however often a poll is woken and
\* executed again, unless SIGCONT ended a futex wait or a sleep before.
DeadlineExact == blockedOn # "running" /\ ~stale => deadline = due

\* A timeout is not reported before the time the program asked for, however
\* often the poll was woken, executed again and blocked again in between.
TimeoutNotEarly == early => stale
=============================================================================
