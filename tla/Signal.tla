------------------------------- MODULE Signal -------------------------------
(***************************************************************************)
(* Signals (kernel/src/signal.rs): queueing, stop, continue, kill, the     *)
(* deferred clean-up of killed processes and the delivery of pending       *)
(* signals on the way back to user mode.                                   *)
(***************************************************************************)
EXTENDS TaskTable

(* Mutant: SIGTERM is not in the table of fatal signals.                   *)
TerminateWithoutTerm == {SIGINT, SIGKILL}

DefaultTerminate == {SIGINT, SIGKILL, SIGTERM}

(***************************************************************************)
(* send_signal wakes the leader whatever it waits for; stop and continue   *)
(* rewrite every live thread of the process.                               *)
(***************************************************************************)
SendSignal(k, slot, sig) ==
    LET leader == ProcessSlot(k.t, slot)
        t      == k.t[leader]
        queued == [t EXCEPT !.pending = @ \cup {sig}]
    IN  IF leader \notin DOMAIN k.t \/ t.zombie THEN k
        ELSE [k EXCEPT !.t[leader] =
                 IF t.state \in WaitReasons THEN Wake(queued) ELSE queued]

(* Mutants: a blocked thread keeps its wait reason; only the leader stops. *)
StopKeepsWait(k, slot, sig) ==
    LET leader == ProcessSlot(k.t, slot)
        stop(t) == [t EXCEPT !.running = FALSE, !.stopped = TRUE,
                             !.state = IF @ \in WaitReasons THEN @ ELSE "Stopped"]
        halted  == [s \in DOMAIN k.t |->
                       IF k.t[s].leader = leader /\ ~k.t[s].exited
                       THEN stop(k.t[s]) ELSE k.t[s]]
    IN  IF leader \notin DOMAIN k.t \/ k.t[leader].zombie \/ k.t[leader].stopped THEN k
        ELSE [k EXCEPT !.t = [halted EXCEPT ![leader].stop_pending = TRUE]]

StopLeaderOnly(k, slot, sig) ==
    LET leader == ProcessSlot(k.t, slot)
    IN  IF leader \notin DOMAIN k.t \/ k.t[leader].zombie \/ k.t[leader].exited THEN k
        ELSE [k EXCEPT !.t[leader] = [@ EXCEPT !.running = FALSE, !.state = "Stopped",
                                              !.stopped = TRUE, !.stop_pending = TRUE]]

StopTaskWithSignal(k, slot, sig) ==
    LET leader == ProcessSlot(k.t, slot)
        stop(t) == [t EXCEPT !.running = FALSE, !.state = "Stopped", !.stopped = TRUE]
        halted  == [s \in DOMAIN k.t |->
                       IF k.t[s].leader = leader /\ ~k.t[s].exited
                       THEN stop(k.t[s]) ELSE k.t[s]]
        latched == [halted EXCEPT ![leader].stop_pending = TRUE,
                                  ![leader].pending = @ \ {sig, SIGCONT}]
    IN  IF leader \notin DOMAIN k.t \/ k.t[leader].zombie \/ k.t[leader].stopped THEN k
        ELSE [k EXCEPT !.t = WakeWaiters(latched, "Child")]

(* Mutant: SIGCONT also resumes threads that have exited.                  *)
ContinueRevives(k, slot) ==
    LET leader == ProcessSlot(k.t, slot)
        resume(t) == [t EXCEPT !.running = TRUE, !.state = "Runnable", !.stopped = FALSE]
    IN  IF leader \notin DOMAIN k.t \/ k.t[leader].zombie THEN k
        ELSE [k EXCEPT !.t = [s \in DOMAIN k.t |->
                 IF k.t[s].leader = leader THEN resume(k.t[s]) ELSE k.t[s]]]

ContinueTask(k, slot) ==
    LET leader == ProcessSlot(k.t, slot)
        resume(t) == [t EXCEPT !.running = TRUE, !.state = "Runnable", !.stopped = FALSE]
        resumed == [s \in DOMAIN k.t |->
                       IF k.t[s].leader = leader /\ ~k.t[s].exited
                       THEN resume(k.t[s]) ELSE k.t[s]]
        latched == [resumed EXCEPT ![leader].cont_pending = @ \/ k.t[leader].stopped,
                                   ![leader].pending = @ \ {SIGCONT, SIGSTOP, SIGTSTP}]
    IN  IF leader \notin DOMAIN k.t \/ k.t[leader].zombie THEN k
        ELSE [k EXCEPT !.t = WakeWaiters(latched, "Child")]

(***************************************************************************)
(* force_kill: every thread of the process is dead at once, its children   *)
(* go to pid 1, and closing its descriptors is left to a later system call.*)
(***************************************************************************)
(* Mutants: children keep the dead parent; the descriptors are forgotten.  *)
KillKeepsChildren(k, slot, sig) ==
    LET leader == ProcessSlot(k.t, slot)
        kill(t) == [MarkExited(t) EXCEPT !.pending = {}, !.term = sig]
        killed == [s \in DOMAIN k.t |->
                      IF k.t[s].leader # leader THEN k.t[s]
                      ELSE [kill(k.t[s]) EXCEPT !.zombie = (s = leader)]]
    IN  IF leader \notin DOMAIN k.t \/ k.t[leader].zombie THEN k
        ELSE [k EXCEPT !.t = WakeWaiters(WakeWaiters(killed, "Child"), "Thread"),
                       !.d = @ \cup {leader}]

KillKeepsFds(k, slot, sig) ==
    [KillKeepsChildren(k, slot, sig) EXCEPT
        !.t = ReparentChildrenOf(@, k.t[ProcessSlot(k.t, slot)].pid), !.d = k.d]

ForceKill(k, slot, sig) ==
    LET leader == ProcessSlot(k.t, slot)
        kill(t) == [MarkExited(t) EXCEPT !.pending = {}, !.term = sig]
        killed == [s \in DOMAIN k.t |->
                      IF k.t[s].leader # leader THEN k.t[s]
                      ELSE [kill(k.t[s]) EXCEPT !.zombie = (s = leader)]]
        orphaned == ReparentChildrenOf(killed, k.t[leader].pid)
    IN  IF leader \notin DOMAIN k.t \/ k.t[leader].zombie THEN k
        ELSE [k EXCEPT !.t = WakeWaiters(WakeWaiters(orphaned, "Child"), "Thread"),
                       !.d = @ \cup {leader}]

DrainDeferredCleanup(k) ==
    [k EXCEPT !.d = {},
              !.f = @ \ {k.t[s].pid : s \in {x \in k.d \cap DOMAIN k.t : k.t[x].zombie}}]

(***************************************************************************)
(* signal_slot (kernel/src/syscalls/handler.rs): kill(2) on one process.   *)
(***************************************************************************)
SignalSlot(k, slot, sig) ==
    LET handler == k.t[slot].handlers[sig]
        resumed == ContinueTask(k, slot)
    IN  CASE sig = SIGKILL -> ForceKill(k, slot, sig)
          [] sig = SIGSTOP -> StopTaskWithSignal(k, slot, SIGSTOP)
          [] sig = SIGTSTP ->
                (CASE handler = "SIG_IGN" -> k
                   [] handler = "handler" -> SendSignal(k, slot, sig)
                   [] handler = "SIG_DFL" -> StopTaskWithSignal(k, slot, sig))
          [] sig = SIGCONT ->
                IF handler = "handler" /\ ~k.t[slot].zombie
                THEN SendSignal(resumed, slot, sig) ELSE resumed
          [] OTHER -> SendSignal(k, slot, sig)

(***************************************************************************)
(* Delivery.  Signals are looked at lowest first; ignored ones and ones    *)
(* without an action are dropped until one is caught or is fatal.          *)
(***************************************************************************)
Deliverable(T, leader) ==
    /\ leader \in DOMAIN T
    /\ T[leader].pending # {}
    /\ T[leader].running
    /\ ~T[leader].zombie

Disposition(task, sig) == IF sig \in Catchable THEN task.handlers[sig] ELSE "SIG_DFL"

Decisive(task) ==
    {s \in task.pending :
        \/ Disposition(task, s) = "handler"
        \/ Disposition(task, s) = "SIG_DFL" /\ s \in DefaultTerminate}

(***************************************************************************)
(* deliver_pending_after_switch looks at the pending mask only: a fatal    *)
(* number kills whatever the process installed for it, and anything else   *)
(* that is pending is discarded.                                           *)
(***************************************************************************)
DeliverPendingAfterSwitch(k, c) ==
    LET leader == ProcessSlot(k.t, k.u[c])
        fatal  == k.t[leader].pending \cap DefaultTerminate
    IN  IF k.u[c] = 0 \/ ~Deliverable(k.t, leader) THEN k
        ELSE IF fatal # {} THEN Schedule(ForceKill(k, leader, Min(fatal)), c)
        ELSE [k EXCEPT !.t[leader].pending = {}]

DeliverPending(k, c) ==
    LET leader == ProcessSlot(k.t, k.u[c])
        task   == k.t[leader]
        first  == Min(Decisive(task))
        upTo   == {s \in task.pending : s <= first}
    IN  IF k.u[c] = 0 \/ ~Deliverable(k.t, leader) THEN k
        ELSE IF Decisive(task) = {} THEN [k EXCEPT !.t[leader].pending = {}]
        ELSE IF Disposition(task, first) = "handler"
             THEN [k EXCEPT !.t[leader].pending = @ \ upTo]
        ELSE DeliverPendingAfterSwitch(Schedule(ForceKill(k, leader, first), c), c)
=============================================================================
