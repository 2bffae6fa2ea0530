-------------------------------- MODULE MCIpc --------------------------------
(***************************************************************************)
(* Instances for TLC of what processes and their user talk through: pipes  *)
(* and their descriptors, terminals, job control, futexes, timed waits and *)
(* sockets, and the shell that runs jobs on a terminal.                    *)
(*                                                                         *)
(* The components of this module share no variable and call each other     *)
(* only through what each of them models of the others, so their runs are  *)
(* checked side by side: `part` chooses one of them at the start and the   *)
(* others stay where they are. A property of one component holds of every  *)
(* behaviour here exactly when it holds of that component's own            *)
(* specification.                                                          *)
(***************************************************************************)
EXTENDS Descriptors, Tty, JobControl, Futex, Network, ShellJobs

VARIABLE part   \* the component that runs

Stdin == {0}
Dying == {"pipe", "close", "dup", "fcntl", "read", "spawn", "exit", "kill", "term", "wait"}

mcVars == <<part, vars, ttyVars, jobVars, futexVars, timedVars, netVars, ifVars, shellVars>>

(* Only the chosen component leaves its initial state; where a component has several,
   the others take one of them.  *)
MCInit ==
    /\ part \in {"pipe", "tty", "job", "futex", "timed", "net", "interface", "jobs"}
    /\ Init
    /\ TtyInit
    /\ part # "tty" => fg = CHOOSE p \in TtyProcs : TRUE
    /\ JobInit
    /\ FutexInit
    /\ TimedInit
    /\ NetInit
    /\ IfInit
    /\ ShellJobsInit

MCNext ==
    \/ /\ part = "pipe" /\ Next
       /\ UNCHANGED <<part, ttyVars, jobVars, futexVars, timedVars, netVars, ifVars, shellVars>>
    \/ /\ part = "tty" /\ TtyNext
       /\ UNCHANGED <<part, vars, jobVars, futexVars, timedVars, netVars, ifVars, shellVars>>
    \/ /\ part = "job" /\ JobNext
       /\ UNCHANGED <<part, vars, ttyVars, futexVars, timedVars, netVars, ifVars, shellVars>>
    \/ /\ part = "futex" /\ FutexNext
       /\ UNCHANGED <<part, vars, ttyVars, jobVars, timedVars, netVars, ifVars, shellVars>>
    \/ /\ part = "timed" /\ TimedNext
       /\ UNCHANGED <<part, vars, ttyVars, jobVars, futexVars, netVars, ifVars, shellVars>>
    \/ /\ part = "net" /\ NetNext
       /\ UNCHANGED <<part, vars, ttyVars, jobVars, futexVars, timedVars, ifVars, shellVars>>
    \/ /\ part = "interface" /\ IfNext
       /\ UNCHANGED <<part, vars, ttyVars, jobVars, futexVars, timedVars, netVars, shellVars>>
    \/ /\ part = "jobs" /\ ShellJobsNext
       /\ UNCHANGED <<part, vars, ttyVars, jobVars, futexVars, timedVars, netVars, ifVars>>

(* The fairness of each component, while it runs.  *)
MCFairness ==
    /\ WF_vars(part = "pipe" /\ Tick)
    /\ \A p \in Procs : WF_vars(part = "pipe" /\ Restart(p)) /\ WF_vars(part = "pipe" /\ Signalled(p))
    /\ \A p \in TtyProcs :
        /\ WF_ttyVars(part = "tty" /\ \E n \in 1..MaxRead :
                              ttyCall[p] = "read" /\ read_slave(p, n))
        /\ WF_ttyVars(part = "tty" /\ DeliverTty(p))
    /\ \A t \in Lockers : WF_futexVars(part = "futex" /\ LockerStep(t))
    /\ \A t \in Waiters : WF_netVars(part = "net" /\ caller[t].call # "none" /\ Restartable(t))
    /\ WF_netVars(part = "net" /\ bottom_half_begin)
    /\ WF_netVars(part = "net" /\ poll_budgeted)
    /\ WF_netVars(part = "net" /\ service_network_wakes)
    /\ WF_shellVars(part = "jobs" /\ ShellStep)

MCSpec == MCInit /\ [][MCNext]_mcVars /\ MCFairness

-----------------------------------------------------------------------------
(* Terminals (tty.rs): the pty queues keep within their capacities and records
   describe what is queued, one line each, whatever modes the line goes through; a
   reader told that there is something to read does not block; and every pty has a
   terminal of its own and exactly the references that descriptors hold, whatever
   order processes open, duplicate, close, leave sessions and exit in
   (syscalls/handler.rs).  *)
TerminalsSound ==
    /\ part = "tty" => TtyTypeOK /\ ReadableNeverBlocks /\ RecordsAreQueued /\ RecordIsOneLine
    /\ part = "job" => JobTypeOK /\ PtyRefsExact /\ PtysHaveOwnTty

(* Blocking waits: the mutex of lib/src/mutex.rs is exclusive and nobody sleeps on it
   without a thread that will wake him (sys_futex); a timed wait or poll waits for
   its own deadline and reports no time-out before it.  *)
WaitsSound ==
    /\ part = "futex" => MutualExclusion /\ SleeperHasWaker
    /\ part = "timed" => DeadlineExact /\ TimeoutNotEarly

(* Sockets (net/stack.rs, sys_socket to sys_close): descriptors, socket table and
   stack agree while the bottom half runs on another processor and removals are
   deferred; a restarted connect starts one handshake; and the address ifconfig
   reports is the one in use.  *)
SocketsSound ==
    /\ part = "net" => SocketTablesAgree /\ ConnectStartsOnce
    /\ part = "interface" => RecordMatchesInterface

(* The shell's jobs (apps/shell/src/executor.rs): whatever order its children stop,
   continue and exit in, every child of a pipeline is in the job table until it was
   waited for, and no job that is not in the foreground holds the terminal.  *)
ShellSound ==
    /\ part = "jobs" => NoForgottenChild /\ NoJobHoldsTty

(* When the last master of a pty closes (close_ref), the line is released for a new
   one only when no slave refers to it, and readers that sleep on it wake and see the
   end of file.  *)
HangupHandled ==
    /\ HangupReleasesLine /\ HangupWakesReaders

(* A thread that finds a mutex taken gets it (sys_futex), one that waits for a socket
   runs again when the socket is ready (service_network_wakes), an address set by
   hand is not replaced by a late DHCP answer (process_dhcp), and the shell collects
   the children of its jobs that have exited (executor.rs).  *)
WaitersServed ==
    /\ EveryLockIsTaken /\ ReadySocketWakes /\ StaticStays /\ DoneIsCollected
=============================================================================
