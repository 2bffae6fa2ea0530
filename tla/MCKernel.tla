------------------------------ MODULE MCKernel ------------------------------
(***************************************************************************)
(* Instances of Kernel for TLC: which system calls the user programs make. *)
(***************************************************************************)
EXTENDS Kernel

Simple(op) == Call(op, 0, 0, "none")
Kill(pid, sig) == Call("kill", pid, sig, "none")
Action(sig, disposition) == Call("sigaction", 0, sig, disposition)

(* Process life cycle: spawn, wait, exit, SIGKILL and faults.              *)
LifeCalls ==
    {Simple("spawn"), Simple("exit_group"), Simple("wait"),
     Simple("spawn_bad"), Call("wait", 3, 0, "nohang"), Kill(2, SIGKILL)}

(* Multi-threaded processes: threads created, exiting, joined and          *)
(* detached, process-wide exits and faults that race with them, stop and   *)
(* continue, and a parent that reaps what is left.                         *)
GroupCalls ==
    {Simple("spawn"), Simple("thread_create"), Simple("exit"), Simple("exit_group"),
     Call("join", 3, 0, "none"), Call("detach", 3, 0, "none"),
     Simple("wait"), Kill(2, SIGSTOP), Kill(2, SIGCONT)}

(* Job control: stop, continue, caught and fatal signals against sleeping, *)
(* reading and running children, reported through wait.                    *)
JobCalls ==
    {Simple("spawn"), Simple("sleep"), Simple("read"), Simple("yield"),
     Call("wait", 0, 0, "untraced"), Action(SIGTSTP, "handler"),
     Kill(2, SIGTSTP), Kill(2, SIGCONT), Kill(2, SIGKILL), Kill(2, SIGTERM)}

(* Liveness: more tasks than processors, some asleep, one waiting for      *)
(* another and one sent SIGTERM or SIGKILL.                                *)
LiveCalls ==
    {Simple("spawn"), Simple("sleep"), Call("wait", 2, 0, "none"),
     Kill(2, SIGTERM), Kill(2, SIGKILL)}

(* SIGTERM pending in a process that ignores it and in one that does not.  *)
IgnoreCalls ==
    {Simple("spawn"), Kill(1, SIGTERM), Kill(2, SIGTERM), Action(SIGTERM, "SIG_IGN")}

(* A process stopped and continued by another one while it makes a call.   *)
StopCalls == {Simple("spawn"), Simple("yield"), Kill(2, SIGSTOP), Kill(2, SIGCONT)}

BadImageCalls == {Simple("spawn_bad")}
=============================================================================
