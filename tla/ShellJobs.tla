----------------------------- MODULE ShellJobs -----------------------------
(* Job control in the user shell (apps/shell/src/executor.rs): spawning a
   pipeline, supervising it in the foreground, the table of background and
   stopped jobs, and the shell's drain of child events.  The shell's children
   are the kernel's processes seen through waitpid, kill and tcsetpgrp.

   A pipeline is one process group whose pgid is its first pid.  waitpid reports
   a zombie before a stop and a stop before a continue, whatever the order in
   which they happened (handler.rs, ChildEvent), and each of the two flags
   holds one event.  A drain of one child (up to four waitpid calls) is one
   step; the children run between the drains of two children.  *)
EXTENDS Naturals, Sequences, FiniteSets, SequencesExt, Tables

CONSTANTS MaxPid,     \* children ever spawned
          MaxSignals  \* stop and continue signals from outside the shell

VARIABLES proc,    \* pid -> its group, its state and its two pending events
          tty,     \* the terminal's foreground group; 0 is the shell's own
          jobs,    \* the shell's job table: <<[pgid, pids, state], ...>>
          sh,      \* what the shell is doing, with the group it works on
          signals  \* signals sent so far from outside the shell

shellVars == <<proc, tty, jobs, sh, signals>>

Shell == 0

(* The kernel's side of a child: spawned runnable, killed, stopped and
   continued.  Only a running child can be stopped; continuing a stopped one
   latches the continue event and leaves a latched stop event where it is.  *)
NewChild(g) == [grp |-> g, st |-> "run", stopPending |-> FALSE, contPending |-> FALSE]
Killed(p) == IF p.st = "reaped" THEN p ELSE [p EXCEPT !.st = "zombie"]
StoppedChild(p) == IF p.st = "run" THEN [p EXCEPT !.st = "stop", !.stopPending = TRUE] ELSE p
Continued(p) == IF p.st = "stop" THEN [p EXCEPT !.st = "run", !.contPending = TRUE] ELSE p

InGroup(g) == {p \in DOMAIN proc : proc[p].grp = g}
OnGroup(g, F(_)) == [p \in DOMAIN proc |-> IF p \in InGroup(g) THEN F(proc[p]) ELSE proc[p]]

NextPid == Cardinality(DOMAIN proc) + 1
Prompt == [pc |-> "prompt"]
Pids(g) == {g.pids[k] : k \in 1..Len(g.pids)}

ShellJobsInit ==
    /\ proc = NoEntries
    /\ tty = Shell
    /\ jobs = <<>>
    /\ sh = Prompt
    /\ signals = 0

(* reap_group_nonblocking on one child: the transition kept is the last one
   waitpid reports.  A zombie ends the drain and leaves the group.  *)
Drained(pid) == IF proc[pid].st = "zombie" THEN [proc EXCEPT ![pid].st = "reaped"]
                ELSE [proc EXCEPT ![pid].stopPending = FALSE, ![pid].contPending = FALSE]
Transition(pid) == IF proc[pid].contPending THEN "continued"
                   ELSE IF proc[pid].stopPending THEN "stopped" ELSE "none"

(* The drain of a group, called `by` one of supervise, wait, waitall and poll
   (for the job at index `at` of the table).  *)
Drain(g, by, at) == [pc |-> "drain", by |-> by, at |-> at, second |-> FALSE, i |-> 1,
                     pgid |-> g.pgid, pids |-> g.pids, stopped |-> FALSE, continued |-> FALSE]

(* tcsetpgrp and the hand-off in sys_spawn name a group with a live member.  *)
SetTty(g, ps) == IF \E p \in DOMAIN ps : ps[p].grp = g /\ ps[p].st \in {"run", "stop"} THEN g ELSE tty

(* execute_group and spawn_pipeline: a pipeline of n commands, detached or in
   the foreground; spawn_stage starts the next command, and a spawn that is
   not detached hands the terminal to the group at once.  *)
execute_group(n, fg_job) ==
    /\ sh = Prompt /\ tty = Shell
    /\ NextPid + n - 1 <= MaxPid
    /\ sh' = [pc |-> "spawn", n |-> n, pids |-> <<>>, pgid |-> 0, fg |-> fg_job]
    /\ UNCHANGED <<proc, tty, jobs, signals>>

Spawning == sh.pc = "spawn" /\ Len(sh.pids) < sh.n
spawn_stage ==
    /\ Spawning
    /\ LET pid == NextPid
           g == IF sh.pgid = 0 THEN pid ELSE sh.pgid
       IN /\ proc' = Put(proc, pid, NewChild(g))
          /\ tty' = IF sh.fg THEN SetTty(g, proc') ELSE tty
          /\ sh' = [sh EXCEPT !.pgid = g, !.pids = Append(@, pid)]
    /\ UNCHANGED <<jobs, signals>>

(* A stage that cannot be started (command not found, a redirection that does
   not open, exec refused): the stages already started are killed and
   forgotten; the terminal stays where the last spawn put it.  *)
StagesLeft == proc
StagesKilled == [p \in DOMAIN proc |-> IF p \in Pids(sh) THEN Killed(proc[p]) ELSE proc[p]]
spawn_fails ==
    /\ Spawning
    /\ proc' = StagesKilled
    /\ sh' = Prompt
    /\ UNCHANGED <<tty, jobs, signals>>

JobOf(g, state) == [pgid |-> g.pgid, pids |-> g.pids, state |-> state]
(* The end of execute_group: a detached pipeline becomes a job, any other is
   supervised (supervise_group begins by giving it the terminal).  *)
spawned ==
    /\ sh.pc = "spawn" /\ Len(sh.pids) = sh.n
    /\ IF sh.fg
       THEN /\ tty' = SetTty(sh.pgid, proc)
            /\ sh' = Drain(sh, "supervise", 0)
            /\ UNCHANGED jobs
       ELSE /\ jobs' = Append(jobs, JobOf(sh, "running"))
            /\ sh' = Prompt
            /\ UNCHANGED tty
    /\ UNCHANGED <<proc, signals>>

(* One child of the group being drained.  *)
reap_group_nonblocking ==
    /\ sh.pc = "drain" /\ sh.i <= Len(sh.pids)
    /\ LET pid == sh.pids[sh.i]
       IN /\ proc' = Drained(pid)
          /\ sh' = IF proc[pid].st = "zombie"
                   THEN [sh EXCEPT !.pids = RemoveAt(@, sh.i)]
                   ELSE [sh EXCEPT !.i = @ + 1,
                                   !.stopped = @ \/ Transition(pid) = "stopped",
                                   !.continued = @ \/ Transition(pid) = "continued"]
    /\ UNCHANGED <<tty, jobs, signals>>

DrainDone(by) == sh.pc = "drain" /\ sh.by \in by /\ sh.i > Len(sh.pids)

(* After a first drain that saw a stop and left a child, all three callers stop
   the whole group and drain it once more.  *)
MustNormalise == ~sh.second /\ sh.stopped /\ sh.pids # <<>>
normalise ==
    /\ DrainDone({"supervise", "wait", "waitall", "poll"}) /\ MustNormalise
    /\ proc' = OnGroup(sh.pgid, StoppedChild)
    /\ sh' = [sh EXCEPT !.second = TRUE, !.i = 1]
    /\ UNCHANGED <<tty, jobs, signals>>

keeps_tty == UNCHANGED tty
reclaim_shell_tty == tty' = Shell
(* supervise_group: every child gone, or a stopped job, or another round after
   wait_for_activity.  *)
supervise_group ==
    /\ DrainDone({"supervise"}) /\ ~MustNormalise
    /\ IF sh.second \/ sh.pids = <<>>
       THEN /\ reclaim_shell_tty
            /\ jobs' = IF sh.second THEN Append(jobs, JobOf(sh, "stopped")) ELSE jobs
            /\ sh' = Prompt
       ELSE /\ sh' = Drain(sh, "supervise", 0)
            /\ UNCHANGED <<tty, jobs>>
    /\ UNCHANGED <<proc, signals>>

(* wait_job on a job taken off the table: a stopped one goes back to its end;
   `wait` without an argument goes on with the next job.  *)
WaitOn(js, k, by) ==
    IF jobs[k].state = "stopped"
    THEN jobs' = Append(js, jobs[k]) /\ sh' = Prompt
    ELSE jobs' = js /\ sh' = Drain(jobs[k], by, 0)
wait_job ==
    /\ DrainDone({"wait", "waitall"}) /\ ~MustNormalise
    /\ IF sh.second
       THEN jobs' = Append(jobs, JobOf(sh, "stopped")) /\ sh' = Prompt
       ELSE IF sh.pids # <<>>
       THEN sh' = Drain(sh, sh.by, 0) /\ UNCHANGED jobs
       ELSE IF sh.by = "waitall" /\ jobs # <<>>
       THEN WaitOn(Tail(jobs), 1, "waitall")
       ELSE sh' = Prompt /\ UNCHANGED jobs
    /\ UNCHANGED <<proc, tty, signals>>

(* poll_background_jobs: one pass over the table each time round the prompt
   loop.  A job left without a child is done and leaves the table; another one
   takes the state of the newest event.  *)
PollRunning(js, k) == IF IF k > Len(js) THEN TRUE ELSE js[k].state = "stopped" THEN Prompt ELSE Drain(js[k], "poll", k)
PollFrom(js, k) == IF k > Len(js) THEN Prompt ELSE Drain(js[k], "poll", k)
poll_start ==
    /\ sh = Prompt /\ jobs # <<>>
    /\ sh' = PollFrom(jobs, 1)
    /\ UNCHANGED <<proc, tty, jobs, signals>>
JobState(old) == IF sh.stopped THEN "stopped" ELSE IF sh.continued THEN "running" ELSE old
Polled == IF sh.pids = <<>> THEN RemoveAt(jobs, sh.at)
          ELSE [jobs EXCEPT ![sh.at] = JobOf(sh, JobState(@.state))]
poll_background_jobs ==
    /\ DrainDone({"poll"}) /\ ~MustNormalise
    /\ jobs' = Polled
    /\ sh' = PollFrom(jobs', IF Len(jobs') < Len(jobs) THEN sh.at ELSE sh.at + 1)
    /\ UNCHANGED <<proc, tty, signals>>

(* The builtins bg, fg, kill and wait.  A line is read only by a foreground
   shell: in the background its read stops it instead.  *)
AtPrompt == sh = Prompt /\ tty = Shell
bg(k) ==
    /\ AtPrompt
    /\ proc' = OnGroup(jobs[k].pgid, Continued)
    /\ jobs' = [jobs EXCEPT ![k].state = "running"]
    /\ UNCHANGED <<tty, sh, signals>>
fg_job(k) ==
    /\ AtPrompt
    /\ jobs' = RemoveAt(jobs, k)
    /\ tty' = SetTty(jobs[k].pgid, proc)
    /\ proc' = OnGroup(jobs[k].pgid, Continued)
    /\ sh' = Drain(jobs[k], "supervise", 0)
    /\ UNCHANGED signals
kill(k) ==
    /\ AtPrompt
    /\ \/ proc' = OnGroup(jobs[k].pgid, Killed) /\ UNCHANGED jobs
       \/ proc' = OnGroup(jobs[k].pgid, StoppedChild) /\ jobs' = [jobs EXCEPT ![k].state = "stopped"]
       \/ proc' = OnGroup(jobs[k].pgid, Continued) /\ jobs' = [jobs EXCEPT ![k].state = "running"]
    /\ UNCHANGED <<tty, sh, signals>>
wait(k) ==
    /\ AtPrompt
    /\ WaitOn(RemoveAt(jobs, k), k, "wait")
    /\ UNCHANGED <<proc, tty, signals>>
wait_all ==
    /\ AtPrompt /\ jobs # <<>>
    /\ WaitOn(Tail(jobs), 1, "waitall")
    /\ UNCHANGED <<proc, tty, signals>>

(* Outside the shell: a child exits, ^Z reaches the foreground group, a
   background child that reads the terminal stops its group, and somebody else
   continues a child.  *)
childExits(p) ==
    /\ proc[p].st = "run"
    /\ proc' = [proc EXCEPT ![p] = Killed(@)]
    /\ UNCHANGED <<tty, jobs, sh, signals>>
ShellOutside == signals < MaxSignals /\ signals' = signals + 1 /\ UNCHANGED <<tty, jobs, sh>>
keyStop ==
    /\ tty # Shell
    /\ \E p \in InGroup(tty) : proc[p].st = "run"
    /\ proc' = OnGroup(tty, StoppedChild)
    /\ ShellOutside
backgroundRead(p) ==
    /\ proc[p].st = "run" /\ proc[p].grp # tty
    /\ proc' = OnGroup(proc[p].grp, StoppedChild)
    /\ ShellOutside
otherContinues(p) ==
    /\ proc[p].st = "stop"
    /\ proc' = [proc EXCEPT ![p] = Continued(@)]
    /\ ShellOutside

ShellStep == spawn_stage \/ spawned \/ reap_group_nonblocking \/ normalise
             \/ supervise_group \/ wait_job \/ poll_start \/ poll_background_jobs
ShellJobsNext ==
    \/ ShellStep
    \/ spawn_fails
    \/ \E n \in 1..2, f \in BOOLEAN : execute_group(n, f)
    \/ \E k \in DOMAIN jobs : bg(k) \/ fg_job(k) \/ kill(k) \/ wait(k)
    \/ wait_all
    \/ \E p \in DOMAIN proc : childExits(p) \/ backgroundRead(p) \/ otherContinues(p)
    \/ keyStop

(* The shell keeps running: its steps are system calls that return at once,
   and its waiting loop sleeps ten milliseconds at a time.  *)
ShellJobsFairness == WF_shellVars(ShellStep)
ShellJobsSpec == ShellJobsInit /\ [][ShellJobsNext]_shellVars /\ ShellJobsFairness

-----------------------------------------------------------------------------
Tabled == UNION {Pids(jobs[k]) : k \in DOMAIN jobs}
Known == Tabled \cup (IF sh = Prompt THEN {} ELSE Pids(sh))

(* No process lives on that the shell has lost: every child that is running or
   stopped is in the job table or in the pipeline at hand, whatever stage of a
   pipeline failed and whatever order its children stopped and exited in.  *)
NoForgottenChild == \A p \in DOMAIN proc : proc[p].st \in {"run", "stop"} => p \in Known

(* A job in the table never holds the terminal while the shell is at its
   prompt: fg, ^Z and a stop in the middle of a pipeline all give it back.  *)
NoJobHoldsTty == sh = Prompt => \A k \in DOMAIN jobs : jobs[k].pgid # tty

(* A job's child that has exited is collected, unless the shell is held up by
   a pipeline in the foreground or a wait for another job: no order of stops,
   continues and exits hides it from the drains.  *)
St(p) == IF p \in DOMAIN proc THEN proc[p].st ELSE "none"
DoneIsCollected ==
    \A p \in 1..MaxPid : []<>(p \notin Tabled \/ St(p) # "zombie" \/ (sh.pc = "drain" /\ sh.by # "poll"))
=============================================================================
