----------------------------- MODULE JobControl -----------------------------
(***************************************************************************)
(* Sessions, process groups and controlling terminals: the TTYS and PTYS   *)
(* tables of kernel/src/tty.rs and the calls of syscalls/handler.rs that   *)
(* create, join, hand over and release them.  Every call is one step under *)
(* the kernel lock.                                                        *)
(*                                                                         *)
(* A pty is named by its slot, which is reused; a task remembers the slot  *)
(* (`pty_id`) without holding a reference.  References belong to open file *)
(* descriptions, shared by the processes that inherited them.              *)
(***************************************************************************)
EXTENDS Tables, FiniteSets

CONSTANTS
    MaxJobs,    \* pids handed out in a run; 1 is the first process, a session leader
    NTtys,      \* MAX_TTYS
    NPtys,      \* MAX_PTYS
    MaxOfds,    \* open file descriptions on pseudo terminals
    JobCallsOn  \* the calls the processes of the instance make

ASSUME JobAssumption ==
    /\ MaxJobs \in Nat \ {0} /\ NTtys \in Nat \ {0} /\ NPtys \in Nat \ {0}
    /\ MaxOfds \in Nat \ {0}

Jobs == 1..MaxJobs
Ttys == 1..NTtys
PtySlots == 1..NPtys
TtyOfds == 1..MaxOfds

VARIABLES
    job,    \* pid -> the task, while its slot is occupied
    ttys,   \* TTYS: the allocated entries
    ptys,   \* PTYS: the allocated slots
    ofds,   \* open file descriptions on a pty and the processes holding them
    nextPid \* next_pid of the task manager

jobVars == <<job, ttys, ptys, ofds, nextPid>>

LiveJobs == {p \in DOMAIN job : ~job[p].zombie}


JobInit ==
    /\ job = [p \in {1} |-> [pgid |-> 1, sid |-> 1, ppid |-> 0, tty |-> 0, pty |-> 0, zombie |-> FALSE]]
    /\ ttys = NoEntries
    /\ ptys = NoEntries
    /\ ofds = NoEntries
    /\ nextPid = 2

(***************************************************************************)
(* ensure_controlling_tty: the tty of the task, else one of its session,   *)
(* else a new one; 0 when there is none.                                   *)
(***************************************************************************)
FreeTtys(T) == Ttys \ DOMAIN T

ControllingTty(p) ==
    LET mine == {t \in DOMAIN ttys : ttys[t].session = job[p].sid} IN
    IF job[p].tty # 0 THEN job[p].tty
    ELSE IF mine # {} THEN Least(mine)
    ELSE IF FreeTtys(ttys) # {} THEN Least(FreeTtys(ttys)) ELSE 0

WithControllingTty(p) ==
    LET t == ControllingTty(p) IN
    IF job[p].tty = 0 /\ t # 0 /\ t \notin DOMAIN ttys
    THEN Put(ttys, t, [session |-> job[p].sid, fg |-> job[p].pgid]) ELSE ttys

(***************************************************************************)
(* Groups and sessions.                                                    *)
(***************************************************************************)
setpgid(p, target, pgid) ==
    /\ target \in DOMAIN job
    /\ target = p \/ job[target].ppid = p
    /\ job[target].sid = job[p].sid
    /\ pgid # target => \E q \in DOMAIN job : job[q].pgid = pgid /\ job[q].sid = job[target].sid
    /\ job' = [job EXCEPT ![target].pgid = pgid]
    /\ UNCHANGED <<ttys, ptys, ofds>>

setsid(p) ==
    /\ job[p].pgid # p
    /\ job' = [job EXCEPT ![p].sid = p, ![p].pgid = p, ![p].tty = 0, ![p].pty = 0]
    /\ UNCHANGED <<ttys, ptys, ofds>>

\* set_foreground and set_foreground_pty end in the same checks.
HandOver(T, t, p, pgid) ==
    IF /\ t \in DOMAIN T /\ T[t].session = job[p].sid
       /\ \E q \in LiveJobs : job[q].pgid = pgid /\ job[q].sid = job[p].sid
    THEN [T EXCEPT ![t].fg = pgid] ELSE T

sys_tty_setfg(p, pgid) ==
    /\ ControllingTty(p) # 0
    /\ ttys' = HandOver(WithControllingTty(p), ControllingTty(p), p, pgid)
    /\ job' = [job EXCEPT ![p].tty = ControllingTty(p)]
    /\ UNCHANGED <<ptys, ofds>>

tiocspgrp(p, o, pgid) ==
    /\ p \in ofds[o].holders
    /\ ttys' = HandOver(ttys, ptys[ofds[o].pty].tty, p, pgid)
    /\ UNCHANGED <<job, ptys, ofds>>

(***************************************************************************)
(* Pseudo terminals.                                                       *)
(***************************************************************************)
NewOfds(n) == CHOOSE s \in [1..n -> TtyOfds \ DOMAIN ofds] : \A i, j \in 1..n : i < j => s[i] < s[j]

HaveOfds(n) == Cardinality(TtyOfds \ DOMAIN ofds) >= n

\* Mutant: the slave shares the caller's controlling tty.
pty_tty_shared(p, T) == ControllingTty(p)

\* A PTY slave is a terminal of its own.
pty_tty(p, T) == IF FreeTtys(T) = {} THEN 0 ELSE Least(FreeTtys(T))

\* alloc_pty and sys_openpty; without a free pty slot the tty is given back.
sys_openpty(p) ==
    LET T == WithControllingTty(p)
        t == pty_tty(p, T)
        free == PtySlots \ DOMAIN ptys
    IN
    /\ ControllingTty(p) # 0 /\ HaveOfds(2)
    /\ job' = [job EXCEPT ![p].tty = ControllingTty(p)]
    /\ IF t = 0 \/ free = {}
       THEN ttys' = T /\ UNCHANGED <<ptys, ofds>>
       ELSE LET id == Least(free) new == NewOfds(2) IN
            /\ ttys' = Put(T, t, [session |-> job[p].sid, fg |-> job[p].pgid])
            /\ ptys' = Put(ptys, id, [tty |-> t, master |-> 1, slave |-> 1])
            /\ ofds' = Put(Put(ofds, new[1], [pty |-> id, side |-> "master", holders |-> {p}]),
                           new[2], [pty |-> id, side |-> "slave", holders |-> {p}])

\* open("/dev/tty"): a new description on the slave of task.pty_id.
open_dev_tty(p) ==
    /\ job[p].pty \in DOMAIN ptys /\ HaveOfds(1)
    /\ ptys' = [ptys EXCEPT ![job[p].pty].slave = @ + 1]
    /\ ofds' = Put(ofds, NewOfds(1)[1], [pty |-> job[p].pty, side |-> "slave", holders |-> {p}])
    /\ UNCHANGED <<job, ttys>>

(***************************************************************************)
(* close_ref for every description in S, whose last holder is gone.        *)
(***************************************************************************)
Closing(S, id, side) == Cardinality({o \in S : ofds[o].pty = id /\ ofds[o].side = side})

CloseRefs(S) ==
    LET left == [id \in DOMAIN ptys |->
                    [ptys[id] EXCEPT !.master = @ - Closing(S, id, "master"),
                                     !.slave = @ - Closing(S, id, "slave")]]
        gone == {id \in DOMAIN ptys : left[id].master = 0 /\ left[id].slave = 0}
    IN /\ ptys' = Drop(left, gone)
       /\ ttys' = Drop(ttys, {ptys[id].tty : id \in gone})

\* Mutant: a description is closed with its first holder.
release_first(p, S) == {o \in S : p \in ofds[o].holders}

\* The descriptions whose last reference is p's.
last_reference(p, S) == {o \in S : ofds[o].holders = {p}}

ReleasePtyFds(p, S) ==
    LET last == last_reference(p, S) IN
    /\ CloseRefs(last)
    /\ ofds' = Drop([o \in DOMAIN ofds |->
                        IF o \in S THEN [ofds[o] EXCEPT !.holders = @ \ {p}] ELSE ofds[o]],
                    {o \in S : ofds[o].holders \subseteq {p}})

close_pty_fd(p, o) == p \in ofds[o].holders /\ ReleasePtyFds(p, {o}) /\ UNCHANGED job

(***************************************************************************)
(* Spawn with stdio from the description o (0: the console), exit, reap.   *)
(***************************************************************************)
job_spawn(p, own, o, foreground) ==
    LET c == nextPid
        pgid == IF own THEN c ELSE job[p].pgid
        id == IF o # 0 /\ ofds[o].side = "slave" THEN ofds[o].pty ELSE job[p].pty
        tty == IF id \in DOMAIN ptys THEN ptys[id].tty ELSE job[p].tty
        child == [pgid |-> pgid, sid |-> job[p].sid, ppid |-> p, tty |-> tty, pty |-> id, zombie |-> FALSE]
        handover == IF id # 0
                    THEN IF id \in DOMAIN ptys THEN ptys[id].tty ELSE 0
                    ELSE ControllingTty(p)
        T == IF foreground /\ id = 0 THEN WithControllingTty(p) ELSE ttys
    IN
    /\ nextPid \in Jobs /\ nextPid' = nextPid + 1
    /\ o # 0 => p \in ofds[o].holders
    /\ job' = Put([job EXCEPT ![p].tty = IF foreground /\ id = 0 THEN ControllingTty(p) ELSE @], c, child)
    /\ ttys' = IF foreground /\ handover \in DOMAIN T /\ T[handover].session = job[p].sid
               THEN [T EXCEPT ![handover].fg = pgid] ELSE T
    /\ ofds' = IF o = 0 THEN ofds ELSE [ofds EXCEPT ![o].holders = @ \cup {c}]
    /\ UNCHANGED ptys

\* Mutant: exit leaves the descriptors of the process open.
job_exit_open(p) ==
    /\ p # 1
    /\ job' = [job EXCEPT ![p].zombie = TRUE]
    /\ UNCHANGED <<ttys, ptys, ofds>>

job_exit(p) ==
    /\ p # 1
    /\ job' = [q \in DOMAIN job |->
                IF q = p THEN [job[q] EXCEPT !.zombie = TRUE]
                ELSE IF job[q].ppid = p THEN [job[q] EXCEPT !.ppid = 1] ELSE job[q]]
    /\ ReleasePtyFds(p, {o \in DOMAIN ofds : p \in ofds[o].holders})

\* A zombie keeps its slot until its parent collects it.
job_collect(p) ==
    /\ job[p].zombie
    /\ job' = Drop(job, {p})
    /\ UNCHANGED <<ttys, ptys, ofds>>

JobNext ==
    \/ \E p \in LiveJobs, own, foreground \in BOOLEAN, o \in {0} \cup DOMAIN ofds :
        job_spawn(p, own, o, foreground)
    \/ /\ nextPid' = nextPid
       /\ \/ \E p \in LiveJobs :
            \/ "setpgid" \in JobCallsOn /\ \E target, pgid \in DOMAIN job : setpgid(p, target, pgid)
            \/ "setsid" \in JobCallsOn /\ setsid(p)
            \/ "setfg" \in JobCallsOn /\ \E pgid \in DOMAIN job : sys_tty_setfg(p, pgid)
            \/ "tiocspgrp" \in JobCallsOn
                /\ \E o \in DOMAIN ofds, pgid \in DOMAIN job : tiocspgrp(p, o, pgid)
            \/ sys_openpty(p) \/ open_dev_tty(p) \/ job_exit(p)
            \/ \E o \in DOMAIN ofds : close_pty_fd(p, o)
          \/ \E p \in DOMAIN job : job_collect(p)

JobSpec == JobInit /\ [][JobNext]_jobVars

(***************************************************************************)
(* Properties.                                                             *)
(***************************************************************************)
\* The tables hold allocated entries only; every description is on an open pty.
JobTypeOK ==
    /\ DOMAIN job \subseteq Jobs /\ DOMAIN ttys \subseteq Ttys
    /\ DOMAIN ptys \subseteq PtySlots /\ DOMAIN ofds \subseteq TtyOfds
    /\ \A o \in DOMAIN ofds : ofds[o].holders # {} /\ ofds[o].holders \subseteq LiveJobs

\* master_refs and slave_refs count the open descriptions exactly, through
\* openpty, /dev/tty, inheritance, close and exit: a pty is released when the
\* last description goes, neither earlier nor never.
PtyRefsExact ==
    /\ \A o \in DOMAIN ofds : ofds[o].pty \in DOMAIN ptys
    /\ \A id \in DOMAIN ptys :
        /\ ptys[id].master = Closing(DOMAIN ofds, id, "master")
        /\ ptys[id].slave = Closing(DOMAIN ofds, id, "slave")
        /\ ptys[id].master + ptys[id].slave > 0

\* Each pty has a tty entry to itself (so a nested shell cannot take the
\* keyboard signals of its parent's terminal), and a release frees that entry only.
PtysHaveOwnTty ==
    /\ \A id \in DOMAIN ptys : ptys[id].tty \in DOMAIN ttys
    /\ \A i, k \in DOMAIN ptys : ptys[i].tty = ptys[k].tty => i = k
=============================================================================
