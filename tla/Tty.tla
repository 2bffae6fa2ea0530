-------------------------------- MODULE Tty --------------------------------
(***************************************************************************)
(* One pseudo terminal (kernel/src/tty.rs): the line discipline between    *)
(* the terminal emulator on the master side and the processes on the slave *)
(* side, the signals it sends to the foreground group, and hang-up.        *)
(* Every call runs under the kernel lock and is one step.  A read or write *)
(* that would block leaves the process with its call to be executed again  *)
(* (BLOCK_AND_RESTART); the timer wakes such processes.                    *)
(*                                                                         *)
(* Each process is its own process group.  What goes to the master is only *)
(* counted; what goes to the slave is kept, since its line boundaries      *)
(* matter.                                                                 *)
(***************************************************************************)
EXTENDS Tables, Sequences, SequencesExt, FiniteSets

CONSTANTS
    TtyProcs,     \* processes holding one slave descriptor each
    StopImmune,   \* those that ignore SIGTSTP, SIGTTIN and SIGTTOU (shells)
    PTY_BUF,      \* capacity of each direction
    CANON_BUF,    \* capacity of the edit buffer
    Keys,         \* bytes the emulator sends
    MaxRead,      \* largest count of a read
    TOSTOP        \* whether background output stops its group

ASSUME TtyAssumption ==
    /\ StopImmune \subseteq TtyProcs /\ IsFiniteSet(TtyProcs)
    /\ PTY_BUF \in Nat \ {0} /\ CANON_BUF \in Nat \ {0} /\ MaxRead \in Nat \ {0}
    /\ TOSTOP \in BOOLEAN
    /\ Keys \subseteq {"a", "nl", "cr", "erase", "kill", "eof", "intr", "quit", "susp"}

VARIABLES
    pty,        \* the Pty, or NoPty once both sides are closed
    fg,         \* TTYS[tty_id].foreground_pgid
    ttyCall,       \* the call a process has to execute again
    ttyStopped,    \* stopped by job control
    ttyPending,    \* pending signals
    ttyDead     \* processes that have exited

ttyVars == <<pty, fg, ttyCall, ttyStopped, ttyPending, ttyDead>>

NoPty == [open |-> FALSE]

TtyInit ==
    /\ pty = [open |-> TRUE, toMaster |-> 0, toSlave |-> <<>>, input |-> <<>>,
              records |-> <<>>, eof |-> FALSE, canonical |-> TRUE, echo |-> TRUE,
              isig |-> TRUE, immediate |-> FALSE,
              masterRefs |-> 1, slaveRefs |-> Cardinality(TtyProcs)]
    /\ fg \in TtyProcs
    /\ ttyCall = [p \in TtyProcs |-> "none"]
    /\ ttyStopped = [p \in TtyProcs |-> FALSE]
    /\ ttyPending = [p \in TtyProcs |-> {}]
    /\ ttyDead = {}

\* The bytes of the records before the (n+1)th, and of all records.
QueuedUpTo(records) ==
    LET sum[n \in 0..Len(records)] == IF n = 0 THEN 0 ELSE sum[n - 1] + records[n] IN sum
Queued(records) == QueuedUpTo(records)[Len(records)]

(***************************************************************************)
(* Signals to a process group.                                             *)
(***************************************************************************)
StopSignals == {"TSTP", "TTIN", "TTOU"}

signal_group(g, sigs) ==
    LET hit == g \notin ttyDead IN
    /\ ttyStopped' = [ttyStopped EXCEPT ![g] =
            IF ~hit THEN @
            ELSE IF "CONT" \in sigs THEN FALSE
            ELSE @ \/ (sigs \cap StopSignals # {} /\ g \notin StopImmune)]
    /\ ttyPending' = [ttyPending EXCEPT ![g] =
            IF hit THEN @ \cup (sigs \ (StopSignals \cup {"CONT"})) ELSE @]

NoSignal == UNCHANGED <<ttyStopped, ttyPending>>

(***************************************************************************)
(* The line discipline: queue_echo, commit_canonical, master_input_byte.   *)
(***************************************************************************)
\* Mutant: the echo is queued whatever the room.
queue_echo_always(t, n) == [t EXCEPT !.toMaster = IF t.echo THEN @ + n ELSE @]

queue_echo(t, n) ==
    [t EXCEPT !.toMaster = IF t.echo THEN AtMost(@ + n, PTY_BUF) ELSE @]

\* What still fits of the bytes s behind the queue q.
Fitting(q, s) ==
    SubSeq(s, 1, AtMost(Len(s), PTY_BUF - Len(q)))

\* Mutant: the length of the line is recorded before it is truncated.
commit_all(t) ==
    LET fit == Fitting(t.toSlave, t.input) IN
    [t EXCEPT !.toSlave = @ \o fit, !.input = <<>>,
              !.records = IF t.input = <<>> THEN @ ELSE Append(@, Len(t.input))]

\* Mutant: a line is added to the record before it.
commit_joined(t) ==
    LET fit == Fitting(t.toSlave, t.input) IN
    [t EXCEPT !.toSlave = @ \o fit, !.input = <<>>,
              !.records = IF fit = <<>> THEN @
                          ELSE IF @ = <<>> THEN <<Len(fit)>>
                          ELSE [@ EXCEPT ![Len(@)] = @ + Len(fit)]]

commit_canonical(t) ==
    LET fit == Fitting(t.toSlave, t.input) IN
    [t EXCEPT !.toSlave = @ \o fit, !.input = <<>>,
              !.records = IF fit = <<>> THEN @ ELSE Append(@, Len(fit))]

KeySignal == [intr |-> "INT", quit |-> "QUIT", susp |-> "TSTP"]

IsSignalKey(t, b) == t.isig /\ b \in DOMAIN KeySignal

\* Queued bytes are told apart only as newline and not newline.
Byte(b) == IF b = "nl" THEN "nl" ELSE "a"

master_input_byte(t, raw) ==
    LET b == IF raw = "cr" THEN "nl" ELSE raw
        typed == IF Len(t.input) < CANON_BUF
                 THEN queue_echo([t EXCEPT !.input = Append(@, Byte(b))], 1) ELSE t
    IN
    CASE IsSignalKey(t, b) -> queue_echo([t EXCEPT !.input = <<>>], 4)
      [] ~IsSignalKey(t, b) /\ ~t.canonical ->
            IF Len(t.toSlave) < PTY_BUF
            THEN queue_echo([t EXCEPT !.toSlave = Append(@, Byte(b))], 1) ELSE t
      [] ~IsSignalKey(t, b) /\ t.canonical /\ b = "erase" ->
            IF t.input = <<>> THEN t ELSE queue_echo([t EXCEPT !.input = Front(@)], 3)
      [] ~IsSignalKey(t, b) /\ t.canonical /\ b = "kill" ->
            IF t.input = <<>> THEN t ELSE queue_echo([t EXCEPT !.input = <<>>], 4)
      [] ~IsSignalKey(t, b) /\ t.canonical /\ b = "eof" ->
            IF t.input = <<>> THEN [t EXCEPT !.eof = TRUE] ELSE commit_canonical(t)
      [] OTHER -> IF b = "nl" THEN commit_canonical(typed) ELSE typed

(***************************************************************************)
(* readable and writable, as poll reports them.                            *)
(***************************************************************************)
\* Mutant: every queued byte counts, also those of an unfinished record.
readable_raw(t) == t.toSlave # <<>> \/ t.eof \/ t.masterRefs = 0

readable(t) ==
    \/ t.masterRefs = 0
    \/ t.canonical /\ (t.records # <<>> \/ t.eof)
    \/ ~t.canonical /\ t.toSlave # <<>>

(***************************************************************************)
(* try_read_inner for the slave: the terminal afterwards, the number of    *)
(* bytes, and whether the read reports the end of input.                   *)
(***************************************************************************)
try_read_inner(t, count) ==
    LET record == IF t.records = <<>> THEN 0 ELSE Head(t.records)
        n == AtMost(AtMost(count, IF t.canonical THEN record ELSE Len(t.toSlave)), Len(t.toSlave))
        rest == SubSeq(t.toSlave, n + 1, Len(t.toSlave))
    IN
    IF t.canonical /\ t.records = <<>>
    THEN [t |-> [t EXCEPT !.eof = FALSE], n |-> 0, eof |-> t.eof \/ t.masterRefs = 0]
    ELSE IF t.canonical
    THEN [t |-> [t EXCEPT !.toSlave = rest,
                          !.records = IF n = record THEN Tail(@) ELSE [@ EXCEPT ![1] = record - n]],
          n |-> n, eof |-> FALSE]
    ELSE [t |-> [t EXCEPT !.toSlave = rest], n |-> n, eof |-> t.masterRefs = 0]

\* Mutant: a reader does not look at the master.
ReadBlocksUnheard(t, count) ==
    try_read_inner(t, count).n = 0 /\ ~t.eof /\ ~(~t.canonical /\ t.immediate)

\* Whether a blocking read of the slave ends in WOULD_BLOCK.
ReadBlocks(t, count) ==
    LET r == try_read_inner(t, count) IN
    r.n = 0 /\ ~r.eof /\ ~(~t.canonical /\ t.immediate)

(***************************************************************************)
(* Calls of the processes on the slave side.                               *)
(***************************************************************************)
CanCall(p) == pty.open /\ p \notin ttyDead /\ ~ttyStopped[p] /\ ttyPending[p] = {}

Background(p) == p # fg

\* A background read stops the group and fails; a foreground one takes what
\* is there or waits.
ReadForeground(p, count) ==
    LET r == try_read_inner(pty, count) IN
    /\ pty' = r.t
    /\ ttyCall' = [ttyCall EXCEPT ![p] = IF ReadBlocks(pty, count) THEN "read" ELSE "none"]
    /\ NoSignal

read_slave(p, count) ==
    /\ CanCall(p) /\ ttyCall[p] \in {"none", "read"}
    /\ \/ /\ Background(p)
          /\ signal_group(p, {"TTIN"})
          /\ ttyCall' = [ttyCall EXCEPT ![p] = "none"]
          /\ UNCHANGED pty
       \/ ~Background(p) /\ ReadForeground(p, count)
    /\ UNCHANGED <<fg, ttyDead>>

\* One byte; a newline takes two places (OPOST and ONLCR).
write_slave(p, width) ==
    /\ CanCall(p) /\ ttyCall[p] \in {"none", "write"}
    /\ \/ /\ TOSTOP /\ Background(p)
          /\ signal_group(p, {"TTOU"})
          /\ ttyCall' = [ttyCall EXCEPT ![p] = "none"]
          /\ UNCHANGED pty
       \/ /\ ~(TOSTOP /\ Background(p))
          /\ LET full == pty.masterRefs > 0 /\ pty.toMaster + width > PTY_BUF
             IN /\ ttyCall' = [ttyCall EXCEPT ![p] = IF full THEN "write" ELSE "none"]
                /\ pty' = IF full \/ pty.masterRefs = 0 THEN pty
                          ELSE [pty EXCEPT !.toMaster = @ + width]
          /\ NoSignal
    /\ UNCHANGED <<fg, ttyDead>>

\* TCSETS.
set_termios(t, u) ==
    IF t.canonical /\ ~u.canonical
    THEN [u EXCEPT !.records = <<>>, !.eof = FALSE, !.input = <<>>,
                   !.toSlave = @ \o Fitting(t.toSlave, t.input)]
    ELSE u

SetMode(p, u) ==
    /\ CanCall(p) /\ ttyCall[p] = "none"
    /\ pty' = set_termios(pty, u)
    /\ UNCHANGED <<fg, ttyCall, ttyStopped, ttyPending, ttyDead>>

\* The modes programs use: cooked; raw, where VMIN = VTIME = 0 makes every read
\* return at once.
tcsets(p) ==
    /\ pty.open
    /\ \E cooked, immediate \in BOOLEAN :
        SetMode(p, [pty EXCEPT !.canonical = cooked, !.echo = cooked, !.isig = cooked,
                               !.immediate = ~cooked /\ immediate])

flush_input(p) ==
    /\ CanCall(p) /\ ttyCall[p] = "none"
    /\ pty' = [pty EXCEPT !.toSlave = <<>>, !.input = <<>>, !.records = <<>>, !.eof = FALSE]
    /\ UNCHANGED <<fg, ttyCall, ttyStopped, ttyPending, ttyDead>>

\* TIOCSPGRP: only a live group of the session.
set_foreground_pty(p, g) ==
    /\ CanCall(p) /\ ttyCall[p] = "none" /\ g \notin ttyDead
    /\ fg' = g
    /\ UNCHANGED <<pty, ttyCall, ttyStopped, ttyPending, ttyDead>>

(***************************************************************************)
(* The emulator: typing, draining output, closing the master.              *)
(***************************************************************************)
write_master(b) ==
    /\ pty.open /\ pty.masterRefs > 0 /\ pty.slaveRefs > 0
    /\ pty' = master_input_byte(pty, b)
    /\ IF IsSignalKey(pty, b) THEN signal_group(fg, {KeySignal[b]}) ELSE NoSignal
    /\ UNCHANGED <<fg, ttyCall, ttyDead>>

read_master ==
    /\ pty.open /\ pty.masterRefs > 0 /\ pty.toMaster > 0
    /\ pty' = [pty EXCEPT !.toMaster = 0]
    /\ UNCHANGED <<fg, ttyCall, ttyStopped, ttyPending, ttyDead>>

\* close_ref(Slave) of one descriptor.
CloseSlave(t) ==
    IF t.slaveRefs = 1 /\ t.masterRefs = 0 THEN NoPty ELSE [t EXCEPT !.slaveRefs = @ - 1]

\* Mutant: the edit buffer is lost at hang-up.
hangup_drop(t) == [t EXCEPT !.masterRefs = 0, !.input = <<>>]

\* close_ref(Master): an unfinished line is released to the readers.
hangup(t) == [commit_canonical(t) EXCEPT !.masterRefs = 0]

close_master ==
    /\ pty.open /\ pty.masterRefs > 0
    /\ IF pty.slaveRefs = 0
       THEN pty' = NoPty /\ NoSignal
       ELSE pty' = hangup(pty) /\ signal_group(fg, {"HUP", "CONT"})
    /\ UNCHANGED <<fg, ttyCall, ttyDead>>

(***************************************************************************)
(* The rest of the system: default actions, exits, SIGCONT from the shell. *)
(***************************************************************************)
ExitTty(p) ==
    /\ ttyDead' = ttyDead \cup {p}
    /\ pty' = IF pty.open THEN CloseSlave(pty) ELSE pty
    /\ ttyCall' = [ttyCall EXCEPT ![p] = "none"]
    /\ ttyStopped' = [ttyStopped EXCEPT ![p] = FALSE]
    /\ ttyPending' = [ttyPending EXCEPT ![p] = {}]
    /\ UNCHANGED fg

DeliverTty(p) ==
    /\ p \notin ttyDead /\ ~ttyStopped[p] /\ ttyPending[p] # {}
    /\ ExitTty(p)

UserExit(p) == CanCall(p) /\ ttyCall[p] = "none" /\ ExitTty(p)

ContinueTty(p) ==
    /\ p \notin ttyDead /\ ttyStopped[p]
    /\ ttyStopped' = [ttyStopped EXCEPT ![p] = FALSE]
    /\ UNCHANGED <<pty, fg, ttyCall, ttyPending, ttyDead>>

TtyNext ==
    \/ \E b \in Keys : write_master(b)
    \/ read_master \/ close_master
    \/ \E p \in TtyProcs :
        \/ \E count \in 1..MaxRead : read_slave(p, count)
        \/ \E width \in {1, 2} : write_slave(p, width)
        \/ tcsets(p) \/ flush_input(p)
        \/ \E g \in TtyProcs : set_foreground_pty(p, g)
        \/ DeliverTty(p) \/ UserExit(p) \/ ContinueTty(p)

\* A woken process executes its call again, and a pending signal is delivered.
TtyFairness ==
    \A p \in TtyProcs :
        /\ WF_ttyVars(\E count \in 1..MaxRead : ttyCall[p] = "read" /\ read_slave(p, count))
        /\ WF_ttyVars(DeliverTty(p))

TtySpec == TtyInit /\ [][TtyNext]_ttyVars /\ TtyFairness

(***************************************************************************)
(* Properties.                                                             *)
(***************************************************************************)
\* The queues stay within the capacities the code checks before each push.
TtyTypeOK ==
    /\ fg \in TtyProcs
    /\ ttyCall \in [TtyProcs -> {"none", "read", "write"}]
    /\ pty.open =>
        /\ pty.toMaster \in 0..PTY_BUF
        /\ Len(pty.toSlave) \in 0..PTY_BUF /\ Len(pty.input) \in 0..CANON_BUF
        /\ pty.slaveRefs = Cardinality(TtyProcs \ ttyDead)

\* readable() and read() agree: a slave that poll reports as readable is never
\* put to sleep by a read, whatever modes were switched and however the bytes
\* queued were cut into records.
ReadableNeverBlocks ==
    pty.open /\ readable(pty) => \A count \in 1..MaxRead : ~ReadBlocks(pty, count)

\* The records describe bytes that are in the queue: no canonical read runs out
\* of bytes in the middle of a record (which would leave a record of length 0
\* or more behind for ever and hide the lines after it).
RecordsAreQueued ==
    pty.open => /\ Queued(pty.records) <= Len(pty.toSlave)
                /\ \A i \in DOMAIN pty.records : pty.records[i] > 0

\* A canonical read never joins two lines: a record has no newline before its
\* last byte.  (Once raw bytes are left unread across a switch back to canonical
\* mode the records no longer describe the front of the queue.)
RecordIsOneLine ==
    pty.open /\ pty.canonical /\ Queued(pty.records) = Len(pty.toSlave) =>
        \A i \in DOMAIN pty.records :
            LET first == QueuedUpTo(pty.records)[i - 1] + 1
            IN \A k \in first..(first + pty.records[i] - 2) : pty.toSlave[k] # "nl"

\* Hang-up neither strands nor silently empties: the edit buffer has gone to
\* the readers, unless their queue was full.
HangupReleasesLine ==
    [][pty.open /\ pty'.open /\ pty.masterRefs = 1 /\ pty'.masterRefs = 0
        => /\ pty'.input = <<>>
           /\ Len(pty'.toSlave) = PTY_BUF \/ Len(pty'.toSlave) = Len(pty.toSlave) + Len(pty.input)]_ttyVars

\* After hang-up every reader comes back: it gets the rest of the input and then
\* the end of file, is killed by SIGHUP, or is stopped as a background reader.
HangupWakesReaders ==
    \A p \in TtyProcs :
        []<>~(pty.open /\ pty.masterRefs = 0 /\ ttyCall[p] = "read" /\ ~ttyStopped[p])
=============================================================================
