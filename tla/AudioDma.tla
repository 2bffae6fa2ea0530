------------------------------ MODULE AudioDma ------------------------------
(***************************************************************************)
(* The audio path (kernel/src/drivers/audio): per-process streams, the     *)
(* mixer, and the ring of fragments that a controller plays while the      *)
(* timer's bottom half refills what has been played.  A block is what one  *)
(* stream contributes to one fragment; blocks of a process are numbered.   *)
(***************************************************************************)
EXTENDS Integers, Sequences, SequencesExt, FiniteSets, Tables

CONSTANTS
    Controllers,   \* controllers that may be found: "hda", "ich", "trident"
    Frags,         \* fragments of the HDA ring
    Bdl, Active,   \* ICH: descriptors, and how many of them are in use
    Players,       \* processes that write to /dev/audio
    NStreams,      \* MAX_STREAMS
    StreamCap,     \* blocks one stream holds
    Blocks         \* blocks a process writes

VARIABLES
    backend,       \* "none" before init
    audio,         \* what the AUDIO lock guards: the streams and the engine
    polling,       \* the bottom half has read the interrupt status and holds AUDIO
    pos, halted,   \* the card: the fragment it plays; the ICH halts after LVI
    irq_cause,     \* a completion is latched in the card
    irq_status,    \* AUDIO_IRQ_STATUS
    fifo_error,    \* ICH: SR_FIFOE
    written,       \* blocks written so far by a process
    waiting,       \* processes blocked in write
    played,        \* blocks of a process in the order they were played
    cut            \* the controller has failed: mixed fragments may be lost

audioVars == <<backend, audio, polling, pos, halted, irq_cause, irq_status, fifo_error, written, waiting, played, cut>>

NoOwner == 0
RingSize == [hda |-> Frags, ich |-> Bdl, trident |-> 2, none |-> 0][backend]
Filled == [hda |-> Frags, ich |-> Active, trident |-> 2][backend]
Succ(i) == (i + 1) % RingSize

\* last: last_frag, last_civ or last_poll_half; halves: pending_halves.
AudioInit ==
    /\ backend = "none"
    /\ audio = [streams |-> [s \in 1 .. NStreams |-> [owner |-> NoOwner, q |-> <<>>]],
                dma |-> <<>>,
                running |-> FALSE, last |-> 0, lvi |-> 0, idle |-> 0, halves |-> {}]
    /\ polling = FALSE /\ pos = 0 /\ halted = FALSE /\ irq_cause = FALSE /\ irq_status = FALSE /\ fifo_error = FALSE
    /\ written = [p \in Players |-> 0] /\ waiting = {} /\ played = [p \in Players |-> <<>>] /\ cut = FALSE

\* A controller is found when it is there, comes out of reset and its codec
\* answers.
hda_probe_first(works) == IF works /\ "hda" \in Controllers THEN <<"hda">> ELSE <<>>
ich_probe_first(works) == IF works /\ "ich" \in Controllers THEN <<"ich">> ELSE <<>>
trident_probe_first(works) == IF works /\ "trident" \in Controllers THEN <<"trident">> ELSE <<>>

\* The first one that works, whatever became of the others.
init(hda, ich, trident) ==
    /\ backend = "none"
    /\ LET there == hda_probe_first(hda) \o ich_probe_first(ich) \o trident_probe_first(trident) IN
         there # <<>> /\ backend' = Head(there)
    /\ audio' = [audio EXCEPT !.dma = [i \in 0 .. RingSize' - 1 |-> {}]]
    /\ UNCHANGED <<polling, pos, halted, irq_cause, irq_status, fifo_error, written, waiting, played, cut>>

(***************************************************************************)
(* Mixer                                                                   *)
(***************************************************************************)
WithData(a) == {s \in DOMAIN a.streams : a.streams[s].q # <<>>}

\* One block of every stream that has one goes into the fragment.
fill_fragment(a, i) ==
    LET some == WithData(a) IN
    [a EXCEPT !.dma[i] = {<<a.streams[s].owner, Head(a.streams[s].q)>> : s \in some},
              !.streams = [s \in DOMAIN @ |-> IF s \in some THEN [@[s] EXCEPT !.q = Tail(@)] ELSE @[s]],
              !.idle = IF some = {} THEN @ + 1 ELSE 0]

\* Mutant: a stream that still has data is taken over when none is free.
stream_for_steals(p) ==
    LET own == {s \in DOMAIN audio.streams : audio.streams[s].owner = p} IN
    IF own # {} THEN own ELSE {Least(DOMAIN audio.streams)}

\* The owner's slot, else the first free one, else the first that has drained.
stream_for(p) ==
    LET own == {s \in DOMAIN audio.streams : audio.streams[s].owner = p}
        free == {s \in DOMAIN audio.streams : audio.streams[s].owner = NoOwner}
        drained == DOMAIN audio.streams \ WithData(audio)
    IN IF own # {} THEN own
       ELSE IF free # {} THEN {Least(free)} ELSE IF drained # {} THEN {Least(drained)} ELSE {}

(***************************************************************************)
(* The engine                                                              *)
(***************************************************************************)
Prefilled(a) ==
    FoldLeft(fill_fragment, [a EXCEPT !.dma = [i \in DOMAIN @ |-> {}], !.idle = 0], [k \in 1 .. Filled |-> k - 1])

\* A running engine and an empty mixer are left alone.  The first fragments
\* are mixed before the card starts; the HDA counts the silent ones.
kick(a) ==
    IF a.running \/ WithData(a) = {} THEN a
    ELSE [Prefilled(a) EXCEPT !.running = TRUE, !.last = 0, !.lvi = Active - 1, !.halves = {},
                         !.idle = IF backend = "hda" THEN @ ELSE 0]

\* The reset of the ICH fails before anything is mixed, the codec of the HDA
\* after.
kick_fails(a) == IF backend = "hda" /\ ~a.running THEN Prefilled(a) ELSE a

stop(a) == [a EXCEPT !.running = FALSE, !.idle = 0, !.halves = {}]

\* Mutant: the engine stops at the first silent fragment.
Drained_early(a) == a.idle >= 1 /\ WithData(a) = {}

\* More silent fragments were mixed than the card has ahead of it.
Drained(a) ==
    a.idle >= [hda |-> Frags + 2, ich |-> Active + 2, trident |-> 3][backend] /\ WithData(a) = {}

stop_if_drained(a) == IF Drained(a) THEN stop(a) ELSE a

\* The fragments from i on that the card has left.
From(i, n) == [k \in 1 .. n |-> (i + k - 1) % RingSize]
Passed(a) == (pos - a.last) % RingSize

\* Mutant: the fragments ahead of the one that was left are refilled.
hda_poll_ahead(a) ==
    stop_if_drained([FoldLeft(fill_fragment, a, From(a.last + 1, Passed(a))) EXCEPT !.last = pos])

\* LPIB tells which fragments the card has left.
hda_poll(a) ==
    stop_if_drained([FoldLeft(fill_fragment, a, From(a.last, Passed(a))) EXCEPT !.last = pos])

\* As many fragments are appended behind LVI as were completed.  A card that
\* stopped at LVI has completed that one too.
ich_poll(a) ==
    LET n == Passed(a) + (IF halted THEN 1 ELSE 0)
        full == [FoldLeft(fill_fragment, a, From(a.lvi + 1, n)) EXCEPT !.lvi = (@ + n) % RingSize]
    IN IF n = 0 THEN a ELSE stop_if_drained([full EXCEPT !.last = IF halted THEN Succ(pos) ELSE pos])

\* The interrupt marked the half that was not played; a crossing that the
\* bottom half sees itself marks the half that was left.
trident_poll(a) ==
    LET todo == (a.halves \cup (IF pos # a.last THEN {a.last} ELSE {})) \ {pos}
        done == [FoldLeft(fill_fragment, a, SetToSeq(todo)) EXCEPT !.last = pos, !.halves = {}]
    IN IF todo = {} THEN done ELSE stop_if_drained(done)

(***************************************************************************)
(* Steps                                                                   *)
(***************************************************************************)
Hear(blocks) == [p \in Players |-> played[p] \o SetToSeq({b[2] : b \in {c \in blocks : c[1] = p}})]

\* The card starts at fragment 0, or goes on where it is; one that halted at
\* LVI takes the next descriptor as soon as there is one.
Starts(a) == pos' = 0 /\ halted' = FALSE /\ played' = Hear(a.dma[0])
GoesOn(a) ==
    IF halted /\ a.running /\ a.lvi # audio.lvi THEN halted' = FALSE /\ pos' = Succ(pos) /\ played' = Hear(a.dma[pos'])
    ELSE UNCHANGED <<pos, halted, played>>

\* try_write_stream from sys_write; the process sleeps when nothing fits.
audio_write(p, ok) ==
    /\ backend # "none" /\ (ok \/ ~cut) /\ cut' = (cut \/ ~ok) /\ ~polling /\ p \notin waiting /\ written[p] < Blocks
    /\ LET S == {s \in stream_for(p) : audio.streams[s].owner # p \/ Len(audio.streams[s].q) < StreamCap} IN
       IF S = {} THEN waiting' = waiting \cup {p} /\ UNCHANGED <<audio, pos, halted, written, played>>
       ELSE LET k == written[p] + 1
                put == [audio EXCEPT !.streams[Least(S)] = [owner |-> p, q |-> IF @.owner = p THEN Append(@.q, k) ELSE <<k>>]]
            IN /\ audio' = (IF ok THEN kick(put) ELSE kick_fails(put)) /\ IF audio'.running /\ ~audio.running THEN Starts(audio') ELSE GoesOn(audio')
               /\ written' = [written EXCEPT ![p] = k] /\ UNCHANGED waiting
    /\ UNCHANGED <<backend, polling, irq_cause, irq_status, fifo_error>>

\* The card goes on.  OnTime: the timer refills a fragment before the card
\* comes round to it; the ICH needs no such assumption, it halts at LVI.
OnTime == backend # "ich" => Succ(pos) # audio.last
card_advances ==
    /\ audio.running /\ ~halted /\ OnTime /\ irq_cause' = TRUE
    /\ IF backend = "ich" /\ pos = audio.lvi THEN halted' = TRUE /\ UNCHANGED <<pos, played>>
       ELSE pos' = Succ(pos) /\ played' = Hear(audio.dma[pos']) /\ UNCHANGED halted
    /\ UNCHANGED <<backend, audio, polling, irq_status, fifo_error, written, waiting, cut>>

fifo_fails ==
    /\ backend = "ich" /\ audio.running /\ ~polling /\ ~cut /\ fifo_error' = TRUE /\ cut' = TRUE
    /\ UNCHANGED <<backend, audio, polling, pos, halted, irq_cause, irq_status, written, waiting, played>>

\* The hard interrupt only acknowledges and notes.  It goes to the processor
\* whose timer runs the bottom half, so never comes inside one.
audio_irq ==
    /\ ~polling /\ irq_cause /\ irq_cause' = FALSE /\ irq_status' = TRUE
    /\ UNCHANGED <<backend, audio, polling, pos, halted, fifo_error, written, waiting, played, cut>>

Polled(a) ==
    IF ~a.running THEN a
    ELSE CASE backend = "hda" -> hda_poll(a)
           [] backend = "ich" -> IF fifo_error THEN kick(stop(a)) ELSE ich_poll(a)
           [] backend = "trident" -> trident_poll(a)

\* The timer's bottom half takes the lock and the interrupt status ...
audio_ack ==
    /\ backend # "none" /\ ~polling /\ polling' = TRUE /\ irq_status' = FALSE /\ irq_cause' = FALSE
    /\ audio' = IF backend = "trident" /\ audio.running /\ (irq_status \/ irq_cause)
                THEN [audio EXCEPT !.halves = @ \cup {1 - pos}] ELSE audio
    /\ UNCHANGED <<backend, pos, halted, fifo_error, written, waiting, played, cut>>

\* Mutant: writers are woken while there is data to mix.
Woken_data(a, b) == IF WithData(b) = {} THEN {} ELSE Players

\* Every process that waits for room is woken by progress.
Woken(a, b) == IF a = b THEN {} ELSE Players

\* ... and looks where the card is.
audio_poll ==
    /\ polling /\ polling' = FALSE /\ audio' = Polled(audio) /\ fifo_error' = FALSE
    /\ IF fifo_error /\ audio'.running THEN Starts(audio') ELSE GoesOn(audio')
    /\ waiting' = waiting \ Woken(audio, audio')
    /\ UNCHANGED <<backend, irq_cause, irq_status, written, cut>>

AudioNext ==
    \/ \E hda, ich, trident \in BOOLEAN : init(hda, ich, trident)
    \/ \E p \in Players, ok \in BOOLEAN : audio_write(p, ok)
    \/ card_advances \/ fifo_fails \/ audio_irq \/ audio_ack \/ audio_poll

AudioFairness ==
    /\ WF_audioVars(card_advances) /\ WF_audioVars(audio_ack \/ audio_poll)
    /\ \A p \in Players : WF_audioVars(audio_write(p, TRUE))

AudioSpec == AudioInit /\ [][AudioNext]_audioVars /\ AudioFairness

(***************************************************************************)
(* Properties                                                              *)
(***************************************************************************)
\* A process hears its blocks in the order it wrote them and none twice, also
\* after its slot was given to another and after the engine has stopped and
\* started again (stream_for, kick, poll).
PlayedInOrder == \A p \in Players : \A i, j \in DOMAIN played[p] : i < j => played[p][i] < played[p][j]

\* Nothing is thrown away between write and the loudspeaker while the card
\* reports no error.  The trident is excepted: when it crosses a half between
\* the look at its interrupt and the look at its position, that half is
\* refilled twice.
NothingSkipped == (~cut /\ backend # "trident") => \A p \in Players : played[p] = [i \in 1 .. Len(played[p]) |-> i]

\* What was written is played: the engine is started for it and does not stop
\* while a fragment with data is still ahead of the card (idle_refills,
\* idle_appends, idle_halves).
EveryBlockIsPlayed ==
    []<>(cut \/ backend = "trident" \/ \A p \in Players : 1 .. written[p] \subseteq Range(played[p]))

\* A process that waits for room gets its data in (AUDIO_BLOCK_AND_RESTART),
\* unless the controller failed to start for the data that is queued.
WriterIsServed == \A p \in Players : []<>(cut \/ p \notin waiting)
=============================================================================
