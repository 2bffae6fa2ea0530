--------------------------- MODULE WindowManager ----------------------------
(***************************************************************************)
(* The input half of the window manager (kernel/src/drivers/wm.rs): which  *)
(* window has the focus, is dragged, is under the pointer or holds the     *)
(* mouse.  Mouse packets (mouse.rs) arrive in interrupts: they are queued, *)
(* and handled at once only if the manager's lock is free; whoever takes   *)
(* the lock next handles the rest.  A place of the pointer is a cell of the *)
(* screen, which a window covers as a whole, and the part of a window it   *)
(* would hit there.  `nth` numbers windows, ids are reused.                *)
(***************************************************************************)
EXTENDS Tables, Sequences, SequencesExt

CONSTANTS
    ScreenCells,        \* cells of the screen
    Owners,        \* task slots that own windows
    MaxWindows,    \* 8
    MaxWindowId,   \* 255
    PendingCap,    \* PENDING_INPUT_CAP: the ring holds one less
    MaxCreated     \* bound on windows ever created

ASSUME WmAssumption == MaxWindowId \in Nat \ {0} /\ PendingCap \in Nat \ {0}

VARIABLES
    wm,            \* the Compositor structure behind the lock
    busy,          \* the lock is held elsewhere
    pendingIn,     \* MOUSE_INPUT
    buttonDown,    \* left button, as the last packet said
    lostInput      \* an input was dropped

wmVars == <<wm, busy, pendingIn, buttonDown, lostInput>>

NoWindow == 0
Parts == {"client", "title", "close", "resize"}
NoDrag == [id |-> NoWindow, kind |-> "none", nth |-> 0]

WmInit ==
    /\ wm = [wins |-> NoEntries, stack |-> <<>>, next_id |-> 1, created |-> 0,
             drag |-> NoDrag, capture |-> NoWindow, hover |-> NoWindow, pressed |-> {}]
    /\ busy = FALSE /\ pendingIn = <<>> /\ buttonDown = FALSE /\ lostInput = FALSE

(***************************************************************************)
(* Looking up                                                              *)
(***************************************************************************)
LiveWindows(s) == DOMAIN s.wins

\* The top window at a cell, of those in the stack order.
TopAt(s, cell) ==
    LET at == {k \in 1..Len(s.stack) : s.wins[s.stack[k]].cell = cell}
    IN  IF at = {} THEN NoWindow ELSE s.stack[CHOOSE k \in at : \A j \in at : j <= k]

\* client_at: a title bar or a border hides what is below, and is no client.
client_at(s, p) == IF p.part \in {"client", "resize"} THEN TopAt(s, p.cell) ELSE NoWindow

Focus(s, id) ==
    [s EXCEPT !.stack = Append(Omitting(s.stack, {id}), id),
              !.wins = [i \in LiveWindows(s) |-> [s.wins[i] EXCEPT !.foc = i = id]]]

NthOf(s, id) == s.wins[id].nth

\* The client is told of the press, or of the release.
TellDown(s, id) == [s EXCEPT !.pressed = @ \cup {NthOf(s, id)}]
TellUp(s, id) == [s EXCEPT !.pressed = @ \ {NthOf(s, id)}]

(***************************************************************************)
(* The handlers, under the lock                                            *)
(***************************************************************************)
on_mouse_down_locked(s0, p) ==
    LET s == [s0 EXCEPT !.capture = NoWindow]
        t == TopAt(s, p.cell)
        f == IF s.wins[t].foc THEN s ELSE Focus(s, t)
        Drag(kind) == [id |-> t, kind |-> kind, nth |-> NthOf(s, t)]
    IN  IF t = NoWindow \/ p.part = "close" THEN [s EXCEPT !.drag = NoDrag]
        ELSE CASE p.part = "resize" -> [Focus(s, t) EXCEPT !.drag = Drag("resize")]
               [] p.part = "title" -> [f EXCEPT !.drag = Drag("move"), !.hover = NoWindow]
               [] OTHER -> [TellDown(f, t) EXCEPT !.drag = NoDrag, !.hover = t, !.capture = t]

\* A step of a drag; without one the captured window, or the client there, is told.
on_mouse_move_locked(s, p) ==
    LET d == s.drag IN
    IF d.id # NoWindow /\ d.id \notin LiveWindows(s) THEN [s EXCEPT !.drag = NoDrag]
    ELSE CASE d.kind = "resize" -> s
           [] d.kind = "move" -> [s EXCEPT !.wins[d.id].cell = p.cell]
           [] OTHER -> IF s.capture \in LiveWindows(s) THEN s
                       ELSE IF s.capture # NoWindow THEN [s EXCEPT !.capture = NoWindow]
                       ELSE [s EXCEPT !.hover = client_at(s, p)]

\* Mutant: the release goes to the client below the pointer.
on_mouse_up_below(s0, p) ==
    LET s == [s0 EXCEPT !.drag = NoDrag, !.capture = NoWindow]
    IN  IF client_at(s, p) = NoWindow THEN s ELSE TellUp(s, client_at(s, p))

\* The drag ends; the window that holds the mouse is told.
on_mouse_up_locked(s0, p) ==
    LET s == [s0 EXCEPT !.drag = NoDrag, !.capture = NoWindow]
        t == IF s0.capture # NoWindow THEN s0.capture ELSE client_at(s, p)
    IN  IF t \in LiveWindows(s) THEN TellUp(s, t) ELSE s

dispatch(s, input) ==
    CASE input.kind = "down" -> on_mouse_down_locked(s, input.at)
      [] input.kind = "up" -> on_mouse_up_locked(s, input.at)
      [] OTHER -> on_mouse_move_locked(s, input.at)

\* A move with another one right behind it is not handled.
Superseded(q, k) == q[k].kind = "move" /\ k < Len(q) /\ q[AtMost(k + 1, Len(q))].kind = "move"

\* drain_pending_input: what the manager is after k inputs of the queue.
drain(s, q) ==
    LET after[k \in 0..Len(q)] ==
            IF k = 0 THEN s ELSE IF Superseded(q, k) THEN after[k - 1] ELSE dispatch(after[k - 1], q[k])
    IN  after[Len(q)]

(***************************************************************************)
(* Interrupts                                                              *)
(***************************************************************************)
\* What a packet says: the edge of the button, if there is one, then the move.
MoveTo(p) == [kind |-> "move", at |-> p]
FirstInput(down, p) == IF down # buttonDown THEN [kind |-> IF down THEN "down" ELSE "up", at |-> p] ELSE MoveTo(p)

\* The ring drops what does not fit.
InputFull(q) == Len(q) >= PendingCap - 1
push_input(q, x) == IF InputFull(q) THEN q ELSE Append(q, x)

\* Every input is pushed, and the ring drained if the lock can be had.
process_packet(down, moved, p) ==
    LET both == down # buttonDown /\ moved
        q == push_input(pendingIn, FirstInput(down, p))
        s == drain(wm, q)
    IN
    /\ down # buttonDown \/ moved
    /\ buttonDown' = down
    /\ IF busy THEN pendingIn' = (IF both THEN push_input(q, MoveTo(p)) ELSE q) /\ UNCHANGED wm
       ELSE wm' = (IF both THEN drain(s, push_input(<<>>, MoveTo(p))) ELSE s) /\ pendingIn' = <<>>
    /\ lostInput' = (lostInput \/ InputFull(pendingIn) \/ (busy /\ both /\ InputFull(q)))
    /\ UNCHANGED busy

\* Another processor or the interrupted code holds the lock; later it does not.
wm_lock == busy' = ~busy /\ UNCHANGED <<wm, pendingIn, buttonDown, lostInput>>

(***************************************************************************)
(* System calls; those that draw or poll first handle what is pending.     *)
(***************************************************************************)
wm_poll_events ==
    /\ ~busy /\ pendingIn # <<>>
    /\ wm' = drain(wm, pendingIn) /\ pendingIn' = <<>>
    /\ UNCHANGED <<busy, buttonDown, lostInput>>

\* Mutant: the smallest free id.
IdAfter_least(s, id) == Least((1..MaxWindowId + 1) \ LiveWindows(s))

\* next_id: one byte, 0 left out.
IdAfter(s, id) == IF id = MaxWindowId THEN 1 ELSE id + 1

create_window(o, cell) ==
    LET id == wm.next_id IN
    /\ ~busy /\ Cardinality(LiveWindows(wm)) < MaxWindows /\ wm.created < MaxCreated
    /\ id \notin LiveWindows(wm)    \* otherwise two windows would have one id
    /\ wm' = [Focus([wm EXCEPT !.wins = Put(wm.wins, id, [cell |-> cell, foc |-> TRUE, owner |-> o,
                                                          nth |-> wm.created + 1])], id)
              EXCEPT !.next_id = IdAfter(wm, id), !.created = @ + 1]
    /\ UNCHANGED <<busy, pendingIn, buttonDown, lostInput>>

\* Mutant: the window that is gone keeps the mouse.
Without_captured(s, ids) ==
    [s EXCEPT !.wins = Drop(s.wins, ids),
              !.stack = Omitting(s.stack, ids),
              !.hover = IF @ \in ids THEN NoWindow ELSE @,
              !.pressed = @ \ {NthOf(s, i) : i \in ids}]

Without(s, ids) ==
    [s EXCEPT !.wins = Drop(s.wins, ids),
              !.stack = Omitting(s.stack, ids),
              !.hover = IF @ \in ids THEN NoWindow ELSE @,
              !.capture = IF @ \in ids THEN NoWindow ELSE @,
              !.pressed = @ \ {NthOf(s, i) : i \in ids}]

\* A drag of the window is not ended.
destroy_window(id) ==
    /\ ~busy /\ id \in LiveWindows(wm)
    /\ wm' = Without(wm, {id})
    /\ UNCHANGED <<busy, pendingIn, buttonDown, lostInput>>

\* The owner exits: whatever drag there is ends.
destroy_windows_of(o) ==
    LET ids == {i \in LiveWindows(wm) : wm.wins[i].owner = o} IN
    /\ ~busy /\ ids # {}
    /\ wm' = [Without(wm, ids) EXCEPT !.drag = NoDrag]
    /\ UNCHANGED <<busy, pendingIn, buttonDown, lostInput>>

focus_window(id) ==
    /\ ~busy /\ id \in LiveWindows(wm)
    /\ wm' = Focus(wm, id)
    /\ UNCHANGED <<busy, pendingIn, buttonDown, lostInput>>

move_window(id, cell) ==
    /\ ~busy /\ id \in LiveWindows(wm) /\ wm.wins[id].cell # cell
    /\ wm' = [wm EXCEPT !.wins[id].cell = cell]
    /\ UNCHANGED <<busy, pendingIn, buttonDown, lostInput>>

WmNext ==
    \/ \E down, moved \in BOOLEAN : \E c \in ScreenCells, part \in Parts :
         process_packet(down, moved, [cell |-> c, part |-> part])
    \/ wm_lock \/ wm_poll_events
    \/ \E o \in Owners : destroy_windows_of(o) \/ \E c \in ScreenCells : create_window(o, c)
    \/ \E id \in LiveWindows(wm) :
         destroy_window(id) \/ focus_window(id) \/ \E c \in ScreenCells : move_window(id, c)

WmSpec == WmInit /\ [][WmNext]_wmVars

(***************************************************************************)
(* Properties.                                                             *)
(***************************************************************************)
\* A client that was told of a press holds the mouse until it is told of the release,
\* wherever the pointer goes and whatever windows come and go, unless input was lost.
PressIsCaptured ==
    ~lostInput => wm.pressed \subseteq {NthOf(wm, i) : i \in LiveWindows(wm) \cap {wm.capture}}

\* The window that holds the mouse and the one below the pointer exist.
PointerTargetsLive == {wm.capture, wm.hover} \subseteq LiveWindows(wm) \cup {NoWindow}

\* A drag left over from a window that is gone moves no other window, as long as
\* window ids have not wrapped around.
DragHoldsItsWindow ==
    wm.created <= MaxWindowId /\ wm.drag.id \in LiveWindows(wm) => NthOf(wm, wm.drag.id) = wm.drag.nth

(***************************************************************************)
(* PendingInputQueue (kernel/src/drivers/wm.rs): the ring between an input *)
(* interrupt, the only producer, and the holder of the window manager's    *)
(* lock, the only consumer, which run on different processors without a    *)
(* lock between them.  Every load and store is a step.  A slot has two     *)
(* fields (four in the code), so that a torn read shows.  The interrupt    *)
(* side (keyboard_handler, mouse_handler) is what makes the entries.       *)
(***************************************************************************)
CONSTANTS
    RingCap,       \* PENDING_INPUT_CAP
    MaxInputs      \* bound on inputs ever made

ASSUME RingAssumption == RingCap \in Nat \ {0} /\ MaxInputs \in Nat

VARIABLES
    slots, head, tail,
    prod,          \* the producer: [pc, head, tail] as it loaded them
    cons,          \* the consumer: [pc, head, tail, got]
    made,          \* inputs made so far; the n-th input is n
    queued,        \* inputs put in the ring and not yet taken out, in order
    taken          \* the last input the consumer took

ringVars == <<slots, head, tail, prod, cons, made, queued, taken>>

RingSlots == 0..RingCap - 1
RingAfter(i) == (i + 1) % RingCap

RingInit ==
    /\ slots = [i \in RingSlots |-> [a |-> 0, b |-> 0]] /\ head = 0 /\ tail = 0
    /\ prod = [pc |-> "idle", head |-> 0, tail |-> 0]
    /\ cons = [pc |-> "idle", head |-> 0, tail |-> 0, a |-> 0]
    /\ made = 0 /\ queued = <<>> /\ taken = [a |-> 0, b |-> 0]

(***************************************************************************)
(* push                                                                    *)
(***************************************************************************)
push_load ==
    /\ prod.pc = "idle" /\ made < MaxInputs
    /\ prod' = [pc |-> "check", head |-> head, tail |-> tail] /\ made' = made + 1
    /\ UNCHANGED <<slots, head, tail, cons, queued, taken>>

\* Mutant: the ring is filled to the last slot.
RingFull_last(p) == FALSE

\* One slot stays free, so that full and empty differ.
RingFull(p) == RingAfter(p.tail) = p.head

push_check ==
    /\ prod.pc = "check"
    /\ prod' = [prod EXCEPT !.pc = IF RingFull(prod) THEN "idle" ELSE "write"]
    /\ UNCHANGED <<slots, head, tail, cons, made, queued, taken>>

push_write ==
    /\ prod.pc \in {"write", "write2"}
    /\ slots' = IF prod.pc = "write" THEN [slots EXCEPT ![prod.tail].a = made] ELSE [slots EXCEPT ![prod.tail].b = made]
    /\ prod' = [prod EXCEPT !.pc = IF prod.pc = "write" THEN "write2" ELSE "publish"]
    /\ UNCHANGED <<head, tail, cons, made, queued, taken>>

\* The store of tail with Release comes after the stores of the slot.
push_publish ==
    /\ prod.pc = "publish"
    /\ tail' = RingAfter(prod.tail) /\ queued' = Append(queued, made)
    /\ prod' = [prod EXCEPT !.pc = "idle"]
    /\ UNCHANGED <<slots, head, cons, made, taken>>

(***************************************************************************)
(* pop                                                                     *)
(***************************************************************************)
pop_load ==
    /\ cons.pc = "idle" /\ head # tail
    /\ cons' = [cons EXCEPT !.pc = "read", !.head = head, !.tail = tail]
    /\ UNCHANGED <<slots, head, tail, prod, made, queued, taken>>

pop_read ==
    /\ cons.pc = "read"
    /\ cons' = [cons EXCEPT !.pc = "read2", !.a = slots[cons.head].a]
    /\ UNCHANGED <<slots, head, tail, prod, made, queued, taken>>

\* Mutant: head moves on before the slot has been read.
pop_read2_early ==
    /\ cons.pc = "read2" /\ head = cons.head
    /\ head' = RingAfter(cons.head) /\ queued' = queued
    /\ UNCHANGED <<slots, tail, cons, prod, made, taken>>

pop_read2 ==
    /\ cons.pc = "read2"
    /\ taken' = [a |-> cons.a, b |-> slots[cons.head].b] /\ cons' = [cons EXCEPT !.pc = "advance"]
    /\ UNCHANGED <<slots, head, tail, prod, made, queued>>

pop_advance ==
    /\ cons.pc = "advance"
    /\ head' = RingAfter(cons.head) /\ queued' = Tail(queued) /\ cons' = [cons EXCEPT !.pc = "idle"]
    /\ UNCHANGED <<slots, tail, prod, made, taken>>

RingNext ==
    \/ push_load \/ push_check \/ push_write \/ push_publish
    \/ pop_load \/ pop_read \/ pop_read2 \/ pop_advance

RingFairness == WF_ringVars(pop_load \/ pop_read \/ pop_read2 \/ pop_advance)

RingSpec == RingInit /\ [][RingNext]_ringVars /\ RingFairness

(***************************************************************************)
(* Properties.                                                             *)
(***************************************************************************)
\* What the consumer takes is the oldest input in the ring, whole: not torn between
\* two inputs, not overtaken, not overwritten by a producer that has gone around.
TakenWhole == cons.pc = "advance" => taken.a = taken.b /\ queued # <<>> /\ taken.a = Head(queued)

\* The indices describe the ring's contents.
RingHoldsQueue == (tail - head + RingCap) % RingCap = Len(queued)

\* The lock holder's drain empties the ring: input that is queued is taken.
QueuedIsTaken == []<>(queued = <<>>)
=============================================================================
