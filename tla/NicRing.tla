------------------------------- MODULE NicRing -------------------------------
(***************************************************************************)
(* The network cards and the bottom half that serves them                  *)
(* (kernel/src/drivers/net: e1000e_min.rs, i8255x.rs, rtl8139.rs, mod.rs;  *)
(* poll_budgeted of net/stack.rs).  The card fills receive slots and empties *)
(* transmit slots while the driver works; an interrupt only marks the      *)
(* bottom half pending.  Frames are numbered in the order of the wire.     *)
(***************************************************************************)
EXTENDS Integers, Sequences, Tables

CONSTANTS
    NicKinds,         \* cards that may be found: "e1000e", "i8255x", "rtl8139"
    NSlots,        \* slots of either ring
    NicFrames,     \* frames the wire brings, and frames that are sent
    Budget         \* frames of one pass

ASSUME NicAssumption ==
    NicKinds \subseteq {"e1000e", "i8255x", "rtl8139"} /\ NSlots \in Nat \ {0} /\ NicFrames \in Nat

VARIABLES
    nic,          \* "none" before init_net
    irq_ok,        \* the interrupt line is registered
    rx,            \* receive slots: [frame, ok], Armed when the card may fill it
    hw_rx,         \* the slot the card fills next (RDH, RFD of the RU, CBR)
    rx_head,       \* the slot the driver reads next
    rdt,           \* e1000e: RDT, the slot at which the card stops
    copying,       \* rtl8139: the card is still moving the frame into the slot
    ru_ready,      \* i8255x: the receive unit is ready
    lapped,        \* the card overwrote, or was sent back to, a frame that was not read
    tx,            \* transmit slots: the frame, 0 when it is done
    hw_tx, tx_head,
    cause, mask,   \* a receive cause is latched; the card may interrupt
    irq_pending,   \* IRQ_PENDING
    bh,            \* the bottom half: [pc, n, cut]; cut: a bad frame ended the last pass
    stack_held,    \* a system call holds NET_STACK
    arrived, got,  \* frames on the wire so far, frames given to the stack
    queued_tx, sent

nicVars == <<nic, irq_ok, rx, hw_rx, rx_head, rdt, copying, ru_ready, lapped, tx, hw_tx, tx_head,
             cause, mask, irq_pending, bh, stack_held, arrived, got, queued_tx, sent>>
rxRing == <<rx, hw_rx, rx_head, rdt, copying, ru_ready, lapped, arrived, got>>
txRing == <<tx, hw_tx, tx_head, queued_tx, sent>>
nicFound == <<nic, irq_ok>>

Armed == [frame |-> 0, ok |-> FALSE]
Slots == 0 .. NSlots - 1
After(s) == (s + 1) % NSlots
BhIdle == [pc |-> "idle", n |-> 0, cut |-> FALSE]

\* The rings are set up before a card is published: nothing reads or fills
\* them earlier.
NicInit ==
    /\ nic = "none" /\ irq_ok = FALSE /\ rx = [s \in Slots |-> Armed] /\ hw_rx = 0 /\ rx_head = 0
    /\ rdt = NSlots - 1 /\ copying = FALSE /\ ru_ready = TRUE /\ lapped = FALSE
    /\ tx = [s \in Slots |-> 0] /\ hw_tx = 0 /\ tx_head = 0
    /\ cause = FALSE /\ mask = FALSE /\ irq_pending = FALSE /\ bh = BhIdle /\ stack_held = FALSE
    /\ arrived = 0 /\ got = <<>> /\ queued_tx = 0 /\ sent = <<>>

\* init_net: the first card that is there.  Its interrupt is enabled last; when
\* the line cannot be registered the card is polled.
published(c, registered) ==
    /\ nic = "none" /\ nic' = c /\ irq_ok' = registered /\ mask' = registered /\ irq_pending' = TRUE
    /\ UNCHANGED <<rxRing, txRing, cause, bh, stack_held>>

e1000e_init(registered) == "e1000e" \in NicKinds /\ published("e1000e", registered)
i8255x_init(registered) == "i8255x" \in NicKinds /\ published("i8255x", registered)
rtl8139_init(registered) == "rtl8139" \in NicKinds /\ published("rtl8139", registered)

(***************************************************************************)
(* The card                                                                *)
(***************************************************************************)
\* The e1000e stops at RDT, the i8255x when its receive unit is not ready, the
\* rtl8139 before it reaches CAPR.
e1000e_room == hw_rx # rdt
i8255x_room == ru_ready
rtl8139_room == After(hw_rx) # rx_head /\ ~copying
Room == [e1000e |-> e1000e_room, i8255x |-> i8255x_room, rtl8139 |-> rtl8139_room][nic]

\* A frame that finds no room is lost on the wire.
hw_receive(ok) ==
    /\ nic # "none" /\ arrived < NicFrames /\ arrived' = arrived + 1
    /\ IF ~Room THEN UNCHANGED <<rx, hw_rx, copying, lapped, cause>>
       ELSE /\ rx' = [rx EXCEPT ![hw_rx] = [frame |-> arrived', ok |-> ok]]
            /\ lapped' = (lapped \/ rx[hw_rx] # Armed)
            /\ IF nic = "rtl8139" THEN copying' = TRUE /\ UNCHANGED <<hw_rx, cause>>
               ELSE hw_rx' = After(hw_rx) /\ cause' = TRUE /\ UNCHANGED copying
    /\ UNCHANGED <<nicFound, rx_head, rdt, ru_ready, got, txRing, mask, irq_pending, bh, stack_held>>

\* The header of an rtl8139 frame reads 0xFFF0 until the copy is complete.
hw_copied ==
    /\ copying /\ copying' = FALSE /\ hw_rx' = After(hw_rx) /\ cause' = TRUE
    /\ UNCHANGED <<nicFound, rx, rx_head, rdt, ru_ready, lapped, arrived, got, txRing, mask, irq_pending, bh, stack_held>>

ru_stops ==
    /\ nic = "i8255x" /\ ru_ready /\ ru_ready' = FALSE /\ cause' = TRUE
    /\ UNCHANGED <<nicFound, rx, hw_rx, rx_head, rdt, copying, lapped, arrived, got, txRing, mask, irq_pending, bh, stack_held>>

\* The e1000e compares TDH with TDT, the others look at the slot.
hw_transmit ==
    /\ tx[hw_tx] # 0 /\ (nic = "e1000e" => hw_tx # tx_head)
    /\ sent' = Append(sent, tx[hw_tx]) /\ tx' = [tx EXCEPT ![hw_tx] = 0] /\ hw_tx' = After(hw_tx)
    /\ UNCHANGED <<nicFound, rxRing, tx_head, queued_tx, cause, mask, irq_pending, bh, stack_held>>

(***************************************************************************)
(* irq_entry.  Another device on the line may have raised the interrupt.   *)
(***************************************************************************)
\* The e1000e stays masked until the bottom half is done.
e1000e_irq_entry ==
    /\ irq_ok /\ nic = "e1000e"
    /\ mask' = ~cause /\ irq_pending' = (irq_pending \/ cause) /\ cause' = FALSE
    /\ UNCHANGED <<nicFound, rxRing, txRing, bh, stack_held>>

\* The other two only acknowledge their causes.
i8255x_irq_entry ==
    /\ irq_ok /\ nic = "i8255x" /\ cause /\ irq_pending' = TRUE /\ cause' = FALSE
    /\ UNCHANGED <<nicFound, rxRing, txRing, mask, bh, stack_held>>

rtl8139_irq_entry ==
    /\ irq_ok /\ nic = "rtl8139" /\ cause /\ irq_pending' = TRUE /\ cause' = FALSE
    /\ UNCHANGED <<nicFound, rxRing, txRing, mask, bh, stack_held>>

(***************************************************************************)
(* run_bottom_half and poll_budgeted                                       *)
(***************************************************************************)
\* Without an interrupt a pass starts when its deadline has come.
run_bottom_half ==
    /\ nic # "none" /\ bh.pc = "idle"
    /\ IF stack_held THEN UNCHANGED <<irq_pending, bh>>
       ELSE irq_pending' = FALSE /\ bh' = [pc |-> IF nic = "rtl8139" THEN "ack" ELSE "check", n |-> 0, cut |-> FALSE]
    /\ UNCHANGED <<nicFound, rxRing, txRing, cause, mask, stack_held>>

\* The rtl8139 acknowledges its causes before it looks at the buffer.
recv_ack ==
    /\ bh.pc = "ack" /\ cause' = FALSE /\ bh' = [bh EXCEPT !.pc = "check"]
    /\ UNCHANGED <<nicFound, rxRing, txRing, mask, irq_pending, stack_held>>

Ready(s) == rx[s] # Armed /\ ~(copying /\ s = hw_rx)

\* Mutant: any completed slot will do.
ReadySlots_any == {s \in Slots : Ready(s)}

\* Only the next slot of the ring counts: a later one would overtake it.
ReadySlots == {s \in {rx_head} : Ready(s)}

\* A stopped receive unit is started at the slot that is read next.
restart_ru(next) ==
    IF nic = "i8255x" /\ ~ru_ready
    THEN ru_ready' = TRUE /\ hw_rx' = next /\ lapped' = (lapped \/ rx[next] # Armed)
    ELSE UNCHANGED <<ru_ready, hw_rx, lapped>>

recv_check ==
    /\ bh.pc = "check"
    /\ IF ReadySlots = {} THEN bh' = [bh EXCEPT !.pc = "egress"] /\ restart_ru(rx_head)
       ELSE bh' = [bh EXCEPT !.pc = "copy"] /\ UNCHANGED <<ru_ready, hw_rx, lapped>>
    /\ UNCHANGED <<nicFound, rx, rx_head, rdt, copying, arrived, got, txRing, cause, mask, irq_pending, stack_held>>

\* The frame is copied out, the slot re-armed and given back.  A bad frame
\* looks to the stack as if there were no more.
recv_take(s) ==
    /\ bh.pc = "copy"
    /\ LET f == rx[s] IN
         /\ got' = IF f.ok THEN Append(got, f.frame) ELSE got
         /\ bh' = [n |-> bh.n + 1, cut |-> ~f.ok, pc |-> IF ~f.ok \/ bh.n + 1 = Budget THEN "egress" ELSE IF nic = "rtl8139" THEN "ack" ELSE "check"]
    /\ rx' = [rx EXCEPT ![s] = Armed] /\ rdt' = s /\ rx_head' = After(s) /\ restart_ru(rx_head')
    /\ UNCHANGED <<nicFound, copying, arrived, txRing, cause, mask, irq_pending, stack_held>>

\* Mutant: the slot is not checked.
TxFree_unchecked == TRUE

\* DD of the e1000e slot, an idle command unit, OWN or TOK of the rtl8139 slot.
e1000e_free == tx[tx_head] = 0
i8255x_free == \A s \in Slots : tx[s] = 0
rtl8139_free == tx[tx_head] = 0
TxFree == [e1000e |-> e1000e_free, i8255x |-> i8255x_free, rtl8139 |-> rtl8139_free][nic]

send ==
    /\ bh.pc = "egress" /\ queued_tx < NicFrames /\ TxFree
    /\ queued_tx' = queued_tx + 1 /\ tx' = [tx EXCEPT ![tx_head] = queued_tx'] /\ tx_head' = After(tx_head)
    /\ UNCHANGED <<nicFound, rxRing, hw_tx, sent, cause, mask, irq_pending, bh, stack_held>>

\* Mutant: the causes of the pass are cleared with it.
rearm_interrupts_clears == cause' = FALSE /\ mask' = irq_ok

\* Causes that came during the pass stay latched.
rearm_interrupts == mask' = irq_ok /\ UNCHANGED cause

\* A pass that used its budget up, every frame of it good, asks for another.
poll_end ==
    /\ bh.pc = "egress" /\ bh' = [BhIdle EXCEPT !.cut = bh.cut] /\ rearm_interrupts
    /\ irq_pending' = (irq_pending \/ (bh.n = Budget))
    /\ UNCHANGED <<nicFound, rxRing, txRing, stack_held>>

syscall_lock ==
    /\ nic # "none" /\ bh.pc = "idle" /\ stack_held' = ~stack_held
    /\ UNCHANGED <<nicFound, rxRing, txRing, cause, mask, irq_pending, bh>>

NicNext ==
    \/ \E registered \in BOOLEAN : e1000e_init(registered) \/ i8255x_init(registered) \/ rtl8139_init(registered)
    \/ \E ok \in BOOLEAN : hw_receive(ok)
    \/ hw_copied \/ ru_stops \/ hw_transmit
    \/ e1000e_irq_entry \/ i8255x_irq_entry \/ rtl8139_irq_entry \/ run_bottom_half \/ recv_ack \/ recv_check
    \/ \E s \in ReadySlots : recv_take(s)
    \/ send \/ poll_end \/ syscall_lock

NicSpec == NicInit /\ [][NicNext]_nicVars

(***************************************************************************)
(* Properties                                                              *)
(***************************************************************************)
Increasing(s) == \A i, j \in DOMAIN s : i < j => s[i] < s[j]

\* The stack sees the frames in the order of the wire and none twice, while
\* the card keeps filling slots (recv of the three drivers).  The i8255x ring
\* has no end mark: once the card has lapped the driver this is lost.
FramesInOrder == (nic = "i8255x" /\ lapped) \/ Increasing(got)

\* Every frame goes out once, in the order of the send calls, although slots
\* are used again (send of the three drivers).
SentInOrder == sent = [i \in 1 .. Len(sent) |-> i]

\* A frame that waits when the bottom half is idle has an interrupt to come or
\* a pass pending: none sits in the ring until a deadline because its edge was
\* lost (irq_entry, rearm_interrupts, more_work).  A bad frame ends a pass
\* early and is excepted.
ReadyIsAnnounced ==
    (irq_ok /\ bh.pc = "idle" /\ Ready(rx_head) /\ ~bh.cut) => irq_pending \/ (cause /\ mask)
=============================================================================
