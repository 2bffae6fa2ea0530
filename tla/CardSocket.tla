----------------------------- MODULE CardSocket -----------------------------
(***************************************************************************)
(* The PC Card socket (kernel/src/drivers/pcmcia): card-detect interrupts  *)
(* and the idle task's poll, with the debounce counter and the event byte  *)
(* they share without a lock.  A card is named by its identity; "modem"    *)
(* stands for every card no driver claims.  Register programming is        *)
(* modelled by its outcome: a card that is pulled out, or that floats on   *)
(* the bus, cannot be configured or identified.                            *)
(***************************************************************************)
EXTENDS Integers, FiniteSets

CONSTANTS
    Cards,         \* cards that are put in, "modem" among them
    Debounce       \* polls an event must last (20)

ASSUME DebounceAssumption == Debounce \in Nat

VARIABLES
    card,          \* the card in the socket, or "none"
    live,          \* CARD_LIVE
    active,        \* ACTIVE_CARD
    cf_node,       \* the card behind /dev/pcmcia0 and its mounts
    pending,       \* PENDING is not EVT_NONE
    debounced,     \* DEBOUNCE
    poll           \* the idle task: [pc, present, live, left] as it loaded them

cardVars == <<card, live, active, cf_node, pending, debounced, poll>>

NoPoll == [pc |-> "idle", present |-> FALSE, live |-> FALSE, left |-> 0]

\* The function code of the card information structure chooses the driver.
read_cis(c) == IF c = "modem" THEN "other" ELSE "FixedDisk"

\* The configuration register may read back as a floating bus, IDENTIFY may time out.
configure_card == BOOLEAN
identify == BOOLEAN

init_fixed_disk == {IF configured /\ identified THEN "disk" ELSE "failed" : configured \in configure_card, identified \in identify}

bind_by_cis(c) == IF read_cis(c) = "FixedDisk" THEN init_fixed_disk ELSE {"unsupported"}

\* The socket is powered, reset and given its windows only with a card in it.
prepare_socket(c) == c # "none"

Bound(c) == IF prepare_socket(c) THEN bind_by_cis(c) ELSE {"failed"}

\* init: the socket counts as live as soon as a card is detected, before it is bound.
CardInit ==
    /\ card \in Cards \cup {"none"} /\ live = (card # "none")
    /\ \E b \in Bound(card) :
         active = (IF b = "disk" THEN card ELSE "none") /\ cf_node = active
    /\ pending = FALSE /\ debounced = 0 /\ poll = NoPoll

insert ==
    /\ card = "none" /\ card' \in Cards
    /\ UNCHANGED <<live, active, cf_node, pending, debounced, poll>>

eject ==
    /\ card # "none" /\ card' = "none"
    /\ UNCHANGED <<live, active, cf_node, pending, debounced, poll>>

\* The interrupt of a change, at any time after it, also in the middle of a poll.
pcmcia_irq_handler ==
    /\ pending' = TRUE /\ debounced' = Debounce
    /\ UNCHANGED <<card, live, active, cf_node, poll>>

(***************************************************************************)
(* poll_hotplug                                                            *)
(***************************************************************************)
\* Mutant: only the interrupt starts a change.
Changed_irq(p) == pending

Changed(p) == pending \/ p # live

poll_load ==
    /\ poll.pc = "idle"
    /\ LET present == card # "none" IN
         IF Changed(present)
           THEN poll' = [pc |-> IF debounced = 0 THEN "arm" ELSE "count", present |-> present, live |-> live, left |-> debounced]
           ELSE poll' = [pc |-> "calm", present |-> present, live |-> live, left |-> debounced]
    /\ UNCHANGED <<card, live, active, cf_node, pending, debounced>>

\* Mutant: the counter starts again at every poll.
poll_count_restarts ==
    /\ poll.pc \in {"arm", "count", "calm"} /\ debounced' = Debounce /\ poll' = NoPoll
    /\ UNCHANGED <<card, live, active, cf_node, pending>>

poll_count ==
    /\ poll.pc \in {"arm", "count", "calm"}
    /\ debounced' = CASE poll.pc = "arm" -> Debounce [] poll.pc = "count" -> poll.left - 1 [] OTHER -> 0
    /\ poll' = IF poll.pc = "count" /\ poll.left = 1 THEN [poll EXCEPT !.pc = "act"] ELSE NoPoll
    /\ UNCHANGED <<card, live, active, cf_node, pending>>

\* The event is consumed, and what was true at the start of the poll decides.
poll_act ==
    /\ poll.pc = "act" /\ pending' = FALSE
    /\ poll' = IF poll.present = poll.live THEN NoPoll ELSE [poll EXCEPT !.pc = IF poll.present THEN "bind" ELSE "remove"]
    /\ UNCHANGED <<card, live, active, cf_node, debounced>>

\* Mutant: a card that is gone keeps its node.
disconnect_card_active ==
    /\ poll.pc = "remove" /\ live' = FALSE /\ active' = "none" /\ poll' = NoPoll
    /\ UNCHANGED <<card, cf_node, pending, debounced>>

\* disconnect_card: with no active card there is nothing to take down.
disconnect_card ==
    /\ poll.pc = "remove" /\ live' = FALSE /\ active' = "none" /\ poll' = NoPoll
    /\ cf_node' = IF active = "none" THEN cf_node ELSE "none"
    /\ UNCHANGED <<card, pending, debounced>>

\* bind_card: a card that cannot be bound stays not live and is tried again.
bind_card ==
    /\ poll.pc = "bind" /\ poll' = NoPoll
    /\ \E b \in Bound(card) :
         /\ live' = (b # "failed")
         /\ active' = IF b = "disk" THEN card ELSE active
         /\ cf_node' = IF b = "disk" THEN card ELSE cf_node
    /\ UNCHANGED <<card, pending, debounced>>

CardPoll == poll_load \/ poll_count \/ poll_act \/ disconnect_card \/ bind_card

CardNext == CardPoll \/ insert \/ eject \/ pcmcia_irq_handler

\* The idle task polls again and again.
CardFairness == WF_cardVars(CardPoll)

CardSpec == CardInit /\ [][CardNext]_cardVars /\ CardFairness

(***************************************************************************)
(* Properties                                                              *)
(***************************************************************************)
\* The node and the mounts are those of the active card, and only a live
\* socket has one, whatever the card does during the poll (bind_by_cis,
\* disconnect_card, pcmcia_hotplug).
NodeOfActiveCard == cf_node = active /\ (active # "none" => live) /\ active # "modem"

\* A socket that stays empty, with no more interrupts, loses its card, its
\* node and its mounts, whatever events were lost on the way: the poll does
\* not depend on the interrupt (poll_hotplug).
EjectedIsForgotten ==
    (<>[](card = "none") /\ <>[][~pcmcia_irq_handler]_cardVars) => <>[](~live /\ active = "none" /\ cf_node = "none")

(***************************************************************************)
(* One shared PCI interrupt line (kernel/src/drivers/shared_irq.rs): every *)
(* registered handler looks at its own device, an interrupt nobody claims  *)
(* counts as stray, and a storm of them masks the line until the timer has *)
(* ticked for a while.  A device holds the line down until its handler has *)
(* served it; a handler that finds its controller locked claims nothing.   *)
(* All of this runs on the boot processor with interrupts off, so every    *)
(* handler is one step.                                                    *)
(***************************************************************************)
CONSTANTS
    IrqDevices,    \* devices on the line
    MaxHandlers,   \* HANDLERS_PER_IRQ
    StrayLimit,    \* STRAY_LIMIT
    Cooldown       \* ticks a masked line rests (20)

ASSUME CooldownAssumption == Cooldown \in Nat \ {0}

VARIABLES
    handlers,      \* devices whose handler is registered
    asserted,      \* devices that hold the line down
    locked,        \* devices whose controller lock somebody holds
    stray, storm_cooldown,
    masked,        \* the line's bit in the PIC mask
    late_restored, \* LATE_RESTORED
    booting        \* main has not yet rewritten the masks and enabled interrupts

irqVars == <<handlers, asserted, locked, stray, storm_cooldown, masked, late_restored, booting>>

IrqInit ==
    /\ handlers = {} /\ asserted = {} /\ locked = {} /\ stray = 0 /\ storm_cooldown = 0
    /\ masked = TRUE /\ late_restored = FALSE /\ booting = TRUE

\* Mutant: a line masked for a storm stays in its cool-down.
Registered_cooling == UNCHANGED <<stray, storm_cooldown>>

Registered == stray' = 0 /\ storm_cooldown' = 0

register_named(d) ==
    /\ d \notin handlers /\ Cardinality(handlers) < MaxHandlers
    /\ handlers' = handlers \cup {d} /\ Registered
    /\ masked' = FALSE /\ late_restored' = FALSE
    /\ UNCHANGED <<asserted, locked, booting>>

\* A driver whose handler did not fit leaves its device's interrupt off.
raise(d) ==
    /\ d \in handlers \ asserted /\ asserted' = asserted \cup {d}
    /\ UNCHANGED <<handlers, locked, stray, storm_cooldown, masked, late_restored, booting>>

take_lock(d) ==
    /\ d \notin locked /\ locked' = locked \cup {d}
    /\ UNCHANGED <<handlers, asserted, stray, storm_cooldown, masked, late_restored, booting>>

\* The holder polls the device before it lets go of it.
free_lock(d) ==
    /\ d \in locked /\ locked' = locked \ {d} /\ asserted' = asserted \ {d}
    /\ UNCHANGED <<handlers, stray, storm_cooldown, masked, late_restored, booting>>

\* main writes the complete masks, then enables interrupts.
boot_masks ==
    /\ booting /\ booting' = FALSE /\ masked' = TRUE
    /\ UNCHANGED <<handlers, asserted, locked, stray, storm_cooldown, late_restored>>

shared_irq_dispatch ==
    /\ ~booting /\ ~masked /\ asserted # {}
    /\ LET served == (asserted \cap handlers) \ locked
           storm == served = {} /\ stray + 1 >= StrayLimit IN
         /\ asserted' = asserted \ served
         /\ stray' = IF served # {} \/ storm THEN 0 ELSE stray + 1
         /\ storm_cooldown' = IF storm THEN Cooldown ELSE storm_cooldown
         /\ masked' = storm
    /\ UNCHANGED <<handlers, locked, late_restored, booting>>

\* Mutant: the line is counted down and not unmasked.
Rearm_not == UNCHANGED masked

Rearm == masked' = IF storm_cooldown = 1 /\ handlers # {} THEN FALSE ELSE masked

maintenance_tick ==
    /\ storm_cooldown > 0 /\ storm_cooldown' = storm_cooldown - 1
    /\ stray' = IF storm_cooldown = 1 THEN 0 ELSE stray
    /\ Rearm
    /\ UNCHANGED <<handlers, asserted, locked, late_restored, booting>>

\* Mutant: a line that rests is restored as well.
Restores_all == handlers # {}

Restores == handlers # {} /\ storm_cooldown = 0

late_restore_once ==
    /\ ~booting /\ ~late_restored /\ late_restored' = TRUE
    /\ masked' = IF Restores THEN FALSE ELSE masked
    /\ UNCHANGED <<handlers, asserted, locked, stray, storm_cooldown, booting>>

IrqNext ==
    \/ \E d \in IrqDevices : register_named(d) \/ raise(d) \/ take_lock(d) \/ free_lock(d)
    \/ boot_masks \/ shared_irq_dispatch \/ maintenance_tick \/ late_restore_once

\* The timer ticks, an unmasked line interrupts, boot ends.
IrqFairness ==
    /\ WF_irqVars(boot_masks) /\ WF_irqVars(shared_irq_dispatch)
    /\ WF_irqVars(maintenance_tick) /\ WF_irqVars(late_restore_once)

IrqSpec == IrqInit /\ [][IrqNext]_irqVars /\ IrqFairness

(***************************************************************************)
(* Properties                                                              *)
(***************************************************************************)
\* After boot a line with an owner is masked only while it rests after a
\* storm or waits for the pass that repairs main's mask write, and a line
\* that rests is masked: neither registration nor that pass cuts the rest
\* short and leaves the count behind (register_named, late_restore_once).
MaskedOnlyToRest ==
    ~booting => /\ storm_cooldown > 0 => masked
                /\ (masked /\ handlers # {} /\ storm_cooldown = 0) => ~late_restored

\* A registered device that asks for service gets it, from its handler or
\* from the holder of its lock, whatever storms the line goes through,
\* provided nobody holds the lock for ever (shared_irq_dispatch,
\* maintenance_tick).
DeviceIsServed ==
    \A d \in IrqDevices : []<>(d \notin asserted \/ d \in locked)
=============================================================================
