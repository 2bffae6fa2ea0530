---------------------------- MODULE MachineProofs ----------------------------
(***************************************************************************)
(* Proofs about what the kernel has next to the machine (MCMachine): for   *)
(* every number of devices, slots and processors.  Each component has an   *)
(* inductive invariant of its own; the theorems put them together.         *)
(***************************************************************************)
EXTENDS MCMachine, FiniteSetTheorems, SequenceTheorems, WellFoundedInduction, TLAPS

(***************************************************************************)
(* The shared interrupt line.                                              *)
(***************************************************************************)

(* While main has not written the masks no line rests and none is restored. *)
IrqInv ==
    /\ storm_cooldown \in Nat
    /\ booting => storm_cooldown = 0 /\ ~late_restored
    /\ MaskedOnlyToRest

(* A cooldown runs while it is not zero.                                   *)
LEMMA Rests == storm_cooldown \in Nat => (storm_cooldown > 0 <=> storm_cooldown # 0)
    OBVIOUS

(* The same after a step.                                                  *)
LEMMA RestsNext == storm_cooldown' \in Nat => (storm_cooldown' > 0 <=> storm_cooldown' # 0)
    OBVIOUS

(* No interrupt is pending at the start.                                   *)
LEMMA IrqStarts == IrqInit => IrqInv
<1>1. 0 \in Nat
    OBVIOUS
<1>2. QED
    BY <1>1, Rests, Zenon DEF IrqInit, IrqInv, MaskedOnlyToRest

(* Every step of the interrupt line.                                       *)
LEMMA IrqSteps == IrqInv /\ IrqNext => IrqInv'
<1> SUFFICES ASSUME IrqInv, IrqNext PROVE IrqInv'
    OBVIOUS
<1>0. 0 \in Nat /\ Cooldown \in Nat /\ Cooldown # 0 /\ storm_cooldown \in Nat
    BY CooldownAssumption DEF IrqInv
<1> USE DEF IrqInv, MaskedOnlyToRest
<1>1. ASSUME NEW d \in IrqDevices, register_named(d) PROVE IrqInv'
    BY <1>0, <1>1, RestsNext, Zenon DEF register_named, Registered
<1>2. ASSUME NEW d \in IrqDevices, raise(d) \/ take_lock(d) \/ free_lock(d) PROVE IrqInv'
    <2>1. UNCHANGED <<handlers, storm_cooldown, masked, late_restored, booting>>
        BY <1>2, Zenon DEF raise, take_lock, free_lock
    <2>2. QED
        BY <2>1, Rests, RestsNext, Zenon
<1>3. CASE boot_masks
    BY <1>0, <1>3, Zenon DEF boot_masks
<1>4. CASE shared_irq_dispatch
    <2>1. CASE storm_cooldown' = Cooldown /\ masked' = TRUE
        BY <1>0, <1>4, <2>1, RestsNext, Zenon DEF shared_irq_dispatch
    <2>2. CASE storm_cooldown' = storm_cooldown /\ ~masked'
        BY <1>0, <1>4, <2>2, Rests, RestsNext, Zenon DEF shared_irq_dispatch
    <2>3. QED
        BY <1>4, <2>1, <2>2, Zenon DEF shared_irq_dispatch
<1>5. CASE maintenance_tick
    <2>1. storm_cooldown > 0 /\ storm_cooldown # 0 /\ storm_cooldown' \in Nat
        BY <1>0, <1>5 DEF maintenance_tick
    <2>2. storm_cooldown' = 0 <=> storm_cooldown = 1
        BY <1>0, <1>5 DEF maintenance_tick
    <2>3. ~booting /\ masked
        BY <1>0, <2>1, Zenon
    <2>4. QED
        BY <1>5, <2>1, <2>2, <2>3, RestsNext, Zenon DEF maintenance_tick, Rearm
<1>6. CASE late_restore_once
    BY <1>0, <1>6, Rests, RestsNext, Zenon DEF late_restore_once, Restores
<1>7. QED
    BY <1>1, <1>2, <1>3, <1>4, <1>5, <1>6, Zenon DEF IrqNext

(***************************************************************************)
(* The PC Card socket.                                                     *)
(***************************************************************************)
Polls_pc == {"idle", "arm", "count", "calm", "act", "bind", "remove"}

(* Nobody but the poll changes what it loaded of CARD_LIVE, and it binds only
   in a socket that is not live.                                           *)
CardInv ==
    /\ live \in BOOLEAN /\ debounced \in Int
    /\ poll \in [pc : Polls_pc, present : BOOLEAN, live : BOOLEAN, left : Int]
    /\ poll.pc # "idle" => poll.live = live
    /\ poll.pc = "bind" => ~poll.live
    /\ NodeOfActiveCard

(* Only a card that is there and is a disk is bound as one.                *)
LEMMA BoundDisk ==
    ASSUME NEW c, "disk" \in Bound(c)
    PROVE  c # "none" /\ c # "modem"
    BY DEF Bound, prepare_socket, bind_by_cis, read_cis

(* The card slot at the start.                                             *)
LEMMA CardStarts == CardInit => CardInv
<1> SUFFICES ASSUME CardInit PROVE CardInv
    OBVIOUS
<1>1. live \in BOOLEAN /\ debounced \in Int /\ poll = NoPoll
    BY DEF CardInit
<1>2. NodeOfActiveCard
    BY BoundDisk DEF CardInit, NodeOfActiveCard
<1>3. QED
    BY <1>1, <1>2 DEF CardInv, NoPoll, Polls_pc

(* Every step of the card slot.                                            *)
LEMMA CardSteps == CardInv /\ CardNext => CardInv'
<1> SUFFICES ASSUME CardInv, CardNext PROVE CardInv'
    OBVIOUS
<1> USE DEF CardInv, NodeOfActiveCard, NoPoll, Polls_pc
<1>1. CASE insert \/ eject
    BY <1>1 DEF insert, eject
<1>2. CASE pcmcia_irq_handler
    BY <1>2, DebounceAssumption DEF pcmcia_irq_handler
<1>3. CASE poll_load
    <2>1. UNCHANGED <<live, active, cf_node, debounced>>
        BY <1>3, Zenon DEF poll_load
    <2>2. PICK pc, b : /\ pc \in {"arm", "count", "calm"} /\ b \in BOOLEAN
                       /\ poll' = [pc |-> pc, present |-> b, live |-> live, left |-> debounced]
        BY <1>3, Zenon DEF poll_load
    <2>3. QED
        BY <2>1, <2>2
<1>4. CASE poll_count
    BY <1>4, DebounceAssumption DEF poll_count
<1>5. CASE poll_act
    BY <1>5 DEF poll_act
<1>6. CASE disconnect_card
    <2>1. live' = FALSE /\ active' = "none" /\ cf_node' = "none" /\ poll' = NoPoll /\ debounced' = debounced
        BY <1>6, Zenon DEF disconnect_card
    <2>2. live' \in BOOLEAN /\ cf_node' = active' /\ active' # "modem" /\ (active' # "none" => live')
        BY <2>1, Zenon
    <2>3. QED
        BY <2>1, <2>2
<1>7. CASE bind_card
    <2>1. active = "none" /\ cf_node = "none"
        <3>1. poll.pc = "bind" /\ poll.pc # "idle"
            BY <1>7 DEF bind_card
        <3>2. ~live
            BY <3>1, Zenon
        <3>3. QED
            BY <3>2, Zenon
    <2>2. PICK b \in Bound(card) :
            /\ live' = (b # "failed")
            /\ active' = IF b = "disk" THEN card ELSE active
            /\ cf_node' = IF b = "disk" THEN card ELSE cf_node
        BY <1>7, Zenon DEF bind_card
    <2>3. live' \in BOOLEAN /\ cf_node' = active' /\ active' # "modem" /\ (active' # "none" => live')
        BY <2>1, <2>2, BoundDisk, Zenon
    <2>4. poll' = NoPoll /\ debounced' = debounced
        BY <1>7, Zenon DEF bind_card
    <2>5. QED
        BY <2>3, <2>4
<1>8. QED
    BY <1>1, <1>2, <1>3, <1>4, <1>5, <1>6, <1>7 DEF CardNext, CardPoll

(***************************************************************************)
(* USB.                                                                    *)
(***************************************************************************)

(* The tables of UsbTablesAgree, between any two steps; addresses in them are
   older than the next one.                                                *)
UsbAgree(U, D, N, next) ==
    /\ \A a \in DOMAIN D : D[a].port[2] = "root" => D[a].port \in DOMAIN U /\ U[D[a].port] = Record(a, "usb-storage")
    /\ \A k \in DOMAIN U : U[k].driver = "usb-storage" => U[k].addr \in DOMAIN D
    /\ N = {a \in DOMAIN D : D[a].media = "media"}
    /\ \A j, k \in DOMAIN U : U[j].addr = U[k].addr => j = k
    /\ next \in Nat
    /\ \A k \in DOMAIN U : U[k].addr \in Nat /\ U[k].addr < next
    /\ \A a \in DOMAIN D : a \in Nat /\ a < next

Unused(a, U, D, next) == a \in Nat /\ a < next /\ a \notin DOMAIN D /\ \A k \in DOMAIN U : U[k].addr # a

(* The port being enumerated has no record, and the address it was given is
   nobody else's.                                                          *)
UsbInv ==
    /\ UsbAgree(usbdevs, disks, nodes, next_addr)
    /\ hub_task = At(hub_task.pc, hub_task.port, hub_task.addr)
    /\ hub_task.pc # "idle" => Root(Here) \notin DOMAIN usbdevs
    /\ hub_task.pc \in {"address", "bind"} => Unused(hub_task.addr, usbdevs, disks, next_addr)

(* A device that is no disk leaves the table.                              *)
LEMMA ForgetRecord ==
    ASSUME NEW U, NEW D, NEW N, NEW next, UsbAgree(U, D, N, next), NEW p, Root(p) \in DOMAIN U,
           U[Root(p)].driver # "usb-storage"
    PROVE  UsbAgree(Drop(U, {Root(p)}), D, N, next)
<1>1. PICK V : V = Drop(U, {Root(p)})
    OBVIOUS
<1>2. DOMAIN V = DOMAIN U \ {Root(p)} /\ \A k \in DOMAIN V : V[k] = U[k]
    BY <1>1 DEF Drop
<1>3. ASSUME NEW a \in DOMAIN D, D[a].port[2] = "root" PROVE D[a].port \in DOMAIN V /\ V[D[a].port] = Record(a, "usb-storage")
    <2>1. D[a].port \in DOMAIN U /\ U[D[a].port] = Record(a, "usb-storage")
        BY <1>3 DEF UsbAgree
    <2>2. D[a].port # Root(p)
        BY <2>1 DEF Record
    <2>3. QED
        BY <1>2, <2>1, <2>2
<1>4. QED
    BY <1>1, <1>2, <1>3 DEF UsbAgree

(* A disk leaves the table, the disks and their nodes.                     *)
LEMMA ForgetDisk ==
    ASSUME NEW U, NEW D, NEW N, NEW next, UsbAgree(U, D, N, next), NEW p, Root(p) \in DOMAIN U,
           U[Root(p)].driver = "usb-storage", NEW b, b = U[Root(p)].addr
    PROVE  b \in DOMAIN D /\ UsbAgree(Drop(U, {Root(p)}), Drop(D, {b}), N \ {b}, next)
<1>1. PICK V : V = Drop(U, {Root(p)})
    OBVIOUS
<1>2. DOMAIN V = DOMAIN U \ {Root(p)} /\ \A k \in DOMAIN V : V[k] = U[k]
    BY <1>1 DEF Drop
<1>3. PICK E : E = Drop(D, {b})
    OBVIOUS
<1>4. DOMAIN E = DOMAIN D \ {b} /\ \A a \in DOMAIN E : E[a] = D[a]
    BY <1>3 DEF Drop
<1>5. ASSUME NEW a \in DOMAIN E, E[a].port[2] = "root" PROVE E[a].port \in DOMAIN V /\ V[E[a].port] = Record(a, "usb-storage")
    <2>1. D[a].port \in DOMAIN U /\ U[D[a].port] = Record(a, "usb-storage") /\ a # b /\ E[a] = D[a]
        BY <1>4, <1>5 DEF UsbAgree
    <2>2. D[a].port # Root(p)
        BY <2>1 DEF Record
    <2>3. QED
        BY <1>2, <2>1, <2>2
<1>6. \A k \in DOMAIN V : V[k].driver = "usb-storage" => V[k].addr \in DOMAIN E
    BY <1>2, <1>4 DEF UsbAgree
<1>7. N \ {b} = {a \in DOMAIN E : E[a].media = "media"}
    BY <1>4 DEF UsbAgree
<1>8. b \in DOMAIN D /\ next \in Nat
    BY DEF UsbAgree
<1>9. \A j, k \in DOMAIN V : V[j].addr = V[k].addr => j = k
    BY <1>2 DEF UsbAgree
<1>10. /\ \A k \in DOMAIN V : V[k].addr \in Nat /\ V[k].addr < next
       /\ \A a \in DOMAIN E : a \in Nat /\ a < next
    BY <1>2, <1>4 DEF UsbAgree
<1>11. QED
    BY <1>1, <1>3, <1>5, <1>6, <1>7, <1>8, <1>9, <1>10 DEF UsbAgree

(* A record more, for a device the disk driver does not hold.              *)
LEMMA AddRecord ==
    ASSUME NEW U, NEW D, NEW N, NEW next, UsbAgree(U, D, N, next), NEW r, r \notin DOMAIN U,
           NEW b, Unused(b, U, D, next), NEW driver, driver # "usb-storage"
    PROVE  UsbAgree(Put(U, r, Record(b, driver)), D, N, next)
<1>1. PICK V : V = Put(U, r, Record(b, driver))
    OBVIOUS
<1>2. DOMAIN V = DOMAIN U \cup {r} /\ V[r] = Record(b, driver) /\ \A k \in DOMAIN U : V[k] = U[k]
    BY <1>1 DEF Put
<1>3. V[r].addr = b /\ V[r].driver = driver
    BY <1>2 DEF Record
<1>4. \A j, k \in DOMAIN V : V[j].addr = V[k].addr => j = k
    BY <1>2, <1>3 DEF UsbAgree, Unused
<1>5. \A k \in DOMAIN V : V[k].driver = "usb-storage" => V[k].addr \in DOMAIN D
    BY <1>2, <1>3 DEF UsbAgree, Unused
<1>6. \A k \in DOMAIN V : V[k].addr \in Nat /\ V[k].addr < next
    BY <1>2, <1>3 DEF UsbAgree, Unused
<1>7. \A a \in DOMAIN D : D[a].port[2] = "root" => D[a].port \in DOMAIN V /\ V[D[a].port] = Record(a, "usb-storage")
    BY <1>2 DEF UsbAgree
<1>8. QED
    BY <1>1, <1>4, <1>5, <1>6, <1>7 DEF UsbAgree

(* A disk more, at a port whose record may be that of a device that is gone
   from behind a hub.                                                      *)
LEMMA AddDisk ==
    ASSUME NEW U, NEW D, NEW N, NEW next, UsbAgree(U, D, N, next), NEW r, r \notin DOMAIN U \/ r[2] = "hub",
           NEW b, Unused(b, U, D, next), NEW m
    PROVE  UsbAgree(Put(U, r, Record(b, "usb-storage")), Put(D, b, [port |-> r, media |-> m]),
                    IF m = "media" THEN N \cup {b} ELSE N, next)
<1>1. PICK V : V = Put(U, r, Record(b, "usb-storage"))
    OBVIOUS
<1>2. DOMAIN V = DOMAIN U \cup {r} /\ V[r] = Record(b, "usb-storage") /\ \A k \in DOMAIN U : k # r => V[k] = U[k]
    BY <1>1 DEF Put
<1>3. V[r].addr = b /\ V[r].driver = "usb-storage"
    BY <1>2 DEF Record
<1>4. PICK E : E = Put(D, b, [port |-> r, media |-> m])
    OBVIOUS
<1>5. DOMAIN E = DOMAIN D \cup {b} /\ E[b] = [port |-> r, media |-> m] /\ \A a \in DOMAIN D : a # b => E[a] = D[a]
    BY <1>4 DEF Put
<1>6. E[b].port = r /\ E[b].media = m
    BY <1>5
<1>7. \A j, k \in DOMAIN V : V[j].addr = V[k].addr => j = k
    BY <1>2, <1>3 DEF UsbAgree, Unused
<1>8. \A k \in DOMAIN V : V[k].driver = "usb-storage" => V[k].addr \in DOMAIN E
    BY <1>2, <1>3, <1>5 DEF UsbAgree, Unused
<1>9. /\ \A k \in DOMAIN V : V[k].addr \in Nat /\ V[k].addr < next
      /\ \A a \in DOMAIN E : a \in Nat /\ a < next
    BY <1>2, <1>3, <1>5 DEF UsbAgree, Unused
<1>10. ASSUME NEW a \in DOMAIN E, E[a].port[2] = "root" PROVE E[a].port \in DOMAIN V /\ V[E[a].port] = Record(a, "usb-storage")
    <2>1. CASE a = b
        BY <1>2, <1>6, <2>1
    <2>2. CASE a # b
        <3>1. D[a].port \in DOMAIN U /\ U[D[a].port] = Record(a, "usb-storage") /\ E[a] = D[a] /\ D[a].port[2] = "root"
            BY <1>5, <1>10, <2>2 DEF UsbAgree
        <3>2. D[a].port # r
            BY <3>1
        <3>3. QED
            BY <1>2, <3>1, <3>2
    <2>3. QED
        BY <2>1, <2>2
<1>11. (IF m = "media" THEN N \cup {b} ELSE N) = {a \in DOMAIN E : E[a].media = "media"}
    <2>1. b \notin DOMAIN D /\ N = {a \in DOMAIN D : D[a].media = "media"}
        BY DEF UsbAgree, Unused
    <2>2. QED
        BY <1>5, <1>6, <2>1
<1>12. next \in Nat
    BY DEF UsbAgree
<1>13. QED
    BY <1>1, <1>4, <1>7, <1>8, <1>9, <1>10, <1>11, <1>12 DEF UsbAgree

(* No device is known at the start.                                        *)
LEMMA UsbStarts == UsbInit => UsbInv
    BY DEF UsbInit, UsbInv, UsbAgree, Unused, NoEntries, At

(* An address that is handed out is nobody's.                              *)
LEMMA Handed ==
    ASSUME NEW U, NEW D, NEW N, NEW next, UsbAgree(U, D, N, next)
    PROVE  /\ UsbAgree(U, D, N, next + 1) /\ Unused(next, U, D, next + 1)
           /\ \A b : Unused(b, U, D, next) => Unused(b, U, D, next + 1) /\ b # next
    BY DEF UsbAgree, Unused

(* Every step of the USB tables.                                           *)
LEMMA UsbSteps == UsbInv /\ UsbNext => UsbInv'
<1> SUFFICES ASSUME UsbInv, UsbNext PROVE UsbInv'
    OBVIOUS
<1>1. UsbAgree(usbdevs, disks, nodes, next_addr)
    BY DEF UsbInv
<1>2. hub_task = At(hub_task.pc, hub_task.port, hub_task.addr)
    BY DEF UsbInv
<1>3. Idle.pc = "idle" /\ Idle = At(Idle.pc, Idle.port, Idle.addr)
    BY DEF Idle, At
<1>4. ASSUME UsbAgree(usbdevs', disks', nodes', next_addr'), hub_task' = Idle PROVE UsbInv'
    <2>1. hub_task'.pc = "idle" /\ hub_task' = At(hub_task'.pc, hub_task'.port, hub_task'.addr)
        BY <1>3, <1>4
    <2>2. QED
        BY <1>4, <2>1 DEF UsbInv
<1>5. ASSUME NEW p \in Ports, plug(p) \/ unplug(p) PROVE UsbInv'
    BY <1>5 DEF plug, unplug, UsbInv, Here
<1>6. CASE found
    <2>1. CASE hub_task' = Idle
        BY <1>1, <1>4, <1>6, <2>1 DEF found
    <2>2. CASE hub_task' # Idle
        <3>1. hub_task' = At("debounce", Here, 0) /\ Root(Here) \notin DOMAIN usbdevs
            BY <1>6, <2>2 DEF found
        <3>2. hub_task'.pc = "debounce" /\ hub_task'.port = Here /\ hub_task'.addr = 0
            BY <3>1 DEF At
        <3>3. QED
            BY <1>6, <1>1, <3>1, <3>2 DEF found, UsbInv, Here
    <2>3. QED
        BY <2>1, <2>2
<1>7. CASE gone
    <2>1. CASE Root(Here) \in DOMAIN usbdevs /\ usbdevs[Root(Here)].driver = "usb-storage"
        <3>1. PICK b : b = usbdevs[Root(Here)].addr
            OBVIOUS
        <3>2. b \in DOMAIN disks /\ UsbAgree(Drop(usbdevs, {Root(Here)}), Drop(disks, {b}), nodes \ {b}, next_addr)
            BY <1>1, <2>1, <3>1, ForgetDisk
        <3>3. usbdevs' = Drop(usbdevs, {Root(Here)}) /\ disks' = Drop(disks, {b}) /\ nodes' = nodes \ {b} /\ next_addr' = next_addr
            BY <1>7, <2>1, <3>1, <3>2 DEF gone, release
        <3>4. QED
            BY <1>4, <1>7, <3>2, <3>3 DEF gone
    <2>2. CASE Root(Here) \in DOMAIN usbdevs /\ usbdevs[Root(Here)].driver # "usb-storage"
        <3>1. UsbAgree(Drop(usbdevs, {Root(Here)}), disks, nodes, next_addr)
            BY <1>1, <2>2, ForgetRecord
        <3>2. QED
            BY <1>4, <1>7, <2>2, <3>1 DEF gone
    <2>3. CASE Root(Here) \notin DOMAIN usbdevs
        BY <1>1, <1>4, <1>7, <2>3 DEF gone
    <2>4. QED
        BY <2>1, <2>2, <2>3
<1>8. ASSUME NEW pc, hub_task' = [hub_task EXCEPT !.pc = pc], hub_task.pc # "idle",
             pc \in {"reset", "describe"} \/ (pc = "bind" /\ hub_task.pc = "address"),
             UNCHANGED <<usbdevs, disks, nodes, next_addr>>
      PROVE  UsbInv'
    <2>1. hub_task'.pc = pc /\ hub_task'.port = Here /\ hub_task'.addr = hub_task.addr
        BY <1>2, <1>8 DEF At, Here
    <2>2. hub_task' = At(hub_task'.pc, hub_task'.port, hub_task'.addr)
        BY <1>2, <1>8 DEF At
    <2>3. QED
        BY <1>8, <2>1, <2>2 DEF UsbInv, Here
<1>9. CASE debounce
    BY <1>1, <1>4, <1>8, <1>9 DEF debounce
<1>10. CASE reset_port
    BY <1>1, <1>4, <1>8, <1>10 DEF reset_port
<1>11. CASE describe
    <2>1. CASE hub_task' = Idle /\ next_addr' = next_addr
        BY <1>1, <1>4, <1>11, <2>1 DEF describe
    <2>2. CASE hub_task' = [hub_task EXCEPT !.pc = "address", !.addr = next_addr] /\ next_addr' = next_addr + 1
        <3>1. hub_task'.pc = "address" /\ hub_task'.port = Here /\ hub_task'.addr = next_addr
            BY <1>2, <2>2 DEF At, Here
        <3>2. hub_task' = At(hub_task'.pc, hub_task'.port, hub_task'.addr)
            BY <1>2, <2>2 DEF At
        <3>3. UNCHANGED <<usbdevs, disks, nodes>> /\ hub_task.pc = "describe"
            BY <1>11 DEF describe
        <3>4. UsbAgree(usbdevs, disks, nodes, next_addr + 1) /\ Unused(next_addr, usbdevs, disks, next_addr + 1)
            BY <1>1, Handed
        <3>5. Root(Here) \notin DOMAIN usbdevs
            BY <3>3 DEF UsbInv
        <3>6. QED
            BY <2>2, <3>1, <3>2, <3>3, <3>4, <3>5 DEF UsbInv, Here
    <2>3. QED
        BY <1>11, <2>1, <2>2 DEF describe, alloc_addr
<1>12. CASE set_address
    BY <1>1, <1>4, <1>8, <1>12 DEF set_address
<1>13. CASE bind_fails
    BY <1>1, <1>4, <1>13 DEF bind_fails
<1>14. CASE bind_device
    <2>1. Unused(hub_task.addr, usbdevs, disks, next_addr) /\ Root(Here) \notin DOMAIN usbdevs
        BY <1>14 DEF bind_device, UsbInv
    <2>2. PICK outcome, driver :
            /\ outcome \in {"refused", "empty", "media"}
            /\ probe_disk(hub_task.addr, Root(Here), outcome)
            /\ usbdevs' = Put(usbdevs, Root(Here), Record(hub_task.addr, driver))
            /\ outcome = "refused" => driver # "usb-storage"
            /\ outcome # "refused" => driver = "usb-storage"
        BY <1>14 DEF bind_device, best_match
    <2>3. hub_task' = Idle /\ next_addr' = next_addr
        BY <1>14 DEF bind_device
    <2>4. CASE outcome = "refused"
        <3>1. disks' = disks /\ nodes' = nodes
            BY <2>2, <2>4 DEF probe_disk
        <3>2. QED
            BY <1>1, <1>4, <2>1, <2>2, <2>3, <2>4, <3>1, AddRecord
    <2>5. CASE outcome # "refused"
        <3>1. /\ disks' = Put(disks, hub_task.addr, [port |-> Root(Here), media |-> outcome])
              /\ nodes' = IF outcome = "media" THEN nodes \cup {hub_task.addr} ELSE nodes
            BY <2>2, <2>5 DEF probe_disk
        <3>2. QED
            BY <1>1, <1>4, <2>1, <2>2, <2>3, <2>5, <3>1, AddDisk
    <2>6. QED
        BY <2>4, <2>5
<1>15. CASE bind_hub
    <2>1. Unused(hub_task.addr, usbdevs, disks, next_addr) /\ Root(Here) \notin DOMAIN usbdevs /\ hub_task' = Idle
        BY <1>15 DEF bind_hub, UsbInv
    <2>2. best_match("hub") # "usb-storage"
        BY DEF best_match
    <2>3. CASE usbdevs' = Put(usbdevs, Root(Here), Record(hub_task.addr, best_match("hub"))) /\ UNCHANGED <<disks, nodes, next_addr>>
        BY <1>1, <1>4, <2>1, <2>2, <2>3, AddRecord
    <2>4. CASE /\ next_addr' = next_addr + 1
               /\ \E outcome \in {"empty", "media"} : probe_disk(next_addr, BehindHub(Here), outcome)
               /\ usbdevs' = Put(Put(usbdevs, BehindHub(Here), Record(next_addr, "usb-storage")), Root(Here), Record(hub_task.addr, best_match("hub")))
        <3>1. PICK outcome \in {"empty", "media"} : probe_disk(next_addr, BehindHub(Here), outcome)
            BY <2>4
        <3>2. PICK r, a, b, U, D, N :
                /\ r = BehindHub(Here) /\ a = hub_task.addr /\ b = next_addr
                /\ U = Put(usbdevs, r, Record(b, "usb-storage"))
                /\ D = Put(disks, b, [port |-> r, media |-> outcome])
                /\ N = (IF outcome = "media" THEN nodes \cup {b} ELSE nodes)
            OBVIOUS
        <3>3. disks' = D /\ nodes' = N
            BY <3>1, <3>2 DEF probe_disk
        <3>4. r[2] = "hub" /\ r # Root(Here)
            BY <3>2 DEF BehindHub, Root
        <3>5. /\ UsbAgree(usbdevs, disks, nodes, next_addr + 1) /\ Unused(b, usbdevs, disks, next_addr + 1)
              /\ Unused(a, usbdevs, disks, next_addr + 1) /\ a # b
            BY <1>1, <2>1, <3>2, Handed
        <3>6. UsbAgree(U, D, N, next_addr + 1)
            BY <3>2, <3>4, <3>5, AddDisk
        <3>7. DOMAIN U = DOMAIN usbdevs \cup {r} /\ U[r] = Record(b, "usb-storage") /\ \A k \in DOMAIN usbdevs : k # r => U[k] = usbdevs[k]
            BY <3>2 DEF Put
        <3>8. DOMAIN D = DOMAIN disks \cup {b}
            BY <3>2 DEF Put
        <3>9. U[r].addr = b
            BY <3>7 DEF Record
        <3>10. Unused(a, U, D, next_addr + 1) /\ Root(Here) \notin DOMAIN U
            BY <2>1, <3>4, <3>5, <3>7, <3>8, <3>9 DEF Unused
        <3>11. UsbAgree(Put(U, Root(Here), Record(a, best_match("hub"))), D, N, next_addr + 1)
            BY <2>2, <3>6, <3>10, AddRecord
        <3>12. QED
            BY <1>4, <2>1, <2>4, <3>2, <3>3, <3>11
    <2>5. QED
        BY <1>15, <2>3, <2>4 DEF bind_hub, alloc_addr
<1>16. QED
    BY <1>5, <1>6, <1>7, <1>9, <1>10, <1>11, <1>12, <1>13, <1>14, <1>15 DEF UsbNext, UsbStep

(* The invariant gives what the run checks of them.                        *)
LEMMA UsbHolds == UsbInv => UsbTablesAgree
    BY DEF UsbInv, UsbAgree, UsbTablesAgree

(***************************************************************************)
(* Loops over a sequence.  What a recursive function computes is shown     *)
(* from its least counterexample.                                          *)
(***************************************************************************)

(* The least element of a set of naturals.                                 *)
LEMMA LeastMember ==
    ASSUME NEW S \in SUBSET Nat, S # {}
    PROVE  \E m \in S : \A x \in S : m <= x
<1>1. PICK m \in S : \A x \in S : ~(<<x, m>> \in OpToRel(<, Nat))
    BY NatLessThanWellFounded, WFMin, Zenon
<1>2. \A x \in S : ~(x < m)
    BY <1>1 DEF OpToRel
<1>3. QED
    BY <1>2

(* f[n] is what the loop of Omitting has kept of the first n elements.     *)
KeptTo(f, s, S, m) ==
    /\ f = [i \in 0..m |-> f[i]] /\ f[0] = <<>>
    /\ \A n \in 1..m : f[n] = IF s[n] \in S THEN f[n - 1] ELSE Append(f[n - 1], s[n])

(* The filter of a list runs for any length.                               *)
LEMMA KeptExists ==
    ASSUME NEW s, NEW S, NEW l \in Nat
    PROVE  \E f : KeptTo(f, s, S, l)
<1>1. PICK Bad : Bad = {m \in 0..l : ~\E f : KeptTo(f, s, S, m)}
    OBVIOUS
<1>2. SUFFICES ASSUME Bad # {} PROVE FALSE
    BY <1>1
<1>3. Bad \in SUBSET Nat
    BY <1>1
<1>4. PICK m \in Bad : \A x \in Bad : m <= x
    BY <1>2, <1>3, LeastMember
<1>5. m # 0
    <2>1. PICK f : f = [n \in 0..0 |-> <<>>]
        OBVIOUS
    <2>2. KeptTo(f, s, S, 0)
        BY <2>1 DEF KeptTo
    <2>3. QED
        BY <1>1, <1>4, <2>2
<1>6. m - 1 \in 0..l /\ m \in 1..l /\ m - 1 \notin Bad
    BY <1>1, <1>3, <1>4, <1>5
<1>7. PICK f : KeptTo(f, s, S, m - 1)
    BY <1>1, <1>6
<1>8. PICK g : g = [n \in 0..m |-> IF n < m THEN f[n] ELSE IF s[m] \in S THEN f[m - 1] ELSE Append(f[m - 1], s[m])]
    OBVIOUS
<1>9. g = [i \in 0..m |-> g[i]] /\ g[0] = <<>>
    BY <1>6, <1>7, <1>8 DEF KeptTo
<1>10. ASSUME NEW n \in 1..m PROVE g[n] = IF s[n] \in S THEN g[n - 1] ELSE Append(g[n - 1], s[n])
    <2>0. n \in 0..m /\ n - 1 \in 0..m /\ n - 1 < m /\ m \in Nat
        BY <1>6
    <2>1. g[n - 1] = f[n - 1]
        BY <1>8, <2>0
    <2>2. CASE n = m
        BY <1>8, <2>0, <2>1, <2>2
    <2>3. CASE n # m
        <3>1. n < m /\ n \in 1..(m - 1)
            BY <2>0, <2>3
        <3>2. g[n] = f[n]
            BY <1>8, <2>0, <3>1
        <3>3. QED
            BY <1>7, <2>1, <3>1, <3>2 DEF KeptTo
    <2>4. QED
        BY <2>2, <2>3
<1>11. KeptTo(g, s, S, m)
    BY <1>9, <1>10 DEF KeptTo
<1>12. QED
    BY <1>1, <1>4, <1>11

Kept(s, S) ==
    CHOOSE kept : kept = [i \in 0..Len(s) |-> IF i = 0 THEN <<>> ELSE IF s[i] \in S THEN kept[i - 1] ELSE Append(kept[i - 1], s[i])]

(* Omitting is the end of that run.                                        *)
LEMMA OmittingKept ==
    ASSUME NEW s, Len(s) \in Nat, NEW S
    PROVE  \E f : KeptTo(f, s, S, Len(s)) /\ Omitting(s, S) = f[Len(s)]
<1>1. PICK f : KeptTo(f, s, S, Len(s))
    BY KeptExists
<1>2. f = [i \in 0..Len(s) |-> IF i = 0 THEN <<>> ELSE IF s[i] \in S THEN f[i - 1] ELSE Append(f[i - 1], s[i])]
    <2>1. \A i \in 0..Len(s) : i = 0 \/ i \in 1..Len(s)
        OBVIOUS
    <2>2. \A i \in 0..Len(s) : f[i] = IF i = 0 THEN <<>> ELSE IF s[i] \in S THEN f[i - 1] ELSE Append(f[i - 1], s[i])
        BY <1>1, <2>1, Zenon DEF KeptTo
    <2>3. f = [i \in 0..Len(s) |-> f[i]]
        BY <1>1 DEF KeptTo
    <2>4. QED
        BY <2>2, <2>3, Zenon
<1>3. PICK g : g = Kept(s, S)
    OBVIOUS
<1>4. g = [i \in 0..Len(s) |-> IF i = 0 THEN <<>> ELSE IF s[i] \in S THEN g[i - 1] ELSE Append(g[i - 1], s[i])]
    BY <1>2, <1>3 DEF Kept
<1>5. KeptTo(g, s, S, Len(s))
    <2>1. 0 \in 0..Len(s) /\ \A i \in 1..Len(s) : i \in 0..Len(s) /\ i # 0
        OBVIOUS
    <2>2. \A i \in 0..Len(s) : g[i] = IF i = 0 THEN <<>> ELSE IF s[i] \in S THEN g[i - 1] ELSE Append(g[i - 1], s[i])
        BY <1>4, Zenon
    <2>3. g = [i \in 0..Len(s) |-> g[i]]
        BY <1>4, <2>2, Zenon
    <2>4. QED
        BY <2>1, <2>2, <2>3, Zenon DEF KeptTo
<1>6. Omitting(s, S) = Kept(s, S)[Len(s)]
    BY DEF Omitting, Kept
<1>7. QED
    BY <1>3, <1>5, <1>6

Distinct(s) == \A i, j \in DOMAIN s : s[i] = s[j] => i = j

KeptWell(q, s, S, T, m) ==
    /\ q \in Seq(T) /\ Len(q) <= m
    /\ Range(q) = {s[i] : i \in 1..m} \ S
    /\ Distinct(s) => Distinct(q)

(* The loop keeps the other members, in a sequence of no more, and none
   twice that was there once.                                              *)
LEMMA OmittingFacts ==
    ASSUME NEW T, NEW s \in Seq(T), NEW S
    PROVE  /\ Omitting(s, S) \in Seq(T) /\ Len(Omitting(s, S)) <= Len(s)
           /\ Range(Omitting(s, S)) = Range(s) \ S
           /\ Distinct(s) => Distinct(Omitting(s, S))
<1>0. Len(s) \in Nat /\ DOMAIN s = 1..Len(s)
    BY LenProperties
<1>1. PICK f : KeptTo(f, s, S, Len(s)) /\ Omitting(s, S) = f[Len(s)]
    BY <1>0, OmittingKept
<1>2. PICK Bad : Bad = {m \in 0..Len(s) : ~KeptWell(f[m], s, S, T, m)}
    OBVIOUS
<1>3. Bad = {}
    <2>1. SUFFICES ASSUME Bad # {} PROVE FALSE
        OBVIOUS
    <2>2. Bad \in SUBSET Nat
        BY <1>2
    <2>3. PICK m \in Bad : \A x \in Bad : m <= x
        BY <2>1, <2>2, LeastMember
    <2>4. m # 0
        <3>1. f[0] = <<>> /\ <<>> \in Seq(T) /\ Len(<<>>) = 0 /\ DOMAIN <<>> = {}
            BY <1>1 DEF KeptTo
        <3>2. Range(<<>>) = {} /\ Distinct(<<>>)
            BY <3>1 DEF Range, Distinct
        <3>3. {s[i] : i \in 1..0} = {}
            OBVIOUS
        <3>4. QED
            BY <1>2, <2>3, <3>1, <3>2, <3>3 DEF KeptWell
    <2>5. m \in 1..Len(s) /\ m - 1 \in 0..Len(s) /\ m - 1 \notin Bad /\ m - 1 \in Nat
        BY <1>0, <1>2, <2>2, <2>3, <2>4
    <2>6. PICK k, r : k = m - 1 /\ r = f[k]
        OBVIOUS
    <2>7. r \in Seq(T) /\ Len(r) <= k /\ Range(r) = {s[i] : i \in 1..k} \ S /\ (Distinct(s) => Distinct(r))
        <3>1. KeptWell(r, s, S, T, k)
            BY <1>2, <2>5, <2>6
        <3>2. QED
            BY <3>1, Zenon DEF KeptWell
    <2>8. s[m] \in T /\ f[m] = IF s[m] \in S THEN r ELSE Append(r, s[m])
        <3>1. s[m] \in T
            BY <2>5, ElementOfSeq
        <3>2. QED
            BY <1>1, <2>5, <2>6, <3>1, Zenon DEF KeptTo
    <2>9. {s[i] : i \in 1..m} = {s[i] : i \in 1..k} \cup {s[m]}
        <3>1. 1..m = 1..k \cup {m}
            BY <2>5, <2>6
        <3>2. QED
            BY <3>1
    <2>10. CASE s[m] \in S
        <3>1. Len(r) <= m
            BY <2>5, <2>6, <2>7, LenProperties
        <3>2. Range(r) = {s[i] : i \in 1..m} \ S
            BY <2>7, <2>9, <2>10
        <3>3. KeptWell(r, s, S, T, m)
            BY <2>7, <3>1, <3>2 DEF KeptWell
        <3>4. QED
            BY <1>2, <2>3, <2>8, <2>10, <3>3
    <2>11. CASE s[m] \notin S
        <3>1. PICK q : q = Append(r, s[m])
            OBVIOUS
        <3>2. q \in Seq(T) /\ Len(q) = Len(r) + 1 /\ q[Len(r) + 1] = s[m] /\ \A n \in 1..Len(r) : q[n] = r[n]
            BY <2>7, <2>8, <3>1, AppendProperties
        <3>3. Len(r) \in Nat /\ DOMAIN r = 1..Len(r) /\ DOMAIN q = 1..(Len(r) + 1)
            BY <2>7, <3>2, LenProperties
        <3>4. Range(q) = Range(r) \cup {s[m]}
            BY <3>2, <3>3 DEF Range
        <3>5. ASSUME Distinct(s) PROVE Distinct(q)
            <4>1. s[m] \notin Range(r)
                BY <1>0, <2>5, <2>6, <2>7, <3>5 DEF Distinct
            <4>2. \A i \in 1..Len(r) : r[i] # s[m]
                BY <3>3, <4>1 DEF Range
            <4>3. QED
                BY <2>7, <3>2, <3>3, <3>5, <4>2 DEF Distinct
        <3>6. Len(q) <= m
            BY <2>5, <2>6, <2>7, <3>2, <3>3
        <3>7. Range(q) = {s[i] : i \in 1..m} \ S
            BY <2>7, <2>9, <2>11, <3>4
        <3>8. f[m] = q
            BY <2>8, <2>11, <3>1
        <3>9. QED
            <4>1. KeptWell(q, s, S, T, m)
                BY <3>2, <3>5, <3>6, <3>7 DEF KeptWell
            <4>2. QED
                BY <1>2, <2>3, <3>8, <4>1
    <2>12. QED
        BY <2>10, <2>11
<1>4. Len(s) \in 0..Len(s)
    BY <1>0
<1>5. Range(s) = {s[i] : i \in 1..Len(s)}
    BY <1>0 DEF Range
<1>6. QED
    <2>1. KeptWell(f[Len(s)], s, S, T, Len(s))
        BY <1>2, <1>3, <1>4
    <2>2. QED
        BY <1>1, <1>5, <2>1, Zenon DEF KeptWell

(***************************************************************************)
(* The bulk schedule.                                                      *)
(***************************************************************************)
EdType == [head : {0, 1}, tail : {0, 1}, next : BulkEps \cup {NoEd}, dummy : {0, 1}, halted : BOOLEAN]
TdType == [{0, 1} -> [cc : {"not_accessed", "ok", "failed"}, buf : Nat]]
XferType == [pc : {"idle", "start", "wait", "end"}, ep : BulkEps \cup {NoEd}, td : {0, 1}, buf : Nat, ok : BOOLEAN, cut : BOOLEAN]

Linked(s, E) ==
    /\ s \in Seq(BulkEps) /\ Distinct(s) /\ E \in [Range(s) -> EdType]
    /\ \A i \in DOMAIN s : E[s[i]].next = IF i < Len(s) THEN s[i + 1] ELSE NoEd

(* The TD the driver waits for is still its own: it names the driver's
   buffer, and if it is done the data has been moved.                      *)
Awaited(x, T, M) ==
    x.pc \in {"start", "wait"} =>
        /\ ~x.ok
        /\ ~x.cut => /\ x.ep \in DOMAIN T /\ T[x.ep][x.td].buf = x.buf
                     /\ T[x.ep][x.td].cc = "ok" => x.buf \in M

OhciInv ==
    /\ Linked(bulk_eps, ed) /\ td \in [Range(bulk_eps) -> TdType]
    /\ xfer \in XferType /\ transfers \in Nat
    /\ Awaited(xfer, td, moved) /\ CompletedIsMine

(* The controller at the start.                                            *)
LEMMA OhciStarts == OhciInit => OhciInv
<1> SUFFICES ASSUME OhciInit PROVE OhciInv
    OBVIOUS
<1>1. bulk_eps = <<>> /\ DOMAIN bulk_eps = {} /\ bulk_eps \in Seq(BulkEps)
    BY DEF OhciInit
<1>2. Range(bulk_eps) = {}
    BY <1>1 DEF Range
<1>3. ed \in [{} -> EdType] /\ td \in [{} -> TdType]
    BY DEF OhciInit, NoEntries
<1>4. xfer \in XferType /\ xfer.pc = "idle"
    BY DEF OhciInit, XferType, Free
<1>5. Linked(bulk_eps, ed)
    BY <1>1, <1>2, <1>3 DEF Linked, Distinct
<1>6. QED
    BY <1>2, <1>3, <1>4, <1>5 DEF OhciInit, OhciInv, Awaited, CompletedIsMine

(* A new ED is behind the last one.                                        *)
LEMMA LinkedAppend ==
    ASSUME Linked(bulk_eps, ed), NEW e \in BulkEps, ~Live(e)
    PROVE  Linked(Append(bulk_eps, e), AddEp(e)) /\ AddEp(e)[e] = NewEp /\ Range(Append(bulk_eps, e)) = Range(bulk_eps) \cup {e}
<1>1. bulk_eps \in Seq(BulkEps) /\ Distinct(bulk_eps) /\ ed \in [Range(bulk_eps) -> EdType]
    BY DEF Linked
<1>2. Len(bulk_eps) \in Nat /\ DOMAIN bulk_eps = 1..Len(bulk_eps)
    BY <1>1, LenProperties
<1>3. PICK s, n : s = Append(bulk_eps, e) /\ n = Len(bulk_eps)
    OBVIOUS
<1>4. s \in Seq(BulkEps) /\ Len(s) = n + 1 /\ s[n + 1] = e /\ \A i \in 1..n : s[i] = bulk_eps[i]
    BY <1>1, <1>3, AppendProperties
<1>5. DOMAIN s = 1..(n + 1) /\ n \in Nat
    BY <1>2, <1>3, <1>4, LenProperties
<1>6. Range(s) = Range(bulk_eps) \cup {e} /\ e \notin Range(bulk_eps)
    BY <1>1, <1>2, <1>3, <1>4, <1>5 DEF Range, Live
<1>7. \A i \in 1..n : bulk_eps[i] # e
    BY <1>2, <1>3, <1>6 DEF Range
<1>8. Distinct(s)
    BY <1>1, <1>2, <1>3, <1>4, <1>5, <1>7 DEF Distinct
<1>9. NewEp \in EdType /\ NewEp.next = NoEd
    BY DEF NewEp, EdType
<1>10. PICK E : E = IF bulk_eps = <<>> THEN ed ELSE [ed EXCEPT ![Last(bulk_eps)].next = e]
    OBVIOUS
<1>11. PICK A : A = AddEp(e)
    OBVIOUS
<1>12. DOMAIN A = DOMAIN E \cup {e} /\ A[e] = NewEp /\ \A x \in DOMAIN E : x # e => A[x] = E[x]
    BY <1>10, <1>11 DEF AddEp, Put
<1>13. CASE n = 0
    <2>1. bulk_eps = <<>> /\ E = ed /\ Range(bulk_eps) = {}
        BY <1>1, <1>2, <1>3, <1>10, <1>13, EmptySeq DEF Range
    <2>2. A \in [Range(s) -> EdType] /\ \A i \in DOMAIN s : i = n + 1
        <3>1. DOMAIN A = Range(s) /\ \A x \in Range(s) : A[x] \in EdType
            BY <1>1, <1>6, <1>9, <1>12, <2>1
        <3>2. A = [x \in DOMAIN A |-> A[x]]
            BY <1>11 DEF AddEp, Put
        <3>3. \A i \in DOMAIN s : i = n + 1
            BY <1>5, <1>13
        <3>4. QED
            BY <3>1, <3>2, <3>3
    <2>3. QED
        BY <1>3, <1>4, <1>5, <1>6, <1>8, <1>9, <1>11, <1>12, <1>13, <2>2 DEF Linked
<1>14. CASE n # 0
    <2>1. bulk_eps # <<>> /\ Last(bulk_eps) = bulk_eps[n] /\ n \in 1..n
        BY <1>1, <1>3, <1>5, <1>14, EmptySeq DEF Last
    <2>2. PICK l : l = bulk_eps[n]
        OBVIOUS
    <2>3. l \in Range(bulk_eps) /\ E = [ed EXCEPT ![l].next = e]
        BY <1>2, <1>3, <1>10, <2>1, <2>2 DEF Range
    <2>4. E \in [Range(bulk_eps) -> EdType] /\ E[l].next = e /\ \A x \in Range(bulk_eps) : x # l => E[x] = ed[x]
        BY <1>1, <2>3 DEF EdType
    <2>5. A \in [Range(s) -> EdType]
        <3>1. DOMAIN A = Range(s) /\ \A x \in Range(s) : A[x] \in EdType
            BY <1>6, <1>9, <1>12, <2>4
        <3>2. A = [x \in DOMAIN A |-> A[x]]
            BY <1>11 DEF AddEp, Put
        <3>3. QED
            BY <3>1, <3>2
    <2>6. ASSUME NEW i \in DOMAIN s PROVE A[s[i]].next = IF i < Len(s) THEN s[i + 1] ELSE NoEd
        <3>1. CASE i = n + 1
            BY <1>4, <1>5, <1>9, <1>12, <3>1
        <3>2. CASE i = n
            <4>1. s[i] = l /\ A[s[i]] = E[l] /\ i < Len(s) /\ s[i + 1] = e
                BY <1>4, <1>5, <1>7, <1>12, <2>1, <2>2, <2>3, <2>4, <3>2
            <4>2. QED
                BY <2>4, <4>1
        <3>3. CASE i < n
            <4>1. i \in 1..n /\ i + 1 \in 1..n /\ i < Len(s)
                BY <1>4, <1>5, <3>3
            <4>2. s[i] = bulk_eps[i] /\ s[i + 1] = bulk_eps[i + 1] /\ bulk_eps[i] \in Range(bulk_eps)
                BY <1>2, <1>3, <1>4, <4>1 DEF Range
            <4>3. bulk_eps[i] # l
                BY <1>1, <1>2, <1>3, <2>1, <2>2, <3>3, <4>1 DEF Distinct
            <4>4. A[s[i]] = ed[bulk_eps[i]]
                BY <1>7, <1>12, <2>4, <4>1, <4>2, <4>3
            <4>5. ed[bulk_eps[i]].next = bulk_eps[i + 1]
                BY <1>2, <1>3, <3>3, <4>1 DEF Linked
            <4>6. QED
                BY <4>1, <4>2, <4>4, <4>5
        <3>4. QED
            BY <1>5, <3>1, <3>2, <3>3
    <2>7. QED
        BY <1>3, <1>4, <1>6, <1>8, <1>11, <1>12, <2>5, <2>6 DEF Linked
<1>15. QED
    BY <1>13, <1>14

(* The list without an ED is linked again.                                 *)
LEMMA LinkedEdit ==
    ASSUME Linked(bulk_eps, ed), NEW e, NEW left, left = Omitting(bulk_eps, {e})
    PROVE  Linked(left, Relinked(left)) /\ Range(left) = Range(bulk_eps) \ {e}
<1>1. bulk_eps \in Seq(BulkEps) /\ Distinct(bulk_eps) /\ ed \in [Range(bulk_eps) -> EdType]
    BY DEF Linked
<1>2. left \in Seq(BulkEps) /\ Range(left) = Range(bulk_eps) \ {e} /\ Distinct(left)
    BY <1>1, OmittingFacts
<1>3. Len(left) \in Nat /\ DOMAIN left = 1..Len(left)
    BY <1>2, LenProperties
<1>4. PICK E : E = Relinked(left)
    OBVIOUS
<1>5. ASSUME NEW i \in DOMAIN left PROVE E[left[i]] \in EdType /\ E[left[i]].next = IF i < Len(left) THEN left[i + 1] ELSE NoEd
    <2>1. PICK x : x = left[i]
        OBVIOUS
    <2>2. x \in Range(left)
        BY <1>5, <2>1 DEF Range
    <2>3. (CHOOSE n \in DOMAIN left : left[n] = x) = i
        <3>1. PICK c : c = CHOOSE n \in DOMAIN left : left[n] = x
            OBVIOUS
        <3>2. c \in DOMAIN left /\ left[c] = x
            BY <2>1, <3>1, Zenon
        <3>3. QED
            BY <1>2, <2>1, <3>1, <3>2, Zenon DEF Distinct
    <2>4. PICK y : y = IF i < Len(left) THEN left[i + 1] ELSE NoEd
        OBVIOUS
    <2>5. E[x] = [ed[x] EXCEPT !.next = y]
        <3>1. E[x] = [ed[x] EXCEPT !.next =
                        LET n == CHOOSE n \in DOMAIN left : left[n] = x IN IF n < Len(left) THEN left[n + 1] ELSE NoEd]
            BY <1>4, <2>2, Zenon DEF Relinked
        <3>2. QED
            BY <2>3, <2>4, <3>1, Zenon
    <2>6. y \in BulkEps \cup {NoEd}
        BY <1>2, <1>3, <2>4, ElementOfSeq
    <2>7. ed[x] \in EdType
        BY <1>1, <1>2, <2>2
    <2>8. QED
        BY <2>1, <2>4, <2>5, <2>6, <2>7 DEF EdType
<1>6. E \in [Range(left) -> EdType]
    <2>1. E = [x \in Range(left) |-> E[x]]
        BY <1>4 DEF Relinked
    <2>2. \A x \in Range(left) : E[x] \in EdType
        BY <1>5 DEF Range
    <2>3. QED
        BY <2>1, <2>2
<1>7. QED
    BY <1>2, <1>4, <1>5, <1>6 DEF Linked

(* Every step of the controller.                                           *)
LEMMA OhciSteps == OhciInv /\ OhciNext => OhciInv'
<1> SUFFICES ASSUME OhciInv, OhciNext PROVE OhciInv'
    OBVIOUS
<1>1. /\ Linked(bulk_eps, ed) /\ bulk_eps \in Seq(BulkEps) /\ ed \in [Range(bulk_eps) -> EdType]
      /\ td \in [Range(bulk_eps) -> TdType] /\ xfer \in XferType /\ transfers \in Nat
    BY DEF OhciInv, Linked
<1>2. ASSUME NEW e \in BulkEps, bulk_enqueue(e) PROVE OhciInv'
    <2>1. PICK d, q, t, b, c :
            /\ d = AddEp(e) /\ q = IF Live(e) THEN td[e] ELSE NewTds
            /\ t = d[e].dummy /\ b = transfers + 1
            /\ c = [q EXCEPT ![t] = Fresh(q[t], b), ![Other(t)] = Fresh(q[Other(t)], 0)]
        OBVIOUS
    <2>2. /\ ed' = [d EXCEPT ![e].tail = Other(t), ![e].dummy = Other(t)]
          /\ td' = Put(td, e, c)
          /\ xfer' = [pc |-> "start", ep |-> e, td |-> t, buf |-> b, ok |-> FALSE, cut |-> FALSE]
          /\ bulk_eps' = (IF Live(e) THEN bulk_eps ELSE Append(bulk_eps, e))
          /\ transfers' = b /\ moved' = moved
        BY <1>2, <2>1 DEF bulk_enqueue
    <2>3. /\ Linked(bulk_eps', d) /\ e \in Range(bulk_eps') /\ d \in [Range(bulk_eps') -> EdType] /\ q \in TdType
          /\ Range(bulk_eps') = Range(bulk_eps) \cup {e}
        <3>1. CASE Live(e)
            BY <1>1, <2>1, <2>2, <3>1 DEF Live, AddEp, Linked
        <3>2. CASE ~Live(e)
            <4>1. Linked(Append(bulk_eps, e), d) /\ Range(Append(bulk_eps, e)) = Range(bulk_eps) \cup {e}
                BY <1>1, <2>1, <3>2, LinkedAppend
            <4>2. NewTds \in TdType
                BY DEF NewTds, TdType
            <4>3. QED
                BY <2>1, <2>2, <3>2, <4>1, <4>2 DEF Linked
        <3>3. QED
            BY <3>1, <3>2
    <2>4. d[e] \in EdType /\ t \in {0, 1} /\ Other(t) \in {0, 1} /\ t # Other(t) /\ b \in Nat
        BY <1>1, <2>1, <2>3 DEF EdType, Other
    <2>5. /\ ed' \in [Range(bulk_eps') -> EdType] /\ \A x \in Range(bulk_eps') : ed'[x].next = d[x].next
        BY <2>2, <2>3, <2>4 DEF EdType
    <2>6. Linked(bulk_eps', ed')
        <3>1. \A i \in DOMAIN bulk_eps' : bulk_eps'[i] \in Range(bulk_eps')
            BY DEF Range
        <3>2. QED
            BY <2>3, <2>5, <3>1 DEF Linked
    <2>7. c \in TdType /\ c[t].buf = b /\ c[t].cc = "not_accessed"
        <3>1. Fresh(q[t], b) = [cc |-> "not_accessed", buf |-> b] /\ Fresh(q[Other(t)], 0) = [cc |-> "not_accessed", buf |-> 0]
            BY DEF Fresh
        <3>2. QED
            BY <2>1, <2>3, <2>4, <3>1 DEF TdType
    <2>8. DOMAIN td' = Range(bulk_eps') /\ td'[e] = c /\ td' \in [Range(bulk_eps') -> TdType]
        BY <1>1, <2>2, <2>3, <2>7 DEF Put
    <2>9. xfer' \in XferType /\ Awaited(xfer', td', moved')
        <3>1. xfer' \in XferType
            BY <2>2, <2>4 DEF XferType
        <3>2. xfer'.ep = e /\ xfer'.td = t /\ xfer'.buf = b /\ ~xfer'.ok /\ ~xfer'.cut
            BY <2>2
        <3>3. QED
            BY <2>3, <2>7, <2>8, <3>1, <3>2 DEF Awaited
    <2>10. CompletedIsMine'
        BY <2>2 DEF CompletedIsMine
    <2>11. QED
        BY <2>2, <2>4, <2>6, <2>8, <2>9, <2>10 DEF OhciInv
<1>3. ASSUME NEW e \in BulkEps, NEW cc \in {"ok", "failed"}, hc_serve(e, cc) PROVE OhciInv'
    <2>1. PICK t : t = ed[e].head
        OBVIOUS
    <2>2. /\ td' = [td EXCEPT ![e][t].cc = cc]
          /\ ed' = [ed EXCEPT ![e].head = Other(t), ![e].halted = cc = "failed"]
          /\ moved' = (IF cc = "ok" THEN moved \cup {td[e][t].buf} ELSE moved)
          /\ UNCHANGED <<bulk_eps, xfer, transfers>>
        BY <1>3, <2>1 DEF hc_serve
    <2>3. e \in Range(bulk_eps)
        BY <1>3 DEF hc_serve, Walked, Range
    <2>4. t \in {0, 1} /\ Other(t) \in {0, 1}
        BY <1>1, <2>1, <2>3 DEF EdType, Other
    <2>5. ed' \in [Range(bulk_eps) -> EdType] /\ \A x \in Range(bulk_eps) : ed'[x].next = ed[x].next
        <3>1. PICK h \in BOOLEAN : h = (cc = "failed")
            OBVIOUS
        <3>2. ed' = [ed EXCEPT ![e].head = Other(t), ![e].halted = h]
            BY <2>2, <3>1, Zenon
        <3>3. QED
            BY <1>1, <2>3, <2>4, <3>2 DEF EdType
    <2>6. Linked(bulk_eps', ed')
        <3>1. \A i \in DOMAIN bulk_eps : bulk_eps[i] \in Range(bulk_eps)
            BY DEF Range
        <3>2. QED
            BY <1>1, <2>2, <2>5, <3>1 DEF Linked
    <2>7. /\ td' \in [Range(bulk_eps) -> TdType] /\ td'[e][t].buf = td[e][t].buf /\ td'[e][t].cc = cc
          /\ \A x \in Range(bulk_eps), u \in {0, 1} : (x # e \/ u # t) => td'[x][u] = td[x][u]
        <3>1. PICK q : q = [td[e][t] EXCEPT !.cc = cc]
            OBVIOUS
        <3>2. PICK c : c = [td[e] EXCEPT ![t] = q]
            OBVIOUS
        <3>3. td' = [td EXCEPT ![e] = c]
            BY <2>2, <3>1, <3>2
        <3>4. td[e] \in TdType
            BY <1>1, <2>3
        <3>5. /\ q \in [cc : {"not_accessed", "ok", "failed"}, buf : Nat] /\ q.buf = td[e][t].buf /\ q.cc = cc
            BY <2>4, <3>1, <3>4 DEF TdType
        <3>6. c \in TdType /\ c[t] = q /\ \A u \in {0, 1} : u # t => c[u] = td[e][u]
            BY <2>4, <3>2, <3>4, <3>5 DEF TdType
        <3>7. td' \in [Range(bulk_eps) -> TdType] /\ td'[e] = c /\ \A x \in Range(bulk_eps) : x # e => td'[x] = td[x]
            BY <1>1, <2>3, <3>3, <3>6
        <3>8. QED
            BY <3>5, <3>6, <3>7
    <2>8. Awaited(xfer', td', moved')
        <3>1. xfer.td \in {0, 1} /\ DOMAIN td = Range(bulk_eps) /\ DOMAIN td' = Range(bulk_eps) /\ moved \subseteq moved'
            BY <1>1, <2>2, <2>7 DEF XferType
        <3>2. Awaited(xfer, td, moved)
            BY DEF OhciInv
        <3>3. CASE xfer.ep = e /\ xfer.td = t
            BY <2>2, <2>3, <2>7, <3>1, <3>2, <3>3 DEF Awaited
        <3>4. CASE ~(xfer.ep = e /\ xfer.td = t)
            BY <2>2, <2>7, <3>1, <3>2, <3>4 DEF Awaited
        <3>5. QED
            BY <3>3, <3>4
    <2>9. CompletedIsMine'
        BY <2>2 DEF OhciInv, CompletedIsMine
    <2>10. QED
        BY <1>1, <2>2, <2>6, <2>7, <2>8, <2>9 DEF OhciInv
<1>4. ASSUME xfer' \in XferType, UNCHANGED <<bulk_eps, ed, td, moved, transfers>>, Awaited(xfer', td, moved), CompletedIsMine'
      PROVE  OhciInv'
    BY <1>1, <1>4 DEF OhciInv
<1>5. CASE bulk_start
    BY <1>1, <1>4, <1>5 DEF bulk_start, XferType, OhciInv, Awaited, CompletedIsMine
<1>6. CASE bulk_done
    <2>1. xfer.pc = "wait" /\ UNCHANGED <<bulk_eps, ed, td, moved, transfers>>
        BY <1>6 DEF bulk_done
    <2>2. PICK ok \in BOOLEAN : xfer' = [xfer EXCEPT !.pc = "end", !.ok = ok] /\ (~xfer.cut => (ok <=> td[xfer.ep][xfer.td].cc = "ok"))
        BY <1>6, Zenon DEF bulk_done
    <2>3. xfer' \in XferType /\ xfer'.pc = "end" /\ xfer'.ok = ok /\ xfer'.cut = xfer.cut /\ xfer'.buf = xfer.buf
        BY <1>1, <2>2 DEF XferType
    <2>4. QED
        BY <1>4, <2>1, <2>2, <2>3 DEF OhciInv, Awaited, CompletedIsMine
<1>7. CASE bulk_timeout
    BY <1>1, <1>4, <1>7 DEF bulk_timeout, XferType, OhciInv, Awaited, CompletedIsMine
<1>8. CASE bulk_return
    <2>1. xfer' = Free /\ Free \in XferType /\ Free.pc = "idle"
        BY <1>8 DEF bulk_return, Free, XferType
    <2>2. QED
        BY <1>4, <1>8, <2>1 DEF bulk_return, Awaited, CompletedIsMine
<1>9. CASE disconnect_edit
    <2>1. PICK left, e : left = Omitting(bulk_eps, {e}) /\ e = hotplug.ep
        OBVIOUS
    <2>2. /\ bulk_eps' = left /\ ed' = Relinked(left) /\ td' = Drop(td, {e})
          /\ xfer' = [xfer EXCEPT !.cut = xfer.cut \/ (xfer.pc # "idle" /\ xfer.ep = e)]
          /\ moved' = moved /\ transfers' = transfers
        BY <1>9, <2>1 DEF disconnect_edit
    <2>3. Linked(left, Relinked(left)) /\ Range(left) = Range(bulk_eps) \ {e}
        BY <1>1, <2>1, LinkedEdit
    <2>4. td' \in [Range(left) -> TdType] /\ \A x \in Range(left) : td'[x] = td[x]
        BY <1>1, <2>2, <2>3 DEF Drop
    <2>5. PICK severed \in BOOLEAN : xfer' = [xfer EXCEPT !.cut = severed] /\ (severed <=> xfer.cut \/ (xfer.pc # "idle" /\ xfer.ep = e))
        <3>1. xfer.cut \in BOOLEAN
            BY <1>1 DEF XferType
        <3>2. QED
            BY <2>2, <3>1, Zenon
    <2>6. /\ xfer' \in XferType /\ xfer'.cut = severed /\ xfer'.pc = xfer.pc /\ xfer'.ep = xfer.ep /\ xfer'.td = xfer.td
          /\ xfer'.buf = xfer.buf /\ xfer'.ok = xfer.ok
        BY <1>1, <2>5 DEF XferType
    <2>7. Awaited(xfer', td', moved')
        <3>1. DOMAIN td = Range(bulk_eps) /\ DOMAIN td' = Range(bulk_eps) \ {e}
            BY <1>1, <2>3, <2>4
        <3>2. Awaited(xfer, td, moved)
            BY DEF OhciInv
        <3>3. xfer.ok \in BOOLEAN /\ xfer.cut \in BOOLEAN
            BY <1>1 DEF XferType
        <3>4. ASSUME xfer.pc \in {"start", "wait"}, ~severed
              PROVE  xfer.ep \in DOMAIN td' /\ td'[xfer.ep] = td[xfer.ep] /\ ~xfer.cut
            <4>1. ~xfer.cut /\ xfer.ep # e
                BY <2>5, <3>4
            <4>2. xfer.ep \in DOMAIN td
                BY <3>2, <3>4, <4>1 DEF Awaited
            <4>3. QED
                BY <2>3, <2>4, <3>1, <4>1, <4>2
        <3>5. QED
            <4>1. SUFFICES ASSUME xfer'.pc \in {"start", "wait"}
                  PROVE  /\ ~xfer'.ok
                         /\ ~xfer'.cut => /\ xfer'.ep \in DOMAIN td' /\ td'[xfer'.ep][xfer'.td].buf = xfer'.buf
                                          /\ td'[xfer'.ep][xfer'.td].cc = "ok" => xfer'.buf \in moved'
                BY Zenon DEF Awaited
            <4>2. xfer.pc \in {"start", "wait"}
                BY <2>6, <4>1
            <4>3. ~xfer.ok
                BY <3>2, <4>2, Zenon DEF Awaited
            <4>4. ASSUME ~severed
                  PROVE  /\ xfer.ep \in DOMAIN td' /\ td'[xfer.ep][xfer.td].buf = xfer.buf
                         /\ td'[xfer.ep][xfer.td].cc = "ok" => xfer.buf \in moved
                BY <3>2, <3>4, <4>2, <4>4 DEF Awaited
            <4>5. QED
                BY <2>2, <2>6, <4>3, <4>4
    <2>8. CompletedIsMine'
        BY <2>2, <2>5, <2>6 DEF OhciInv, CompletedIsMine
    <2>9. QED
        BY <1>1, <2>2, <2>3, <2>4, <2>6, <2>7, <2>8 DEF OhciInv
<1>10. CASE UNCHANGED <<bulk_eps, ed, td, moved, xfer, transfers>>
    BY <1>10 DEF OhciInv, CompletedIsMine
<1>11. CASE control_ex \/ disconnect_head \/ \E e \in BulkEps : disconnect_stop(e)
    BY <1>10, <1>11 DEF control_ex, disconnect_head, disconnect_stop
<1>12. QED
    BY <1>2, <1>3, <1>5, <1>6, <1>7, <1>8, <1>9, <1>11 DEF OhciNext

(* The invariant gives what the run checks of it.                          *)
LEMMA OhciHolds == OhciInv => CompletedIsMine /\ BulkListLinked
<1>1. ASSUME Linked(bulk_eps, ed) PROVE BulkListLinked
    BY <1>1 DEF Linked, Distinct, BulkListLinked
<1>2. QED
    BY <1>1 DEF OhciInv

(***************************************************************************)
(* Processor start-up.                                                     *)
(***************************************************************************)
UpPc == {"awake", "halted", "network"}
ApPc == {"off", "trampoline", "entry"} \cup UpPc
BspPc == {"discover", "start", "sipi", "wait", "report", "run"}

(* What the processor numbered i - 1 may be doing, by how far init has got:
   the ones before are up on their stacks, the ones after are off, and the
   one init is at finds its own number in the parameter block.             *)
ApFits(A, P, B, I, i) ==
    /\ i - 1 < B.slot => A[I[i]].pc \in UpPc /\ A[I[i]].stack = i - 1
    /\ i - 1 = B.slot => /\ A[I[i]].pc = "trampoline" => P = i - 1
                         /\ A[I[i]].pc \in UpPc \cup {"entry"} => A[I[i]].stack = i - 1
                         /\ B.pc = "start" => A[I[i]].pc = "off"
    /\ i - 1 > B.slot => A[I[i]].pc = "off"

NumbersOK(I) == I \in Seq(Nat \cup {Bsp}) /\ Len(I) >= 1 /\ Distinct(I) /\ I[1] = Bsp

BspOK(B, I) ==
    /\ B \in [pc : BspPc, slot : Nat, before : Nat] /\ B.slot \in 1..Len(I)
    /\ B.pc = "discover" => B.slot = 1 /\ Len(I) = 1
    /\ B.pc \in {"sipi", "wait"} => B.slot < Len(I) /\ B.before = B.slot

(* AP_ONLINE counts the processors before the one init is at, and that one
   once it is up.                                                          *)
Counted(A, B, I) == IF B.slot < Len(I) /\ A[I[B.slot + 1]].pc \in UpPc THEN B.slot + 1 ELSE B.slot

SmpInv ==
    /\ NumbersOK(ids) /\ BspOK(bsp, ids)
    /\ ap \in [Range(ids) \ {Bsp} -> [pc : ApPc, stack : Nat]]
    /\ \A i \in 2..Len(ids) : ApFits(ap, param_stack, bsp, ids, i)
    /\ bsp.pc \in {"sipi", "wait"} => param_stack = bsp.slot
    /\ ap_online = Counted(ap, bsp, ids) /\ online = 0..(ap_online - 1)

(* Only the first processor runs at the start.                             *)
LEMMA SmpStarts == SmpInit => SmpInv
<1> SUFFICES ASSUME SmpInit PROVE SmpInv
    OBVIOUS
<1>1. ids = <<Bsp>> /\ Len(ids) = 1 /\ DOMAIN ids = {1} /\ ids[1] = Bsp /\ ids \in Seq(Nat \cup {Bsp})
    BY DEF SmpInit
<1>2. NumbersOK(ids) /\ Range(ids) = {Bsp}
    BY <1>1 DEF NumbersOK, Distinct, Range
<1>3. bsp \in [pc : BspPc, slot : Nat, before : Nat] /\ bsp.pc = "discover" /\ bsp.slot = 1
    BY DEF SmpInit, BspPc
<1>4. BspOK(bsp, ids)
    BY <1>1, <1>3 DEF BspOK
<1>5. ap \in [{} -> [pc : ApPc, stack : Nat]] /\ ap_online = 1 /\ online = {0}
    BY DEF SmpInit, NoEntries
<1>6. Counted(ap, bsp, ids) = 1 /\ 0..0 = {0}
    BY <1>1, <1>3 DEF Counted
<1>7. QED
    BY <1>1, <1>2, <1>3, <1>4, <1>5, <1>6 DEF SmpInv

(* The logical numbers given out have the bootstrap processor first and no
   APIC id twice.                                                          *)
LEMMA NumberedOK ==
    ASSUME NEW t \in ApicTables
    PROVE  NumbersOK(SubSeq(Numbered(t), 1, AtMost(Len(Numbered(t)), MAX_CPUS)))
<1>1. t \in Seq(Nat) /\ \A i, j \in 1..Len(t) : t[i] = t[j] => i = j
    BY SmpAssumption
<1>2. MAX_CPUS \in Nat /\ MAX_CPUS >= 1
    BY SmpAssumption
<1>3. Len(t) \in Nat /\ DOMAIN t = 1..Len(t)
    BY <1>1, LenProperties
<1>4. PICK l : l = Listed(t)
    OBVIOUS
<1>5. PICK m : m = AtMost(Len(t), MAX_CPUS) /\ m \in 0..Len(t) /\ m \in Nat
    BY <1>2, <1>3 DEF AtMost
<1>6. l \in Seq(Nat) /\ Len(l) = m /\ \A i \in 1..m : l[i] = t[i]
    <2>1. 1 \in 1..(Len(t) + 1) /\ m <= Len(t) /\ m >= 0
        BY <1>3, <1>5
    <2>2. l = SubSeq(t, 1, m)
        BY <1>4, <1>5 DEF Listed
    <2>3. QED
        BY <1>1, <1>3, <1>5, <2>1, <2>2, SubSeqProperties
<1>7. DOMAIN l = 1..m
    BY <1>6, LenProperties
<1>8. Distinct(l)
    BY <1>1, <1>3, <1>5, <1>6, <1>7 DEF Distinct
<1>9. PICK o : o = Omitting(l, {Bsp})
    OBVIOUS
<1>10. o \in Seq(Nat) /\ Distinct(o) /\ Bsp \notin Range(o)
    BY <1>6, <1>8, <1>9, OmittingFacts
<1>11. Len(o) \in Nat /\ DOMAIN o = 1..Len(o)
    BY <1>10, LenProperties
<1>12. \A i \in 1..Len(o) : o[i] # Bsp /\ o[i] \in Nat
    BY <1>10, <1>11, ElementOfSeq DEF Range
<1>13. PICK f : f = <<Bsp>> \o o
    OBVIOUS
<1>14. Numbered(t) = f
    BY <1>4, <1>9, <1>13 DEF Numbered
<1>15. PICK b : b = <<Bsp>> /\ b \in Seq(Nat \cup {Bsp}) /\ Len(b) = 1 /\ b[1] = Bsp
    <2>1. <<Bsp>> \in Seq(Nat \cup {Bsp}) /\ Len(<<Bsp>>) = 1 /\ <<Bsp>>[1] = Bsp
        OBVIOUS
    <2>2. QED
        BY <2>1, Zenon
<1>16. o \in Seq(Nat \cup {Bsp})
    <2>1. \A i \in 1..Len(o) : o[i] \in Nat \cup {Bsp}
        BY <1>12
    <2>2. QED
        BY <1>10, <1>11, <2>1
<1>17. /\ f \in Seq(Nat \cup {Bsp}) /\ Len(f) = 1 + Len(o) /\ f[1] = Bsp
       /\ \A i \in 2..(1 + Len(o)) : f[i] = o[i - 1]
    <2>1. /\ b \o o \in Seq(Nat \cup {Bsp}) /\ Len(b \o o) = Len(b) + Len(o)
          /\ \A i \in 1..(Len(b) + Len(o)) : (b \o o)[i] = IF i <= Len(b) THEN b[i] ELSE o[i - Len(b)]
        BY <1>15, <1>16, ConcatProperties
    <2>2. QED
        BY <1>11, <1>13, <1>15, <2>1
<1>18. PICK k : k = AtMost(Len(f), MAX_CPUS) /\ k \in 1..Len(f)
    BY <1>2, <1>11, <1>17 DEF AtMost
<1>19. PICK s : s = SubSeq(f, 1, k)
    OBVIOUS
<1>20. s \in Seq(Nat \cup {Bsp}) /\ Len(s) = k /\ \A i \in 1..k : s[i] = f[i]
    <2>1. 1 \in 1..(Len(f) + 1) /\ k <= Len(f) /\ k >= 0 /\ k \in Nat
        BY <1>11, <1>17, <1>18
    <2>2. QED
        BY <1>17, <1>19, <2>1, SubSeqProperties
<1>21. DOMAIN s = 1..k
    BY <1>20, LenProperties
<1>22. \A i, j \in 1..(1 + Len(o)) : f[i] = f[j] => i = j
    <2>1. ASSUME NEW i \in 1..(1 + Len(o)), NEW j \in 1..(1 + Len(o)), f[i] = f[j] PROVE i = j
        <3>1. CASE i = 1 /\ j = 1
            BY <3>1
        <3>2. CASE i = 1 /\ j # 1
            BY <1>11, <1>12, <1>17, <2>1, <3>2
        <3>3. CASE i # 1 /\ j = 1
            BY <1>11, <1>12, <1>17, <2>1, <3>3
        <3>4. CASE i # 1 /\ j # 1
            <4>1. i - 1 \in 1..Len(o) /\ j - 1 \in 1..Len(o) /\ f[i] = o[i - 1] /\ f[j] = o[j - 1]
                BY <1>11, <1>17, <3>4
            <4>2. i - 1 = j - 1
                BY <1>10, <1>11, <2>1, <4>1 DEF Distinct
            <4>3. QED
                BY <1>11, <4>2
        <3>5. QED
            BY <3>1, <3>2, <3>3, <3>4
    <2>2. QED
        BY <2>1
<1>23. Distinct(s)
    BY <1>11, <1>17, <1>18, <1>20, <1>21, <1>22 DEF Distinct
<1>24. NumbersOK(s)
    BY <1>17, <1>18, <1>20, <1>23 DEF NumbersOK
<1>25. QED
    BY <1>14, <1>18, <1>19, <1>24

(* Every processor but the first has its number, and numbers are found.    *)
LEMMA NumberOf ==
    ASSUME NumbersOK(ids), NEW a \in Range(ids) \ {Bsp}
    PROVE  \E i \in 2..Len(ids) : ids[i] = a /\ SlotOf(a) = i - 1
<1>1. DOMAIN ids = 1..Len(ids) /\ Len(ids) \in Nat /\ ids[1] = Bsp
    BY LenProperties DEF NumbersOK
<1>2. PICK c : c = CHOOSE i \in DOMAIN ids : ids[i] = a
    OBVIOUS
<1>3. c \in DOMAIN ids /\ ids[c] = a
    BY <1>2 DEF Range
<1>4. c # 1
    BY <1>1, <1>3
<1>5. c \in 2..Len(ids)
    BY <1>1, <1>3, <1>4
<1>6. SlotOf(a) = c - 1
    BY <1>2 DEF SlotOf
<1>7. QED
    BY <1>3, <1>5, <1>6

(* The processors after the first are distinct and none of them is the first.  *)
LEMMA NumbersIn ==
    ASSUME NumbersOK(ids)
    PROVE  /\ Len(ids) \in Nat
           /\ \A i \in 2..Len(ids) : ids[i] \in Range(ids) \ {Bsp}
           /\ \A i, j \in 2..Len(ids) : ids[i] = ids[j] => i = j
<1>1. DOMAIN ids = 1..Len(ids) /\ Len(ids) \in Nat /\ ids[1] = Bsp /\ Distinct(ids)
    BY LenProperties DEF NumbersOK
<1>2. \A i \in 2..Len(ids) : i \in DOMAIN ids /\ i # 1 /\ 1 \in DOMAIN ids
    BY <1>1
<1>3. QED
    BY <1>1, <1>2 DEF Range, Distinct

(* A processor that is up stays up as far as the table goes.               *)
LEMMA SmpUp ==
    ASSUME SmpInv, NEW a \in DOMAIN ap, ap[a].pc \in UpPc,
           UNCHANGED <<ids, bsp, param_stack, ap_online, online>>,
           NEW pc \in UpPc, ap' = [ap EXCEPT ![a].pc = pc]
    PROVE  SmpInv'
<1>1. ap \in [Range(ids) \ {Bsp} -> [pc : ApPc, stack : Nat]] /\ NumbersOK(ids) /\ BspOK(bsp, ids)
    BY DEF SmpInv
<1>2. /\ ap' \in [Range(ids) \ {Bsp} -> [pc : ApPc, stack : Nat]]
      /\ ap'[a].pc \in UpPc /\ ap'[a].stack = ap[a].stack /\ \A b \in DOMAIN ap : b # a => ap'[b] = ap[b]
    BY <1>1 DEF ApPc
<1>3. UpPc \cap {"off", "trampoline", "entry"} = {}
    BY DEF UpPc
<1>4. ASSUME NEW i \in 2..Len(ids) PROVE ApFits(ap', param_stack, bsp, ids, i)
    <2>1. ids[i] \in DOMAIN ap
        BY <1>1, NumbersIn
    <2>2. CASE ids[i] = a
        BY <1>2, <1>3, <2>2 DEF SmpInv, ApFits
    <2>3. CASE ids[i] # a
        BY <1>2, <2>1, <2>3 DEF SmpInv, ApFits
    <2>4. QED
        BY <2>2, <2>3
<1>5. Counted(ap', bsp, ids) = Counted(ap, bsp, ids)
    <2>1. CASE bsp.slot < Len(ids)
        <3>1. bsp.slot + 1 \in 2..Len(ids)
            BY <1>1, <2>1, NumbersIn DEF BspOK
        <3>2. ids[bsp.slot + 1] \in DOMAIN ap
            BY <1>1, <3>1, NumbersIn
        <3>3. QED
            BY <1>2, <3>2 DEF Counted
    <2>2. CASE ~(bsp.slot < Len(ids))
        BY <2>2 DEF Counted
    <2>3. QED
        BY <2>1, <2>2
<1>6. QED
    BY <1>1, <1>2, <1>4, <1>5 DEF SmpInv

(* Every step of the start-up.                                             *)
LEMMA SmpSteps == SmpInv /\ SmpNext => SmpInv'
<1> SUFFICES ASSUME SmpInv, SmpNext PROVE SmpInv'
    OBVIOUS
<1>1. /\ ap \in [Range(ids) \ {Bsp} -> [pc : ApPc, stack : Nat]] /\ NumbersOK(ids) /\ BspOK(bsp, ids)
      /\ \A i \in 2..Len(ids) : ApFits(ap, param_stack, bsp, ids, i)
      /\ bsp.pc \in {"sipi", "wait"} => param_stack = bsp.slot
      /\ ap_online = Counted(ap, bsp, ids) /\ online = 0..(ap_online - 1)
    BY DEF SmpInv
<1>2. PICK n, k : n = Len(ids) /\ k = bsp.slot /\ n \in Nat /\ k \in 1..n
    BY <1>1, NumbersIn DEF BspOK
<1>3. bsp \in [pc : BspPc, slot : Nat, before : Nat]
    BY <1>1 DEF BspOK
<1>4. /\ \A i \in 2..n : ids[i] \in DOMAIN ap
      /\ \A i, j \in 2..n : ids[i] = ids[j] => i = j
    BY <1>1, <1>2, NumbersIn
<1>5. ASSUME NEW t \in ApicTables, discover(t) PROVE SmpInv'
    <2>1. /\ ids' = SubSeq(Numbered(t), 1, AtMost(Len(Numbered(t)), MAX_CPUS))
          /\ ap' = [a \in Range(ids') \ {Bsp} |-> Off] /\ bsp' = [bsp EXCEPT !.pc = "start"]
          /\ bsp.pc = "discover" /\ UNCHANGED <<param_stack, ap_online, online>>
        BY <1>5 DEF discover
    <2>2. NumbersOK(ids')
        BY <2>1, NumberedOK
    <2>3. bsp.slot = 1 /\ n = 1 /\ k = 1 /\ ap_online = 1
        <3>1. bsp.slot = 1 /\ Len(ids) = 1
            BY <1>1, <2>1 DEF BspOK
        <3>2. ~(1 < 1)
            OBVIOUS
        <3>3. QED
            BY <1>1, <1>2, <3>1, <3>2, Zenon DEF Counted
    <2>4. Len(ids') \in Nat /\ Len(ids') >= 1
        BY <2>2, LenProperties DEF NumbersOK
    <2>5. bsp' \in [pc : BspPc, slot : Nat, before : Nat] /\ bsp'.pc = "start" /\ bsp'.slot = 1
        BY <1>3, <2>1, <2>3 DEF BspPc
    <2>6. BspOK(bsp', ids')
        BY <2>4, <2>5 DEF BspOK
    <2>7. ap' \in [Range(ids') \ {Bsp} -> [pc : ApPc, stack : Nat]] /\ \A a \in Range(ids') \ {Bsp} : ap'[a].pc = "off"
        <3>1. Off \in [pc : ApPc, stack : Nat] /\ Off.pc = "off"
            BY DEF Off, NoStack, ApPc
        <3>2. QED
            BY <2>1, <3>1
    <2>8. \A i \in 2..Len(ids') : ids'[i] \in Range(ids') \ {Bsp}
        <3>1. DOMAIN ids' = 1..Len(ids') /\ ids'[1] = Bsp /\ Distinct(ids')
            BY <2>2, LenProperties DEF NumbersOK
        <3>2. \A i \in 2..Len(ids') : i \in DOMAIN ids' /\ i # 1 /\ 1 \in DOMAIN ids'
            BY <2>4, <3>1
        <3>3. QED
            BY <3>1, <3>2 DEF Range, Distinct
    <2>9. \A i \in 2..Len(ids') : ApFits(ap', param_stack', bsp', ids', i)
        BY <2>4, <2>5, <2>7, <2>8 DEF ApFits, UpPc
    <2>10. Counted(ap', bsp', ids') = 1
        <3>1. CASE 1 < Len(ids')
            <4>1. 2 \in 2..Len(ids') /\ 1 + 1 = 2
                BY <2>4, <3>1
            <4>2. ap'[ids'[2]].pc = "off"
                BY <2>7, <2>8, <4>1
            <4>3. QED
                BY <2>5, <4>1, <4>2 DEF Counted, UpPc
        <3>2. CASE ~(1 < Len(ids'))
            BY <2>5, <3>2 DEF Counted
        <3>3. QED
            BY <3>1, <3>2
    <2>11. QED
        BY <1>1, <2>1, <2>2, <2>3, <2>5, <2>6, <2>7, <2>9, <2>10 DEF SmpInv
<1>6. ASSUME k < n, NEW a, a = ids[k + 1], ap[a].pc = "off", bsp.pc \in {"start", "sipi"},
             ap' \in {ap, [ap EXCEPT ![a].pc = "trampoline"]}, NEW q \in {"sipi", "wait"},
             bsp' = [bsp EXCEPT !.pc = q, !.before = k] \/ (bsp' = [bsp EXCEPT !.pc = q] /\ bsp.before = k),
             param_stack' = k, UNCHANGED <<ids, ap_online, online>>
      PROVE  SmpInv'
    <2>1. bsp' \in [pc : BspPc, slot : Nat, before : Nat] /\ bsp'.pc = q /\ bsp'.slot = k /\ bsp'.before = k
        BY <1>2, <1>3, <1>6 DEF BspPc
    <2>2. k + 1 \in 2..n /\ a \in DOMAIN ap
        BY <1>2, <1>4, <1>6
    <2>3. /\ ap' \in [Range(ids) \ {Bsp} -> [pc : ApPc, stack : Nat]]
          /\ ap'[a].pc \in {"off", "trampoline"} /\ \A b \in DOMAIN ap : b # a => ap'[b] = ap[b]
        BY <1>1, <1>6, <2>2 DEF ApPc
    <2>4. ASSUME NEW i \in 2..n PROVE ApFits(ap', k, bsp', ids, i)
        <3>1. ApFits(ap, param_stack, bsp, ids, i) /\ ids[i] \in DOMAIN ap
            BY <1>1, <1>2, <1>4
        <3>2. CASE i = k + 1
            <4>1. i - 1 = k /\ ids[i] = a
                BY <1>2, <1>6, <3>2
            <4>2. QED
                BY <1>6, <2>1, <2>3, <4>1 DEF ApFits, UpPc
        <3>3. CASE i # k + 1
            <4>1. i - 1 # k /\ ap'[ids[i]] = ap[ids[i]]
                BY <1>2, <1>4, <1>6, <2>2, <2>3, <3>1, <3>3
            <4>2. QED
                BY <1>2, <2>1, <3>1, <4>1 DEF ApFits
        <3>4. QED
            BY <3>2, <3>3
    <2>5. Counted(ap', bsp', ids) = k /\ Counted(ap, bsp, ids) = k
        BY <1>2, <1>6, <2>1, <2>3 DEF Counted, UpPc
    <2>6. BspOK(bsp', ids)
        BY <1>2, <1>6, <2>1 DEF BspOK
    <2>7. QED
        BY <1>1, <1>2, <1>6, <2>1, <2>3, <2>4, <2>5, <2>6 DEF SmpInv
<1>7. ASSUME UNCHANGED <<ids, ap, ap_online, online>>, NEW q \in {"wait", "report", "run"},
             bsp' = [bsp EXCEPT !.pc = q], bsp.pc # "discover", q = "wait" => bsp.pc = "sipi",
             param_stack' = param_stack \/ (bsp.pc = "start" /\ param_stack' = k)
      PROVE  SmpInv'
    <2>1. bsp' \in [pc : BspPc, slot : Nat, before : Nat] /\ bsp'.pc = q /\ bsp'.slot = k /\ bsp'.before = bsp.before
        BY <1>2, <1>3, <1>7 DEF BspPc
    <2>2. BspOK(bsp', ids)
        BY <1>1, <1>2, <1>7, <2>1 DEF BspOK
    <2>3. ASSUME NEW i \in 2..n PROVE ApFits(ap, param_stack', bsp', ids, i)
        <3>1. ApFits(ap, param_stack, bsp, ids, i)
            BY <1>1, <1>2
        <3>2. QED
            BY <1>2, <1>7, <2>1, <3>1 DEF ApFits
    <2>4. Counted(ap, bsp', ids) = Counted(ap, bsp, ids)
        BY <1>2, <2>1 DEF Counted
    <2>5. QED
        BY <1>1, <1>2, <1>7, <2>1, <2>2, <2>3, <2>4 DEF SmpInv
<1>8. ASSUME k < n, bsp.pc = "start" PROVE ap[ids[k + 1]].pc = "off" /\ ap_online = k
    <2>1. ApFits(ap, param_stack, bsp, ids, k + 1) /\ (k + 1) - 1 = k
        BY <1>1, <1>2, <1>8
    <2>2. ap[ids[k + 1]].pc = "off"
        BY <1>2, <1>8, <2>1 DEF ApFits
    <2>3. QED
        BY <1>1, <1>2, <2>2 DEF Counted, UpPc
<1>9. CASE start_ap
    <2>1. bsp.pc = "start" /\ k < n /\ param_stack' = k /\ UNCHANGED <<ids, ap_online, online>>
        BY <1>2, <1>9 DEF start_ap
    <2>2. CASE bsp' = [bsp EXCEPT !.pc = "report"] /\ UNCHANGED ap
        BY <1>7, <2>1, <2>2
    <2>3. CASE bsp' = [bsp EXCEPT !.pc = "sipi", !.before = ap_online] /\ ap' \in {ap, [ap EXCEPT ![ids[k + 1]].pc = "trampoline"]}
        BY <1>6, <1>8, <2>1, <2>3
    <2>4. QED
        BY <1>2, <1>9, <2>2, <2>3 DEF start_ap
<1>10. CASE second_sipi
    <2>1. bsp.pc = "sipi" /\ bsp' = [bsp EXCEPT !.pc = "wait"] /\ UNCHANGED <<ids, param_stack, ap_online, online>>
        BY <1>10 DEF second_sipi
    <2>2. k < n /\ bsp.before = k
        BY <1>1, <1>2, <2>1 DEF BspOK
    <2>3. CASE ap' = ap
        BY <1>7, <2>1, <2>3
    <2>4. CASE ap[ids[k + 1]].pc = "off" /\ ap' = [ap EXCEPT ![ids[k + 1]].pc = "trampoline"]
        <3>1. param_stack = k
            BY <1>1, <1>2, <2>1
        <3>2. QED
            BY <1>6, <2>1, <2>2, <2>4, <3>1
    <2>5. QED
        BY <1>2, <1>10, <2>3, <2>4 DEF second_sipi
<1>11. CASE ap_is_online
    <2>1. bsp.pc = "wait" /\ ap_online > bsp.before /\ bsp' = [bsp EXCEPT !.pc = "start", !.slot = bsp.slot + 1]
        BY <1>11 DEF ap_is_online
    <2>2. UNCHANGED <<ids, param_stack, ap, ap_online, online>>
        BY <1>11 DEF ap_is_online
    <2>3. k < n /\ bsp.before = k
        BY <1>1, <1>2, <2>1 DEF BspOK
    <2>4. ap_online = k + 1 /\ ap[ids[k + 1]].pc \in UpPc
        BY <1>1, <1>2, <2>1, <2>3 DEF Counted
    <2>5. bsp' \in [pc : BspPc, slot : Nat, before : Nat] /\ bsp'.pc = "start" /\ bsp'.slot = k + 1
        <3>1. k + 1 \in Nat /\ bsp' = [bsp EXCEPT !.pc = "start", !.slot = k + 1]
            BY <1>2, <2>1
        <3>2. QED
            BY <1>3, <3>1 DEF BspPc
    <2>6. BspOK(bsp', ids)
        BY <1>2, <2>3, <2>5 DEF BspOK
    <2>7. ASSUME NEW i \in 2..n PROVE ApFits(ap, param_stack, bsp', ids, i)
        <3>1. ApFits(ap, param_stack, bsp, ids, i)
            BY <1>1, <1>2
        <3>2. CASE i - 1 < k
            BY <1>2, <2>5, <3>1, <3>2 DEF ApFits
        <3>3. CASE i - 1 = k
            <4>1. i = k + 1 /\ i - 1 < k + 1 /\ i - 1 # k + 1
                BY <1>2, <3>3
            <4>2. ap[ids[i]].stack = i - 1
                BY <1>2, <2>4, <3>1, <3>3, <4>1 DEF ApFits
            <4>3. QED
                BY <1>2, <2>4, <2>5, <4>1, <4>2 DEF ApFits
        <3>4. CASE i - 1 > k
            BY <1>2, <2>5, <3>1, <3>4 DEF ApFits, UpPc
        <3>5. QED
            BY <1>2, <3>2, <3>3, <3>4
    <2>8. Counted(ap, bsp', ids) = k + 1
        <3>1. CASE k + 1 < n
            <4>1. k + 2 \in 2..n /\ (k + 2) - 1 > k /\ (k + 1) + 1 = k + 2
                BY <1>2, <3>1
            <4>2. ap[ids[k + 2]].pc = "off"
                BY <1>1, <1>2, <4>1 DEF ApFits
            <4>3. QED
                BY <1>2, <2>5, <4>1, <4>2 DEF Counted, UpPc
        <3>2. CASE ~(k + 1 < n)
            BY <1>2, <2>5, <3>2 DEF Counted
        <3>3. QED
            BY <3>1, <3>2
    <2>9. QED
        BY <1>1, <1>2, <2>2, <2>4, <2>5, <2>6, <2>7, <2>8 DEF SmpInv
<1>12. CASE ap_timed_out
    BY <1>7, <1>12 DEF ap_timed_out
<1>13. CASE submit_work
    BY <1>7, <1>13 DEF submit_work
<1>14. ASSUME NEW a \in DOMAIN ap, NEW r \in [pc : ApPc, stack : Nat], ap' = [ap EXCEPT ![a] = r],
              UNCHANGED <<ids, bsp, param_stack>>, r.stack = k, k < n, a = ids[k + 1],
              bsp.pc # "start", ap[a].pc \notin UpPc, r.pc # "trampoline",
              r.pc \notin UpPc => ap_online' = ap_online /\ online' = online,
              r.pc \in UpPc => ap_online' = ap_online + 1 /\ online' = online \cup {k}
       PROVE  SmpInv'
    <2>1. /\ ap' \in [Range(ids) \ {Bsp} -> [pc : ApPc, stack : Nat]] /\ ap'[a] = r
          /\ \A b \in DOMAIN ap : b # a => ap'[b] = ap[b]
        BY <1>1, <1>14
    <2>2. ASSUME NEW i \in 2..n PROVE ApFits(ap', param_stack, bsp, ids, i)
        <3>1. ApFits(ap, param_stack, bsp, ids, i) /\ ids[i] \in DOMAIN ap
            BY <1>1, <1>2, <1>4
        <3>2. CASE i = k + 1
            <4>1. i - 1 = k /\ ap'[ids[i]] = r
                BY <1>2, <1>14, <2>1, <3>2
            <4>2. QED
                BY <1>2, <1>14, <4>1 DEF ApFits
        <3>3. CASE i # k + 1
            <4>1. k + 1 \in 2..n
                BY <1>2, <1>14
            <4>2. ids[i] # a
                BY <1>4, <1>14, <3>3, <4>1
            <4>3. QED
                BY <2>1, <3>1, <4>2 DEF ApFits
        <3>4. QED
            BY <3>2, <3>3
    <2>3. ap_online = k
        BY <1>1, <1>2, <1>14 DEF Counted
    <2>4. Counted(ap', bsp, ids) = IF r.pc \in UpPc THEN k + 1 ELSE k
        BY <1>2, <1>14, <2>1 DEF Counted
    <2>5. ap_online' = Counted(ap', bsp, ids)
        BY <1>14, <2>3, <2>4
    <2>6. online' = 0..(ap_online' - 1)
        <3>1. CASE r.pc \in UpPc
            <4>1. 0..((k + 1) - 1) = 0..(k - 1) \cup {k}
                BY <1>2
            <4>2. QED
                BY <1>1, <1>14, <2>3, <3>1, <4>1
        <3>2. CASE r.pc \notin UpPc
            BY <1>1, <1>14, <3>2
        <3>3. QED
            BY <3>1, <3>2
    <2>7. QED
        BY <1>1, <1>2, <1>14, <2>1, <2>2, <2>5, <2>6 DEF SmpInv
<1>15. ASSUME NEW a \in DOMAIN ap, ap[a].pc \in {"trampoline", "entry"}
       PROVE  /\ k < n /\ a = ids[k + 1] /\ SlotOf(a) = k /\ bsp.pc # "start" /\ ap[a].pc \notin UpPc
              /\ ap[a].pc = "trampoline" => param_stack = k
              /\ ap[a].pc = "entry" => ap[a].stack = k
    <2>1. PICK i \in 2..n : ids[i] = a /\ SlotOf(a) = i - 1
        BY <1>1, <1>2, NumberOf
    <2>2. ApFits(ap, param_stack, bsp, ids, i) /\ ap[a].pc \notin UpPc /\ ap[a].pc # "off"
        BY <1>1, <1>2, <1>15 DEF UpPc
    <2>3. i - 1 = k
        BY <1>2, <2>1, <2>2 DEF ApFits
    <2>4. i = k + 1 /\ k < n
        BY <1>2, <2>3
    <2>5. QED
        BY <1>2, <2>1, <2>2, <2>3, <2>4 DEF ApFits
<1>16. ASSUME NEW a \in DOMAIN ap, ap_trampoline(a) PROVE SmpInv'
    <2>1. /\ ap[a].pc = "trampoline" /\ ap' = [ap EXCEPT ![a] = [pc |-> "entry", stack |-> param_stack]]
          /\ UNCHANGED <<ids, bsp, param_stack, ap_online, online>>
        BY <1>16 DEF ap_trampoline
    <2>2. k < n /\ a = ids[k + 1] /\ bsp.pc # "start" /\ ap[a].pc \notin UpPc /\ param_stack = k
        BY <1>15, <2>1
    <2>3. PICK r : r = [pc |-> "entry", stack |-> param_stack]
        OBVIOUS
    <2>4. r \in [pc : ApPc, stack : Nat] /\ r.stack = k /\ r.pc = "entry" /\ r.pc \notin UpPc
        BY <1>2, <2>2, <2>3 DEF ApPc, UpPc
    <2>5. QED
        BY <1>14, <2>1, <2>2, <2>3, <2>4
<1>17. ASSUME NEW a \in DOMAIN ap, ap_entry(a) PROVE SmpInv'
    <2>1. /\ ap[a].pc = "entry" /\ ap' = [ap EXCEPT ![a].pc = "awake"] /\ UNCHANGED <<ids, bsp, param_stack>>
          /\ online' = online \cup {SlotOf(a)} /\ ap_online' = ap_online + 1
        BY <1>17 DEF ap_entry
    <2>2. k < n /\ a = ids[k + 1] /\ SlotOf(a) = k /\ bsp.pc # "start" /\ ap[a].pc \notin UpPc /\ ap[a].stack = k
        BY <1>15, <2>1
    <2>3. PICK r : r = [ap[a] EXCEPT !.pc = "awake"]
        OBVIOUS
    <2>4. ap' = [ap EXCEPT ![a] = r]
        BY <2>1, <2>3
    <2>5. r \in [pc : ApPc, stack : Nat] /\ r.stack = k /\ r.pc = "awake" /\ r.pc \in UpPc
        BY <1>1, <1>2, <2>2, <2>3 DEF ApPc, UpPc
    <2>6. QED
        BY <1>14, <2>1, <2>2, <2>4, <2>5
<1>18. ASSUME NEW a \in DOMAIN ap, ApLoop(a) PROVE SmpInv'
    <2>1. PICK pc \in UpPc : ap' = [ap EXCEPT ![a].pc = pc]
        BY <1>18 DEF ApLoop, run_pending_work, worker_takes, worker_works, ap_interrupt, UpPc
    <2>2. ap[a].pc \in UpPc /\ UNCHANGED <<ids, bsp, param_stack, ap_online, online>>
        BY <1>18 DEF ApLoop, run_pending_work, worker_takes, worker_works, ap_interrupt, UpPc
    <2>3. QED
        BY <2>1, <2>2, SmpUp
<1>19. CASE request_network_work
    <2>1. UNCHANGED <<ids, bsp, param_stack, ap, ap_online, online>>
        BY <1>19, Zenon DEF request_network_work
    <2>2. QED
        BY <2>1 DEF SmpInv
<1>20. QED
    BY <1>5, <1>9, <1>10, <1>11, <1>12, <1>13, <1>16, <1>17, <1>18, <1>19 DEF SmpNext

(* The invariant gives what the run checks of it.                          *)
LEMMA SmpHolds == SmpInv => StacksDistinct /\ NetworkCpuOnline
<1> SUFFICES ASSUME SmpInv PROVE StacksDistinct /\ NetworkCpuOnline
    OBVIOUS
<1>1. /\ ap \in [Range(ids) \ {Bsp} -> [pc : ApPc, stack : Nat]] /\ NumbersOK(ids) /\ BspOK(bsp, ids)
      /\ \A i \in 2..Len(ids) : ApFits(ap, param_stack, bsp, ids, i)
      /\ ap_online = Counted(ap, bsp, ids) /\ online = 0..(ap_online - 1)
    BY DEF SmpInv
<1>2. Len(ids) \in Nat /\ bsp.slot \in 1..Len(ids)
    BY <1>1, NumbersIn DEF BspOK
<1>3. ASSUME NEW a \in Running PROVE \E i \in 2..Len(ids) : ids[i] = a /\ SlotOf(a) = i - 1 /\ ap[a].stack = i - 1
    <2>1. a \in DOMAIN ap /\ ap[a].pc \in UpPc \cup {"entry"}
        BY <1>1, <1>3 DEF Running, ApPc
    <2>2. PICK i \in 2..Len(ids) : ids[i] = a /\ SlotOf(a) = i - 1
        BY <1>1, <2>1, NumberOf
    <2>3. ApFits(ap, param_stack, bsp, ids, i)
        BY <1>1
    <2>4. CASE i - 1 < bsp.slot
        BY <2>2, <2>3, <2>4 DEF ApFits
    <2>5. CASE i - 1 = bsp.slot
        BY <2>1, <2>2, <2>3, <2>5 DEF ApFits
    <2>6. CASE i - 1 > bsp.slot
        BY <2>1, <2>2, <2>3, <2>6 DEF ApFits, UpPc
    <2>7. QED
        BY <1>2, <2>4, <2>5, <2>6
<1>4. \A a \in Running : ap[a].stack = SlotOf(a) /\ SlotOf(a) # 0
    BY <1>2, <1>3
<1>5. ASSUME NEW a \in Running, NEW b \in Running, ap[a].stack = ap[b].stack PROVE a = b
    <2>1. PICK i \in 2..Len(ids) : ids[i] = a /\ ap[a].stack = i - 1
        BY <1>3
    <2>2. PICK j \in 2..Len(ids) : ids[j] = b /\ ap[b].stack = j - 1
        BY <1>3
    <2>3. i = j
        <3>1. i - 1 = j - 1
            BY <1>5, <2>1, <2>2, Zenon
        <3>2. i \in Int /\ j \in Int
            BY <1>2
        <3>3. QED
            BY <3>1, <3>2
    <2>4. QED
        BY <2>1, <2>2, <2>3
<1>6. StacksDistinct
    BY <1>4, <1>5 DEF StacksDistinct
<1>7. ap_online \in Nat
    BY <1>1, <1>2 DEF Counted
<1>8. NetworkCpuOnline
    <2>1. SUFFICES ASSUME ap_online >= NetCpus PROVE 1 \in online /\ 2 \in online
        BY DEF NetworkCpuOnline
    <2>2. NetCpus \in Nat /\ NetCpus >= 3
        BY SmpAssumption
    <2>3. QED
        BY <1>1, <1>7, <2>1, <2>2
<1>9. QED
    BY <1>6, <1>8

(***************************************************************************)
(* IDE disks.                                                              *)
(***************************************************************************)
DriveType == [st : {"ready", "busy", "drq", "err", "float"}, dir : {"none", "read", "write"}, lba : Nat, left : Int]
AtaPc == {"idle", "bsy", "select", "poll", "flush", "settle", "ok", "failed"}
AtaType ==
    [pc : AtaPc, d : AtaDrives, dir : {"read", "write"}, lba : Nat, n : Nat, i : Nat, got : Seq(Nat),
     stored : SUBSET Nat, pulled : BOOLEAN]

FirstSectors(lba, i) == [k \in 1..i |-> lba + k - 1]

(* Only the selected drive may be at work, and it works at most on the
   request that polls it.                                                  *)
AtaSelect(r, D, sel) ==
    /\ \A d \in AtaDrives : d # sel => D[d].st # "busy"
    /\ r.pc \in {"bsy", "flush"} => r.d # Card
    /\ r.pc = "select" => r.d = Card
    /\ r.pc \in {"select", "poll", "flush", "settle"} => sel = r.d

(* How far a request is: the drive that asks for or offers a sector is at
   the next one, and the sectors before it have been moved.                *)
AtaProgress(r, x) ==
    /\ r.pc \in {"bsy", "select"} => r.i = 0 /\ r.got = <<>> /\ r.stored = {} /\ r.n > 0
    /\ r.pc = "poll" => r.i < r.n
    /\ r.pc = "poll" /\ (r.dir = "read" \/ r.d = Card) /\ x.st \in {"busy", "drq"} =>
           x.dir = r.dir /\ x.lba = r.lba + r.i /\ x.left = r.n - r.i
    /\ r.pc \in {"poll", "ok"} /\ r.dir = "read" => r.got = FirstSectors(r.lba, r.i)
    /\ r.pc \in {"poll", "settle", "ok"} /\ r.dir = "write" /\ r.d = Card => r.stored = r.lba..(r.lba + r.i - 1)
    /\ r.pc \in {"ok", "settle", "flush"} => r.i = r.n
    /\ r.pc \in {"settle", "flush"} => r.dir = "write"
    /\ r.pc = "ok" /\ r.dir = "write" /\ r.d = Card => x.st \notin {"busy", "err"}

AtaInv ==
    /\ selected \in AtaDrives /\ drive \in [AtaDrives -> DriveType] /\ ata \in AtaType
    /\ AtaSelect(ata, drive, selected) /\ AtaProgress(ata, drive[ata.d])

(* The invariant gives what the run checks of the disks.                   *)
LEMMA AtaHolds == AtaInv => ReadIsRequested /\ CardWriteIsStored
    BY DEF AtaInv, AtaProgress, ReadIsRequested, CardWriteIsStored, FirstSectors, Status

(* A drive at rest, and one that failed or is absent.                      *)
LEMMA RestType == Rest \in DriveType /\ Rest.st = "ready" /\ [Rest EXCEPT !.st = "err"] \in DriveType /\ [Rest EXCEPT !.st = "float"] \in DriveType
                  /\ [Rest EXCEPT !.st = "err"].st = "err" /\ [Rest EXCEPT !.st = "float"].st = "float"
    BY DEF Rest, DriveType

(* Without a request nothing is owed.                                      *)
LEMMA IdleProgress ==
    ASSUME NEW x
    PROVE  /\ NoRequest \in AtaType /\ NoRequest.pc = "idle" /\ AtaProgress(NoRequest, x)
           /\ \A D, sel : (\A d \in AtaDrives : d # sel => D[d].st # "busy") => AtaSelect(NoRequest, D, sel)
<1>1. NoRequest \in AtaType /\ NoRequest.pc = "idle"
    BY DEF NoRequest, AtaType, AtaPc, AtaDrives
<1>2. QED
    BY <1>1 DEF AtaProgress, AtaSelect

(* The drives at the start.                                                *)
LEMMA AtaStarts == AtaInit => AtaInv
<1> SUFFICES ASSUME AtaInit PROVE AtaInv
    OBVIOUS
<1>1. selected \in AtaDrives /\ drive = [d \in AtaDrives |-> Rest] /\ ata = NoRequest
    BY DEF AtaInit
<1>2. drive \in [AtaDrives -> DriveType] /\ \A d \in AtaDrives : drive[d].st # "busy"
    BY <1>1, RestType
<1>3. QED
    BY <1>1, <1>2, IdleProgress DEF AtaInv

(* One sector more of a read.                                              *)
LEMMA SectorsAppend ==
    ASSUME NEW lba \in Nat, NEW i \in Nat
    PROVE  Append(FirstSectors(lba, i), lba + i) = FirstSectors(lba, i + 1)
<1>1. PICK f : f = FirstSectors(lba, i)
    OBVIOUS
<1>2. f \in Seq(Nat) /\ Len(f) = i /\ \A k \in 1..i : f[k] = lba + k - 1
    <2>1. f \in [1..i -> Nat]
        BY <1>1 DEF FirstSectors
    <2>2. f \in Seq(Nat)
        BY <2>1
    <2>3. QED
        BY <1>1, <2>1, <2>2, LenProperties DEF FirstSectors
<1>3. PICK g, x : x = lba + i /\ g = Append(f, x)
    OBVIOUS
<1>4. x \in Nat
    BY <1>3
<1>5. g \in Seq(Nat) /\ Len(g) = i + 1 /\ g[i + 1] = x /\ \A k \in 1..i : g[k] = f[k]
    BY <1>2, <1>3, <1>4, AppendProperties
<1>6. DOMAIN g = 1..(i + 1)
    BY <1>5, LenProperties
<1>7. \A k \in 1..(i + 1) : g[k] = lba + k - 1
    BY <1>2, <1>3, <1>5
<1>8. g = [k \in 1..(i + 1) |-> g[k]]
    BY <1>5, <1>6
<1>9. QED
    BY <1>1, <1>3, <1>7, <1>8 DEF FirstSectors

(* Every step of the disks.                                                *)
LEMMA AtaSteps == AtaInv /\ AtaNext => AtaInv'
<1> SUFFICES ASSUME AtaInv, AtaNext PROVE AtaInv'
    OBVIOUS
<1>1. selected \in AtaDrives /\ drive \in [AtaDrives -> DriveType] /\ ata \in AtaType
    BY DEF AtaInv
<1>2. AtaSelect(ata, drive, selected) /\ AtaProgress(ata, drive[ata.d])
    BY DEF AtaInv
<1>3. PICK d : d = ata.d /\ d \in AtaDrives
    BY <1>1 DEF AtaType
<1>4. Card \in AtaDrives
    BY DEF AtaDrives
\* A drive that changes and is not left at work unless it is selected.
<1>5. ASSUME NEW e \in AtaDrives, NEW x \in DriveType, drive' = [drive EXCEPT ![e] = x], UNCHANGED selected,
             x.st = "busy" => e = selected,
             ata' \in AtaType, ata'.d = d, ata'.pc = ata.pc, AtaProgress(ata', drive'[d])
      PROVE  AtaInv'
    <2>1. drive' \in [AtaDrives -> DriveType] /\ drive'[e] = x /\ \A b \in AtaDrives : b # e => drive'[b] = drive[b]
        BY <1>1, <1>5
    <2>2. AtaSelect(ata', drive', selected)
        BY <1>2, <1>3, <1>5, <2>1 DEF AtaSelect
    <2>3. QED
        BY <1>1, <1>3, <1>5, <2>1, <2>2 DEF AtaInv
<1>6. ASSUME NEW e \in AtaDrives, drive_phase(e) PROVE AtaInv'
    <2>1. PICK x : /\ x \in {IF drive[e].left > 0 THEN [drive[e] EXCEPT !.st = "drq"] ELSE Rest, [Rest EXCEPT !.st = "err"]}
                   /\ drive' = [drive EXCEPT ![e] = x]
        BY <1>6 DEF drive_phase
    <2>2. drive[e].st = "busy" /\ UNCHANGED <<selected, ata>> /\ drive[e] \in DriveType
        BY <1>1, <1>6 DEF drive_phase
    <2>3. /\ x \in DriveType /\ x.st \in {"drq", "ready", "err"}
          /\ x.st = "drq" => x.dir = drive[e].dir /\ x.lba = drive[e].lba /\ x.left = drive[e].left
        <3>1. CASE x = [drive[e] EXCEPT !.st = "drq"]
            BY <2>2, <3>1 DEF DriveType
        <3>2. CASE x = Rest \/ x = [Rest EXCEPT !.st = "err"]
            BY <3>2, RestType
        <3>3. QED
            BY <2>1, <3>1, <3>2
    <2>4. AtaProgress(ata', drive'[d])
        <3>1. CASE e # d
            <4>1. drive'[d] = drive[d]
                BY <1>1, <1>3, <2>1, <3>1
            <4>2. QED
                BY <1>2, <1>3, <2>2, <4>1
        <3>2. CASE e = d
            <4>1. drive'[d] = x
                BY <1>1, <1>3, <2>1, <3>2
            <4>2. ata.pc = "ok" => ~(ata.dir = "write" /\ ata.d = Card)
                BY <1>2, <1>3, <2>2, <3>2 DEF AtaProgress
            <4>3. AtaProgress(ata, x)
                BY <1>2, <1>3, <2>2, <2>3, <3>2, <4>2 DEF AtaProgress
            <4>4. QED
                BY <2>2, <4>1, <4>3
        <3>3. QED
            BY <3>1, <3>2
    <2>5. x.st # "busy"
        BY <2>3
    <2>6. QED
        BY <1>1, <1>3, <1>5, <2>1, <2>2, <2>3, <2>4, <2>5
<1>7. CASE pull_card
    <2>1. PICK x : x = [Rest EXCEPT !.st = "float"]
        OBVIOUS
    <2>2. drive' = [drive EXCEPT ![Card] = x] /\ UNCHANGED selected /\ x \in DriveType /\ x.st = "float"
        BY <1>7, <2>1, RestType DEF pull_card
    <2>3. PICK b \in BOOLEAN : ata' = [ata EXCEPT !.pulled = b]
        <3>1. ata' = [ata EXCEPT !.pulled = ata.pulled \/ (ata.pc # "idle" /\ ata.d = Card)]
            BY <1>7 DEF pull_card
        <3>2. QED
            BY <3>1
    <2>4. /\ ata' \in AtaType /\ ata'.pc = ata.pc /\ ata'.d = ata.d /\ ata'.dir = ata.dir /\ ata'.lba = ata.lba
          /\ ata'.n = ata.n /\ ata'.i = ata.i /\ ata'.got = ata.got /\ ata'.stored = ata.stored
        BY <1>1, <2>3 DEF AtaType
    <2>5. drive'[d] = drive[d] \/ drive'[d].st = "float"
        BY <1>1, <1>3, <2>2
    <2>6. AtaProgress(ata', drive'[d])
        BY <1>2, <1>3, <2>4, <2>5 DEF AtaProgress
    <2>7. QED
        BY <1>3, <1>4, <1>5, <2>2, <2>4, <2>6
<1>8. CASE insert_card
    <2>1. drive' = [drive EXCEPT ![Card] = Rest] /\ UNCHANGED <<selected, ata>> /\ ata.pc = "idle"
        BY <1>8 DEF insert_card
    <2>2. AtaProgress(ata', drive'[d])
        BY <2>1 DEF AtaProgress
    <2>3. QED
        BY <1>1, <1>3, <1>4, <1>5, <2>1, <2>2, RestType
<1>9. ASSUME NEW e \in AtaDrives, NEW dir \in {"read", "write"}, NEW l \in Lbas, NEW n \in 1..MaxSects, ata_request(e, dir, l, n)
      PROVE  AtaInv'
    <2>1. PICK pc : pc = IF e = Card THEN "select" ELSE "bsy"
        OBVIOUS
    <2>2. l \in Nat /\ n \in Nat /\ n > 0
        BY AtaAssumption
    <2>3. /\ ata' = [NoRequest EXCEPT !.pc = pc, !.d = e, !.dir = dir, !.lba = l, !.n = n]
          /\ UNCHANGED <<selected, drive>> /\ (e = Card <=> selected = Card)
        BY <1>9, <2>1 DEF ata_request
    <2>4. ata' = [pc |-> pc, d |-> e, dir |-> dir, lba |-> l, n |-> n, i |-> 0, got |-> <<>>, stored |-> {}, pulled |-> FALSE]
        BY <2>3 DEF NoRequest
    <2>5. ata' \in AtaType /\ ata'.pc = pc /\ ata'.d = e /\ ata'.i = 0 /\ ata'.got = <<>> /\ ata'.stored = {} /\ ata'.n = n
        <3>1. <<>> \in Seq(Nat) /\ pc \in AtaPc
            BY <2>1 DEF AtaPc
        <3>2. QED
            BY <2>2, <2>4, <3>1 DEF AtaType
    <2>6. AtaProgress(ata', drive[e])
        BY <2>1, <2>2, <2>5 DEF AtaProgress
    <2>7. AtaSelect(ata', drive, selected)
        BY <1>2, <2>1, <2>3, <2>5 DEF AtaSelect
    <2>8. QED
        BY <1>1, <2>3, <2>5, <2>6, <2>7 DEF AtaInv
\* The request goes on and the drives stay as they are.
<1>10. ASSUME NEW pc \in {"settle", "ok", "failed"}, ata' = [ata EXCEPT !.pc = pc], UNCHANGED <<selected, drive>>,
              pc = "settle" => ata.pc = "flush",
              pc = "ok" => ata.pc = "settle" /\ (d = Card => drive[d].st \notin {"busy", "err"})
       PROVE  AtaInv'
    <2>1. /\ ata' \in AtaType /\ ata'.pc = pc /\ ata'.d = ata.d /\ ata'.dir = ata.dir /\ ata'.lba = ata.lba
          /\ ata'.n = ata.n /\ ata'.i = ata.i /\ ata'.got = ata.got /\ ata'.stored = ata.stored
        BY <1>1, <1>10 DEF AtaType, AtaPc
    <2>2. AtaSelect(ata', drive, selected)
        BY <1>2, <1>10, <2>1 DEF AtaSelect
    <2>3. AtaProgress(ata', drive[d])
        BY <1>2, <1>3, <1>10, <2>1 DEF AtaProgress, AtaSelect
    <2>4. QED
        BY <1>1, <1>3, <1>10, <2>1, <2>2, <2>3 DEF AtaInv
\* The command reaches a drive that is not at work.
<1>11. ASSUME ata.pc \in {"bsy", "select"}, drive[d].st # "busy", drive' = Commanded(d, ata.dir, ata.lba, ata.n),
              selected' = d, ata' = [ata EXCEPT !.pc = "poll"], \A e \in AtaDrives : drive[e].st = "busy" => e = d
       PROVE  AtaInv'
    <2>1. PICK x : x = [st |-> "busy", dir |-> ata.dir, lba |-> ata.lba, left |-> ata.n]
        OBVIOUS
    <2>2. drive' = [drive EXCEPT ![d] = x]
        BY <1>11, <2>1 DEF Commanded
    <2>3. x \in DriveType /\ x.dir = ata.dir /\ x.lba = ata.lba /\ x.left = ata.n
        BY <1>1, <2>1 DEF DriveType, AtaType
    <2>4. drive' \in [AtaDrives -> DriveType] /\ drive'[d] = x /\ \A b \in AtaDrives : b # d => drive'[b] = drive[b]
        BY <1>1, <1>3, <2>2, <2>3
    <2>5. /\ ata' \in AtaType /\ ata'.pc = "poll" /\ ata'.d = ata.d /\ ata'.dir = ata.dir /\ ata'.lba = ata.lba
          /\ ata'.n = ata.n /\ ata'.i = ata.i /\ ata'.got = ata.got /\ ata'.stored = ata.stored
        BY <1>1, <1>11 DEF AtaType, AtaPc
    <2>6. ata.i = 0 /\ ata.got = <<>> /\ ata.stored = {} /\ ata.n > 0 /\ ata.n \in Nat /\ ata.lba \in Nat
        BY <1>1, <1>2, <1>11 DEF AtaProgress, AtaType
    <2>7. FirstSectors(ata.lba, 0) = <<>> /\ ata.lba..(ata.lba + 0 - 1) = {} /\ ata.lba + 0 = ata.lba /\ ata.n - 0 = ata.n
        BY <2>6 DEF FirstSectors
    <2>8. AtaProgress(ata', x)
        BY <2>3, <2>5, <2>6, <2>7 DEF AtaProgress
    <2>9. AtaSelect(ata', drive', d)
        BY <1>3, <1>11, <2>4, <2>5 DEF AtaSelect
    <2>10. QED
        BY <1>3, <1>11, <2>4, <2>5, <2>8, <2>9 DEF AtaInv
<1>12. CASE access_command
    <2>1. ata.pc = "bsy" /\ drive[selected].st # "busy" /\ selected' = d /\ drive' = Commanded(d, ata.dir, ata.lba, ata.n) /\ ata' = [ata EXCEPT !.pc = "poll"]
        BY <1>3, <1>12 DEF access_command
    <2>2. \A e \in AtaDrives : drive[e].st # "busy"
        BY <1>2, <2>1 DEF AtaSelect
    <2>3. QED
        BY <1>3, <1>11, <2>1, <2>2
<1>13. CASE card_command
    <2>1. ata.pc = "select" /\ drive[Card].st # "busy" /\ selected' = selected /\ drive' = Commanded(Card, ata.dir, ata.lba, ata.n) /\ ata' = [ata EXCEPT !.pc = "poll"]
        BY <1>13 DEF card_command
    <2>2. d = Card /\ selected = d
        BY <1>2, <1>3, <2>1 DEF AtaSelect
    <2>3. \A e \in AtaDrives : drive[e].st # "busy"
        BY <1>2, <2>1, <2>2 DEF AtaSelect
    <2>4. QED
        BY <1>3, <1>11, <2>1, <2>2, <2>3
<1>14. CASE read_sector
    <2>1. PICK x, i, pc, g :
            /\ x = AtaMoved(drive[d]) /\ i = ata.i + 1 /\ pc = AtaDone(ata.i + 1) /\ g = Append(ata.got, drive[d].lba)
        OBVIOUS
    <2>2. /\ ata.pc = "poll" /\ ata.dir = "read" /\ drive[d].st = "drq" /\ UNCHANGED selected
          /\ ata' = [ata EXCEPT !.got = g, !.i = i, !.pc = pc] /\ drive' = [drive EXCEPT ![d] = x]
        BY <1>3, <1>14, <2>1 DEF read_sector, Status
    <2>3. /\ ata.i \in Nat /\ ata.n \in Nat /\ ata.lba \in Nat /\ ata.i < ata.n /\ i \in Nat /\ ata.got = FirstSectors(ata.lba, ata.i)
          /\ drive[d].dir = "read" /\ drive[d].lba = ata.lba + ata.i /\ drive[d].left = ata.n - ata.i
        BY <1>1, <1>2, <1>3, <2>1, <2>2 DEF AtaProgress, AtaType
    <2>4. g = FirstSectors(ata.lba, i)
        BY <2>1, <2>3, SectorsAppend
    <2>5. g \in Seq(Nat)
        BY <1>1, <1>3, <2>1, AppendProperties DEF AtaType, DriveType
    <2>6. pc = IF i < ata.n THEN "poll" ELSE "ok"
        BY <2>1, <2>2 DEF AtaDone
    <2>7. /\ x \in DriveType
          /\ i < ata.n => x.dir = "read" /\ x.lba = ata.lba + i /\ x.left = ata.n - i
        <3>1. drive[d] \in DriveType
            BY <1>1, <1>3
        <3>2. CASE drive[d].left = 1
            <4>1. x = Rest /\ ~(i < ata.n)
                BY <2>1, <2>3, <3>2 DEF AtaMoved
            <4>2. QED
                BY <4>1, RestType
        <3>3. CASE drive[d].left # 1
            <4>1. x = [drive[d] EXCEPT !.st = "busy", !.lba = drive[d].lba + 1, !.left = drive[d].left - 1]
                BY <2>1, <3>3 DEF AtaMoved
            <4>2. drive[d].lba + 1 = ata.lba + i /\ drive[d].left - 1 = ata.n - i /\ ata.lba + i \in Nat /\ ata.n - i \in Int
                <5>1. PICK a \in Nat, b \in Nat, c \in Nat : a = ata.i /\ b = ata.lba /\ c = ata.n
                    BY <2>3
                <5>2. (b + a) + 1 = b + (a + 1) /\ (c - a) - 1 = c - (a + 1) /\ b + (a + 1) \in Nat /\ c - (a + 1) \in Int
                    OBVIOUS
                <5>3. QED
                    BY <2>1, <2>3, <5>1, <5>2, Zenon
            <4>3. x = [drive[d] EXCEPT !.st = "busy", !.lba = ata.lba + i, !.left = ata.n - i]
                BY <4>1, <4>2, Zenon
            <4>4. QED
                BY <2>3, <3>1, <4>2, <4>3 DEF DriveType
        <3>4. QED
            BY <3>2, <3>3
    <2>8. drive' \in [AtaDrives -> DriveType] /\ drive'[d] = x /\ \A b \in AtaDrives : b # d => drive'[b] = drive[b]
        BY <1>1, <1>3, <2>2, <2>7
    <2>9. /\ ata' \in AtaType /\ ata'.pc = pc /\ ata'.d = ata.d /\ ata'.dir = ata.dir /\ ata'.lba = ata.lba
          /\ ata'.n = ata.n /\ ata'.i = i /\ ata'.got = g /\ ata'.stored = ata.stored
        BY <1>1, <2>2, <2>3, <2>5, <2>6 DEF AtaType, AtaPc
    <2>10. ~(i < ata.n) => i = ata.n
        BY <2>1, <2>3
    <2>11. AtaProgress(ata', x)
        BY <2>2, <2>4, <2>6, <2>7, <2>9, <2>10 DEF AtaProgress
    <2>12. selected = d
        BY <1>2, <1>3, <2>2 DEF AtaSelect
    <2>13. AtaSelect(ata', drive', selected)
        BY <1>2, <1>3, <2>6, <2>8, <2>9, <2>12 DEF AtaSelect
    <2>14. QED
        BY <1>1, <1>3, <2>2, <2>8, <2>9, <2>11, <2>13 DEF AtaInv
<1>15. CASE write_sector
    <2>1. PICK asks \in BOOLEAN : asks = (drive[d].st = "drq")
        OBVIOUS
    <2>2. PICK x, i, pc, s :
            /\ x = (IF asks THEN AtaMoved(drive[d]) ELSE drive[d]) /\ i = ata.i + 1 /\ pc = AtaDone(ata.i + 1)
            /\ s = IF asks THEN ata.stored \cup {drive[d].lba} ELSE ata.stored
        OBVIOUS
    <2>3. /\ ata.pc = "poll" /\ ata.dir = "write" /\ drive[d].st \notin {"busy", "float"} /\ UNCHANGED selected
          /\ d = Card => asks
          /\ ata' = [ata EXCEPT !.i = i, !.pc = pc, !.stored = s]
        BY <1>3, <1>15, <2>1, <2>2 DEF write_sector, Status
    <2>4. drive' = [drive EXCEPT ![d] = x]
        <3>1. drive' = IF asks THEN [drive EXCEPT ![d] = AtaMoved(drive[d])] ELSE drive
            BY <1>3, <1>15, <2>1 DEF write_sector, Status
        <3>2. drive = [drive EXCEPT ![d] = drive[d]]
            BY <1>1
        <3>3. QED
            BY <2>2, <3>1, <3>2
    <2>5. ata.i \in Nat /\ ata.n \in Nat /\ ata.lba \in Nat /\ ata.i < ata.n /\ i \in Nat /\ drive[d] \in DriveType
        BY <1>1, <1>2, <1>3, <2>2, <2>3 DEF AtaProgress, AtaType
    <2>6. pc = IF i < ata.n THEN "poll" ELSE IF d = Card THEN "settle" ELSE "flush"
        BY <1>3, <2>2, <2>3 DEF AtaDone
    <2>7. ASSUME d = Card
          PROVE  /\ x \in DriveType /\ x.dir = "write" /\ x.lba = ata.lba + i /\ x.left = ata.n - i
                 /\ s = ata.lba..(ata.lba + i - 1)
        <3>1. /\ asks /\ drive[d].dir = "write" /\ drive[d].lba = ata.lba + ata.i /\ drive[d].left = ata.n - ata.i
              /\ ata.stored = ata.lba..(ata.lba + ata.i - 1)
            BY <1>2, <1>3, <2>1, <2>3, <2>7 DEF AtaProgress
        <3>2. x = [drive[d] EXCEPT !.st = "busy", !.lba = drive[d].lba + 1, !.left = drive[d].left - 1]
            BY <2>2, <3>1 DEF AtaMoved
        <3>0. PICK a \in Nat, b \in Nat, c \in Nat : a = ata.i /\ b = ata.lba /\ c = ata.n
            BY <2>5
        <3>3. drive[d].lba + 1 = ata.lba + i /\ drive[d].left - 1 = ata.n - i /\ ata.lba + i \in Nat /\ ata.n - i \in Int
            <4>1. (b + a) + 1 = b + (a + 1) /\ (c - a) - 1 = c - (a + 1) /\ b + (a + 1) \in Nat /\ c - (a + 1) \in Int
                OBVIOUS
            <4>2. QED
                BY <2>2, <3>0, <3>1, <4>1, Zenon
        <3>4. x = [drive[d] EXCEPT !.st = "busy", !.lba = ata.lba + i, !.left = ata.n - i]
            BY <3>2, <3>3, Zenon
        <3>5. s = ata.lba..(ata.lba + i - 1)
            <4>1. s = ata.lba..(ata.lba + ata.i - 1) \cup {ata.lba + ata.i}
                BY <2>2, <3>1
            <4>2. b..(b + a - 1) \cup {b + a} = b..(b + (a + 1) - 1)
                OBVIOUS
            <4>3. QED
                BY <2>2, <3>0, <4>1, <4>2, Zenon
        <3>6. QED
            BY <2>5, <3>1, <3>3, <3>4, <3>5 DEF DriveType
    <2>8. x \in DriveType
        <3>1. CASE x = drive[d] \/ x = Rest
            BY <2>5, <3>1, RestType
        <3>2. CASE x = [drive[d] EXCEPT !.st = "busy", !.lba = drive[d].lba + 1, !.left = drive[d].left - 1]
            <4>1. drive[d].lba + 1 \in Nat /\ drive[d].left - 1 \in Int
                BY <2>5 DEF DriveType
            <4>2. QED
                BY <2>5, <3>2, <4>1 DEF DriveType
        <3>3. QED
            BY <2>2, <3>1, <3>2 DEF AtaMoved
    <2>9. s \in SUBSET Nat
        BY <1>1, <2>2, <2>5 DEF AtaType, DriveType
    <2>10. drive' \in [AtaDrives -> DriveType] /\ drive'[d] = x /\ \A b \in AtaDrives : b # d => drive'[b] = drive[b]
        BY <1>1, <1>3, <2>4, <2>8
    <2>11. /\ ata' \in AtaType /\ ata'.pc = pc /\ ata'.d = ata.d /\ ata'.dir = ata.dir /\ ata'.lba = ata.lba
           /\ ata'.n = ata.n /\ ata'.i = i /\ ata'.got = ata.got /\ ata'.stored = s
        BY <1>1, <2>3, <2>5, <2>6, <2>9 DEF AtaType, AtaPc
    <2>12. ~(i < ata.n) => i = ata.n
        BY <2>2, <2>5
    <2>13. AtaProgress(ata', x)
        BY <1>3, <2>3, <2>6, <2>7, <2>11, <2>12 DEF AtaProgress
    <2>14. selected = d
        BY <1>2, <1>3, <2>3 DEF AtaSelect
    <2>15. AtaSelect(ata', drive', selected)
        BY <1>2, <1>3, <2>6, <2>10, <2>11, <2>14 DEF AtaSelect
    <2>16. QED
        BY <1>1, <1>3, <2>3, <2>10, <2>11, <2>13, <2>15 DEF AtaInv
<1>16. CASE access_flush
    <2>1. ata.pc = "flush" /\ drive' = Commanded(d, "none", 0, 0) /\ ata' = [ata EXCEPT !.pc = "settle"] /\ UNCHANGED selected
        BY <1>3, <1>16 DEF access_flush
    <2>2. d # Card /\ selected = d
        BY <1>2, <1>3, <2>1 DEF AtaSelect
    <2>3. PICK x \in DriveType : drive' = [drive EXCEPT ![d] = x]
        <3>1. CASE drive[d].st = "busy"
            <4>1. drive' = [drive EXCEPT ![d] = drive[d]] /\ drive[d] \in DriveType
                BY <1>1, <1>3, <2>1, <3>1 DEF Commanded
            <4>2. QED
                BY <4>1
        <3>2. CASE drive[d].st # "busy"
            <4>1. PICK y : y = [st |-> "busy", dir |-> "none", lba |-> 0, left |-> 0]
                OBVIOUS
            <4>2. drive' = [drive EXCEPT ![d] = y] /\ y \in DriveType
                BY <2>1, <3>2, <4>1 DEF Commanded, DriveType
            <4>3. QED
                BY <4>2
        <3>3. QED
            BY <3>1, <3>2
    <2>4. drive' \in [AtaDrives -> DriveType] /\ drive'[d] = x /\ \A b \in AtaDrives : b # d => drive'[b] = drive[b]
        BY <1>1, <1>3, <2>3
    <2>5. /\ ata' \in AtaType /\ ata'.pc = "settle" /\ ata'.d = ata.d /\ ata'.dir = ata.dir /\ ata'.lba = ata.lba
          /\ ata'.n = ata.n /\ ata'.i = ata.i /\ ata'.got = ata.got /\ ata'.stored = ata.stored
        BY <1>1, <2>1 DEF AtaType, AtaPc
    <2>6. AtaProgress(ata', x)
        BY <1>2, <1>3, <2>1, <2>2, <2>5 DEF AtaProgress
    <2>7. AtaSelect(ata', drive', selected)
        BY <1>2, <1>3, <2>2, <2>4, <2>5 DEF AtaSelect
    <2>8. QED
        BY <1>1, <1>3, <2>1, <2>4, <2>5, <2>6, <2>7 DEF AtaInv
<1>17. CASE write_settled
    <2>1. PICK pc : pc = Settled
        OBVIOUS
    <2>2. ata.pc = "settle" /\ drive[d].st # "busy" /\ ata' = [ata EXCEPT !.pc = pc] /\ UNCHANGED <<selected, drive>>
        BY <1>3, <1>17, <2>1 DEF write_settled, Status
    <2>3. pc \in {"ok", "failed"} /\ (pc = "ok" /\ d = Card => drive[d].st # "err")
        BY <1>3, <2>1 DEF Settled, Status
    <2>4. QED
        BY <1>10, <2>2, <2>3
<1>18. CASE ata_fail
    BY <1>10, <1>18 DEF ata_fail
<1>19. CASE ata_return
    <2>1. ata' = NoRequest /\ UNCHANGED <<selected, drive>>
        BY <1>19 DEF ata_return
    <2>2. \A e \in AtaDrives : e # selected => drive[e].st # "busy"
        BY <1>2 DEF AtaSelect
    <2>3. QED
        BY <1>1, <2>1, <2>2, IdleProgress DEF AtaInv
<1>20. QED
    BY <1>6, <1>7, <1>8, <1>9, <1>12, <1>13, <1>14, <1>15, <1>16, <1>17, <1>18, <1>19 DEF AtaNext, Polls

(***************************************************************************)
(* Positions in a ring, without division.                                  *)
(***************************************************************************)
LEMMA ModUnique ==
    ASSUME NEW c \in Nat \ {0}, NEW x \in 0..(c - 1)
    PROVE  x % c = x /\ (x + c) % c = x
    OBVIOUS

(* n slots behind h in a ring of c.                                        *)
Onward(h, n, c) == IF h + n < c THEN h + n ELSE h + n - c

(* A place of a ring, n places on.                                         *)
LEMMA OnwardIn ==
    ASSUME NEW c \in Nat \ {0}, NEW h \in 0..(c - 1), NEW n \in 0..c
    PROVE  Onward(h, n, c) \in 0..(c - 1) /\ Onward(h, 0, c) = h
    BY DEF Onward

(* One place further on.                                                   *)
LEMMA OnwardNext ==
    ASSUME NEW c \in Nat \ {0}, NEW h \in 0..(c - 1), NEW n \in 0..(c - 1)
    PROVE  /\ (Onward(h, n, c) + 1) % c = Onward(h, n + 1, c)
           /\ Onward((h + 1) % c, n, c) = Onward(h, n + 1, c)
<1>1. ASSUME NEW x \in 0..(c - 1) PROVE (x + 1) % c = Onward(x, 1, c)
    <2>1. CASE x + 1 < c
        <3>1. x + 1 \in 0..(c - 1)
            BY <2>1
        <3>2. (x + 1) % c = x + 1
            BY <3>1, ModUnique
        <3>3. QED
            BY <2>1, <3>2 DEF Onward
    <2>2. CASE ~(x + 1 < c)
        <3>1. x + 1 = 0 + c /\ 0 \in 0..(c - 1) /\ x + 1 - c = 0
            BY <2>2
        <3>2. (0 + c) % c = 0
            BY <3>1, ModUnique
        <3>3. QED
            BY <2>2, <3>1, <3>2 DEF Onward
    <2>3. QED
        BY <2>1, <2>2
<1>2. Onward(h, n, c) \in 0..(c - 1)
    BY OnwardIn
<1>3. (h + 1) % c = Onward(h, 1, c) /\ (Onward(h, n, c) + 1) % c = Onward(Onward(h, n, c), 1, c)
    BY <1>1, <1>2
<1>4. QED
    BY <1>3 DEF Onward

(* Places at different distances differ.                                   *)
LEMMA OnwardApart ==
    ASSUME NEW c \in Nat \ {0}, NEW h \in 0..(c - 1), NEW m \in 0..(c - 1), NEW n \in 0..(c - 1),
           Onward(h, m, c) = Onward(h, n, c)
    PROVE  m = n
    BY DEF Onward

(***************************************************************************)
(* The ring of inputs.                                                     *)
(***************************************************************************)
(* The ring holds the queue, from head on.                                 *)
HoldsFrom(h, t, q, s) ==
    /\ h \in RingSlots /\ q \in Seq(Nat) /\ Len(q) < RingCap /\ t = Onward(h, Len(q), RingCap)
    /\ \A k \in 1..Len(q) : s[Onward(h, k - 1, RingCap)] = [a |-> q[k], b |-> q[k]]

(* What the producer loaded: head may have moved on since, by no more than the
   slots that are free.                                                    *)
ProdOK(p, h, t, q, s, n) ==
    /\ p \in [pc : {"idle", "check", "write", "write2", "publish"}, head : RingSlots, tail : RingSlots]
    /\ p.pc # "idle" => p.tail = t
    /\ p.pc = "check" => \E j \in 0..(RingCap - 1 - Len(q)) : h = Onward(p.head, j, RingCap)
    /\ p.pc \in {"write", "write2", "publish"} => Len(q) + 1 < RingCap
    /\ p.pc \in {"write2", "publish"} => s[t].a = n
    /\ p.pc = "publish" => s[t].b = n

ConsOK(c, h, q, x) ==
    /\ c \in [pc : {"idle", "read", "read2", "advance"}, head : RingSlots, tail : RingSlots, a : Nat]
    /\ c.pc # "idle" => c.head = h /\ Len(q) > 0
    /\ c.pc = "read2" => c.a = q[1]
    /\ c.pc = "advance" => x = [a |-> q[1], b |-> q[1]]

RingInv ==
    /\ slots \in [RingSlots -> [a : Nat, b : Nat]] /\ made \in Nat
    /\ HoldsFrom(head, tail, queued, slots)
    /\ ProdOK(prod, head, tail, queued, slots, made)
    /\ ConsOK(cons, head, queued, taken)

(* The invariant gives what the run checks of the ring.                    *)
LEMMA RingHolds == RingInv => TakenWhole /\ RingHoldsQueue
<1> SUFFICES ASSUME RingInv PROVE TakenWhole /\ RingHoldsQueue
    OBVIOUS
<1>1. HoldsFrom(head, tail, queued, slots) /\ ConsOK(cons, head, queued, taken)
    BY DEF RingInv
<1>2. queued \in Seq(Nat) /\ Len(queued) \in Nat /\ RingCap \in Nat \ {0}
    BY <1>1, LenProperties, RingAssumption DEF HoldsFrom
<1>3. TakenWhole
    <2>1. SUFFICES ASSUME cons.pc = "advance" PROVE taken.a = taken.b /\ queued # <<>> /\ taken.a = Head(queued)
        BY DEF TakenWhole
    <2>2. Len(queued) > 0 /\ taken = [a |-> queued[1], b |-> queued[1]]
        BY <1>1, <2>1 DEF ConsOK
    <2>3. queued # <<>>
        BY <1>2, <2>2, EmptySeq
    <2>4. Head(queued) = queued[1]
        BY <1>2, <2>3, HeadTailProperties
    <2>5. QED
        BY <2>2, <2>3, <2>4
<1>4. RingHoldsQueue
    <2>1. PICK c, h, n : c = RingCap /\ h = head /\ n = Len(queued)
        OBVIOUS
    <2>2. c \in Nat \ {0} /\ h \in 0..(c - 1) /\ n \in 0..(c - 1) /\ tail = Onward(h, n, c)
        BY <1>1, <1>2, <2>1 DEF HoldsFrom, RingSlots
    <2>3. Onward(h, n, c) - h + c \in {n + c, n}
        BY <2>2 DEF Onward
    <2>4. n % c = n /\ (n + c) % c = n
        BY <2>2, ModUnique
    <2>5. QED
        BY <2>1, <2>2, <2>3, <2>4 DEF RingHoldsQueue
<1>5. QED
    BY <1>3, <1>4

(* The ring is empty at the start.                                         *)
LEMMA RingStarts == RingInit => RingInv
<1> SUFFICES ASSUME RingInit PROVE RingInv
    OBVIOUS
<1>1. RingCap \in Nat \ {0} /\ 0 \in RingSlots
    BY RingAssumption DEF RingSlots
<1>2. slots \in [RingSlots -> [a : Nat, b : Nat]] /\ made \in Nat
    BY DEF RingInit
<1>3. queued \in Seq(Nat) /\ Len(queued) = 0 /\ Len(queued) < RingCap
    BY <1>1 DEF RingInit
<1>4. Onward(0, 0, RingCap) = 0
    BY <1>1 DEF Onward
<1>5. HoldsFrom(head, tail, queued, slots)
    BY <1>1, <1>3, <1>4 DEF HoldsFrom, RingInit
<1>6. ProdOK(prod, head, tail, queued, slots, made) /\ ConsOK(cons, head, queued, taken)
    BY <1>1 DEF ProdOK, ConsOK, RingInit
<1>7. QED
    BY <1>2, <1>5, <1>6 DEF RingInv

(* Every step of the ring.                                                 *)
LEMMA RingSteps == RingInv /\ RingNext => RingInv'
<1> SUFFICES ASSUME RingInv, RingNext PROVE RingInv'
    OBVIOUS
<1>1. /\ slots \in [RingSlots -> [a : Nat, b : Nat]] /\ made \in Nat
      /\ HoldsFrom(head, tail, queued, slots)
      /\ ProdOK(prod, head, tail, queued, slots, made)
      /\ ConsOK(cons, head, queued, taken)
    BY DEF RingInv
<1>2. RingCap \in Nat \ {0} /\ RingSlots = 0..(RingCap - 1)
    BY RingAssumption DEF RingSlots
<1>3. PICK n : n = Len(queued) /\ n \in 0..(RingCap - 1)
    <2>1. Len(queued) \in Nat /\ Len(queued) < RingCap
        BY <1>1, LenProperties DEF HoldsFrom
    <2>2. Len(queued) \in 0..(RingCap - 1)
        BY <1>2, <2>1
    <2>3. QED
        BY <2>2
<1>4. head \in RingSlots /\ tail = Onward(head, n, RingCap) /\ tail \in RingSlots /\ queued \in Seq(Nat)
    <2>1. head \in RingSlots /\ tail = Onward(head, n, RingCap) /\ queued \in Seq(Nat)
        BY <1>1, <1>3 DEF HoldsFrom
    <2>2. n \in 0..RingCap
        BY <1>2, <1>3
    <2>3. QED
        BY <1>2, <2>1, <2>2, OnwardIn
<1>5. /\ prod \in [pc : {"idle", "check", "write", "write2", "publish"}, head : RingSlots, tail : RingSlots]
      /\ cons \in [pc : {"idle", "read", "read2", "advance"}, head : RingSlots, tail : RingSlots, a : Nat]
    BY <1>1 DEF ProdOK, ConsOK
<1>6. CASE push_load
    <2>1. /\ prod' = [pc |-> "check", head |-> head, tail |-> tail] /\ made' = made + 1
          /\ UNCHANGED <<slots, head, tail, cons, queued, taken>>
        BY <1>6 DEF push_load
    <2>2. prod'.pc = "check" /\ prod'.head = head /\ prod'.tail = tail
        BY <2>1
    <2>3. \E j \in 0..(RingCap - 1 - Len(queued)) : head = Onward(head, j, RingCap)
        <3>1. 0 \in 0..(RingCap - 1 - Len(queued)) /\ 0 \in 0..RingCap
            BY <1>2, <1>3
        <3>2. head = Onward(head, 0, RingCap)
            BY <1>2, <1>4, <3>1, OnwardIn
        <3>3. QED
            BY <3>1, <3>2
    <2>4. prod' \in [pc : {"idle", "check", "write", "write2", "publish"}, head : RingSlots, tail : RingSlots]
        BY <1>4, <2>1
    <2>5. ProdOK(prod', head, tail, queued, slots, made')
        BY <2>2, <2>3, <2>4 DEF ProdOK
    <2>6. QED
        BY <1>1, <2>1, <2>5 DEF RingInv
<1>7. CASE push_check
    <2>1. UNCHANGED <<slots, head, tail, cons, made, queued, taken>> /\ prod.pc = "check"
        BY <1>7 DEF push_check
    <2>2. PICK pc : pc = (IF RingFull(prod) THEN "idle" ELSE "write") /\ prod' = [prod EXCEPT !.pc = pc]
        BY <1>7 DEF push_check
    <2>3. prod'.pc = pc /\ prod'.head = prod.head /\ prod'.tail = prod.tail /\ prod.tail = tail
        BY <1>1, <1>5, <2>1, <2>2 DEF ProdOK
    <2>4. prod' \in [pc : {"idle", "check", "write", "write2", "publish"}, head : RingSlots, tail : RingSlots]
        BY <1>5, <2>2
    <2>5. ASSUME ~RingFull(prod) PROVE n + 1 < RingCap
        <3>1. PICK j \in 0..(RingCap - 1 - n) : head = Onward(prod.head, j, RingCap)
            BY <1>1, <1>3, <2>1 DEF ProdOK
        <3>2. PICK c, p : c = RingCap /\ p = prod.head
            OBVIOUS
        <3>3. c \in Nat \ {0} /\ p \in 0..(c - 1) /\ n \in 0..(c - 1) /\ j \in 0..(c - 1 - n)
            BY <1>2, <1>3, <1>5, <3>1, <3>2
        <3>4. tail = Onward(p, j + n, c)
            <4>1. tail = Onward(Onward(p, j, c), n, c)
                BY <1>4, <3>1, <3>2
            <4>2. QED
                BY <3>3, <4>1 DEF Onward
        <3>5. j + n \in 0..(c - 1)
            BY <3>3
        <3>6. RingAfter(tail) = Onward(p, (j + n) + 1, c)
            BY <3>2, <3>3, <3>4, <3>5, OnwardNext DEF RingAfter
        <3>7. RingAfter(tail) # p
            BY <2>3, <2>5, <3>2 DEF RingFull
        <3>8. j + n # c - 1
            <4>1. Onward(p, c, c) = p
                BY <3>3 DEF Onward
            <4>2. j + n = c - 1 => (j + n) + 1 = c
                BY <3>3
            <4>3. QED
                BY <3>6, <3>7, <4>1, <4>2
        <3>9. QED
            BY <3>2, <3>3, <3>8
    <2>6. ProdOK(prod', head, tail, queued, slots, made)
        BY <1>3, <2>2, <2>3, <2>4, <2>5 DEF ProdOK
    <2>7. QED
        BY <1>1, <2>1, <2>6 DEF RingInv
<1>8. CASE push_write
    <2>1. PICK x : x = IF prod.pc = "write" THEN [slots[tail] EXCEPT !.a = made] ELSE [slots[tail] EXCEPT !.b = made]
        OBVIOUS
    <2>2. PICK pc : pc = (IF prod.pc = "write" THEN "write2" ELSE "publish") /\ prod' = [prod EXCEPT !.pc = pc]
        BY <1>8 DEF push_write
    <2>3. prod.pc \in {"write", "write2"} /\ prod.tail = tail /\ UNCHANGED <<head, tail, cons, made, queued, taken>>
        BY <1>1, <1>8 DEF push_write, ProdOK
    <2>4. slots' = [slots EXCEPT ![tail] = x]
        BY <1>8, <2>1, <2>3 DEF push_write
    <2>5. slots[tail] \in [a : Nat, b : Nat]
        BY <1>1, <1>4
    <2>6. x \in [a : Nat, b : Nat] /\ x.a = (IF prod.pc = "write" THEN made ELSE slots[tail].a) /\ (prod.pc = "write2" => x.b = made)
        BY <1>1, <2>1, <2>3, <2>5
    <2>7. slots' \in [RingSlots -> [a : Nat, b : Nat]] /\ slots'[tail] = x /\ \A i \in RingSlots : i # tail => slots'[i] = slots[i]
        BY <1>1, <1>4, <2>4, <2>6
    <2>8. HoldsFrom(head, tail, queued, slots')
        <3>1. ASSUME NEW k \in 1..n PROVE slots'[Onward(head, k - 1, RingCap)] = [a |-> queued[k], b |-> queued[k]]
            <4>1. k - 1 \in 0..(RingCap - 1) /\ k - 1 # n /\ k - 1 \in 0..RingCap
                BY <1>2, <1>3
            <4>2. Onward(head, k - 1, RingCap) \in RingSlots /\ Onward(head, k - 1, RingCap) # tail
                BY <1>2, <1>3, <1>4, <4>1, OnwardIn, OnwardApart
            <4>3. slots[Onward(head, k - 1, RingCap)] = [a |-> queued[k], b |-> queued[k]]
                BY <1>1, <1>3 DEF HoldsFrom
            <4>4. QED
                BY <2>7, <4>2, <4>3
        <3>2. QED
            BY <1>1, <1>3, <3>1 DEF HoldsFrom
    <2>9. prod'.pc = pc /\ prod'.tail = tail
        BY <1>5, <2>2, <2>3
    <2>10. prod' \in [pc : {"idle", "check", "write", "write2", "publish"}, head : RingSlots, tail : RingSlots]
        BY <1>5, <2>2
    <2>11. Len(queued) + 1 < RingCap /\ (prod.pc = "write2" => slots[tail].a = made)
        BY <1>1, <2>3 DEF ProdOK
    <2>12. ProdOK(prod', head, tail, queued, slots', made)
        BY <2>2, <2>3, <2>6, <2>7, <2>9, <2>10, <2>11 DEF ProdOK
    <2>13. QED
        BY <1>1, <2>3, <2>7, <2>8, <2>12 DEF RingInv
<1>9. CASE push_publish
    <2>1. prod.pc = "publish" /\ tail' = RingAfter(prod.tail) /\ queued' = Append(queued, made) /\ prod' = [prod EXCEPT !.pc = "idle"]
        BY <1>9 DEF push_publish
    <2>2. UNCHANGED <<slots, head, cons, made, taken>>
        BY <1>9 DEF push_publish
    <2>3. prod.tail = tail /\ n + 1 < RingCap /\ slots[tail].a = made /\ slots[tail].b = made
        BY <1>1, <1>3, <2>1 DEF ProdOK
    <2>4. slots[tail] = [a |-> made, b |-> made]
        BY <1>1, <1>4, <2>3
    <2>5. queued' \in Seq(Nat) /\ Len(queued') = n + 1 /\ queued'[n + 1] = made /\ \A k \in 1..n : queued'[k] = queued[k]
        BY <1>1, <1>3, <1>4, <2>1, AppendProperties
    <2>6. tail' = Onward(head, n + 1, RingCap)
        BY <1>2, <1>3, <1>4, <2>1, <2>3, OnwardNext DEF RingAfter
    <2>7. ASSUME NEW k \in 1..(n + 1) PROVE slots[Onward(head, k - 1, RingCap)] = [a |-> queued'[k], b |-> queued'[k]]
        <3>1. CASE k = n + 1
            <4>1. k - 1 = n
                BY <1>3, <3>1
            <4>2. QED
                BY <1>4, <2>4, <2>5, <3>1, <4>1
        <3>2. CASE k # n + 1
            <4>1. k \in 1..n
                BY <1>3, <3>2
            <4>2. QED
                BY <1>1, <1>3, <2>5, <4>1 DEF HoldsFrom
        <3>3. QED
            BY <3>1, <3>2
    <2>8. HoldsFrom(head, tail', queued', slots)
        BY <1>4, <2>3, <2>5, <2>6, <2>7 DEF HoldsFrom
    <2>9. prod' \in [pc : {"idle", "check", "write", "write2", "publish"}, head : RingSlots, tail : RingSlots] /\ prod'.pc = "idle"
        BY <1>5, <2>1
    <2>10. ProdOK(prod', head, tail', queued', slots, made)
        BY <2>9 DEF ProdOK
    <2>11. ConsOK(cons, head, queued', taken)
        <3>1. n > 0 => 1 \in 1..n
            BY <1>3
        <3>2. n > 0 => n + 1 > 0
            BY <1>3
        <3>3. QED
            BY <1>1, <1>3, <2>5, <3>1, <3>2 DEF ConsOK
    <2>12. QED
        BY <1>1, <2>2, <2>8, <2>10, <2>11 DEF RingInv
<1>10. ASSUME UNCHANGED <<slots, head, tail, prod, made, queued>>, ConsOK(cons', head, queued, taken') PROVE RingInv'
    BY <1>1, <1>10 DEF RingInv
<1>11. CASE pop_load
    <2>1. /\ cons' = [cons EXCEPT !.pc = "read", !.head = head, !.tail = tail] /\ head # tail
          /\ UNCHANGED <<slots, head, tail, prod, made, queued, taken>>
        BY <1>11 DEF pop_load
    <2>2. n > 0
        <3>1. Onward(head, 0, RingCap) = head
            BY <1>2, <1>4 DEF Onward
        <3>2. n # 0
            BY <1>4, <2>1, <3>1
        <3>3. QED
            BY <1>3, <3>2
    <2>3. /\ cons' \in [pc : {"idle", "read", "read2", "advance"}, head : RingSlots, tail : RingSlots, a : Nat]
          /\ cons'.pc = "read" /\ cons'.head = head
        BY <1>4, <1>5, <2>1
    <2>4. ConsOK(cons', head, queued, taken')
        BY <1>3, <2>2, <2>3 DEF ConsOK
    <2>5. QED
        BY <1>10, <2>1, <2>4
<1>12. ASSUME cons.pc # "idle" PROVE cons.head = head /\ slots[head] = [a |-> queued[1], b |-> queued[1]] /\ n > 0
    <2>1. cons.head = head /\ n > 0
        BY <1>1, <1>3, <1>12 DEF ConsOK
    <2>2. 1 \in 1..n /\ 1 - 1 = 0 /\ Onward(head, 0, RingCap) = head
        BY <1>2, <1>3, <1>4, <2>1 DEF Onward
    <2>3. QED
        BY <1>1, <1>3, <2>1, <2>2 DEF HoldsFrom
<1>13. CASE pop_read
    <2>1. /\ cons.pc = "read" /\ cons' = [cons EXCEPT !.pc = "read2", !.a = slots[cons.head].a]
          /\ UNCHANGED <<slots, head, tail, prod, made, queued, taken>>
        BY <1>13 DEF pop_read
    <2>2. cons.head = head /\ slots[head] = [a |-> queued[1], b |-> queued[1]] /\ n > 0
        BY <1>12, <2>1
    <2>3. slots[head].a = queued[1] /\ slots[head].a \in Nat
        BY <1>1, <1>4, <2>2
    <2>4. /\ cons' \in [pc : {"idle", "read", "read2", "advance"}, head : RingSlots, tail : RingSlots, a : Nat]
          /\ cons'.pc = "read2" /\ cons'.head = head /\ cons'.a = queued[1]
        BY <1>5, <2>1, <2>2, <2>3
    <2>5. ConsOK(cons', head, queued, taken')
        BY <1>3, <2>2, <2>4 DEF ConsOK
    <2>6. QED
        BY <1>10, <2>1, <2>5
<1>14. CASE pop_read2
    <2>1. /\ cons.pc = "read2" /\ taken' = [a |-> cons.a, b |-> slots[cons.head].b] /\ cons' = [cons EXCEPT !.pc = "advance"]
          /\ UNCHANGED <<slots, head, tail, prod, made, queued>>
        BY <1>14 DEF pop_read2
    <2>2. cons.head = head /\ slots[head] = [a |-> queued[1], b |-> queued[1]] /\ n > 0 /\ cons.a = queued[1]
        BY <1>1, <1>12, <2>1 DEF ConsOK
    <2>3. taken' = [a |-> queued[1], b |-> queued[1]]
        BY <2>1, <2>2
    <2>4. /\ cons' \in [pc : {"idle", "read", "read2", "advance"}, head : RingSlots, tail : RingSlots, a : Nat]
          /\ cons'.pc = "advance" /\ cons'.head = head
        BY <1>5, <2>1, <2>2
    <2>5. ConsOK(cons', head, queued, taken')
        BY <1>3, <2>2, <2>3, <2>4 DEF ConsOK
    <2>6. QED
        BY <1>10, <2>1, <2>5
<1>15. CASE pop_advance
    <2>1. cons.pc = "advance" /\ head' = RingAfter(cons.head) /\ queued' = Tail(queued) /\ cons' = [cons EXCEPT !.pc = "idle"]
        BY <1>15 DEF pop_advance
    <2>2. UNCHANGED <<slots, tail, prod, made, taken>>
        BY <1>15 DEF pop_advance
    <2>3. n > 0 /\ cons.head = head
        BY <1>12, <2>1
    <2>4. queued # <<>>
        BY <1>3, <1>4, <2>3, EmptySeq
    <2>5. queued' \in Seq(Nat) /\ Len(queued') = n - 1 /\ \A k \in 1..(n - 1) : queued'[k] = queued[k + 1]
        BY <1>3, <1>4, <2>1, <2>4, HeadTailProperties
    <2>6. head' = (head + 1) % RingCap /\ 1 \in 0..RingCap
        BY <1>2, <2>1, <2>3 DEF RingAfter
    <2>7. head' = Onward(head, 1, RingCap) /\ head' \in RingSlots
        <3>1. 0 \in 0..(RingCap - 1) /\ Onward(head, 0, RingCap) = head /\ 0 + 1 = 1
            BY <1>2, <1>4 DEF Onward
        <3>2. head' = Onward(head, 1, RingCap)
            BY <1>2, <1>4, <2>6, <3>1, OnwardNext
        <3>3. QED
            BY <1>2, <1>4, <2>6, <3>2, OnwardIn
    <2>8. ASSUME NEW m \in 0..(n - 1) PROVE Onward(head', m, RingCap) = Onward(head, m + 1, RingCap)
        <3>1. m \in 0..(RingCap - 1)
            BY <1>2, <1>3
        <3>2. QED
            BY <1>2, <1>4, <2>6, <3>1, OnwardNext
    <2>9. tail = Onward(head', n - 1, RingCap)
        <3>1. n - 1 \in 0..(n - 1) /\ (n - 1) + 1 = n
            BY <1>3, <2>3
        <3>2. QED
            BY <1>4, <2>8, <3>1
    <2>10. ASSUME NEW k \in 1..(n - 1) PROVE slots[Onward(head', k - 1, RingCap)] = [a |-> queued'[k], b |-> queued'[k]]
        <3>1. k - 1 \in 0..(n - 1) /\ (k - 1) + 1 = k /\ k + 1 \in 1..n /\ (k + 1) - 1 = k
            BY <1>3
        <3>2. Onward(head', k - 1, RingCap) = Onward(head, (k + 1) - 1, RingCap)
            BY <2>8, <3>1
        <3>3. slots[Onward(head, (k + 1) - 1, RingCap)] = [a |-> queued[k + 1], b |-> queued[k + 1]]
            BY <1>1, <1>3, <3>1 DEF HoldsFrom
        <3>4. QED
            BY <2>5, <3>2, <3>3
    <2>11. HoldsFrom(head', tail', queued', slots')
        <3>1. Len(queued') < RingCap
            BY <1>2, <1>3, <2>5
        <3>2. QED
            BY <2>2, <2>5, <2>7, <2>9, <2>10, <3>1 DEF HoldsFrom
    <2>12. /\ cons' \in [pc : {"idle", "read", "read2", "advance"}, head : RingSlots, tail : RingSlots, a : Nat]
           /\ cons'.pc = "idle"
        BY <1>5, <2>1
    <2>13. ConsOK(cons', head', queued', taken')
        BY <2>12 DEF ConsOK
    <2>14. ASSUME prod.pc = "check" PROVE \E j \in 0..(RingCap - 1 - Len(queued')) : head' = Onward(prod.head, j, RingCap)
        <3>1. PICK j \in 0..(RingCap - 1 - n) : head = Onward(prod.head, j, RingCap)
            BY <1>1, <1>3, <2>14 DEF ProdOK
        <3>2. j + 1 \in 0..(RingCap - 1 - Len(queued')) /\ j \in 0..(RingCap - 1)
            BY <1>2, <1>3, <2>3, <2>5
        <3>3. head' = Onward(prod.head, j + 1, RingCap)
            BY <1>2, <1>5, <2>6, <3>1, <3>2, OnwardNext
        <3>4. QED
            BY <3>2, <3>3
    <2>15. ProdOK(prod', head', tail', queued', slots', made')
        <3>1. n + 1 < RingCap => Len(queued') + 1 < RingCap
            BY <1>2, <1>3, <2>5
        <3>2. QED
            BY <1>1, <1>3, <2>2, <2>14, <3>1 DEF ProdOK
    <2>16. QED
        BY <1>1, <2>2, <2>11, <2>13, <2>15 DEF RingInv
<1>16. QED
    BY <1>6, <1>7, <1>8, <1>9, <1>11, <1>13, <1>14, <1>15 DEF RingNext

(***************************************************************************)
(* Network cards.                                                          *)
(***************************************************************************)
(* What waits in the transmit ring are the frames after the last one sent,
   in order from the slot the card looks at.                               *)
TxHolds(T, w, h, q, s, c) ==
    /\ h = Onward(w, c, NSlots) /\ q = Len(s) + c
    /\ \A j \in 0..(NSlots - 1) : T[Onward(w, j, NSlots)] = IF j < c THEN Len(s) + 1 + j ELSE 0

TxInv ==
    /\ tx \in [Slots -> Nat] /\ hw_tx \in Slots /\ queued_tx \in Nat /\ sent \in Seq(Nat) /\ SentInOrder
    /\ \E c \in 0..NSlots : TxHolds(tx, hw_tx, tx_head, queued_tx, sent, c)

(* The first m slots behind h hold frames of the wire, later ones than the
   stack has seen, in order; the others are the card's.                    *)
FrameAt(R, h, j) == R[Onward(h, j, NSlots)].frame

RxHeld(R, h, m, arr, g) ==
    /\ \A j \in 0..(m - 1) : FrameAt(R, h, j) \in 1..arr /\ \A i \in DOMAIN g : g[i] < FrameAt(R, h, j)
    /\ \A i, j \in 0..(m - 1) : i < j => FrameAt(R, h, i) < FrameAt(R, h, j)
    /\ \A j \in m..(NSlots - 1) : R[Onward(h, j, NSlots)] = Armed
    /\ g \in Seq(Nat) /\ Increasing(g) /\ \A i \in DOMAIN g : g[i] <= arr

SlotType == [frame : Nat, ok : BOOLEAN]

(* The card is c slots ahead of the driver, and m are filled: one more than c
   while the card copies.  Only the i8255x goes on when the ring is full.  *)
RxFilled(c, m) ==
    /\ RxHeld(rx, rx_head, m, arrived, got) /\ hw_rx = Onward(rx_head, c, NSlots)
    /\ copying => m = c + 1
    /\ ~copying => m = c
    /\ nic # "i8255x" => m < NSlots

RxInv ==
    /\ rx \in [Slots -> SlotType] /\ hw_rx \in Slots /\ rx_head \in Slots /\ rdt \in Slots /\ arrived \in Nat
    /\ rx_head = After(rdt)
    /\ (nic = "i8255x" /\ lapped) \/ \E c, m \in 0..NSlots : RxFilled(c, m)

(* Every frame that is ready while nobody polls was announced.             *)
BhInv ==
    /\ copying \in BOOLEAN /\ irq_ok \in BOOLEAN /\ mask \in BOOLEAN /\ cause \in BOOLEAN /\ irq_pending \in BOOLEAN
    /\ bh = [pc |-> bh.pc, n |-> bh.n, cut |-> bh.cut] /\ bh.cut \in BOOLEAN
    /\ nic = "none" \/ nic \in NicKinds
    /\ nic = "none" => bh.pc = "idle" /\ ~irq_ok
    /\ copying => nic = "rtl8139"
    /\ irq_ok => mask \/ irq_pending \/ bh.pc # "idle"
    /\ bh.pc = "idle" /\ Ready(rx_head) /\ ~bh.cut => irq_pending \/ cause
    /\ bh.pc = "egress" /\ Ready(rx_head) /\ ~bh.cut => irq_pending \/ cause \/ bh.n = Budget

NicInv == TxInv /\ RxInv /\ BhInv

(* The slots of the card.                                                  *)
LEMMA NicSlots == NSlots \in Nat \ {0} /\ Slots = 0..(NSlots - 1) /\ 0 \in Slots
    BY NicAssumption DEF Slots

(* The slot after one.                                                     *)
LEMMA AfterIn ==
    ASSUME NEW s \in Slots
    PROVE  After(s) \in Slots /\ After(s) = Onward(s, 1, NSlots)
<1>1. NSlots \in Nat \ {0} /\ Slots = 0..(NSlots - 1) /\ 0 \in 0..(NSlots - 1) /\ 1 \in 0..NSlots /\ 0 + 1 = 1 /\ 0 \in 0..NSlots
    BY NicSlots
<1>2. Onward(s, 0, NSlots) = s
    BY <1>1, OnwardIn
<1>3. (s + 1) % NSlots = Onward(s, 1, NSlots)
    BY <1>1, <1>2, OnwardNext
<1>4. QED
    BY <1>1, <1>3, OnwardIn DEF After

(* Every slot is some way behind a given one.                              *)
LEMMA SlotBehind ==
    ASSUME NEW h \in Slots, NEW x \in Slots
    PROVE  \E j \in 0..(NSlots - 1) : x = Onward(h, j, NSlots)
<1>1. NSlots \in Nat \ {0} /\ h \in 0..(NSlots - 1) /\ x \in 0..(NSlots - 1)
    BY NicSlots
<1>2. PICK j : j = IF x >= h THEN x - h ELSE x - h + NSlots
    OBVIOUS
<1>3. j \in 0..(NSlots - 1) /\ x = Onward(h, j, NSlots)
    BY <1>1, <1>2 DEF Onward
<1>4. QED
    BY <1>3

(***************************************************************************)
(* Transmission.                                                           *)
(***************************************************************************)
LEMMA TxStarts == NicInit => TxInv
<1> SUFFICES ASSUME NicInit PROVE TxInv
    OBVIOUS
<1>1. NSlots \in Nat \ {0} /\ Slots = 0..(NSlots - 1) /\ 0 \in Slots /\ 0 \in 0..NSlots
    BY NicSlots
<1>2. sent = <<>> /\ sent \in Seq(Nat) /\ Len(sent) = 0 /\ queued_tx = 0 /\ hw_tx = 0 /\ tx_head = 0
    BY DEF NicInit
<1>3. SentInOrder
    BY <1>2 DEF SentInOrder
<1>4. tx \in [Slots -> Nat] /\ \A x \in Slots : tx[x] = 0
    BY DEF NicInit
<1>5. Onward(0, 0, NSlots) = 0 /\ \A j \in 0..(NSlots - 1) : Onward(0, j, NSlots) \in Slots /\ ~(j < 0)
    BY <1>1 DEF Onward
<1>6. TxHolds(tx, hw_tx, tx_head, queued_tx, sent, 0)
    BY <1>2, <1>4, <1>5 DEF TxHolds
<1>7. QED
    BY <1>1, <1>2, <1>3, <1>4, <1>6 DEF TxInv

(* A free slot holds no frame.                                             *)
LEMMA TxFreeSlot ==
    ASSUME BhInv, tx_head \in Slots, bh.pc = "egress", TxFree
    PROVE  tx[tx_head] = 0
<1>1. nic \in {"e1000e", "i8255x", "rtl8139"}
    BY NicAssumption DEF BhInv
<1>2. CASE nic = "e1000e"
    BY <1>2 DEF TxFree, e1000e_free
<1>3. CASE nic = "i8255x"
    BY <1>3 DEF TxFree, i8255x_free
<1>4. CASE nic = "rtl8139"
    BY <1>4 DEF TxFree, rtl8139_free
<1>5. QED
    BY <1>1, <1>2, <1>3, <1>4

(* Every step keeps the transmit ring.                                     *)
LEMMA TxSteps == TxInv /\ BhInv /\ NicNext => TxInv'
<1> SUFFICES ASSUME TxInv, BhInv, NicNext PROVE TxInv'
    OBVIOUS
<1>1. NSlots \in Nat \ {0} /\ Slots = 0..(NSlots - 1)
    BY NicSlots
<1>2. tx \in [Slots -> Nat] /\ hw_tx \in Slots /\ queued_tx \in Nat /\ sent \in Seq(Nat) /\ SentInOrder
    BY DEF TxInv
<1>3. PICK c \in 0..NSlots : TxHolds(tx, hw_tx, tx_head, queued_tx, sent, c)
    BY DEF TxInv
<1>4. PICK l : l = Len(sent) /\ l \in Nat
    BY <1>2, LenProperties
<1>5. tx_head = Onward(hw_tx, c, NSlots) /\ tx_head \in Slots /\ queued_tx = l + c
    BY <1>1, <1>2, <1>3, <1>4, OnwardIn DEF TxHolds
<1>6. \A j \in 0..(NSlots - 1) : tx[Onward(hw_tx, j, NSlots)] = IF j < c THEN l + 1 + j ELSE 0
    BY <1>3, <1>4 DEF TxHolds
<1>7. 0 \in 0..(NSlots - 1) /\ Onward(hw_tx, 0, NSlots) = hw_tx /\ Onward(hw_tx, NSlots, NSlots) = hw_tx
    BY <1>1, <1>2 DEF Onward
<1>8. CASE UNCHANGED txRing
    BY <1>8 DEF TxInv, txRing, SentInOrder
<1>9. CASE hw_transmit
    <2>1. tx[hw_tx] # 0 /\ sent' = Append(sent, tx[hw_tx]) /\ tx' = [tx EXCEPT ![hw_tx] = 0] /\ hw_tx' = After(hw_tx)
        BY <1>9 DEF hw_transmit
    <2>2. UNCHANGED <<tx_head, queued_tx>>
        BY <1>9 DEF hw_transmit
    <2>3. 0 < c /\ tx[hw_tx] = l + 1
        <3>1. tx[hw_tx] = IF 0 < c THEN l + 1 + 0 ELSE 0
            BY <1>6, <1>7
        <3>2. l + 1 + 0 = l + 1
            BY <1>4
        <3>3. QED
            BY <2>1, <3>1, <3>2
    <2>4. /\ sent' \in Seq(Nat) /\ Len(sent') = l + 1 /\ sent'[l + 1] = l + 1 /\ \A i \in 1..l : sent'[i] = sent[i]
        BY <1>2, <1>4, <2>1, <2>3, AppendProperties
    <2>5. SentInOrder'
        <3>1. DOMAIN sent' = 1..(l + 1)
            BY <2>4, LenProperties
        <3>2. \A i \in 1..l : sent[i] = i
            BY <1>2, <1>4 DEF SentInOrder
        <3>3. \A i \in 1..(l + 1) : sent'[i] = i
            BY <1>4, <2>4, <3>2
        <3>4. sent' = [i \in 1..(l + 1) |-> sent'[i]]
            BY <2>4, <3>1
        <3>5. QED
            BY <2>4, <3>3, <3>4 DEF SentInOrder
    <2>6. hw_tx' \in Slots /\ hw_tx' = (hw_tx + 1) % NSlots
        BY <1>2, <2>1, AfterIn DEF After
    <2>7. tx' \in [Slots -> Nat] /\ tx'[hw_tx] = 0 /\ \A x \in Slots : x # hw_tx => tx'[x] = tx[x]
        BY <1>2, <2>1
    <2>8. PICK d : d = c - 1 /\ d \in 0..(NSlots - 1) /\ d \in 0..NSlots /\ d + 1 = c
        BY <1>1, <2>3
    <2>9. \A j \in 0..(NSlots - 1) : Onward(hw_tx', j, NSlots) = Onward(hw_tx, j + 1, NSlots)
        BY <1>1, <1>2, <2>6, OnwardNext
    <2>10. ASSUME NEW j \in 0..(NSlots - 1) PROVE tx'[Onward(hw_tx', j, NSlots)] = IF j < d THEN (l + 1) + 1 + j ELSE 0
        <3>1. CASE j = NSlots - 1
            <4>1. j + 1 = NSlots /\ ~(j < d)
                BY <1>1, <2>8, <3>1
            <4>2. QED
                BY <1>7, <2>7, <2>9, <4>1
        <3>2. CASE j # NSlots - 1
            <4>1. j + 1 \in 0..(NSlots - 1) /\ j + 1 # 0 /\ (j < d <=> j + 1 < c) /\ (l + 1) + 1 + j = l + 1 + (j + 1) /\ j + 1 \in 0..NSlots
                BY <1>1, <1>4, <2>8, <3>2
            <4>2. Onward(hw_tx, j + 1, NSlots) # hw_tx /\ Onward(hw_tx, j + 1, NSlots) \in Slots
                BY <1>1, <1>2, <1>7, <4>1, OnwardApart, OnwardIn
            <4>3. tx[Onward(hw_tx, j + 1, NSlots)] = IF j + 1 < c THEN l + 1 + (j + 1) ELSE 0
                BY <1>6, <4>1
            <4>4. tx'[Onward(hw_tx', j, NSlots)] = tx[Onward(hw_tx, j + 1, NSlots)]
                BY <2>7, <2>9, <4>2
            <4>5. QED
                BY <4>1, <4>3, <4>4
        <3>3. QED
            BY <3>1, <3>2
    <2>11. tx_head = Onward(hw_tx', d, NSlots)
        BY <1>5, <2>8, <2>9
    <2>12. queued_tx = (l + 1) + d
        BY <1>4, <1>5, <2>8
    <2>13. TxHolds(tx', hw_tx', tx_head', queued_tx', sent', d)
        BY <2>2, <2>4, <2>10, <2>11, <2>12 DEF TxHolds
    <2>14. QED
        BY <1>2, <2>2, <2>4, <2>5, <2>6, <2>7, <2>8, <2>13 DEF TxInv
<1>10. CASE send
    <2>1. bh.pc = "egress" /\ TxFree /\ queued_tx' = queued_tx + 1 /\ tx' = [tx EXCEPT ![tx_head] = queued_tx'] /\ tx_head' = After(tx_head)
        BY <1>10 DEF send
    <2>2. UNCHANGED <<hw_tx, sent>>
        BY <1>10 DEF send
    <2>3. tx[tx_head] = 0
        BY <1>5, <2>1, TxFreeSlot
    <2>4. c # NSlots
        <3>1. SUFFICES ASSUME c = NSlots PROVE FALSE
            OBVIOUS
        <3>2. tx[hw_tx] = IF 0 < c THEN l + 1 + 0 ELSE 0
            BY <1>6, <1>7
        <3>3. 0 < c /\ l + 1 + 0 # 0
            BY <1>1, <1>4, <3>1
        <3>4. tx_head = hw_tx
            BY <1>5, <1>7, <3>1
        <3>5. QED
            BY <2>3, <3>2, <3>3, <3>4
    <2>5. c \in 0..(NSlots - 1) /\ c + 1 \in 0..NSlots
        BY <1>1, <2>4
    <2>6. tx_head' = Onward(hw_tx, c + 1, NSlots)
        BY <1>1, <1>2, <1>5, <2>1, <2>5, OnwardNext DEF After
    <2>7. PICK f : f = queued_tx + 1 /\ f = l + 1 + c /\ f \in Nat
        BY <1>2, <1>4, <1>5
    <2>8. tx' \in [Slots -> Nat] /\ tx'[tx_head] = f /\ \A x \in Slots : x # tx_head => tx'[x] = tx[x]
        BY <1>2, <1>5, <2>1, <2>7
    <2>9. ASSUME NEW j \in 0..(NSlots - 1) PROVE tx'[Onward(hw_tx, j, NSlots)] = IF j < c + 1 THEN l + 1 + j ELSE 0
        <3>1. CASE j = c
            <4>1. j < c + 1
                BY <2>5, <3>1
            <4>2. QED
                BY <1>5, <2>7, <2>8, <3>1, <4>1
        <3>2. CASE j # c
            <4>1. (j < c + 1 <=> j < c) /\ j \in 0..NSlots
                BY <1>1, <2>5, <3>2
            <4>2. Onward(hw_tx, j, NSlots) # tx_head /\ Onward(hw_tx, j, NSlots) \in Slots
                BY <1>1, <1>2, <1>5, <2>5, <3>2, <4>1, OnwardApart, OnwardIn
            <4>3. QED
                BY <1>6, <2>8, <4>1, <4>2
        <3>3. QED
            BY <3>1, <3>2
    <2>10. queued_tx' = l + (c + 1) /\ queued_tx' \in Nat
        BY <1>4, <2>1, <2>5, <2>7
    <2>11. TxHolds(tx', hw_tx', tx_head', queued_tx', sent', c + 1)
        BY <1>4, <2>2, <2>6, <2>9, <2>10 DEF TxHolds
    <2>12. SentInOrder'
        BY <1>2, <2>2 DEF SentInOrder
    <2>13. QED
        BY <1>2, <2>2, <2>5, <2>8, <2>10, <2>11, <2>12 DEF TxInv
<1>11. UNCHANGED txRing \/ hw_transmit \/ send
    BY Zenon DEF NicNext, e1000e_init, i8255x_init, rtl8139_init, published, hw_receive, hw_copied, ru_stops,
       e1000e_irq_entry, i8255x_irq_entry, rtl8139_irq_entry, run_bottom_half, recv_ack, recv_check, recv_take,
       poll_end, syscall_lock
<1>12. QED
    BY <1>8, <1>9, <1>10, <1>11

(***************************************************************************)
(* Announcement.                                                           *)
(***************************************************************************)
LEMMA BhStarts == NicInit => BhInv
<1> SUFFICES ASSUME NicInit PROVE BhInv
    OBVIOUS
<1>1. ~Ready(rx_head)
    BY NicSlots DEF NicInit, Ready
<1>2. bh.pc = "idle" /\ bh = [pc |-> bh.pc, n |-> bh.n, cut |-> bh.cut] /\ bh.cut \in BOOLEAN
    BY DEF NicInit, BhIdle
<1>3. "idle" # "egress"
    OBVIOUS
<1>4. QED
    BY <1>1, <1>2, <1>3, Zenon DEF NicInit, BhInv

(* Every step keeps the bottom half.                                       *)
LEMMA BhSteps == BhInv /\ NicNext => BhInv'
<1> SUFFICES ASSUME BhInv, NicNext PROVE BhInv'
    OBVIOUS
<1>1. /\ copying \in BOOLEAN /\ irq_ok \in BOOLEAN /\ mask \in BOOLEAN /\ cause \in BOOLEAN /\ irq_pending \in BOOLEAN
      /\ bh = [pc |-> bh.pc, n |-> bh.n, cut |-> bh.cut] /\ bh.cut \in BOOLEAN
      /\ nic = "none" \/ nic \in NicKinds
      /\ nic = "none" => bh.pc = "idle" /\ ~irq_ok
      /\ copying => nic = "rtl8139"
    BY DEF BhInv
<1>2. /\ irq_ok => mask \/ irq_pending \/ bh.pc # "idle"
      /\ bh.pc = "idle" /\ Ready(rx_head) /\ ~bh.cut => irq_pending \/ cause
      /\ bh.pc = "egress" /\ Ready(rx_head) /\ ~bh.cut => irq_pending \/ cause \/ bh.n = Budget
    BY DEF BhInv
<1>3. "none" \notin NicKinds
    BY NicAssumption
<1>4. CASE UNCHANGED <<nic, irq_ok, bh>> /\ mask' = mask /\ copying' = copying /\ irq_pending' = irq_pending
           /\ cause' = cause /\ (Ready(rx_head)' => Ready(rx_head))
    BY <1>1, <1>2, <1>4, Zenon DEF BhInv
<1>5. CASE UNCHANGED <<nic, irq_ok, bh, mask, irq_pending>> /\ (copying' = copying \/ copying' = FALSE) /\ cause' = TRUE
    <2>1. copying' \in BOOLEAN /\ (copying' => copying)
        <3>1. CASE copying' = copying
            BY <1>1, <3>1
        <3>2. CASE copying' = FALSE
            BY <3>2
        <3>3. QED
            BY <1>5, <3>1, <3>2
    <2>2. cause' \in BOOLEAN /\ cause'
        BY <1>5
    <2>3. QED
        BY <1>1, <1>2, <1>5, <2>1, <2>2, Zenon DEF BhInv
<1>6. ASSUME NEW k \in NicKinds, NEW registered \in BOOLEAN, published(k, registered) PROVE BhInv'
    <2>1. /\ nic' = k /\ irq_ok' = registered /\ mask' = registered /\ irq_pending' = TRUE /\ k # "none"
          /\ UNCHANGED <<copying, cause, bh>>
        BY <1>3, <1>6 DEF published, rxRing
    <2>2. irq_pending' \in BOOLEAN /\ irq_pending' /\ nic = "none" /\ nic' # "none"
        BY <1>6, <2>1 DEF published
    <2>3. ~copying /\ ~copying'
        BY <1>1, <2>1, <2>2
    <2>4. nic' \in NicKinds /\ irq_ok' \in BOOLEAN /\ mask' \in BOOLEAN /\ cause' \in BOOLEAN /\ (irq_ok' => mask')
        BY <1>1, <2>1
    <2>5. QED
        BY <1>1, <2>1, <2>2, <2>3, <2>4, Zenon DEF BhInv
<1>7. ASSUME NEW ok \in BOOLEAN, hw_receive(ok) PROVE BhInv'
    <2>1. nic # "none" /\ UNCHANGED <<nic, irq_ok, rx_head, mask, irq_pending, bh>>
        BY <1>7 DEF hw_receive, nicFound
    <2>2. CASE ~Room
        <3>1. UNCHANGED <<rx, hw_rx, copying, cause>>
            BY <1>7, <2>2 DEF hw_receive
        <3>2. Ready(rx_head)' => Ready(rx_head)
            BY <2>1, <3>1 DEF Ready
        <3>3. QED
            BY <1>4, <2>1, <3>1, <3>2
    <2>3. CASE Room /\ nic # "rtl8139"
        <3>1. cause' = TRUE /\ copying' = copying
            BY <1>7, <2>3 DEF hw_receive
        <3>2. QED
            BY <1>5, <2>1, <3>1
    <2>4. CASE Room /\ nic = "rtl8139"
        <3>1. rx' = [rx EXCEPT ![hw_rx] = [frame |-> arrived', ok |-> ok]] /\ copying' = TRUE /\ UNCHANGED <<hw_rx, cause>>
            BY <1>7, <2>4 DEF hw_receive
        <3>2. ~copying
            BY <2>4 DEF Room, rtl8139_room
        <3>3. Ready(rx_head)' => Ready(rx_head)
            BY <2>1, <3>1, <3>2 DEF Ready
        <3>4. QED
            BY <1>1, <1>2, <2>1, <2>4, <3>1, <3>3, Zenon DEF BhInv
    <2>5. QED
        BY <2>2, <2>3, <2>4
<1>8. CASE hw_copied
    BY <1>5, <1>8 DEF hw_copied, nicFound
<1>9. CASE ru_stops
    BY <1>5, <1>9 DEF ru_stops, nicFound
<1>10. CASE hw_transmit \/ send \/ syscall_lock
    <2>1. UNCHANGED <<nic, irq_ok, bh, mask, irq_pending, cause, rxRing>>
        BY <1>10 DEF hw_transmit, send, syscall_lock, nicFound
    <2>2. copying' = copying /\ (Ready(rx_head)' => Ready(rx_head))
        BY <2>1 DEF Ready, rxRing
    <2>3. QED
        BY <1>4, <2>1, <2>2
<1>11. CASE e1000e_irq_entry \/ i8255x_irq_entry \/ rtl8139_irq_entry
    <2>1. /\ UNCHANGED <<nic, irq_ok, bh, rx, hw_rx, rx_head, copying>> /\ cause' = FALSE
          /\ irq_pending' = (irq_pending \/ cause) /\ (mask' = ~cause \/ (mask' = mask /\ irq_pending'))
        <3>1. CASE e1000e_irq_entry
            BY <3>1 DEF e1000e_irq_entry, rxRing, nicFound
        <3>2. CASE i8255x_irq_entry
            BY <1>1, <3>2 DEF i8255x_irq_entry, rxRing, nicFound
        <3>3. CASE rtl8139_irq_entry
            BY <1>1, <3>3 DEF rtl8139_irq_entry, rxRing, nicFound
        <3>4. QED
            BY <1>11, <3>1, <3>2, <3>3
    <2>2. Ready(rx_head)' => Ready(rx_head)
        BY <2>1 DEF Ready
    <2>3. mask' \in BOOLEAN /\ irq_pending' \in BOOLEAN /\ cause' \in BOOLEAN
        BY <1>1, <2>1
    <2>4. QED
        BY <1>1, <1>2, <2>1, <2>2, <2>3, Zenon DEF BhInv
<1>12. CASE run_bottom_half
    <2>1. nic # "none" /\ UNCHANGED <<nic, irq_ok, rx, hw_rx, rx_head, copying, cause, mask>>
        BY <1>12 DEF run_bottom_half, nicFound, rxRing
    <2>2. CASE stack_held
        <3>1. UNCHANGED <<irq_pending, bh>>
            BY <1>12, <2>2 DEF run_bottom_half
        <3>2. Ready(rx_head)' => Ready(rx_head)
            BY <2>1 DEF Ready
        <3>3. QED
            BY <1>4, <2>1, <3>1, <3>2
    <2>3. CASE ~stack_held
        <3>1. /\ irq_pending' = FALSE /\ bh' = [pc |-> bh'.pc, n |-> bh'.n, cut |-> bh'.cut] /\ bh'.cut \in BOOLEAN
              /\ bh'.pc # "idle" /\ bh'.pc # "egress"
            <4>1. PICK p : p = (IF nic = "rtl8139" THEN "ack" ELSE "check") /\ p # "idle" /\ p # "egress"
                OBVIOUS
            <4>2. irq_pending' = FALSE /\ bh' = [pc |-> p, n |-> 0, cut |-> FALSE]
                BY <1>12, <2>3, <4>1, Zenon DEF run_bottom_half
            <4>3. QED
                BY <4>1, <4>2
        <3>2. irq_pending' \in BOOLEAN
            BY <3>1
        <3>3. QED
            BY <1>1, <2>1, <3>1, <3>2, Zenon DEF BhInv
    <2>4. QED
        BY <2>2, <2>3
<1>13. CASE recv_ack
    <2>1. /\ bh.pc # "idle" /\ UNCHANGED <<nic, irq_ok, copying, mask, irq_pending>> /\ cause' = FALSE
          /\ bh' = [pc |-> bh'.pc, n |-> bh'.n, cut |-> bh'.cut] /\ bh'.cut \in BOOLEAN
          /\ bh'.pc # "idle" /\ bh'.pc # "egress"
        BY <1>1, <1>13 DEF recv_ack, nicFound, rxRing
    <2>2. cause' \in BOOLEAN
        BY <2>1
    <2>3. QED
        BY <1>1, <1>2, <2>1, <2>2, Zenon DEF BhInv
<1>14. CASE recv_check
    <2>1. bh.pc # "idle" /\ UNCHANGED <<nic, irq_ok, rx, rx_head, copying, cause, mask, irq_pending>>
        BY <1>14 DEF recv_check, nicFound
    <2>2. bh' = [pc |-> bh'.pc, n |-> bh'.n, cut |-> bh'.cut] /\ bh'.cut \in BOOLEAN /\ bh'.pc # "idle"
        BY <1>1, <1>14 DEF recv_check
    <2>3. bh'.pc = "egress" => ~Ready(rx_head)'
        <3>1. SUFFICES ASSUME bh'.pc = "egress" PROVE ~Ready(rx_head)'
            OBVIOUS
        <3>2. ReadySlots = {}
            BY <1>1, <1>14, <3>1 DEF recv_check
        <3>3. ~Ready(rx_head) /\ restart_ru(rx_head)
            BY <1>14, <3>2 DEF recv_check, ReadySlots
        <3>4. copying => hw_rx' = hw_rx
            BY <1>1, <3>3 DEF restart_ru
        <3>5. QED
            BY <1>1, <2>1, <3>3, <3>4 DEF Ready
    <2>4. QED
        BY <1>1, <1>2, <2>1, <2>2, <2>3, Zenon DEF BhInv
<1>15. ASSUME NEW s \in ReadySlots, recv_take(s) PROVE BhInv'
    <2>1. bh.pc # "idle" /\ UNCHANGED <<nic, irq_ok, copying, cause, mask, irq_pending>>
        BY <1>15 DEF recv_take, nicFound
    <2>2. /\ bh' = [pc |-> bh'.pc, n |-> bh'.n, cut |-> bh'.cut] /\ bh'.pc # "idle"
          /\ bh'.n = bh.n + 1 /\ bh'.cut = ~rx[s].ok
          /\ bh'.pc = "egress" => ~rx[s].ok \/ bh.n + 1 = Budget
        BY <1>15 DEF recv_take
    <2>3. bh'.cut \in BOOLEAN
        BY <2>2
    <2>4. bh'.pc = "egress" /\ ~bh'.cut => bh'.n = Budget
        BY <2>2
    <2>5. QED
        BY <1>1, <1>2, <2>1, <2>2, <2>3, <2>4, Zenon DEF BhInv
<1>16. CASE poll_end
    <2>1. /\ bh.pc = "egress" /\ bh' = [pc |-> bh'.pc, n |-> bh'.n, cut |-> bh'.cut] /\ bh'.pc = "idle" /\ bh'.cut = bh.cut
          /\ mask' = irq_ok /\ cause' = cause /\ UNCHANGED <<nic, irq_ok, rx, hw_rx, rx_head, copying>>
          /\ irq_pending' = (irq_pending \/ (bh.n = Budget))
        BY <1>16 DEF poll_end, BhIdle, rearm_interrupts, nicFound, rxRing
    <2>2. Ready(rx_head)' => Ready(rx_head)
        BY <2>1 DEF Ready
    <2>3. irq_pending' \in BOOLEAN /\ bh'.pc # "egress" /\ nic # "none"
        BY <1>1, <2>1
    <2>4. irq_pending' <=> irq_pending \/ (bh.n = Budget)
        BY <2>1
    <2>5. QED
        BY <1>1, <1>2, <2>1, <2>2, <2>3, <2>4, Zenon DEF BhInv
<1>17. QED
    BY <1>6, <1>7, <1>8, <1>9, <1>10, <1>11, <1>12, <1>13, <1>14, <1>15, <1>16, Zenon
       DEF NicNext, e1000e_init, i8255x_init, rtl8139_init

(***************************************************************************)
(* Reception.                                                              *)
(***************************************************************************)
LEMMA OnwardRing ==
    ASSUME NEW h \in Slots
    PROVE  /\ \A n \in 0..NSlots : Onward(h, n, NSlots) \in Slots
           /\ Onward(h, 0, NSlots) = h /\ Onward(h, NSlots, NSlots) = h
           /\ \A n \in 0..(NSlots - 1) : After(Onward(h, n, NSlots)) = Onward(h, n + 1, NSlots)
                                         /\ Onward(After(h), n, NSlots) = Onward(h, n + 1, NSlots)
           /\ \A m, n \in 0..(NSlots - 1) : m # n => Onward(h, m, NSlots) # Onward(h, n, NSlots)
<1>1. NSlots \in Nat \ {0} /\ Slots = 0..(NSlots - 1)
    BY NicSlots
<1>2. \A n \in 0..NSlots : Onward(h, n, NSlots) \in Slots
    BY <1>1, OnwardIn
<1>3. Onward(h, 0, NSlots) = h /\ Onward(h, NSlots, NSlots) = h
    BY <1>1 DEF Onward
<1>4. \A n \in 0..(NSlots - 1) : After(Onward(h, n, NSlots)) = Onward(h, n + 1, NSlots)
                                 /\ Onward(After(h), n, NSlots) = Onward(h, n + 1, NSlots)
    BY <1>1, OnwardNext DEF After
<1>5. \A m, n \in 0..(NSlots - 1) : m # n => Onward(h, m, NSlots) # Onward(h, n, NSlots)
    BY <1>1, OnwardApart
<1>6. QED
    BY <1>2, <1>3, <1>4, <1>5

(* Slots with the same next slot are the same.                             *)
LEMMA AfterApart ==
    ASSUME NEW x \in Slots, NEW y \in Slots, After(x) = After(y)
    PROVE  x = y
<1>1. NSlots \in Nat \ {0} /\ x \in 0..(NSlots - 1) /\ y \in 0..(NSlots - 1)
    BY NicSlots
<1>2. Onward(x, 1, NSlots) = Onward(y, 1, NSlots)
    BY AfterIn
<1>3. QED
    BY <1>1, <1>2 DEF Onward

(* A frame that finds no slot is counted and dropped.                      *)
LEMMA RxArrive ==
    ASSUME NEW R, NEW h, NEW m, NEW arr \in Nat, NEW g, RxHeld(R, h, m, arr, g)
    PROVE  RxHeld(R, h, m, arr + 1, g)
<1>1. g \in Seq(Nat) /\ \A i \in DOMAIN g : g[i] \in Nat /\ g[i] <= arr
    BY ElementOfSeq DEF RxHeld
<1>2. \A i \in DOMAIN g : g[i] <= arr + 1
    BY <1>1
<1>3. \A x \in 1..arr : x \in 1..(arr + 1)
    OBVIOUS
<1>4. QED
    BY <1>1, <1>2, <1>3 DEF RxHeld

(* A frame takes the next slot.                                            *)
LEMMA RxFill ==
    ASSUME NEW R \in [Slots -> SlotType], NEW h \in Slots, NEW m \in 0..(NSlots - 1), NEW arr \in Nat, NEW g,
           NEW ok \in BOOLEAN, NEW Q, Q = [R EXCEPT ![Onward(h, m, NSlots)] = [frame |-> arr + 1, ok |-> ok]],
           RxHeld(R, h, m, arr, g)
    PROVE  RxHeld(Q, h, m + 1, arr + 1, g) /\ Q \in [Slots -> SlotType]
<1>1. NSlots \in Nat \ {0}
    BY NicSlots
<1>2. PICK s : s = Onward(h, m, NSlots) /\ s \in Slots
    BY <1>1, OnwardRing
<1>3. PICK v : v = arr + 1 /\ v \in Nat /\ v \in 1..v /\ \A x \in 1..arr : x \in 1..v /\ x < v
    <2>1. arr + 1 \in Nat /\ arr + 1 \in 1..(arr + 1) /\ \A x \in 1..arr : x \in 1..(arr + 1) /\ x < arr + 1
        OBVIOUS
    <2>2. QED
        BY <2>1
<1>4. PICK u : u = [frame |-> v, ok |-> ok] /\ u \in SlotType /\ u.frame = v
    <2>1. [frame |-> v, ok |-> ok] \in SlotType
        BY <1>3 DEF SlotType
    <2>2. QED
        BY <2>1
<1>5. Q = [R EXCEPT ![s] = u]
    BY <1>2, <1>3, <1>4
<1>6. Q \in [Slots -> SlotType] /\ Q[s] = u /\ \A x \in Slots : x # s => Q[x] = R[x]
    BY <1>2, <1>4, <1>5
<1>7. \A j \in 0..(NSlots - 1) : Onward(h, j, NSlots) \in Slots /\ (j # m => Onward(h, j, NSlots) # s)
    BY <1>1, <1>2, OnwardRing
<1>8. \A j \in 0..(m - 1) : j \in 0..(NSlots - 1) /\ j # m
    BY <1>1
<1>9. \A j \in 0..(m - 1) : FrameAt(Q, h, j) = FrameAt(R, h, j)
    BY <1>6, <1>7, <1>8 DEF FrameAt
<1>10. FrameAt(Q, h, m) = v
    BY <1>2, <1>4, <1>6 DEF FrameAt
<1>11. \A j \in 0..m : j = m \/ j \in 0..(m - 1)
    BY <1>1
<1>12. 0..((m + 1) - 1) = 0..m
    BY <1>1
<1>13. /\ \A j \in 0..(m - 1) : FrameAt(R, h, j) \in 1..arr /\ \A i \in DOMAIN g : g[i] < FrameAt(R, h, j)
       /\ \A i, j \in 0..(m - 1) : i < j => FrameAt(R, h, i) < FrameAt(R, h, j)
       /\ \A j \in m..(NSlots - 1) : R[Onward(h, j, NSlots)] = Armed
       /\ g \in Seq(Nat) /\ Increasing(g) /\ \A i \in DOMAIN g : g[i] <= arr
    BY DEF RxHeld
<1>14. \A i \in DOMAIN g : g[i] < v /\ g[i] <= v
    <2>1. \A i \in DOMAIN g : g[i] \in Nat
        BY <1>13, ElementOfSeq
    <2>2. QED
        BY <1>3, <1>13, <2>1
<1>15. \A j \in 0..m : FrameAt(Q, h, j) \in 1..v /\ \A i \in DOMAIN g : g[i] < FrameAt(Q, h, j)
    BY <1>3, <1>9, <1>10, <1>11, <1>13, <1>14
<1>16. ASSUME NEW i \in 0..m, NEW j \in 0..m, i < j PROVE FrameAt(Q, h, i) < FrameAt(Q, h, j)
    <2>1. i \in 0..(m - 1)
        BY <1>1, <1>16
    <2>2. FrameAt(Q, h, i) \in 1..arr /\ FrameAt(Q, h, i) = FrameAt(R, h, i)
        BY <1>9, <1>13, <2>1
    <2>3. CASE j = m
        BY <1>3, <1>10, <2>2, <2>3
    <2>4. CASE j \in 0..(m - 1)
        BY <1>9, <1>13, <1>16, <2>1, <2>2, <2>4
    <2>5. QED
        BY <1>11, <2>3, <2>4
<1>17. \A j \in (m + 1)..(NSlots - 1) : Q[Onward(h, j, NSlots)] = Armed
    <2>1. \A j \in (m + 1)..(NSlots - 1) : j \in m..(NSlots - 1) /\ j \in 0..(NSlots - 1) /\ j # m
        BY <1>1
    <2>2. QED
        BY <1>6, <1>7, <1>13, <2>1
<1>18. RxHeld(Q, h, m + 1, v, g)
    BY <1>12, <1>13, <1>14, <1>15, <1>16, <1>17 DEF RxHeld
<1>19. QED
    BY <1>3, <1>6, <1>18

(* The oldest slot is read and given back.                                 *)
LEMMA RxTake ==
    ASSUME NEW R \in [Slots -> SlotType], NEW h \in Slots, NEW m \in 1..NSlots, NEW arr \in Nat, NEW g,
           NEW Q, Q = [R EXCEPT ![h] = Armed], NEW e, e = g \/ e = Append(g, R[h].frame),
           RxHeld(R, h, m, arr, g)
    PROVE  RxHeld(Q, After(h), m - 1, arr, e) /\ Q \in [Slots -> SlotType]
<1>1. NSlots \in Nat \ {0} /\ 0 \in 0..(m - 1)
    BY NicSlots
<1>2. Armed \in SlotType
    BY DEF Armed, SlotType
<1>3. Q \in [Slots -> SlotType] /\ Q[h] = Armed /\ \A x \in Slots : x # h => Q[x] = R[x]
    BY <1>2
<1>4. /\ \A j \in 0..(m - 1) : FrameAt(R, h, j) \in 1..arr /\ \A i \in DOMAIN g : g[i] < FrameAt(R, h, j)
      /\ \A i, j \in 0..(m - 1) : i < j => FrameAt(R, h, i) < FrameAt(R, h, j)
      /\ \A j \in m..(NSlots - 1) : R[Onward(h, j, NSlots)] = Armed
      /\ g \in Seq(Nat) /\ Increasing(g) /\ \A i \in DOMAIN g : g[i] <= arr
    BY DEF RxHeld
<1>5. PICK f : f = R[h].frame /\ f = FrameAt(R, h, 0) /\ f \in 1..arr
    BY <1>1, <1>4, OnwardRing DEF FrameAt
<1>6. \A j \in 0..(NSlots - 1) : Onward(After(h), j, NSlots) = Onward(h, j + 1, NSlots)
    BY OnwardRing
<1>7. \A j \in 1..(NSlots - 1) : Onward(h, j, NSlots) \in Slots /\ Onward(h, j, NSlots) # h
    <2>1. \A j \in 1..(NSlots - 1) : j \in 0..(NSlots - 1) /\ j \in 0..NSlots /\ j # 0
        BY <1>1
    <2>2. 0 \in 0..(NSlots - 1)
        BY <1>1
    <2>3. QED
        BY <2>1, <2>2, OnwardRing
<1>8. \A j \in 0..(m - 2) : j + 1 \in 0..(m - 1) /\ j + 1 \in 1..(NSlots - 1) /\ j \in 0..(NSlots - 1) /\ 0 < j + 1
    BY <1>1
<1>9. \A j \in 0..(m - 2) : FrameAt(Q, After(h), j) = FrameAt(R, h, j + 1)
    BY <1>3, <1>6, <1>7, <1>8 DEF FrameAt
<1>10. \A j \in (m - 1)..(NSlots - 1) : Q[Onward(After(h), j, NSlots)] = Armed
    <2>1. SUFFICES ASSUME NEW j \in (m - 1)..(NSlots - 1) PROVE Q[Onward(After(h), j, NSlots)] = Armed
        OBVIOUS
    <2>2. Onward(After(h), j, NSlots) = Onward(h, j + 1, NSlots)
        BY <1>1, <1>6
    <2>3. CASE j = NSlots - 1
        <3>1. j + 1 = NSlots
            BY <1>1, <2>3
        <3>2. QED
            BY <1>3, <2>2, <3>1, OnwardRing
    <2>4. CASE j # NSlots - 1
        <3>1. j + 1 \in m..(NSlots - 1) /\ j + 1 \in 1..(NSlots - 1)
            BY <1>1, <2>4
        <3>2. QED
            BY <1>3, <1>4, <1>7, <2>2, <3>1
    <2>5. QED
        BY <2>3, <2>4
<1>11. \A i, j \in 0..(m - 2) : i < j => FrameAt(Q, After(h), i) < FrameAt(Q, After(h), j)
    <2>1. \A i, j \in 0..(m - 2) : i < j => i + 1 < j + 1
        BY <1>1
    <2>2. QED
        BY <1>4, <1>8, <1>9, <2>1
<1>12. \A j \in 0..(m - 2) : FrameAt(Q, After(h), j) \in 1..arr /\ f < FrameAt(Q, After(h), j)
    BY <1>1, <1>4, <1>5, <1>8, <1>9
<1>13. \A j \in 0..(m - 2) : \A i \in DOMAIN g : g[i] < FrameAt(Q, After(h), j)
    BY <1>4, <1>8, <1>9
<1>14. \A i \in DOMAIN g : g[i] < f /\ g[i] \in Nat
    BY <1>1, <1>4, <1>5, ElementOfSeq
<1>15. /\ e \in Seq(Nat) /\ Increasing(e) /\ \A i \in DOMAIN e : e[i] <= arr
       /\ \A j \in 0..(m - 2) : \A i \in DOMAIN e : e[i] < FrameAt(Q, After(h), j)
    <2>1. CASE e = g
        BY <1>4, <1>13, <2>1
    <2>2. CASE e = Append(g, R[h].frame)
        <3>1. f \in Nat /\ f <= arr
            BY <1>5
        <3>2. PICK l : l = Len(g) /\ l \in Nat /\ DOMAIN g = 1..l
            BY <1>4, LenProperties
        <3>3. e \in Seq(Nat) /\ Len(e) = l + 1 /\ e[l + 1] = f /\ \A i \in 1..l : e[i] = g[i]
            BY <1>4, <1>5, <2>2, <3>1, <3>2, AppendProperties
        <3>4. DOMAIN e = 1..(l + 1)
            BY <3>2, <3>3, LenProperties
        <3>5. \A i \in 1..(l + 1) : i = l + 1 \/ i \in 1..l
            BY <3>2
        <3>6. Increasing(e)
            <4>1. SUFFICES ASSUME NEW i \in 1..(l + 1), NEW j \in 1..(l + 1), i < j PROVE e[i] < e[j]
                BY <3>4 DEF Increasing
            <4>2. i \in 1..l
                BY <3>2, <4>1
            <4>3. CASE j = l + 1
                BY <1>14, <3>2, <3>3, <4>2, <4>3
            <4>4. CASE j \in 1..l
                BY <1>4, <3>2, <3>3, <4>1, <4>2, <4>4 DEF Increasing
            <4>5. QED
                BY <3>5, <4>3, <4>4
        <3>7. \A i \in DOMAIN e : e[i] <= arr
            BY <1>4, <3>1, <3>2, <3>3, <3>4, <3>5
        <3>8. \A j \in 0..(m - 2) : \A i \in DOMAIN e : e[i] < FrameAt(Q, After(h), j)
            BY <1>12, <1>13, <3>2, <3>3, <3>4, <3>5
        <3>9. QED
            BY <3>3, <3>6, <3>7, <3>8
    <2>3. QED
        BY <2>1, <2>2
<1>16. 0..((m - 1) - 1) = 0..(m - 2)
    BY <1>1
<1>17. RxHeld(Q, After(h), m - 1, arr, e)
    BY <1>10, <1>11, <1>12, <1>15, <1>16 DEF RxHeld
<1>18. QED
    BY <1>3, <1>17

(* The receive ring at the start.                                          *)
LEMMA RxStarts == NicInit => RxInv
<1> SUFFICES ASSUME NicInit PROVE RxInv
    OBVIOUS
<1>1. NSlots \in Nat \ {0} /\ Slots = 0..(NSlots - 1) /\ 0 \in Slots /\ NSlots - 1 \in Slots /\ 0 \in 0..NSlots
    BY NicSlots
<1>2. Armed \in SlotType
    BY DEF Armed, SlotType
<1>3. rx \in [Slots -> SlotType] /\ (\A x \in Slots : rx[x] = Armed) /\ hw_rx = 0 /\ rx_head = 0 /\ rdt = NSlots - 1 /\ arrived = 0 /\ got = <<>>
    BY <1>2 DEF NicInit
<1>4. Onward(NSlots - 1, 1, NSlots) = 0 /\ Onward(0, 0, NSlots) = 0
    BY <1>1 DEF Onward
<1>5. rx_head = After(rdt)
    BY <1>1, <1>3, <1>4, AfterIn
<1>6. RxHeld(rx, rx_head, 0, arrived, got)
    <2>1. \A j \in 0..(NSlots - 1) : rx[Onward(rx_head, j, NSlots)] = Armed
        <3>1. \A j \in 0..(NSlots - 1) : j \in 0..NSlots
            BY <1>1
        <3>2. QED
            BY <1>1, <1>3, <3>1, OnwardRing
    <2>2. 0..(0 - 1) = {}
        OBVIOUS
    <2>3. got \in Seq(Nat) /\ DOMAIN got = {}
        BY <1>3
    <2>4. QED
        BY <2>1, <2>2, <2>3 DEF RxHeld, Increasing
<1>7. nic # "i8255x" /\ copying = FALSE /\ 0 < NSlots
    BY <1>1 DEF NicInit
<1>8. RxFilled(0, 0)
    BY <1>3, <1>4, <1>6, <1>7 DEF RxFilled
<1>9. QED
    BY <1>1, <1>3, <1>5, <1>8 DEF RxInv

(* A slot that is the card's is behind every frame.                        *)
LEMMA RxHeldSlot ==
    ASSUME NEW R, NEW h \in Slots, NEW m \in 0..NSlots, NEW arr \in Nat, NEW g, RxHeld(R, h, m, arr, g),
           NEW j \in 0..(NSlots - 1), NEW x, x = Onward(h, j, NSlots)
    PROVE  R[x] = Armed <=> ~(j < m)
<1>1. NSlots \in Nat \ {0}
    BY NicSlots
<1>2. CASE j < m
    <2>1. j \in 0..(m - 1)
        BY <1>1, <1>2
    <2>2. R[x].frame \in 1..arr
        BY <2>1 DEF RxHeld, FrameAt
    <2>3. Armed.frame = 0 /\ 0 \notin 1..arr
        BY DEF Armed
    <2>4. QED
        BY <1>2, <2>2, <2>3
<1>3. CASE ~(j < m)
    <2>1. j \in m..(NSlots - 1)
        BY <1>1, <1>3
    <2>2. QED
        BY <1>3, <2>1 DEF RxHeld
<1>4. QED
    BY <1>2, <1>3

(* The card receives a frame.                                              *)
LEMMA RxReceives ==
    ASSUME RxInv, BhInv, NEW good \in BOOLEAN, hw_receive(good)
    PROVE  RxInv'
<1>1. /\ rx \in [Slots -> SlotType] /\ hw_rx \in Slots /\ rx_head \in Slots /\ rdt \in Slots /\ arrived \in Nat
      /\ rx_head = After(rdt)
    BY DEF RxInv
<1>2. nic # "none" /\ arrived' = arrived + 1 /\ UNCHANGED <<nic, rx_head, rdt, got>>
    BY DEF hw_receive, nicFound
<1>3. NSlots \in Nat \ {0} /\ arrived' \in Nat
    BY <1>1, <1>2, NicSlots
<1>4. nic \in {"e1000e", "i8255x", "rtl8139"} /\ (copying => nic = "rtl8139") /\ copying \in BOOLEAN
    BY <1>2, NicAssumption DEF BhInv
<1>5. CASE ~Room
    <2>1. UNCHANGED <<rx, hw_rx, copying, lapped>>
        BY <1>5 DEF hw_receive
    <2>2. CASE nic = "i8255x" /\ lapped
        BY <1>1, <1>2, <1>3, <2>1, <2>2 DEF RxInv
    <2>3. CASE ~(nic = "i8255x" /\ lapped)
        <3>1. PICK c, m \in 0..NSlots : RxFilled(c, m)
            BY <2>3 DEF RxInv
        <3>2. RxHeld(rx, rx_head, m, arrived + 1, got)
            BY <1>1, <3>1, RxArrive DEF RxFilled
        <3>3. RxFilled(c, m)'
            BY <1>2, <2>1, <3>1, <3>2 DEF RxFilled
        <3>4. QED
            BY <1>1, <1>2, <1>3, <2>1, <3>3 DEF RxInv
    <2>4. QED
        BY <2>2, <2>3
<1>6. CASE Room
    <2>1. rx' = [rx EXCEPT ![hw_rx] = [frame |-> arrived + 1, ok |-> good]]
        BY <1>2, <1>6 DEF hw_receive
    <2>2. lapped' = (lapped \/ rx[hw_rx] # Armed)
        BY <1>6 DEF hw_receive
    <2>3. nic = "rtl8139" => copying' = TRUE /\ hw_rx' = hw_rx
        BY <1>6 DEF hw_receive
    <2>4. nic # "rtl8139" => copying' = copying /\ hw_rx' = After(hw_rx)
        BY <1>6 DEF hw_receive
    <2>5. hw_rx' \in Slots
        BY <1>1, <2>3, <2>4, AfterIn
    <2>6. rx' \in [Slots -> SlotType]
        <3>1. [frame |-> arrived + 1, ok |-> good] \in SlotType
            BY <1>1 DEF SlotType
        <3>2. QED
            BY <1>1, <2>1, <3>1
    <2>7. CASE nic = "i8255x" /\ lapped'
        BY <1>1, <1>2, <1>3, <2>5, <2>6, <2>7 DEF RxInv
    <2>8. CASE ~(nic = "i8255x" /\ lapped')
        <3>1. ~(nic = "i8255x" /\ lapped)
            BY <2>2, <2>8
        <3>2. PICK c, m \in 0..NSlots : RxFilled(c, m)
            BY <3>1 DEF RxInv
        <3>3. RxHeld(rx, rx_head, m, arrived, got) /\ hw_rx = Onward(rx_head, c, NSlots)
            BY <3>2 DEF RxFilled
        <3>4. ~copying
            <4>1. nic = "rtl8139" => rtl8139_room
                BY <1>6 DEF Room
            <4>2. QED
                BY <1>4, <4>1 DEF rtl8139_room
        <3>5. m = c /\ (nic # "i8255x" => m < NSlots)
            BY <3>2, <3>4 DEF RxFilled
        <3>6. c < NSlots /\ (nic # "i8255x" => c + 1 < NSlots)
            <4>1. CASE nic = "i8255x"
                <5>1. rx[hw_rx] = Armed
                    BY <2>2, <2>8, <4>1
                <5>2. SUFFICES ASSUME c = NSlots PROVE FALSE
                    BY <1>3, <4>1
                <5>3. hw_rx = rx_head /\ hw_rx = Onward(rx_head, 0, NSlots)
                    BY <1>1, <3>3, <5>2, OnwardRing
                <5>4. 0 < m /\ 0 \in 0..(NSlots - 1)
                    BY <1>3, <3>5, <5>2
                <5>5. QED
                    BY <1>1, <3>3, <5>1, <5>3, <5>4, RxHeldSlot
            <4>2. CASE nic # "i8255x"
                <5>1. c < NSlots /\ c \in 0..(NSlots - 1)
                    BY <1>3, <3>5, <4>2
                <5>2. After(hw_rx) # rx_head
                    <6>1. CASE nic = "e1000e"
                        <7>1. hw_rx # rdt
                            BY <1>6, <6>1 DEF Room, e1000e_room
                        <7>2. QED
                            BY <1>1, <7>1, AfterApart
                    <6>2. CASE nic = "rtl8139"
                        BY <1>6, <6>2 DEF Room, rtl8139_room
                    <6>3. QED
                        BY <1>4, <4>2, <6>1, <6>2
                <5>3. c + 1 # NSlots
                    <6>1. After(hw_rx) = Onward(rx_head, c + 1, NSlots)
                        BY <1>1, <3>3, <5>1, OnwardRing
                    <6>2. QED
                        BY <1>1, <5>2, <6>1, OnwardRing
                <5>4. QED
                    BY <1>3, <5>1, <5>3
            <4>3. QED
                BY <4>1, <4>2
        <3>7. c \in 0..(NSlots - 1) /\ c + 1 \in 0..NSlots
            BY <1>3, <3>6
        <3>8. RxHeld(rx', rx_head, c + 1, arrived + 1, got)
            BY <1>1, <2>1, <3>3, <3>5, <3>7, RxFill
        <3>9. CASE nic = "rtl8139"
            <4>1. RxFilled(c, c + 1)'
                BY <1>2, <2>3, <3>3, <3>6, <3>8, <3>9 DEF RxFilled
            <4>2. QED
                BY <1>1, <1>2, <1>3, <2>5, <2>6, <3>7, <4>1 DEF RxInv
        <3>10. CASE nic # "rtl8139"
            <4>1. hw_rx' = Onward(rx_head, c + 1, NSlots) /\ copying' = copying
                BY <1>1, <2>4, <3>3, <3>7, <3>10, OnwardRing
            <4>2. RxFilled(c + 1, c + 1)'
                BY <1>2, <3>4, <3>6, <3>8, <4>1 DEF RxFilled
            <4>3. QED
                BY <1>1, <1>2, <1>3, <2>5, <2>6, <3>7, <4>2 DEF RxInv
        <3>11. QED
            BY <3>9, <3>10
    <2>9. QED
        BY <2>7, <2>8
<1>7. QED
    BY <1>5, <1>6

(* The driver takes one.                                                   *)
LEMMA RxTakes ==
    ASSUME RxInv, BhInv, NEW s \in ReadySlots, recv_take(s)
    PROVE  RxInv'
<1>1. /\ rx \in [Slots -> SlotType] /\ hw_rx \in Slots /\ rx_head \in Slots /\ rdt \in Slots /\ arrived \in Nat
      /\ rx_head = After(rdt)
    BY DEF RxInv
<1>2. s = rx_head /\ Ready(rx_head)
    BY DEF ReadySlots
<1>3. rx' = [rx EXCEPT ![rx_head] = Armed] /\ rdt' = rx_head /\ rx_head' = After(rx_head) /\ UNCHANGED <<nic, copying, arrived>>
    BY <1>2 DEF recv_take, nicFound
<1>4. got' = got \/ got' = Append(got, rx[rx_head].frame)
    BY <1>2 DEF recv_take
<1>5. restart_ru(rx_head')
    BY DEF recv_take
<1>6. rx_head' \in Slots /\ rdt' \in Slots /\ rx_head' = After(rdt') /\ arrived' \in Nat
    BY <1>1, <1>3, AfterIn
<1>7. hw_rx' \in Slots
    BY <1>1, <1>5, <1>6 DEF restart_ru
<1>8. rx' \in [Slots -> SlotType]
    <2>1. Armed \in SlotType
        BY DEF Armed, SlotType
    <2>2. QED
        BY <1>1, <1>3, <2>1
<1>9. NSlots \in Nat \ {0} /\ 0 \in 0..(NSlots - 1)
    BY NicSlots
<1>10. copying => nic = "rtl8139"
    BY DEF BhInv
<1>11. CASE nic = "i8255x" /\ lapped'
    BY <1>3, <1>6, <1>7, <1>8, <1>11 DEF RxInv
<1>12. CASE ~(nic = "i8255x" /\ lapped')
    <2>1. ~(nic = "i8255x" /\ lapped)
        BY <1>5, <1>12 DEF restart_ru
    <2>2. PICK c, m \in 0..NSlots : RxFilled(c, m)
        BY <2>1 DEF RxInv
    <2>3. RxHeld(rx, rx_head, m, arrived, got) /\ hw_rx = Onward(rx_head, c, NSlots)
        BY <2>2 DEF RxFilled
    <2>4. (copying => m = c + 1) /\ (~copying => m = c) /\ (nic # "i8255x" => m < NSlots)
        BY <2>2 DEF RxFilled
    <2>5. Onward(rx_head, 0, NSlots) = rx_head
        BY <1>1, OnwardRing
    <2>6. 0 < m
        <3>1. rx[rx_head] # Armed
            BY <1>2 DEF Ready
        <3>2. QED
            BY <1>1, <1>9, <2>3, <2>5, <3>1, RxHeldSlot
    <2>7. 0 < c
        <3>1. CASE copying
            <4>1. rx_head # hw_rx
                BY <1>2, <3>1 DEF Ready
            <4>2. c # 0
                BY <2>3, <2>5, <4>1
            <4>3. QED
                BY <1>9, <4>2
        <3>2. CASE ~copying
            BY <2>4, <2>6, <3>2
        <3>3. QED
            BY <3>1, <3>2
    <2>8. PICK d : d = c - 1 /\ d \in 0..(NSlots - 1) /\ d \in 0..NSlots /\ d + 1 = c
        BY <1>9, <2>7
    <2>9. PICK k : k = m - 1 /\ k \in 0..NSlots /\ m \in 1..NSlots /\ k < NSlots
        BY <1>9, <2>6
    <2>10. RxHeld(rx', rx_head', k, arrived', got')
        BY <1>1, <1>3, <1>4, <2>3, <2>9, RxTake
    <2>11. (copying => k = d + 1) /\ (~copying => k = d)
        BY <1>9, <2>4, <2>8, <2>9
    <2>12. hw_rx = Onward(rx_head', d, NSlots)
        BY <1>1, <1>3, <2>3, <2>8, OnwardRing
    <2>13. CASE nic = "i8255x" /\ ~ru_ready
        <3>1. hw_rx' = rx_head' /\ lapped' = (lapped \/ rx[rx_head'] # Armed)
            BY <1>5, <2>13 DEF restart_ru
        <3>2. rx[rx_head'] = Armed
            BY <1>12, <2>13, <3>1
        <3>3. ~copying
            BY <1>10, <2>13
        <3>4. rx_head' = Onward(rx_head, 1, NSlots)
            BY <1>1, <1>3, AfterIn
        <3>5. NSlots # 1
            <4>1. SUFFICES ASSUME NSlots = 1 PROVE FALSE
                OBVIOUS
            <4>2. rx_head' = rx_head
                BY <1>1, <3>4, <4>1, OnwardRing
            <4>3. QED
                BY <1>2, <3>2, <4>2 DEF Ready
        <3>6. 1 \in 0..(NSlots - 1)
            BY <1>9, <3>5
        <3>7. ~(1 < m)
            BY <1>1, <2>3, <3>2, <3>4, <3>6, RxHeldSlot
        <3>8. k = 0 /\ 0 \in 0..NSlots
            BY <1>9, <2>6, <2>9, <3>7
        <3>9. hw_rx' = Onward(rx_head', 0, NSlots)
            BY <1>6, <3>1, OnwardRing
        <3>10. RxFilled(0, 0)'
            BY <1>3, <2>10, <2>13, <3>3, <3>8, <3>9 DEF RxFilled
        <3>11. QED
            BY <1>3, <1>6, <1>7, <1>8, <3>8, <3>10 DEF RxInv
    <2>14. CASE ~(nic = "i8255x" /\ ~ru_ready)
        <3>1. hw_rx' = hw_rx
            BY <1>5, <2>14 DEF restart_ru
        <3>2. RxFilled(d, k)'
            <4>1. (copying' => k = d + 1) /\ (~copying' => k = d) /\ (nic' # "i8255x" => k < NSlots)
                BY <1>3, <2>9, <2>11
            <4>2. hw_rx' = Onward(rx_head', d, NSlots)
                BY <2>12, <3>1
            <4>3. QED
                BY <2>10, <4>1, <4>2, Zenon DEF RxFilled
        <3>3. QED
            BY <1>3, <1>6, <1>7, <1>8, <2>8, <2>9, <3>2 DEF RxInv
    <2>15. QED
        BY <2>13, <2>14
<1>13. QED
    BY <1>11, <1>12

(* Every step keeps the receive ring.                                      *)
LEMMA RxSteps == RxInv /\ BhInv /\ NicNext => RxInv'
<1> SUFFICES ASSUME RxInv, BhInv, NicNext PROVE RxInv'
    OBVIOUS
<1>1. /\ rx \in [Slots -> SlotType] /\ hw_rx \in Slots /\ rx_head \in Slots /\ rdt \in Slots /\ arrived \in Nat
      /\ rx_head = After(rdt)
    BY DEF RxInv
<1>2. NSlots \in Nat \ {0} /\ 0 \in 0..(NSlots - 1) /\ 0 \in 0..NSlots
    BY NicSlots
<1>3. copying => nic = "rtl8139"
    BY DEF BhInv
<1>4. CASE UNCHANGED <<nic, rx, hw_rx, rx_head, rdt, copying, lapped, arrived, got>>
    <2>1. ASSUME NEW c, NEW m, RxFilled(c, m) PROVE RxFilled(c, m)'
        BY <1>4, <2>1 DEF RxFilled
    <2>2. QED
        BY <1>1, <1>4, <2>1 DEF RxInv
<1>5. ASSUME NEW k, NEW registered, published(k, registered) PROVE RxInv'
    <2>1. nic = "none" /\ UNCHANGED <<rx, hw_rx, rx_head, rdt, copying, lapped, arrived, got>>
        BY <1>5 DEF published, rxRing
    <2>2. PICK c, m \in 0..NSlots : RxFilled(c, m)
        BY <2>1 DEF RxInv
    <2>3. RxFilled(c, m)'
        BY <2>1, <2>2 DEF RxFilled
    <2>4. QED
        BY <1>1, <2>1, <2>3 DEF RxInv
<1>6. ASSUME NEW good \in BOOLEAN, hw_receive(good) PROVE RxInv'
    BY <1>6, RxReceives
<1>7. CASE hw_copied
    <2>1. copying /\ copying' = FALSE /\ hw_rx' = After(hw_rx) /\ UNCHANGED <<nic, rx, rx_head, rdt, lapped, arrived, got>>
        BY <1>7 DEF hw_copied, nicFound
    <2>2. nic = "rtl8139"
        BY <1>3, <2>1
    <2>3. PICK c, m \in 0..NSlots : RxFilled(c, m)
        BY <2>2 DEF RxInv
    <2>4. m = c + 1 /\ c \in 0..(NSlots - 1)
        BY <1>2, <2>1, <2>3 DEF RxFilled
    <2>5. hw_rx' = Onward(rx_head, m, NSlots)
        BY <1>1, <2>1, <2>3, <2>4, OnwardRing DEF RxFilled
    <2>6. RxFilled(m, m)'
        BY <2>1, <2>3, <2>5 DEF RxFilled
    <2>7. hw_rx' \in Slots
        BY <1>1, <2>1, AfterIn
    <2>8. QED
        BY <1>1, <2>1, <2>6, <2>7 DEF RxInv
<1>8. CASE recv_check
    <2>1. UNCHANGED <<nic, rx, rx_head, rdt, copying, arrived, got>>
        BY <1>8 DEF recv_check, nicFound
    <2>2. CASE ~(ReadySlots = {} /\ nic = "i8255x" /\ ~ru_ready)
        BY <1>4, <1>8, <2>1, <2>2 DEF recv_check, restart_ru
    <2>3. CASE ReadySlots = {} /\ nic = "i8255x" /\ ~ru_ready
        <3>1. hw_rx' = rx_head /\ lapped' = (lapped \/ rx[rx_head] # Armed)
            BY <1>8, <2>3 DEF recv_check, restart_ru
        <3>2. ~copying
            BY <1>3, <2>3
        <3>3. rx[rx_head] = Armed
            BY <2>3, <3>2 DEF ReadySlots, Ready
        <3>4. CASE lapped
            BY <1>1, <2>1, <2>3, <3>1, <3>4 DEF RxInv
        <3>5. CASE ~lapped
            <4>1. PICK c, m \in 0..NSlots : RxFilled(c, m)
                BY <3>5 DEF RxInv
            <4>2. RxHeld(rx, rx_head, m, arrived, got) /\ Onward(rx_head, 0, NSlots) = rx_head
                BY <1>1, <4>1, OnwardRing DEF RxFilled
            <4>3. ~(0 < m)
                BY <1>1, <1>2, <3>3, <4>2, RxHeldSlot
            <4>4. m = 0
                BY <1>2, <4>3
            <4>5. RxFilled(0, 0)'
                BY <2>1, <2>3, <3>1, <3>2, <4>2, <4>4 DEF RxFilled
            <4>6. QED
                BY <1>1, <1>2, <2>1, <3>1, <4>5 DEF RxInv
        <3>6. QED
            BY <3>4, <3>5
    <2>4. QED
        BY <2>2, <2>3
<1>9. ASSUME NEW s \in ReadySlots, recv_take(s) PROVE RxInv'
    BY <1>9, RxTakes
<1>10. CASE ru_stops \/ hw_transmit \/ e1000e_irq_entry \/ i8255x_irq_entry \/ rtl8139_irq_entry \/ run_bottom_half
            \/ recv_ack \/ send \/ poll_end \/ syscall_lock
    <2>1. UNCHANGED <<nic, rx, hw_rx, rx_head, rdt, copying, lapped, arrived, got>>
        BY <1>10 DEF ru_stops, hw_transmit, e1000e_irq_entry, i8255x_irq_entry, rtl8139_irq_entry, run_bottom_half,
           recv_ack, send, poll_end, syscall_lock, nicFound, rxRing
    <2>2. QED
        BY <1>4, <2>1
<1>11. QED
    BY <1>5, <1>6, <1>7, <1>8, <1>9, <1>10, Zenon DEF NicNext, e1000e_init, i8255x_init, rtl8139_init

(* The card at the start.                                                  *)
LEMMA NicStarts == NicInit => NicInv
    BY TxStarts, RxStarts, BhStarts DEF NicInv

(* Every step of the card.                                                 *)
LEMMA NicSteps == NicInv /\ NicNext => NicInv'
    BY TxSteps, RxSteps, BhSteps DEF NicInv

(* The invariant gives what the run checks of it.                          *)
LEMMA NicHolds == NicInv => FramesInOrder /\ SentInOrder /\ ReadyIsAnnounced
<1> SUFFICES ASSUME NicInv PROVE FramesInOrder /\ SentInOrder /\ ReadyIsAnnounced
    OBVIOUS
<1>1. FramesInOrder
    <2>1. CASE nic = "i8255x" /\ lapped
        BY <2>1 DEF FramesInOrder
    <2>2. CASE ~(nic = "i8255x" /\ lapped)
        BY <2>2 DEF NicInv, RxInv, RxFilled, RxHeld, FramesInOrder
    <2>3. QED
        BY <2>1, <2>2
<1>2. SentInOrder
    BY DEF NicInv, TxInv
<1>3. ReadyIsAnnounced
    BY Zenon DEF NicInv, BhInv, ReadyIsAnnounced
<1>4. QED
    BY <1>1, <1>2, <1>3

(***************************************************************************)
(* Input of the window manager.                                            *)
(***************************************************************************)
IsWm(s) ==
    s = [wins |-> s.wins, stack |-> s.stack, next_id |-> s.next_id, created |-> s.created,
         drag |-> s.drag, capture |-> s.capture, hover |-> s.hover, pressed |-> s.pressed]

IsWindow(w) == w = [cell |-> w.cell, foc |-> w.foc, owner |-> w.owner, nth |-> w.nth]

(* Until ids wrap around a window has the number of its id.                *)
WinsOK(W, n) ==
    /\ W = [i \in DOMAIN W |-> W[i]] /\ \A i \in DOMAIN W : i \in Nat \ {0} /\ IsWindow(W[i])
    /\ n <= MaxWindowId => \A i \in DOMAIN W : W[i].nth = i

DragOK(d, n) ==
    /\ d = [id |-> d.id, kind |-> d.kind, nth |-> d.nth] /\ (d.id = NoWindow => d.kind = "none")
    /\ n <= MaxWindowId /\ d.id # NoWindow => d.nth = d.id

CountOK(next, n) == n \in Nat /\ next \in 1..MaxWindowId /\ (n < MaxWindowId => next = n + 1)

WmOK(s) ==
    /\ IsWm(s) /\ WinsOK(s.wins, s.created) /\ CountOK(s.next_id, s.created) /\ DragOK(s.drag, s.created)
    /\ s.stack \in Seq(DOMAIN s.wins)
    /\ s.capture \in DOMAIN s.wins \cup {NoWindow} /\ s.hover \in DOMAIN s.wins \cup {NoWindow}

(* Who was told of a press holds the mouse; nobody was while the button, as
   far as inputs have been handled, is up.                                 *)
PressedOK(s, b) ==
    /\ \A x \in s.pressed : s.capture \in DOMAIN s.wins /\ x = s.wins[s.capture].nth
    /\ ~b => s.pressed = {}

(* The button before and after an input, and through a queue of them.      *)
EdgeOK(kind, b, c) ==
    /\ kind = "down" => ~b /\ c
    /\ kind = "up" => ~c
    /\ kind \notin {"down", "up"} => c = b

Alternates(f, q, e) ==
    /\ f \in [0..Len(q) -> BOOLEAN] /\ f[Len(q)] = e
    /\ \A k \in 1..Len(q) : EdgeOK(q[k].kind, f[k - 1], f[k])

Inputs == [kind : {"down", "up", "move"}, at : [cell : ScreenCells, part : Parts]]

WmInv ==
    /\ WmOK(wm) /\ pendingIn \in Seq(Inputs) /\ buttonDown \in BOOLEAN /\ lostInput \in BOOLEAN
    /\ ~lostInput => \E f : Alternates(f, pendingIn, buttonDown) /\ PressedOK(wm, f[0])

(* NoWindow is no number of a window.                                      *)
LEMMA NoWindowZero == NoWindow = 0 /\ NoWindow \notin Nat \ {0} /\ MaxWindowId \in Nat \ {0}
    BY WmAssumption DEF NoWindow

(* A set of places of a list has a last one.                               *)
LEMMA GreatestMember ==
    ASSUME NEW l \in Nat, NEW S \in SUBSET (1..l), S # {}
    PROVE  \E k \in S : \A j \in S : j <= k
<1>1. PICK B : B = {l - k : k \in S}
    OBVIOUS
<1>2. B \in SUBSET Nat /\ B # {}
    <2>1. \A k \in S : l - k \in Nat
        OBVIOUS
    <2>2. PICK k : k \in S
        OBVIOUS
    <2>3. QED
        BY <1>1, <2>1, <2>2
<1>3. PICK m \in B : \A x \in B : m <= x
    BY <1>2, LeastMember
<1>4. PICK k \in S : m = l - k
    BY <1>1, <1>3
<1>5. \A j \in S : l - k <= l - j /\ j \in 1..l
    BY <1>1, <1>3, <1>4
<1>6. QED
    BY <1>5

(* The window on top of a cell exists.                                     *)
LEMMA TopLives ==
    ASSUME NEW s, WmOK(s), NEW cell
    PROVE  TopAt(s, cell) \in DOMAIN s.wins \cup {NoWindow}
<1>1. s.stack \in Seq(DOMAIN s.wins) /\ Len(s.stack) \in Nat
    BY LenProperties DEF WmOK
<1>2. PICK at : at = {k \in 1..Len(s.stack) : s.wins[s.stack[k]].cell = cell}
    OBVIOUS
<1>3. CASE at = {}
    <2>1. TopAt(s, cell) = NoWindow
        BY <1>2, <1>3, Zenon DEF TopAt
    <2>2. QED
        BY <2>1
<1>4. CASE at # {}
    <2>1. PICK c : c = CHOOSE k \in at : \A j \in at : j <= k
        OBVIOUS
    <2>2. \E k \in at : \A j \in at : j <= k
        BY <1>1, <1>2, <1>4, GreatestMember
    <2>3. c \in at
        BY <2>1, <2>2, Zenon
    <2>4. TopAt(s, cell) = s.stack[c]
        BY <1>2, <1>4, <2>1, Zenon DEF TopAt
    <2>5. s.stack[c] \in DOMAIN s.wins
        BY <1>1, <1>2, <2>3, ElementOfSeq
    <2>6. QED
        BY <2>4, <2>5
<1>5. QED
    BY <1>3, <1>4

(* So does the client under the pointer.                                   *)
LEMMA ClientLives ==
    ASSUME NEW s, WmOK(s), NEW p
    PROVE  client_at(s, p) \in DOMAIN s.wins \cup {NoWindow}
    BY TopLives DEF client_at

(* The same windows, in another order or with other frames.                *)
SameWindows(r, s) ==
    /\ DOMAIN r.wins = DOMAIN s.wins /\ \A i \in DOMAIN s.wins : r.wins[i].nth = s.wins[i].nth
    /\ r.created = s.created /\ r.next_id = s.next_id

(* A change of focus keeps the windows and the pointer state.              *)
LEMMA FocusSame ==
    ASSUME NEW s, WmOK(s), NEW id \in DOMAIN s.wins
    PROVE  /\ WmOK(Focus(s, id)) /\ SameWindows(Focus(s, id), s)
           /\ Focus(s, id).capture = s.capture /\ Focus(s, id).hover = s.hover
           /\ Focus(s, id).drag = s.drag /\ Focus(s, id).pressed = s.pressed
<1>1. IsWm(s) /\ WinsOK(s.wins, s.created) /\ s.stack \in Seq(DOMAIN s.wins)
    BY DEF WmOK
<1>2. PICK st : st = Append(Omitting(s.stack, {id}), id)
    OBVIOUS
<1>3. st \in Seq(DOMAIN s.wins)
    <2>1. Omitting(s.stack, {id}) \in Seq(DOMAIN s.wins)
        BY <1>1, OmittingFacts
    <2>2. QED
        BY <1>2, <2>1, AppendProperties
<1>4. PICK W : W = [i \in DOMAIN s.wins |-> [s.wins[i] EXCEPT !.foc = i = id]]
    OBVIOUS
<1>5. DOMAIN W = DOMAIN s.wins /\ W = [i \in DOMAIN W |-> W[i]]
    BY <1>4
<1>6. \A i \in DOMAIN s.wins : IsWindow(W[i]) /\ W[i].nth = s.wins[i].nth
    <2>1. SUFFICES ASSUME NEW i \in DOMAIN s.wins PROVE IsWindow(W[i]) /\ W[i].nth = s.wins[i].nth
        OBVIOUS
    <2>2. PICK w, b : w = s.wins[i] /\ b = (i = id)
        OBVIOUS
    <2>3. w = [cell |-> w.cell, foc |-> w.foc, owner |-> w.owner, nth |-> w.nth]
        BY <1>1, <2>2 DEF WinsOK, IsWindow
    <2>4. W[i] = [w EXCEPT !.foc = b]
        BY <1>4, <2>2
    <2>5. QED
        BY <2>2, <2>3, <2>4 DEF IsWindow
<1>7. WinsOK(W, s.created)
    BY <1>1, <1>5, <1>6 DEF WinsOK
<1>8. PICK r : r = Focus(s, id)
    OBVIOUS
<1>9. r = [s EXCEPT !.stack = st, !.wins = W]
    BY <1>2, <1>4, <1>8 DEF Focus, LiveWindows
<1>10. /\ IsWm(r) /\ r.stack = st /\ r.wins = W /\ r.created = s.created /\ r.next_id = s.next_id
       /\ r.capture = s.capture /\ r.hover = s.hover /\ r.drag = s.drag /\ r.pressed = s.pressed
    BY <1>1, <1>9 DEF IsWm
<1>11. WmOK(r)
    BY <1>3, <1>5, <1>7, <1>10 DEF WmOK
<1>12. SameWindows(r, s)
    BY <1>5, <1>6, <1>10 DEF SameWindows
<1>13. QED
    BY <1>8, <1>10, <1>11, <1>12

(* A change of drag, capture, hover and pressed keeps the windows.         *)
LEMMA Repoint ==
    ASSUME NEW s, WmOK(s), NEW r, IsWm(r), r.wins = s.wins, r.stack = s.stack, r.created = s.created,
           r.next_id = s.next_id, DragOK(r.drag, r.created),
           r.capture \in DOMAIN s.wins \cup {NoWindow}, r.hover \in DOMAIN s.wins \cup {NoWindow}
    PROVE  WmOK(r)
    BY DEF WmOK

(* No drag is a sound one.                                                 *)
LEMMA NoDragOK == ASSUME NEW n PROVE DragOK(NoDrag, n)
    BY DEF DragOK, NoDrag, NoWindow

(* A drag that begins is of a window that exists.                          *)
LEMMA NewDragOK ==
    ASSUME NEW s, WmOK(s), NEW t \in DOMAIN s.wins, NEW kind
    PROVE  DragOK([id |-> t, kind |-> kind, nth |-> s.wins[t].nth], s.created)
<1>1. t # NoWindow
    BY NoWindowZero DEF WmOK, WinsOK
<1>2. s.created <= MaxWindowId => s.wins[t].nth = t
    BY DEF WmOK, WinsOK
<1>3. QED
    BY <1>1, <1>2 DEF DragOK

(* A press keeps the window manager sound.                                 *)
LEMMA DownOK ==
    ASSUME NEW s0, WmOK(s0), NEW p, NEW b \in BOOLEAN, NEW c \in BOOLEAN
    PROVE  /\ WmOK(on_mouse_down_locked(s0, p))
           /\ PressedOK(s0, b) /\ ~b /\ c => PressedOK(on_mouse_down_locked(s0, p), c)
<1>1. IsWm(s0)
    BY DEF WmOK
<1>2. PICK s : s = [s0 EXCEPT !.capture = NoWindow]
    OBVIOUS
<1>3. /\ IsWm(s) /\ s.wins = s0.wins /\ s.stack = s0.stack /\ s.created = s0.created /\ s.next_id = s0.next_id
      /\ s.drag = s0.drag /\ s.capture = NoWindow /\ s.hover = s0.hover /\ s.pressed = s0.pressed
    BY <1>1, <1>2 DEF IsWm
<1>4. WmOK(s)
    <2>1. DragOK(s0.drag, s0.created) /\ s0.hover \in DOMAIN s0.wins \cup {NoWindow}
        BY DEF WmOK
    <2>2. QED
        BY <1>3, <2>1, Repoint
<1>5. PICK t : t = TopAt(s, p.cell)
    OBVIOUS
<1>6. t \in DOMAIN s.wins \cup {NoWindow}
    BY <1>4, <1>5, TopLives
<1>7. PICK r : r = on_mouse_down_locked(s0, p)
    OBVIOUS
<1>8. CASE t = NoWindow \/ p.part = "close"
    <2>1. r = [s EXCEPT !.drag = NoDrag]
        BY <1>2, <1>5, <1>7, <1>8, Zenon DEF on_mouse_down_locked
    <2>2. /\ IsWm(r) /\ r.wins = s.wins /\ r.stack = s.stack /\ r.created = s.created /\ r.next_id = s.next_id
          /\ r.drag = NoDrag /\ r.capture = s.capture /\ r.hover = s.hover /\ r.pressed = s.pressed
        BY <1>3, <2>1 DEF IsWm
    <2>3. WmOK(r)
        <3>1. s.capture \in DOMAIN s.wins \cup {NoWindow} /\ s.hover \in DOMAIN s.wins \cup {NoWindow}
            BY <1>4 DEF WmOK
        <3>2. QED
            BY <1>4, <2>2, <3>1, NoDragOK, Repoint
    <2>4. PressedOK(s0, b) /\ ~b => PressedOK(r, c)
        BY <1>3, <2>2 DEF PressedOK
    <2>5. QED
        BY <1>7, <2>3, <2>4
<1>9. CASE ~(t = NoWindow \/ p.part = "close")
    <2>1. t \in DOMAIN s.wins
        BY <1>6, <1>9
    <2>2. PICK D : D = [k \in {"resize", "move"} |-> [id |-> t, kind |-> k, nth |-> s.wins[t].nth]]
        OBVIOUS
    <2>3. \A k \in {"resize", "move"} : D[k] = [id |-> t, kind |-> k, nth |-> s.wins[t].nth] /\ DragOK(D[k], s.created)
        BY <1>4, <2>1, <2>2, NewDragOK
    <2>4. PICK g : g = Focus(s, t)
        OBVIOUS
    <2>5. WmOK(g) /\ SameWindows(g, s) /\ g.capture = s.capture /\ g.hover = s.hover /\ g.drag = s.drag /\ g.pressed = s.pressed
        BY <1>4, <2>1, <2>4, FocusSame
    <2>6. PICK f : f = IF s.wins[t].foc THEN s ELSE g
        OBVIOUS
    <2>7. WmOK(f) /\ SameWindows(f, s) /\ f.capture = s.capture /\ f.hover = s.hover /\ f.drag = s.drag /\ f.pressed = s.pressed
        <3>1. f = s \/ f = g
            BY <2>6
        <3>2. SameWindows(s, s)
            BY DEF SameWindows
        <3>3. QED
            BY <1>4, <2>5, <3>1, <3>2
    <2>8. IsWm(f) /\ IsWm(g) /\ DOMAIN f.wins = DOMAIN s.wins /\ DOMAIN g.wins = DOMAIN s.wins /\ f.created = s.created /\ g.created = s.created
        BY <2>5, <2>7 DEF WmOK, SameWindows
    <2>9. CASE p.part = "resize"
        <3>1. r = [g EXCEPT !.drag = D["resize"]]
            <4>1. D["resize"] = [id |-> t, kind |-> "resize", nth |-> NthOf(s, t)]
                BY <2>3 DEF NthOf
            <4>2. "resize" # "close"
                OBVIOUS
            <4>3. QED
                BY <1>2, <1>5, <1>7, <1>9, <2>4, <2>9, <4>1, <4>2, Zenon DEF on_mouse_down_locked
        <3>2. /\ IsWm(r) /\ r.wins = g.wins /\ r.stack = g.stack /\ r.created = g.created /\ r.next_id = g.next_id
              /\ r.drag = D["resize"] /\ r.capture = g.capture /\ r.hover = g.hover /\ r.pressed = g.pressed
            BY <2>8, <3>1 DEF IsWm
        <3>3. WmOK(r)
            <4>1. g.capture \in DOMAIN g.wins \cup {NoWindow} /\ g.hover \in DOMAIN g.wins \cup {NoWindow}
                BY <2>5 DEF WmOK
            <4>2. DragOK(r.drag, r.created)
                BY <2>3, <2>8, <3>2
            <4>3. QED
                BY <2>5, <3>2, <4>1, <4>2, Repoint
        <3>4. PressedOK(s0, b) /\ ~b => PressedOK(r, c)
            BY <1>3, <2>5, <3>2 DEF PressedOK
        <3>5. QED
            BY <1>7, <3>3, <3>4
    <2>10. CASE p.part = "title"
        <3>1. r = [f EXCEPT !.drag = D["move"], !.hover = NoWindow]
            <4>1. D["move"] = [id |-> t, kind |-> "move", nth |-> NthOf(s, t)]
                BY <2>3 DEF NthOf
            <4>2. "title" # "close" /\ "title" # "resize"
                OBVIOUS
            <4>3. QED
                BY <1>2, <1>5, <1>7, <1>9, <2>4, <2>6, <2>10, <4>1, <4>2, Zenon DEF on_mouse_down_locked
        <3>2. /\ IsWm(r) /\ r.wins = f.wins /\ r.stack = f.stack /\ r.created = f.created /\ r.next_id = f.next_id
              /\ r.drag = D["move"] /\ r.capture = f.capture /\ r.hover = NoWindow /\ r.pressed = f.pressed
            BY <2>8, <3>1 DEF IsWm
        <3>3. WmOK(r)
            <4>1. f.capture \in DOMAIN f.wins \cup {NoWindow}
                BY <2>7 DEF WmOK
            <4>2. DragOK(r.drag, r.created)
                BY <2>3, <2>8, <3>2
            <4>3. QED
                BY <2>7, <3>2, <4>1, <4>2, Repoint
        <3>4. PressedOK(s0, b) /\ ~b => PressedOK(r, c)
            BY <1>3, <2>7, <3>2 DEF PressedOK
        <3>5. QED
            BY <1>7, <3>3, <3>4
    <2>11. CASE p.part \notin {"resize", "title"}
        <3>1. PICK T : T = f.pressed \cup {f.wins[t].nth}
            OBVIOUS
        <3>2. PICK h : h = [f EXCEPT !.pressed = T]
            OBVIOUS
        <3>3. h = TellDown(f, t)
            BY <3>1, <3>2 DEF TellDown, NthOf
        <3>4. r = [h EXCEPT !.drag = NoDrag, !.hover = t, !.capture = t]
            <4>1. p.part # "resize" /\ p.part # "title"
                BY <2>11
            <4>2. QED
                BY <1>2, <1>5, <1>7, <1>9, <2>4, <2>6, <3>3, <4>1, Zenon DEF on_mouse_down_locked
        <3>5. /\ IsWm(h) /\ h.wins = f.wins /\ h.stack = f.stack /\ h.created = f.created /\ h.next_id = f.next_id /\ h.pressed = T
            BY <2>8, <3>2 DEF IsWm
        <3>6. /\ IsWm(r) /\ r.wins = f.wins /\ r.stack = f.stack /\ r.created = f.created /\ r.next_id = f.next_id
              /\ r.drag = NoDrag /\ r.capture = t /\ r.hover = t /\ r.pressed = T
            BY <3>4, <3>5 DEF IsWm
        <3>7. WmOK(r)
            BY <2>1, <2>7, <2>8, <3>6, NoDragOK, Repoint
        <3>8. PressedOK(s0, b) /\ ~b /\ c => PressedOK(r, c)
            BY <1>3, <2>1, <2>7, <2>8, <3>1, <3>6 DEF PressedOK
        <3>9. QED
            BY <1>7, <3>7, <3>8
    <2>12. QED
        BY <2>9, <2>10, <2>11
<1>10. QED
    BY <1>8, <1>9

(* So does a release.                                                      *)
LEMMA UpOK ==
    ASSUME NEW s0, WmOK(s0), NEW p, NEW b \in BOOLEAN, NEW c \in BOOLEAN
    PROVE  /\ WmOK(on_mouse_up_locked(s0, p))
           /\ PressedOK(s0, b) => PressedOK(on_mouse_up_locked(s0, p), c)
<1>1. IsWm(s0) /\ s0.capture \in DOMAIN s0.wins \cup {NoWindow} /\ s0.hover \in DOMAIN s0.wins \cup {NoWindow}
    BY DEF WmOK
<1>2. PICK s : s = [s0 EXCEPT !.drag = NoDrag, !.capture = NoWindow]
    OBVIOUS
<1>3. /\ IsWm(s) /\ s.wins = s0.wins /\ s.stack = s0.stack /\ s.created = s0.created /\ s.next_id = s0.next_id
      /\ s.drag = NoDrag /\ s.capture = NoWindow /\ s.hover = s0.hover /\ s.pressed = s0.pressed
    BY <1>1, <1>2 DEF IsWm
<1>4. WmOK(s)
    BY <1>1, <1>3, NoDragOK, Repoint
<1>5. PICK t : t = IF s0.capture # NoWindow THEN s0.capture ELSE client_at(s, p)
    OBVIOUS
<1>6. t \in DOMAIN s.wins \cup {NoWindow}
    BY <1>1, <1>3, <1>4, <1>5, ClientLives
<1>7. PICK r : r = on_mouse_up_locked(s0, p)
    OBVIOUS
<1>8. CASE t \in DOMAIN s.wins
    <2>1. PICK T : T = s.pressed \ {s.wins[t].nth}
        OBVIOUS
    <2>2. r = [s EXCEPT !.pressed = T]
        <3>1. r = TellUp(s, t)
            BY <1>2, <1>5, <1>7, <1>8, Zenon DEF on_mouse_up_locked, LiveWindows
        <3>2. QED
            BY <2>1, <3>1 DEF TellUp, NthOf
    <2>3. /\ IsWm(r) /\ r.wins = s.wins /\ r.stack = s.stack /\ r.created = s.created /\ r.next_id = s.next_id
          /\ r.drag = NoDrag /\ r.capture = NoWindow /\ r.hover = s.hover /\ r.pressed = T
        BY <1>3, <2>2 DEF IsWm
    <2>4. WmOK(r)
        BY <1>1, <1>3, <1>4, <2>3, NoDragOK, Repoint
    <2>5. ASSUME PressedOK(s0, b) PROVE T = {}
        <3>1. \A x \in s0.pressed : s0.capture \in DOMAIN s0.wins /\ x = s0.wins[s0.capture].nth
            BY <2>5 DEF PressedOK
        <3>2. NoWindow \notin DOMAIN s0.wins
            BY NoWindowZero DEF WmOK, WinsOK
        <3>3. \A x \in s0.pressed : t = s0.capture
            BY <1>5, <3>1, <3>2
        <3>4. QED
            BY <1>3, <2>1, <3>1, <3>3
    <2>6. PressedOK(s0, b) => PressedOK(r, c)
        BY <2>3, <2>5 DEF PressedOK
    <2>7. QED
        BY <1>7, <2>4, <2>6
<1>9. CASE t \notin DOMAIN s.wins
    <2>1. r = s
        BY <1>2, <1>5, <1>7, <1>9, Zenon DEF on_mouse_up_locked, LiveWindows
    <2>2. s0.capture \notin DOMAIN s0.wins
        <3>1. NoWindow \notin DOMAIN s0.wins
            BY NoWindowZero DEF WmOK, WinsOK
        <3>2. QED
            BY <1>3, <1>5, <1>9, <3>1
    <2>3. PressedOK(s0, b) => PressedOK(r, c)
        BY <1>3, <2>1, <2>2 DEF PressedOK
    <2>4. QED
        BY <1>4, <1>7, <2>1, <2>3
<1>10. QED
    BY <1>8, <1>9

(* A window that is moved stays the same window.                           *)
LEMMA MovedOK ==
    ASSUME NEW s, WmOK(s), NEW id \in DOMAIN s.wins, NEW cell, NEW r, r = [s EXCEPT !.wins[id].cell = cell]
    PROVE  /\ WmOK(r) /\ SameWindows(r, s)
           /\ r.capture = s.capture /\ r.hover = s.hover /\ r.drag = s.drag /\ r.pressed = s.pressed
<1>1. IsWm(s) /\ WinsOK(s.wins, s.created) /\ s.stack \in Seq(DOMAIN s.wins)
    BY DEF WmOK
<1>2. PICK w : w = s.wins[id]
    OBVIOUS
<1>3. w = [cell |-> w.cell, foc |-> w.foc, owner |-> w.owner, nth |-> w.nth]
    BY <1>1, <1>2 DEF WinsOK, IsWindow
<1>4. PICK v : v = [w EXCEPT !.cell = cell]
    OBVIOUS
<1>5. IsWindow(v) /\ v.nth = w.nth
    BY <1>3, <1>4 DEF IsWindow
<1>6. PICK W : W = [s.wins EXCEPT ![id] = v]
    OBVIOUS
<1>7. DOMAIN W = DOMAIN s.wins /\ W[id] = v /\ \A i \in DOMAIN s.wins : i # id => W[i] = s.wins[i]
    BY <1>1, <1>6 DEF WinsOK
<1>8. W = [i \in DOMAIN W |-> W[i]]
    BY <1>6
<1>9. WinsOK(W, s.created)
    BY <1>1, <1>2, <1>5, <1>7, <1>8 DEF WinsOK
<1>10. r = [s EXCEPT !.wins = W]
    BY <1>2, <1>4, <1>6
<1>11. /\ IsWm(r) /\ r.wins = W /\ r.stack = s.stack /\ r.created = s.created /\ r.next_id = s.next_id
       /\ r.capture = s.capture /\ r.hover = s.hover /\ r.drag = s.drag /\ r.pressed = s.pressed
    BY <1>1, <1>10 DEF IsWm
<1>12. WmOK(r)
    BY <1>7, <1>9, <1>11 DEF WmOK
<1>13. SameWindows(r, s)
    BY <1>2, <1>5, <1>7, <1>11 DEF SameWindows
<1>14. QED
    BY <1>11, <1>12, <1>13

(* The same windows and capture, the same press.                           *)
LEMMA SamePressed ==
    ASSUME NEW s, NEW r, SameWindows(r, s), r.capture = s.capture, r.pressed = s.pressed, NEW b
    PROVE  PressedOK(s, b) => PressedOK(r, b)
    BY DEF SameWindows, PressedOK

(* A movement keeps the window manager sound.                              *)
LEMMA MoveOK ==
    ASSUME NEW s, WmOK(s), NEW p, NEW b \in BOOLEAN
    PROVE  /\ WmOK(on_mouse_move_locked(s, p))
           /\ PressedOK(s, b) => PressedOK(on_mouse_move_locked(s, p), b)
<1>1. IsWm(s) /\ s.capture \in DOMAIN s.wins \cup {NoWindow} /\ s.hover \in DOMAIN s.wins \cup {NoWindow} /\ DragOK(s.drag, s.created)
    BY DEF WmOK
<1>2. PICK r : r = on_mouse_move_locked(s, p)
    OBVIOUS
<1>3. CASE s.drag.id # NoWindow /\ s.drag.id \notin DOMAIN s.wins
    <2>1. r = [s EXCEPT !.drag = NoDrag]
        BY <1>2, <1>3, Zenon DEF on_mouse_move_locked, LiveWindows
    <2>2. /\ IsWm(r) /\ r.wins = s.wins /\ r.stack = s.stack /\ r.created = s.created /\ r.next_id = s.next_id
          /\ r.drag = NoDrag /\ r.capture = s.capture /\ r.hover = s.hover /\ r.pressed = s.pressed
        BY <1>1, <2>1 DEF IsWm
    <2>3. WmOK(r)
        BY <1>1, <2>2, NoDragOK, Repoint
    <2>4. PressedOK(s, b) => PressedOK(r, b)
        BY <2>2 DEF PressedOK
    <2>5. QED
        BY <1>2, <2>3, <2>4
<1>4. CASE ~(s.drag.id # NoWindow /\ s.drag.id \notin DOMAIN s.wins)
    <2>1. CASE s.drag.kind = "resize"
        <3>1. r = s
            <4>1. "resize" # "move"
                OBVIOUS
            <4>2. QED
                BY <1>2, <1>4, <2>1, <4>1, Zenon DEF on_mouse_move_locked, LiveWindows
        <3>2. QED
            BY <1>2, <3>1
    <2>2. CASE s.drag.kind = "move"
        <3>1. r = [s EXCEPT !.wins[s.drag.id].cell = p.cell]
            <4>1. "resize" # "move"
                OBVIOUS
            <4>2. QED
                BY <1>2, <1>4, <2>2, <4>1, Zenon DEF on_mouse_move_locked, LiveWindows
        <3>2. s.drag.id \in DOMAIN s.wins
            <4>1. s.drag.id # NoWindow
                BY <1>1, <2>2 DEF DragOK
            <4>2. QED
                BY <1>4, <4>1
        <3>3. WmOK(r) /\ SameWindows(r, s) /\ r.capture = s.capture /\ r.pressed = s.pressed
            BY <3>1, <3>2, MovedOK
        <3>4. QED
            BY <1>2, <3>3, SamePressed
    <2>3. CASE s.drag.kind \notin {"resize", "move"}
        <3>0. s.drag.kind # "resize" /\ s.drag.kind # "move"
            BY <2>3
        <3>1. CASE s.capture \in DOMAIN s.wins
            <4>1. r = s
                BY <1>2, <1>4, <3>0, <3>1, Zenon DEF on_mouse_move_locked, LiveWindows
            <4>2. QED
                BY <1>2, <4>1
        <3>2. CASE s.capture \notin DOMAIN s.wins
            <4>1. PICK h : h = client_at(s, p)
                OBVIOUS
            <4>2. h \in DOMAIN s.wins \cup {NoWindow}
                BY <4>1, ClientLives
            <4>3. s.capture = NoWindow
                BY <1>1, <3>2
            <4>4. r = [s EXCEPT !.hover = h]
                BY <1>2, <1>4, <3>0, <3>2, <4>1, <4>3, Zenon DEF on_mouse_move_locked, LiveWindows
            <4>5. /\ IsWm(r) /\ r.wins = s.wins /\ r.stack = s.stack /\ r.created = s.created /\ r.next_id = s.next_id
                  /\ r.drag = s.drag /\ r.capture = s.capture /\ r.hover = h /\ r.pressed = s.pressed
                BY <1>1, <4>4 DEF IsWm
            <4>6. WmOK(r)
                BY <1>1, <4>2, <4>5, Repoint
            <4>7. PressedOK(s, b) => PressedOK(r, b)
                BY <4>5 DEF PressedOK
            <4>8. QED
                BY <1>2, <4>6, <4>7
        <3>3. QED
            BY <3>1, <3>2
    <2>4. QED
        BY <2>1, <2>2, <2>3
<1>5. QED
    BY <1>3, <1>4

(* So does every input.                                                    *)
LEMMA DispatchOK ==
    ASSUME NEW s, WmOK(s), NEW x, NEW b \in BOOLEAN, NEW c \in BOOLEAN
    PROVE  /\ WmOK(dispatch(s, x))
           /\ PressedOK(s, b) /\ EdgeOK(x.kind, b, c) => PressedOK(dispatch(s, x), c)
<1>0. "down" # "up"
    OBVIOUS
<1>1. CASE x.kind = "down"
    <2>1. dispatch(s, x) = on_mouse_down_locked(s, x.at)
        BY <1>0, <1>1, Zenon DEF dispatch
    <2>2. EdgeOK(x.kind, b, c) => ~b /\ c
        BY <1>1 DEF EdgeOK
    <2>3. QED
        BY <2>1, <2>2, DownOK
<1>2. CASE x.kind = "up"
    <2>1. dispatch(s, x) = on_mouse_up_locked(s, x.at)
        BY <1>0, <1>2, Zenon DEF dispatch
    <2>2. QED
        BY <2>1, UpOK
<1>3. CASE x.kind \notin {"down", "up"}
    <2>1. x.kind # "down" /\ x.kind # "up"
        BY <1>3
    <2>2. dispatch(s, x) = on_mouse_move_locked(s, x.at)
        BY <2>1, Zenon DEF dispatch
    <2>3. EdgeOK(x.kind, b, c) => c = b
        BY <1>3 DEF EdgeOK
    <2>4. QED
        BY <2>2, <2>3, MoveOK
<1>4. QED
    BY <1>1, <1>2, <1>3

(* f[k] is what the manager is after k inputs of the queue.                *)
Handled(q, before, k) == IF Superseded(q, k) THEN before ELSE dispatch(before, q[k])

DrainedTo(f, s, q, m) ==
    /\ f = [k \in 0..m |-> f[k]] /\ f[0] = s
    /\ \A k \in 1..m : f[k] = Handled(q, f[k - 1], k)

(* The drain of the queue runs for any length.                             *)
LEMMA DrainExists ==
    ASSUME NEW s, NEW q, NEW l \in Nat
    PROVE  \E f : DrainedTo(f, s, q, l)
<1>1. PICK Bad : Bad = {m \in 0..l : ~\E f : DrainedTo(f, s, q, m)}
    OBVIOUS
<1>2. SUFFICES ASSUME Bad # {} PROVE FALSE
    BY <1>1
<1>3. Bad \in SUBSET Nat
    BY <1>1
<1>4. PICK m \in Bad : \A x \in Bad : m <= x
    BY <1>2, <1>3, LeastMember
<1>5. m # 0
    <2>1. PICK f : f = [n \in 0..0 |-> s]
        OBVIOUS
    <2>2. DrainedTo(f, s, q, 0)
        BY <2>1 DEF DrainedTo
    <2>3. QED
        BY <1>1, <1>4, <2>2
<1>6. m - 1 \in 0..l /\ m \in 1..l /\ m - 1 \notin Bad
    BY <1>1, <1>3, <1>4, <1>5
<1>7. PICK f : DrainedTo(f, s, q, m - 1)
    BY <1>1, <1>6
<1>8. PICK g : g = [n \in 0..m |-> IF n < m THEN f[n] ELSE Handled(q, f[m - 1], m)]
    OBVIOUS
<1>9. g = [k \in 0..m |-> g[k]] /\ g[0] = s
    BY <1>6, <1>7, <1>8 DEF DrainedTo
<1>10. ASSUME NEW n \in 1..m PROVE g[n] = Handled(q, g[n - 1], n)
    <2>0. n \in 0..m /\ n - 1 \in 0..m /\ n - 1 < m /\ m \in Nat
        BY <1>6
    <2>1. g[n - 1] = f[n - 1]
        BY <1>8, <2>0
    <2>2. CASE n = m
        BY <1>8, <2>0, <2>1, <2>2
    <2>3. CASE n # m
        <3>1. n < m /\ n \in 1..(m - 1)
            BY <2>0, <2>3
        <3>2. g[n] = f[n]
            BY <1>8, <2>0, <3>1
        <3>3. QED
            BY <1>7, <2>1, <3>1, <3>2 DEF DrainedTo
    <2>4. QED
        BY <2>2, <2>3
<1>11. DrainedTo(g, s, q, m)
    BY <1>9, <1>10 DEF DrainedTo
<1>12. QED
    BY <1>1, <1>4, <1>11

Draining(s, q) ==
    CHOOSE after : after = [k \in 0..Len(q) |-> IF k = 0 THEN s ELSE IF Superseded(q, k) THEN after[k - 1] ELSE dispatch(after[k - 1], q[k])]

(* drain is the end of that run.                                           *)
LEMMA DrainDrained ==
    ASSUME NEW s, NEW q, Len(q) \in Nat
    PROVE  \E f : DrainedTo(f, s, q, Len(q)) /\ drain(s, q) = f[Len(q)]
<1>1. PICK f : DrainedTo(f, s, q, Len(q))
    BY DrainExists
<1>2. f = [k \in 0..Len(q) |-> IF k = 0 THEN s ELSE IF Superseded(q, k) THEN f[k - 1] ELSE dispatch(f[k - 1], q[k])]
    <2>1. \A k \in 0..Len(q) : k = 0 \/ k \in 1..Len(q)
        OBVIOUS
    <2>2. \A k \in 0..Len(q) : f[k] = IF k = 0 THEN s ELSE IF Superseded(q, k) THEN f[k - 1] ELSE dispatch(f[k - 1], q[k])
        BY <1>1, <2>1, Zenon DEF DrainedTo, Handled
    <2>3. f = [k \in 0..Len(q) |-> f[k]]
        BY <1>1 DEF DrainedTo
    <2>4. QED
        BY <2>2, <2>3, Zenon
<1>3. PICK g : g = Draining(s, q)
    OBVIOUS
<1>4. g = [k \in 0..Len(q) |-> IF k = 0 THEN s ELSE IF Superseded(q, k) THEN g[k - 1] ELSE dispatch(g[k - 1], q[k])]
    BY <1>2, <1>3 DEF Draining
<1>5. DrainedTo(g, s, q, Len(q))
    <2>1. 0 \in 0..Len(q) /\ \A k \in 1..Len(q) : k \in 0..Len(q) /\ k # 0
        OBVIOUS
    <2>2. \A k \in 0..Len(q) : g[k] = IF k = 0 THEN s ELSE IF Superseded(q, k) THEN g[k - 1] ELSE dispatch(g[k - 1], q[k])
        BY <1>4, Zenon
    <2>3. g = [k \in 0..Len(q) |-> g[k]]
        BY <1>4, <2>2, Zenon
    <2>4. QED
        BY <2>1, <2>2, <2>3, Zenon DEF DrainedTo, Handled
<1>6. drain(s, q) = Draining(s, q)[Len(q)]
    BY DEF drain, Draining
<1>7. QED
    BY <1>3, <1>5, <1>6

(* Handling a queue keeps the windows sound, and the presses when the queue
   alternates.                                                             *)
LEMMA DrainOK ==
    ASSUME NEW s, WmOK(s), NEW q, Len(q) \in Nat, NEW h, NEW e
    PROVE  /\ WmOK(drain(s, q))
           /\ Alternates(h, q, e) /\ PressedOK(s, h[0]) => PressedOK(drain(s, q), e)
<1>1. PICK f : DrainedTo(f, s, q, Len(q)) /\ drain(s, q) = f[Len(q)]
    BY DrainDrained
<1>2. PICK t : t = (Alternates(h, q, e) /\ PressedOK(s, h[0])) /\ t \in BOOLEAN
    OBVIOUS
<1>3. PICK Bad : Bad = {m \in 0..Len(q) : ~(WmOK(f[m]) /\ (t => PressedOK(f[m], h[m])))}
    OBVIOUS
<1>4. Bad = {}
    <2>1. SUFFICES ASSUME Bad # {} PROVE FALSE
        OBVIOUS
    <2>2. Bad \in SUBSET Nat
        BY <1>3
    <2>3. PICK m \in Bad : \A x \in Bad : m <= x
        BY <2>1, <2>2, LeastMember
    <2>4. m # 0
        <3>1. f[0] = s
            BY <1>1 DEF DrainedTo
        <3>2. QED
            BY <1>2, <1>3, <2>3, <3>1
    <2>5. PICK k : k = m - 1 /\ k \in 0..Len(q) /\ m \in 1..Len(q) /\ k \notin Bad /\ m \in 0..Len(q)
        <3>1. m - 1 \in 0..Len(q) /\ m \in 1..Len(q) /\ m - 1 \notin Bad /\ m \in 0..Len(q)
            BY <1>3, <2>2, <2>3, <2>4
        <3>2. QED
            BY <3>1
    <2>6. PICK x, y : x = f[k] /\ y = f[m]
        OBVIOUS
    <2>7. WmOK(x) /\ (t => PressedOK(x, h[k]))
        BY <1>3, <2>5, <2>6
    <2>8. y = IF Superseded(q, m) THEN x ELSE dispatch(x, q[m])
        BY <1>1, <2>5, <2>6, Zenon DEF DrainedTo, Handled
    <2>9. t => h[k] \in BOOLEAN /\ h[m] \in BOOLEAN /\ EdgeOK(q[m].kind, h[k], h[m])
        BY <1>2, <2>5 DEF Alternates
    <2>10. WmOK(y)
        <3>1. WmOK(dispatch(x, q[m]))
            BY <2>7, DispatchOK
        <3>2. QED
            BY <2>7, <2>8, <3>1
    <2>11. ASSUME t PROVE PressedOK(y, h[m])
        <3>1. CASE Superseded(q, m)
            <4>1. h[m] = h[k]
                BY <2>9, <2>11, <3>1 DEF Superseded, EdgeOK
            <4>2. QED
                BY <2>7, <2>8, <2>11, <3>1, <4>1
        <3>2. CASE ~Superseded(q, m)
            BY <2>7, <2>8, <2>9, <2>11, <3>2, DispatchOK
        <3>3. QED
            BY <3>1, <3>2
    <2>12. QED
        BY <1>3, <2>3, <2>5, <2>6, <2>10, <2>11
<1>5. Len(q) \in 0..Len(q)
    OBVIOUS
<1>6. WmOK(f[Len(q)]) /\ (t => PressedOK(f[Len(q)], h[Len(q)]))
    BY <1>3, <1>4, <1>5
<1>7. t => h[Len(q)] = e
    BY <1>2 DEF Alternates
<1>8. QED
    BY <1>1, <1>2, <1>6, <1>7

(***************************************************************************)
(* The queue.                                                              *)
(***************************************************************************)
LEMMA AlternatesAppend ==
    ASSUME NEW q \in Seq(Inputs), NEW x \in Inputs, NEW f, NEW e, NEW c \in BOOLEAN,
           Alternates(f, q, e), EdgeOK(x.kind, e, c)
    PROVE  \E g : Alternates(g, Append(q, x), c) /\ g[0] = f[0]
<1>1. PICK l : l = Len(q) /\ l \in Nat
    BY LenProperties
<1>2. PICK r : r = Append(q, x)
    OBVIOUS
<1>3. Len(r) = l + 1 /\ r[l + 1] = x /\ \A k \in 1..l : r[k] = q[k]
    BY <1>1, <1>2, AppendProperties
<1>4. f \in [0..l -> BOOLEAN] /\ f[l] = e /\ \A k \in 1..l : EdgeOK(q[k].kind, f[k - 1], f[k])
    BY <1>1 DEF Alternates
<1>5. PICK g : g = [k \in 0..(l + 1) |-> IF k = l + 1 THEN c ELSE f[k]]
    OBVIOUS
<1>6. \A k \in 0..(l + 1) : k = l + 1 \/ k \in 0..l
    BY <1>1
<1>7. g \in [0..(l + 1) -> BOOLEAN]
    BY <1>4, <1>5, <1>6
<1>8. g[l + 1] = c /\ \A k \in 0..l : g[k] = f[k]
    <2>1. l + 1 \in 0..(l + 1) /\ \A k \in 0..l : k \in 0..(l + 1) /\ k # l + 1
        BY <1>1
    <2>2. QED
        BY <1>5, <2>1
<1>9. ASSUME NEW k \in 1..(l + 1) PROVE EdgeOK(r[k].kind, g[k - 1], g[k])
    <2>1. CASE k = l + 1
        <3>1. k - 1 = l /\ l \in 0..l
            BY <1>1, <2>1
        <3>2. QED
            BY <1>3, <1>4, <1>8, <2>1, <3>1
    <2>2. CASE k # l + 1
        <3>1. k \in 1..l /\ k \in 0..l /\ k - 1 \in 0..l
            BY <1>1, <2>2
        <3>2. QED
            BY <1>3, <1>4, <1>8, <3>1
    <2>3. QED
        BY <2>1, <2>2
<1>10. Alternates(g, r, c)
    BY <1>3, <1>7, <1>8, <1>9 DEF Alternates
<1>11. g[0] = f[0]
    BY <1>1, <1>8
<1>12. QED
    BY <1>2, <1>10, <1>11

(* What a packet says first continues the alternation, a move changes nothing. *)
LEMMA FirstFacts ==
    ASSUME NEW down \in BOOLEAN, NEW p \in [cell : ScreenCells, part : Parts], buttonDown \in BOOLEAN
    PROVE  /\ FirstInput(down, p) \in Inputs /\ EdgeOK(FirstInput(down, p).kind, buttonDown, down)
           /\ MoveTo(p) \in Inputs /\ \A b \in BOOLEAN : EdgeOK(MoveTo(p).kind, b, b)
<1>1. MoveTo(p) \in Inputs /\ MoveTo(p).kind = "move"
    BY DEF MoveTo, Inputs
<1>2. \A b \in BOOLEAN : EdgeOK(MoveTo(p).kind, b, b)
    BY <1>1 DEF EdgeOK
<1>3. PICK kind : kind = IF down THEN "down" ELSE "up"
    OBVIOUS
<1>4. PICK x : x = [kind |-> kind, at |-> p]
    OBVIOUS
<1>5. kind \in {"down", "up"} /\ x.kind = kind
    BY <1>3, <1>4
<1>6. x \in Inputs
    BY <1>4, <1>5 DEF Inputs
<1>7. CASE down # buttonDown
    <2>1. FirstInput(down, p) = x
        BY <1>3, <1>4, <1>7, Zenon DEF FirstInput
    <2>2. CASE down
        <3>1. ~buttonDown /\ kind = "down"
            BY <1>3, <1>7, <2>2, Zenon
        <3>2. EdgeOK(x.kind, buttonDown, down)
            BY <1>5, <2>2, <3>1 DEF EdgeOK
        <3>3. QED
            BY <1>1, <1>2, <1>6, <2>1, <3>2
    <2>3. CASE ~down
        <3>1. kind = "up"
            BY <1>3, <2>3
        <3>2. EdgeOK(x.kind, buttonDown, down)
            BY <1>5, <2>3, <3>1 DEF EdgeOK
        <3>3. QED
            BY <1>1, <1>2, <1>6, <2>1, <3>2
    <2>4. QED
        BY <2>2, <2>3
<1>8. CASE down = buttonDown
    <2>1. FirstInput(down, p) = MoveTo(p)
        BY <1>8, Zenon DEF FirstInput
    <2>2. QED
        BY <1>1, <1>2, <1>8, <2>1
<1>9. QED
    BY <1>7, <1>8

(* push_input appends or drops.                                            *)
LEMMA PushFacts ==
    ASSUME NEW q \in Seq(Inputs), NEW x \in Inputs
    PROVE  /\ push_input(q, x) \in Seq(Inputs) /\ Len(push_input(q, x)) \in Nat
           /\ push_input(q, x) \in {q, Append(q, x)}
           /\ ~InputFull(q) => push_input(q, x) = Append(q, x)
<1>1. Append(q, x) \in Seq(Inputs)
    BY AppendProperties
<1>2. push_input(q, x) \in {q, Append(q, x)} /\ (~InputFull(q) => push_input(q, x) = Append(q, x))
    BY Zenon DEF push_input
<1>3. push_input(q, x) \in Seq(Inputs)
    BY <1>1, <1>2
<1>4. QED
    BY <1>2, <1>3, LenProperties

(* An empty queue alternates.                                              *)
LEMMA AlternatesEmpty ==
    ASSUME NEW b \in BOOLEAN
    PROVE  \E f : Alternates(f, <<>>, b) /\ f[0] = b
<1>1. PICK f : f = [k \in 0..0 |-> b]
    OBVIOUS
<1>2. Len(<<>>) = 0
    BY EmptySeq
<1>3. f \in [0..0 -> BOOLEAN] /\ f[0] = b /\ 1..0 = {}
    BY <1>1
<1>4. Alternates(f, <<>>, b)
    BY <1>2, <1>3 DEF Alternates
<1>5. QED
    BY <1>3, <1>4

(* A move that comes to the empty ring leaves the presses as they were.    *)
LEMMA MoveHandled ==
    ASSUME NEW s, WmOK(s), NEW x \in Inputs, NEW b, b \in BOOLEAN, EdgeOK(x.kind, b, b)
    PROVE  /\ WmOK(drain(s, push_input(<<>>, x)))
           /\ PressedOK(s, b) => PressedOK(drain(s, push_input(<<>>, x)), b)
<1>1. PICK em : em = <<>> /\ em \in Seq(Inputs)
    BY EmptySeq
<1>2. PICK q : q = push_input(em, x)
    OBVIOUS
<1>3. Len(q) \in Nat /\ q \in {em, Append(em, x)}
    BY <1>1, <1>2, PushFacts
<1>4. PICK f : Alternates(f, em, b) /\ f[0] = b
    BY <1>1, AlternatesEmpty, Zenon
<1>5. PICK g : Alternates(g, Append(em, x), b) /\ g[0] = f[0]
    <2>1. em \in Seq(Inputs) /\ Alternates(f, em, b) /\ EdgeOK(x.kind, b, b)
        BY <1>1, <1>4, Zenon
    <2>2. QED
        BY <2>1, AlternatesAppend
<1>6. PICK h : Alternates(h, q, b) /\ h[0] = b
    BY <1>3, <1>4, <1>5, Zenon
<1>7. WmOK(drain(s, q)) /\ (Alternates(h, q, b) /\ PressedOK(s, h[0]) => PressedOK(drain(s, q), b))
    BY <1>3, DrainOK
<1>8. push_input(<<>>, x) = q
    BY <1>1, <1>2, Zenon
<1>9. QED
    BY <1>6, <1>7, <1>8

(* No window exists at the start.                                          *)
LEMMA WmStarts == WmInit => WmInv
<1> SUFFICES ASSUME WmInit PROVE WmInv
    OBVIOUS
<1>1. /\ wm = [wins |-> NoEntries, stack |-> <<>>, next_id |-> 1, created |-> 0,
               drag |-> NoDrag, capture |-> NoWindow, hover |-> NoWindow, pressed |-> {}]
      /\ pendingIn = <<>> /\ buttonDown = FALSE /\ lostInput = FALSE
    BY DEF WmInit
<1>2. IsWm(wm) /\ DOMAIN wm.wins = {} /\ wm.wins = [i \in DOMAIN wm.wins |-> wm.wins[i]]
    BY <1>1 DEF IsWm, NoEntries
<1>3. WinsOK(wm.wins, wm.created) /\ DragOK(wm.drag, wm.created)
    BY <1>1, <1>2, NoDragOK DEF WinsOK
<1>4. CountOK(wm.next_id, wm.created)
    BY <1>1, WmAssumption DEF CountOK
<1>5. wm.stack \in Seq(DOMAIN wm.wins) /\ wm.capture \in {NoWindow} /\ wm.hover \in {NoWindow} /\ wm.pressed = {}
    BY <1>1
<1>6. WmOK(wm)
    BY <1>2, <1>3, <1>4, <1>5 DEF WmOK
<1>7. pendingIn \in Seq(Inputs)
    BY <1>1
<1>8. PICK f : Alternates(f, <<>>, buttonDown) /\ f[0] = buttonDown
    BY <1>1, AlternatesEmpty
<1>9. PressedOK(wm, f[0])
    BY <1>5 DEF PressedOK
<1>10. \E g : Alternates(g, pendingIn, buttonDown) /\ PressedOK(wm, g[0])
    BY <1>1, <1>8, <1>9, Zenon
<1>11. QED
    BY <1>1, <1>6, <1>7, <1>10 DEF WmInv

(* The conclusion of every step below.                                     *)
LEMMA WmNow ==
    ASSUME WmOK(wm'), pendingIn' \in Seq(Inputs), buttonDown' \in BOOLEAN, lostInput' \in BOOLEAN,
           ~lostInput' => \E f : Alternates(f, pendingIn', buttonDown') /\ PressedOK(wm', f[0])
    PROVE  WmInv'
    BY DEF WmInv

(* A call that handles no input and leaves everyone who was told of a press
   with the mouse.                                                         *)
LEMMA WmCalled ==
    ASSUME WmInv, WmOK(wm'), UNCHANGED <<pendingIn, buttonDown, lostInput>>,
           \A b : PressedOK(wm, b) => PressedOK(wm', b)
    PROVE  WmInv'
<1>1. pendingIn' \in Seq(Inputs) /\ buttonDown' \in BOOLEAN /\ lostInput' \in BOOLEAN
    BY DEF WmInv
<1>2. ASSUME ~lostInput' PROVE \E f : Alternates(f, pendingIn', buttonDown') /\ PressedOK(wm', f[0])
    <2>1. PICK f : Alternates(f, pendingIn, buttonDown) /\ PressedOK(wm, f[0])
        BY <1>2 DEF WmInv
    <2>2. QED
        BY <2>1
<1>3. QED
    BY <1>1, <1>2, WmNow

(* A queue that was handled: nothing is pending.                           *)
LEMMA WmHandled ==
    ASSUME WmOK(wm'), pendingIn' = <<>>, buttonDown' \in BOOLEAN, lostInput' \in BOOLEAN,
           ~lostInput' => PressedOK(wm', buttonDown')
    PROVE  WmInv'
<1>1. pendingIn' \in Seq(Inputs)
    OBVIOUS
<1>2. PICK c : c = buttonDown' /\ c \in BOOLEAN
    OBVIOUS
<1>3. PICK f : Alternates(f, <<>>, c) /\ f[0] = c
    BY <1>2, AlternatesEmpty
<1>4. ~lostInput' => Alternates(f, pendingIn', buttonDown') /\ PressedOK(wm', f[0])
    BY <1>2, <1>3, Zenon
<1>5. ~lostInput' => \E g : Alternates(g, pendingIn', buttonDown') /\ PressedOK(wm', g[0])
    BY <1>4, Zenon
<1>6. QED
    BY <1>1, <1>5, WmNow

(***************************************************************************)
(* The steps                                                               *)
(***************************************************************************)
LEMMA PacketStep ==
    ASSUME WmInv, NEW down, down \in BOOLEAN, NEW shifted \in BOOLEAN, NEW p \in [cell : ScreenCells, part : Parts],
           process_packet(down, shifted, p)
    PROVE  WmInv'
<1>0. WmOK(wm) /\ pendingIn \in Seq(Inputs) /\ buttonDown \in BOOLEAN /\ lostInput \in BOOLEAN
    BY DEF WmInv
<1>1. PICK both, fi, mv : both = (down # buttonDown /\ shifted) /\ fi = FirstInput(down, p) /\ mv = MoveTo(p)
    OBVIOUS
<1>2. PICK q : q = push_input(pendingIn, fi)
    OBVIOUS
<1>3. PICK s : s = drain(wm, q)
    OBVIOUS
<1>4. /\ buttonDown' = down
      /\ IF busy THEN pendingIn' = (IF both THEN push_input(q, mv) ELSE q) /\ wm' = wm
         ELSE wm' = (IF both THEN drain(s, push_input(<<>>, mv)) ELSE s) /\ pendingIn' = <<>>
      /\ lostInput' = (lostInput \/ InputFull(pendingIn) \/ (busy /\ both /\ InputFull(q)))
    BY <1>1, <1>2, <1>3, Zenon DEF process_packet
<1>5. fi \in Inputs /\ EdgeOK(fi.kind, buttonDown, down) /\ mv \in Inputs /\ EdgeOK(mv.kind, down, down)
    BY <1>0, <1>1, FirstFacts
<1>6. q \in Seq(Inputs) /\ Len(q) \in Nat /\ (~InputFull(pendingIn) => q = Append(pendingIn, fi))
    BY <1>0, <1>2, <1>5, PushFacts
<1>7. push_input(q, mv) \in Seq(Inputs) /\ (~InputFull(q) => push_input(q, mv) = Append(q, mv))
    BY <1>5, <1>6, PushFacts
<1>8. buttonDown' \in BOOLEAN /\ lostInput' \in BOOLEAN
    BY <1>4, Zenon
<1>9. ASSUME ~lostInput' PROVE \E f : Alternates(f, q, down) /\ PressedOK(wm, f[0])
    <2>1. ~lostInput /\ ~InputFull(pendingIn)
        BY <1>4, <1>9, Zenon
    <2>2. PICK f : Alternates(f, pendingIn, buttonDown) /\ PressedOK(wm, f[0])
        BY <2>1 DEF WmInv
    <2>3. PICK g : Alternates(g, Append(pendingIn, fi), down) /\ g[0] = f[0]
        BY <1>0, <1>5, <2>2, AlternatesAppend
    <2>4. q = Append(pendingIn, fi)
        BY <1>6, <2>1
    <2>5. QED
        BY <2>2, <2>3, <2>4, Zenon
<1>10. CASE busy
    <2>1. wm' = wm /\ (both => pendingIn' = push_input(q, mv)) /\ (~both => pendingIn' = q)
        BY <1>4, <1>10, Zenon
    <2>2. pendingIn' \in Seq(Inputs)
        BY <1>6, <1>7, <2>1, Zenon
    <2>3. ASSUME ~lostInput' PROVE \E f : Alternates(f, pendingIn', down) /\ PressedOK(wm, f[0])
        <3>1. PICK f : Alternates(f, q, down) /\ PressedOK(wm, f[0])
            BY <1>9, <2>3
        <3>2. CASE both
            <4>1. ~InputFull(q)
                BY <1>4, <1>10, <2>3, <3>2, Zenon
            <4>2. pendingIn' = Append(q, mv)
                BY <1>7, <2>1, <3>2, <4>1, Zenon
            <4>3. PICK g : Alternates(g, Append(q, mv), down) /\ g[0] = f[0]
                BY <1>5, <1>6, <3>1, AlternatesAppend
            <4>4. QED
                BY <3>1, <4>2, <4>3, Zenon
        <3>3. CASE ~both
            BY <2>1, <3>1, <3>3, Zenon
        <3>4. QED
            BY <3>2, <3>3
    <2>4. ~lostInput' => \E f : Alternates(f, pendingIn', buttonDown') /\ PressedOK(wm', f[0])
        BY <1>4, <2>1, <2>3, Zenon
    <2>5. WmOK(wm')
        BY <1>0, <2>1, Zenon
    <2>6. QED
        BY <1>8, <2>2, <2>4, <2>5, WmNow
<1>11. CASE ~busy
    <2>1. /\ pendingIn' = <<>> /\ (both => wm' = drain(s, push_input(<<>>, mv))) /\ (~both => wm' = s)
        BY <1>4, <1>11, Zenon
    <2>2. WmOK(s)
        BY <1>0, <1>3, <1>6, DrainOK
    <2>3. ~lostInput' => PressedOK(s, down)
        <3>1. ASSUME ~lostInput' PROVE PressedOK(s, down)
            <4>1. PICK f : Alternates(f, q, down) /\ PressedOK(wm, f[0])
                BY <1>9, <3>1
            <4>2. QED
                BY <1>0, <1>3, <1>6, <4>1, DrainOK
        <3>2. QED
            BY <3>1
    <2>4. /\ WmOK(drain(s, push_input(<<>>, mv)))
          /\ PressedOK(s, down) => PressedOK(drain(s, push_input(<<>>, mv)), down)
        BY <1>5, <2>2, MoveHandled
    <2>5. WmOK(wm') /\ (~lostInput' => PressedOK(wm', buttonDown'))
        BY <1>4, <2>1, <2>2, <2>3, <2>4, Zenon
    <2>6. QED
        BY <1>8, <2>1, <2>5, WmHandled
<1>12. QED
    BY <1>10, <1>11

(* Polling the inputs keeps the invariant.                                 *)
LEMMA PollStep ==
    ASSUME WmInv, wm_poll_events
    PROVE  WmInv'
<1>0. WmOK(wm) /\ pendingIn \in Seq(Inputs) /\ buttonDown \in BOOLEAN /\ lostInput \in BOOLEAN
    BY DEF WmInv
<1>1. wm' = drain(wm, pendingIn) /\ pendingIn' = <<>> /\ buttonDown' = buttonDown /\ lostInput' = lostInput
    BY DEF wm_poll_events
<1>2. Len(pendingIn) \in Nat
    BY <1>0, LenProperties
<1>3. WmOK(wm')
    BY <1>0, <1>1, <1>2, DrainOK
<1>4. ASSUME ~lostInput' PROVE PressedOK(wm', buttonDown')
    <2>1. PICK f : Alternates(f, pendingIn, buttonDown) /\ PressedOK(wm, f[0])
        BY <1>1, <1>4 DEF WmInv
    <2>2. PressedOK(drain(wm, pendingIn), buttonDown)
        BY <1>0, <1>2, <2>1, DrainOK
    <2>3. QED
        BY <1>1, <2>2, Zenon
<1>5. buttonDown' \in BOOLEAN /\ lostInput' \in BOOLEAN
    BY <1>0, <1>1, Zenon
<1>6. QED
    BY <1>1, <1>3, <1>4, <1>5, WmHandled

(* A step that leaves the windows and the inputs alone keeps it.           *)
LEMMA LockStep ==
    ASSUME WmInv, UNCHANGED <<wm, pendingIn, buttonDown, lostInput>>
    PROVE  WmInv'
    BY DEF WmInv

(* A focus call keeps it.                                                  *)
LEMMA FocusStep ==
    ASSUME WmInv, NEW id \in DOMAIN wm.wins, focus_window(id)
    PROVE  WmInv'
<1>1. WmOK(wm)
    BY DEF WmInv
<1>2. wm' = Focus(wm, id) /\ UNCHANGED <<pendingIn, buttonDown, lostInput>>
    BY DEF focus_window
<1>3. PICK r : r = Focus(wm, id)
    OBVIOUS
<1>4. WmOK(r) /\ SameWindows(r, wm) /\ r.capture = wm.capture /\ r.pressed = wm.pressed
    BY <1>1, <1>3, FocusSame
<1>5. \A b : PressedOK(wm, b) => PressedOK(r, b)
    BY <1>4, SamePressed
<1>6. wm' = r
    BY <1>2, <1>3
<1>7. WmOK(wm') /\ \A b : PressedOK(wm, b) => PressedOK(wm', b)
    BY <1>4, <1>5, <1>6, Zenon
<1>8. QED
    BY <1>2, <1>7, WmCalled

(* So does a change of frame.                                              *)
LEMMA ReframeStep ==
    ASSUME WmInv, NEW id \in DOMAIN wm.wins, NEW cell, move_window(id, cell)
    PROVE  WmInv'
<1>1. WmOK(wm)
    BY DEF WmInv
<1>2. wm' = [wm EXCEPT !.wins[id].cell = cell] /\ UNCHANGED <<pendingIn, buttonDown, lostInput>>
    BY DEF move_window
<1>3. PICK r : r = [wm EXCEPT !.wins[id].cell = cell]
    OBVIOUS
<1>4. WmOK(r) /\ SameWindows(r, wm) /\ r.capture = wm.capture /\ r.pressed = wm.pressed
    BY <1>1, <1>3, MovedOK
<1>5. \A b : PressedOK(wm, b) => PressedOK(r, b)
    BY <1>4, SamePressed
<1>6. wm' = r
    BY <1>2, <1>3
<1>7. WmOK(wm') /\ \A b : PressedOK(wm, b) => PressedOK(wm', b)
    BY <1>4, <1>5, <1>6, Zenon
<1>8. QED
    BY <1>2, <1>7, WmCalled

(* Windows that go take the focus order, the pointer and the mouse with them. *)
LEMMA WithoutOK ==
    ASSUME NEW s, WmOK(s), NEW closed, closed \in SUBSET (DOMAIN s.wins)
    PROVE  /\ WmOK(Without(s, closed)) /\ Without(s, closed).created = s.created
           /\ \A b : PressedOK(s, b) => PressedOK(Without(s, closed), b)
<1>1. IsWm(s) /\ WinsOK(s.wins, s.created) /\ s.stack \in Seq(DOMAIN s.wins)
    BY DEF WmOK
<1>2. PICK W : W = [x \in DOMAIN s.wins \ closed |-> s.wins[x]]
    OBVIOUS
<1>3. PICK st : st = Omitting(s.stack, closed)
    OBVIOUS
<1>4. PICK hov : hov = IF s.hover \in closed THEN NoWindow ELSE s.hover
    OBVIOUS
<1>5. PICK cap : cap = IF s.capture \in closed THEN NoWindow ELSE s.capture
    OBVIOUS
<1>6. PICK pr : pr = s.pressed \ {NthOf(s, i) : i \in closed}
    OBVIOUS
<1>7. PICK r : r = Without(s, closed)
    OBVIOUS
<1>8. r = [s EXCEPT !.wins = W, !.stack = st, !.hover = hov, !.capture = cap, !.pressed = pr]
    BY <1>2, <1>3, <1>4, <1>5, <1>6, <1>7, Zenon DEF Without, Drop
<1>9. /\ r = [wins |-> W, stack |-> st, next_id |-> s.next_id, created |-> s.created,
              drag |-> s.drag, capture |-> cap, hover |-> hov, pressed |-> pr]
    BY <1>1, <1>8 DEF IsWm
<1>10. /\ IsWm(r) /\ r.wins = W /\ r.stack = st /\ r.hover = hov /\ r.capture = cap /\ r.pressed = pr
       /\ r.created = s.created /\ r.next_id = s.next_id /\ r.drag = s.drag
    BY <1>9 DEF IsWm
<1>11. DOMAIN W = DOMAIN s.wins \ closed /\ \A i \in DOMAIN W : W[i] = s.wins[i]
    BY <1>2
<1>12. WinsOK(W, s.created)
    <2>1. W = [i \in DOMAIN W |-> W[i]]
        BY <1>2, <1>11
    <2>2. \A i \in DOMAIN W : i \in Nat \ {0} /\ IsWindow(W[i])
        BY <1>1, <1>11 DEF WinsOK
    <2>3. s.created <= MaxWindowId => \A i \in DOMAIN W : W[i].nth = i
        BY <1>1, <1>11 DEF WinsOK
    <2>4. QED
        BY <2>1, <2>2, <2>3 DEF WinsOK
<1>13. st \in Seq(DOMAIN W)
    <2>1. st \in Seq(DOMAIN s.wins) /\ Range(st) = Range(s.stack) \ closed
        BY <1>1, <1>3, OmittingFacts
    <2>2. Len(st) \in Nat /\ DOMAIN st = 1..Len(st) /\ \A k \in 1..Len(st) : st[k] \in DOMAIN s.wins
        BY <2>1, ElementOfSeq, LenProperties
    <2>3. \A k \in 1..Len(st) : st[k] \in Range(st)
        BY <2>2 DEF Range
    <2>4. \A k \in 1..Len(st) : st[k] \in DOMAIN W
        BY <1>11, <2>1, <2>2, <2>3
    <2>5. st = [k \in 1..Len(st) |-> st[k]]
        BY <2>1, <2>2
    <2>6. QED
        BY <2>2, <2>4, <2>5, IsASeq
<1>14. cap \in DOMAIN W \cup {NoWindow} /\ hov \in DOMAIN W \cup {NoWindow}
    BY <1>4, <1>5, <1>11 DEF WmOK
<1>15. WmOK(r)
    <2>1. CountOK(r.next_id, r.created) /\ DragOK(r.drag, r.created)
        BY <1>10 DEF WmOK
    <2>2. QED
        BY <1>10, <1>12, <1>13, <1>14, <2>1 DEF WmOK
<1>16. ASSUME NEW b, PressedOK(s, b) PROVE PressedOK(r, b)
    <2>1. ASSUME NEW x \in pr PROVE cap \in DOMAIN W /\ x = W[cap].nth
        <3>1. x \in s.pressed /\ x \notin {s.wins[i].nth : i \in closed}
            BY <1>6, <2>1 DEF NthOf
        <3>2. s.capture \in DOMAIN s.wins /\ x = s.wins[s.capture].nth
            BY <1>16, <3>1 DEF PressedOK
        <3>3. s.capture \notin closed
            BY <3>1, <3>2
        <3>4. cap = s.capture
            BY <1>5, <3>3
        <3>5. QED
            BY <1>11, <3>2, <3>3, <3>4
    <2>2. ~b => pr = {}
        BY <1>6, <1>16 DEF PressedOK
    <2>3. QED
        BY <1>10, <2>1, <2>2 DEF PressedOK
<1>17. QED
    BY <1>7, <1>10, <1>15, <1>16

(* So does destroying a window.                                            *)
LEMMA DestroyStep ==
    ASSUME WmInv, NEW id \in DOMAIN wm.wins, destroy_window(id)
    PROVE  WmInv'
<1>1. WmOK(wm)
    BY DEF WmInv
<1>2. wm' = Without(wm, {id}) /\ UNCHANGED <<pendingIn, buttonDown, lostInput>>
    BY DEF destroy_window
<1>3. PICK closed : closed = {id} /\ closed \in SUBSET (DOMAIN wm.wins)
    OBVIOUS
<1>4. WmOK(Without(wm, closed)) /\ \A b : PressedOK(wm, b) => PressedOK(Without(wm, closed), b)
    BY <1>1, <1>3, WithoutOK
<1>5. WmOK(wm') /\ \A b : PressedOK(wm, b) => PressedOK(wm', b)
    BY <1>2, <1>3, <1>4, Zenon
<1>6. QED
    BY <1>2, <1>5, WmCalled

(* So does the exit of its task.                                           *)
LEMMA ExitStep ==
    ASSUME WmInv, NEW o, destroy_windows_of(o)
    PROVE  WmInv'
<1>1. WmOK(wm)
    BY DEF WmInv
<1>2. PICK closed : closed = {i \in DOMAIN wm.wins : wm.wins[i].owner = o}
    OBVIOUS
<1>3. closed \in SUBSET (DOMAIN wm.wins)
    BY <1>2
<1>4. wm' = [Without(wm, closed) EXCEPT !.drag = NoDrag] /\ UNCHANGED <<pendingIn, buttonDown, lostInput>>
    BY <1>2, Zenon DEF destroy_windows_of, LiveWindows
<1>5. PICK r : r = Without(wm, closed)
    OBVIOUS
<1>6. WmOK(r) /\ \A b : PressedOK(wm, b) => PressedOK(r, b)
    BY <1>1, <1>3, <1>5, WithoutOK
<1>7. PICK t, d : d = NoDrag /\ t = [r EXCEPT !.drag = d]
    OBVIOUS
<1>8. IsWm(r)
    BY <1>6 DEF WmOK
<1>9. t = [wins |-> r.wins, stack |-> r.stack, next_id |-> r.next_id, created |-> r.created,
           drag |-> d, capture |-> r.capture, hover |-> r.hover, pressed |-> r.pressed]
    BY <1>7, <1>8 DEF IsWm
<1>10. /\ IsWm(t) /\ t.wins = r.wins /\ t.stack = r.stack /\ t.hover = r.hover /\ t.capture = r.capture
       /\ t.pressed = r.pressed /\ t.created = r.created /\ t.next_id = r.next_id /\ t.drag = d
    BY <1>9 DEF IsWm
<1>11. DragOK(t.drag, t.created)
    BY <1>7, <1>10, NoDragOK
<1>12. WmOK(t)
    BY <1>6, <1>10, <1>11 DEF WmOK
<1>13. \A b : PressedOK(wm, b) => PressedOK(t, b)
    BY <1>6, <1>10 DEF PressedOK
<1>14. wm' = t
    BY <1>4, <1>5, <1>7, Zenon
<1>15. WmOK(wm') /\ \A b : PressedOK(wm, b) => PressedOK(wm', b)
    BY <1>12, <1>13, <1>14, Zenon
<1>16. QED
    BY <1>4, <1>15, WmCalled

(* A new window takes the next number, and its id until ids wrap around.   *)
LEMMA CreateStep ==
    ASSUME WmInv, NEW o, NEW cell, create_window(o, cell)
    PROVE  WmInv'
<1>1. WmOK(wm)
    BY DEF WmInv
<1>2. IsWm(wm) /\ WinsOK(wm.wins, wm.created) /\ CountOK(wm.next_id, wm.created) /\ wm.stack \in Seq(DOMAIN wm.wins)
    BY <1>1 DEF WmOK
<1>3. PICK id, n, w : id = wm.next_id /\ n = wm.created + 1 /\ w = [cell |-> cell, foc |-> TRUE, owner |-> o, nth |-> n]
    OBVIOUS
<1>4. PICK nx : nx = IdAfter(wm, id)
    OBVIOUS
<1>5. PICK W : W = Put(wm.wins, id, w)
    OBVIOUS
<1>6. PICK u : u = [wm EXCEPT !.wins = W]
    OBVIOUS
<1>7. /\ id \notin DOMAIN wm.wins /\ UNCHANGED <<pendingIn, buttonDown, lostInput>>
      /\ wm' = [Focus(u, id) EXCEPT !.next_id = nx, !.created = @ + 1]
    BY <1>3, <1>4, <1>5, <1>6, Zenon DEF create_window, LiveWindows
<1>8. PICK v : v = [wins |-> W, stack |-> wm.stack, next_id |-> nx, created |-> n,
                    drag |-> wm.drag, capture |-> wm.capture, hover |-> wm.hover, pressed |-> wm.pressed]
    OBVIOUS
<1>9. /\ IsWm(v) /\ v.wins = W /\ v.stack = wm.stack /\ v.next_id = nx /\ v.created = n
      /\ v.drag = wm.drag /\ v.capture = wm.capture /\ v.hover = wm.hover /\ v.pressed = wm.pressed
    BY <1>8 DEF IsWm
<1>10. u = [wins |-> W, stack |-> wm.stack, next_id |-> wm.next_id, created |-> wm.created,
            drag |-> wm.drag, capture |-> wm.capture, hover |-> wm.hover, pressed |-> wm.pressed]
    BY <1>2, <1>6 DEF IsWm
<1>11. wm' = Focus(v, id)
    <2>1. PICK st, F : /\ st = Append(Omitting(wm.stack, {id}), id)
                       /\ F = [i \in DOMAIN W |-> [W[i] EXCEPT !.foc = i = id]]
        OBVIOUS
    <2>2. u.stack = wm.stack /\ u.wins = W
        BY <1>10
    <2>3. Focus(u, id) = [u EXCEPT !.stack = st, !.wins = F]
        BY <2>1, <2>2, Zenon DEF Focus, LiveWindows
    <2>4. Focus(v, id) = [v EXCEPT !.stack = st, !.wins = F]
        BY <1>9, <2>1, Zenon DEF Focus, LiveWindows
    <2>5. PICK r, t : r = [u EXCEPT !.stack = st, !.wins = F] /\ t = [v EXCEPT !.stack = st, !.wins = F]
        OBVIOUS
    <2>6. r = [wins |-> F, stack |-> st, next_id |-> wm.next_id, created |-> wm.created,
               drag |-> wm.drag, capture |-> wm.capture, hover |-> wm.hover, pressed |-> wm.pressed]
        BY <1>10, <2>5
    <2>7. t = [wins |-> F, stack |-> st, next_id |-> nx, created |-> n,
               drag |-> wm.drag, capture |-> wm.capture, hover |-> wm.hover, pressed |-> wm.pressed]
        BY <1>8, <2>5
    <2>8. [r EXCEPT !.next_id = nx, !.created = @ + 1] = t
        <3>1. r.created + 1 = n
            BY <1>3, <2>6
        <3>2. PICK z : z = [r EXCEPT !.next_id = nx, !.created = n]
            OBVIOUS
        <3>3. z = [wins |-> F, stack |-> st, next_id |-> nx, created |-> n,
                   drag |-> wm.drag, capture |-> wm.capture, hover |-> wm.hover, pressed |-> wm.pressed]
            BY <2>6, <3>2
        <3>4. QED
            BY <2>7, <3>1, <3>2, <3>3, Zenon
    <2>9. QED
        BY <1>7, <2>3, <2>4, <2>5, <2>8, Zenon
<1>12. /\ DOMAIN W = DOMAIN wm.wins \cup {id} /\ W[id] = w /\ \A i \in DOMAIN wm.wins : W[i] = wm.wins[i]
       /\ W = [i \in DOMAIN W |-> W[i]]
    BY <1>5, <1>7 DEF Put
<1>13. /\ wm.created \in Nat /\ n \in Nat /\ id \in 1..MaxWindowId /\ MaxWindowId \in Nat \ {0}
       /\ n <= MaxWindowId => id = n /\ wm.created <= MaxWindowId
    <2>1. wm.created \in Nat /\ wm.next_id \in 1..MaxWindowId /\ (wm.created < MaxWindowId => wm.next_id = wm.created + 1)
        BY <1>2 DEF CountOK
    <2>2. QED
        BY <1>3, <2>1, NoWindowZero
<1>14. CountOK(nx, n)
    <2>1. CASE id = MaxWindowId
        <3>1. nx = 1
            BY <1>4, <2>1 DEF IdAfter
        <3>2. ~(n < MaxWindowId)
            BY <1>13, <2>1
        <3>3. QED
            BY <1>13, <3>1, <3>2 DEF CountOK
    <2>2. CASE id # MaxWindowId
        <3>1. nx = id + 1
            BY <1>4, <2>2 DEF IdAfter
        <3>2. nx \in 1..MaxWindowId /\ (n < MaxWindowId => nx = n + 1)
            BY <1>13, <2>2, <3>1
        <3>3. QED
            BY <1>13, <3>2 DEF CountOK
    <2>3. QED
        BY <2>1, <2>2
<1>15. WinsOK(W, n)
    <2>1. w.nth = n /\ IsWindow(w)
        BY <1>3 DEF IsWindow
    <2>2. id \in Nat \ {0}
        BY <1>13
    <2>3. \A i \in DOMAIN W : i \in Nat \ {0} /\ IsWindow(W[i])
        BY <1>2, <1>12, <2>1, <2>2 DEF WinsOK
    <2>4. n <= MaxWindowId => \A i \in DOMAIN W : W[i].nth = i
        BY <1>2, <1>12, <1>13, <2>1 DEF WinsOK
    <2>5. QED
        BY <1>12, <2>3, <2>4 DEF WinsOK
<1>16. DragOK(wm.drag, n)
    BY <1>1, <1>13 DEF WmOK, DragOK
<1>17. wm.stack \in Seq(DOMAIN W)
    BY <1>2, <1>12
<1>18. WmOK(v)
    BY <1>1, <1>9, <1>12, <1>14, <1>15, <1>16, <1>17 DEF WmOK
<1>19. PICK r : r = Focus(v, id)
    OBVIOUS
<1>20. WmOK(r) /\ SameWindows(r, v) /\ r.capture = v.capture /\ r.pressed = v.pressed
    BY <1>9, <1>12, <1>18, <1>19, FocusSame
<1>21. \A b : PressedOK(wm, b) => PressedOK(v, b)
    BY <1>9, <1>12 DEF PressedOK
<1>22. \A b : PressedOK(wm, b) => PressedOK(r, b)
    BY <1>20, <1>21, SamePressed
<1>23. WmOK(wm') /\ \A b : PressedOK(wm, b) => PressedOK(wm', b)
    BY <1>11, <1>19, <1>20, <1>22, Zenon
<1>24. QED
    BY <1>7, <1>23, WmCalled

(* Every step of the window manager.                                       *)
LEMMA WmSteps == WmInv /\ WmNext => WmInv'
<1> SUFFICES ASSUME WmInv, WmNext PROVE WmInv'
    OBVIOUS
<1>1. ASSUME NEW down \in BOOLEAN, NEW shifted \in BOOLEAN, NEW c \in ScreenCells, NEW pt1 \in Parts,
             process_packet(down, shifted, [cell |-> c, part |-> pt1])
      PROVE  WmInv'
    <2>1. PICK p : p = [cell |-> c, part |-> pt1]
        OBVIOUS
    <2>0. p \in [cell : ScreenCells, part : Parts]
        BY <1>1, <2>1
    <2>2. process_packet(down, shifted, p)
        BY <1>1, <2>1, Zenon
    <2>3. QED
        BY <2>0, <2>2, PacketStep
<1>2. CASE wm_lock
    BY <1>2, LockStep DEF wm_lock
<1>3. CASE wm_poll_events
    BY <1>3, PollStep
<1>4. ASSUME NEW o \in Owners, destroy_windows_of(o) PROVE WmInv'
    BY <1>4, ExitStep
<1>5. ASSUME NEW o \in Owners, NEW c \in ScreenCells, create_window(o, c) PROVE WmInv'
    BY <1>5, CreateStep
<1>6. ASSUME NEW id \in LiveWindows(wm), destroy_window(id) PROVE WmInv'
    BY <1>6, DestroyStep DEF LiveWindows
<1>7. ASSUME NEW id \in LiveWindows(wm), focus_window(id) PROVE WmInv'
    BY <1>7, FocusStep DEF LiveWindows
<1>8. ASSUME NEW id \in LiveWindows(wm), NEW c \in ScreenCells, move_window(id, c) PROVE WmInv'
    BY <1>8, ReframeStep DEF LiveWindows
<1>9. QED
    BY <1>1, <1>2, <1>3, <1>4, <1>5, <1>6, <1>7, <1>8, Zenon DEF WmNext

(* The invariant gives what the run checks of it.                          *)
LEMMA WmHolds == WmInv => PressIsCaptured /\ PointerTargetsLive /\ DragHoldsItsWindow
<1> SUFFICES ASSUME WmInv PROVE PressIsCaptured /\ PointerTargetsLive /\ DragHoldsItsWindow
    OBVIOUS
<1>1. WmOK(wm)
    BY DEF WmInv
<1>2. PointerTargetsLive
    BY <1>1 DEF WmOK, PointerTargetsLive, LiveWindows
<1>3. PressIsCaptured
    <2>1. ASSUME ~lostInput, NEW x \in wm.pressed
          PROVE  x \in {wm.wins[i].nth : i \in DOMAIN wm.wins \cap {wm.capture}}
        <3>1. PICK f : Alternates(f, pendingIn, buttonDown) /\ PressedOK(wm, f[0])
            BY <2>1 DEF WmInv
        <3>2. wm.capture \in DOMAIN wm.wins /\ x = wm.wins[wm.capture].nth
            BY <2>1, <3>1 DEF PressedOK
        <3>3. QED
            BY <3>2
    <2>2. QED
        BY <2>1 DEF PressIsCaptured, LiveWindows, NthOf
<1>4. DragHoldsItsWindow
    <2>1. ASSUME wm.created <= MaxWindowId, wm.drag.id \in DOMAIN wm.wins
          PROVE  wm.wins[wm.drag.id].nth = wm.drag.nth
        <3>1. WinsOK(wm.wins, wm.created) /\ DragOK(wm.drag, wm.created)
            BY <1>1 DEF WmOK
        <3>2. wm.drag.id # NoWindow /\ wm.wins[wm.drag.id].nth = wm.drag.id
            BY <2>1, <3>1, NoWindowZero DEF WinsOK
        <3>3. wm.drag.nth = wm.drag.id
            BY <2>1, <3>1, <3>2 DEF DragOK
        <3>4. QED
            BY <3>2, <3>3
    <2>2. QED
        BY <2>1 DEF DragHoldsItsWindow, LiveWindows, NthOf
<1>5. QED
    BY <1>2, <1>3, <1>4

(***************************************************************************)
(* A component that does not move stays as it is.                          *)
(***************************************************************************)
LEMMA UsbStays == UsbInv /\ UNCHANGED usbVars => UsbInv'
    BY DEF usbVars, UsbInv, UsbAgree, Unused, Here

(* The controller while others move.                                       *)
LEMMA OhciStays == OhciInv /\ UNCHANGED ohciVars => OhciInv'
    BY DEF ohciVars, OhciInv, CompletedIsMine

(* The card slot while others move.                                        *)
LEMMA CardStays == CardInv /\ UNCHANGED cardVars => CardInv'
    BY DEF cardVars, CardInv, NodeOfActiveCard

(* The interrupt line while others move.                                   *)
LEMMA IrqStays == IrqInv /\ UNCHANGED irqVars => IrqInv'
    BY DEF irqVars, IrqInv, MaskedOnlyToRest

(* The start-up while others move.                                         *)
LEMMA SmpStays == SmpInv /\ UNCHANGED smpVars => SmpInv'
    BY DEF smpVars, SmpInv

(* The network card while others move.                                     *)
LEMMA NicStays == NicInv /\ UNCHANGED nicVars => NicInv'
<1> SUFFICES ASSUME NicInv, UNCHANGED nicVars PROVE NicInv'
    OBVIOUS
<1>1. TxInv'
    BY DEF nicVars, NicInv, TxInv, SentInOrder
<1>2. RxInv'
    <2>1. ASSUME NEW c, NEW m, RxFilled(c, m) PROVE RxFilled(c, m)'
        BY <2>1 DEF nicVars, RxFilled
    <2>2. QED
        BY <2>1 DEF nicVars, NicInv, RxInv
<1>3. BhInv'
    BY DEF nicVars, NicInv, BhInv, Ready
<1>4. QED
    BY <1>1, <1>2, <1>3 DEF NicInv

(* The ring while others move.                                             *)
LEMMA RingStays == RingInv /\ UNCHANGED ringVars => RingInv'
    BY DEF ringVars, RingInv

(* The disks while others move.                                            *)
LEMMA AtaStays == AtaInv /\ UNCHANGED ataVars => AtaInv'
    BY DEF ataVars, AtaInv

(* The window manager while others move.                                   *)
LEMMA WmStays == WmInv /\ UNCHANGED wmVars => WmInv'
    BY LockStep DEF wmVars

(***************************************************************************)
(* The components together.                                                *)
(***************************************************************************)
DevicesInv ==
    /\ part = "usb" => UsbInv
    /\ part = "ohci" => OhciInv
    /\ part = "card" => CardInv
    /\ part = "irq" => IrqInv
    /\ part = "smp" => SmpInv

RingsInv ==
    /\ part = "nic" => NicInv
    /\ part = "ring" => RingInv

DisksInv == part = "ata" => AtaInv

InputInv == part = "manager" => WmInv

(* Devices that come and go, for every number of ports, endpoints, cards,  *)
(* lines and processors: the tables of the USB core, its disk driver and   *)
(* devfs agree after any unplugging (drivers/usb), a bulk transfer that is *)
(* reported done moved its own data and the controller's list stays linked *)
(* (ohci.rs), a PC Card's node belongs to the card in the socket           *)
(* (drivers/pcmcia), a shared line is masked only to rest (pci/irq.rs), and *)
(* processors that come up late run on stacks of their own (smp.rs).       *)
THEOREM DevicesAreKnown == MCSpec => []DevicesKnown
<1>1. MCInit => DevicesInv
    <2>1. MCInit => UsbInit /\ OhciInit /\ CardInit /\ IrqInit /\ SmpInit
        BY Zenon DEF MCInit
    <2>2. QED
        BY <2>1, UsbStarts, OhciStarts, CardStarts, IrqStarts, SmpStarts, Zenon DEF DevicesInv
<1>2. ASSUME DevicesInv, [MCNext]_mcVars PROVE DevicesInv'
    <2>1. part' = part
        BY <1>2 DEF MCNext, mcVars
    <2>2. CASE part = "usb"
        <3>1. UsbNext \/ UNCHANGED usbVars
            BY <1>2, <2>2 DEF MCNext, mcVars
        <3>2. UsbInv
            BY <1>2, <2>2 DEF DevicesInv
        <3>3. UsbInv'
            BY <3>1, <3>2, UsbSteps, UsbStays
        <3>4. QED
            BY <2>1, <2>2, <3>3 DEF DevicesInv
    <2>3. CASE part = "ohci"
        <3>1. OhciNext \/ UNCHANGED ohciVars
            BY <1>2, <2>3 DEF MCNext, mcVars
        <3>2. OhciInv
            BY <1>2, <2>3 DEF DevicesInv
        <3>3. OhciInv'
            BY <3>1, <3>2, OhciSteps, OhciStays
        <3>4. QED
            BY <2>1, <2>3, <3>3 DEF DevicesInv
    <2>4. CASE part = "card"
        <3>1. CardNext \/ UNCHANGED cardVars
            BY <1>2, <2>4 DEF MCNext, mcVars
        <3>2. CardInv
            BY <1>2, <2>4 DEF DevicesInv
        <3>3. CardInv'
            BY <3>1, <3>2, CardSteps, CardStays
        <3>4. QED
            BY <2>1, <2>4, <3>3 DEF DevicesInv
    <2>5. CASE part = "irq"
        <3>1. IrqNext \/ UNCHANGED irqVars
            BY <1>2, <2>5 DEF MCNext, mcVars
        <3>2. IrqInv
            BY <1>2, <2>5 DEF DevicesInv
        <3>3. IrqInv'
            BY <3>1, <3>2, IrqSteps, IrqStays
        <3>4. QED
            BY <2>1, <2>5, <3>3 DEF DevicesInv
    <2>6. CASE part = "smp"
        <3>1. SmpNext \/ UNCHANGED smpVars
            BY <1>2, <2>6 DEF MCNext, mcVars
        <3>2. SmpInv
            BY <1>2, <2>6 DEF DevicesInv
        <3>3. SmpInv'
            BY <3>1, <3>2, SmpSteps, SmpStays
        <3>4. QED
            BY <2>1, <2>6, <3>3 DEF DevicesInv
    <2>7. QED
        BY <2>1, <2>2, <2>3, <2>4, <2>5, <2>6 DEF DevicesInv
<1>3. DevicesInv => DevicesKnown
    BY UsbHolds, OhciHolds, SmpHolds DEF DevicesInv, DevicesKnown, CardInv, IrqInv
<1>4. QED
    BY <1>1, <1>2, <1>3, PTL DEF MCSpec

(* Rings, for every number of slots and frames: with the card filling and  *)
(* emptying slots and latching causes at any moment, the network stack     *)
(* sees frames in the order of the wire and none twice, frames go out in   *)
(* the order sent, and what is ready is announced (drivers/net); a mouse   *)
(* or key input crosses the lock-free ring of the window manager whole and *)
(* in order (wm.rs).                                                       *)
THEOREM RingsKeepOrder == MCSpec => []RingsInOrder
<1>1. MCInit => RingsInv
    <2>1. MCInit => NicInit /\ RingInit
        BY Zenon DEF MCInit
    <2>2. QED
        BY <2>1, NicStarts, RingStarts, Zenon DEF RingsInv
<1>2. ASSUME RingsInv, [MCNext]_mcVars PROVE RingsInv'
    <2>1. part' = part
        BY <1>2 DEF MCNext, mcVars
    <2>2. CASE part = "nic"
        <3>1. NicNext \/ UNCHANGED nicVars
            BY <1>2, <2>2 DEF MCNext, mcVars
        <3>2. NicInv
            BY <1>2, <2>2 DEF RingsInv
        <3>3. NicInv'
            BY <3>1, <3>2, NicSteps, NicStays
        <3>4. QED
            BY <2>1, <2>2, <3>3 DEF RingsInv
    <2>3. CASE part = "ring"
        <3>1. RingNext \/ UNCHANGED ringVars
            BY <1>2, <2>3 DEF MCNext, mcVars
        <3>2. RingInv
            BY <1>2, <2>3 DEF RingsInv
        <3>3. RingInv'
            BY <3>1, <3>2, RingSteps, RingStays
        <3>4. QED
            BY <2>1, <2>3, <3>3 DEF RingsInv
    <2>4. QED
        BY <2>1, <2>2, <2>3 DEF RingsInv
<1>3. RingsInv => RingsInOrder
    BY NicHolds, RingHolds DEF RingsInv, RingsInOrder
<1>4. QED
    BY <1>1, <1>2, <1>3, PTL DEF MCSpec

(* IDE disks, for every set of drives, sectors and request lengths: a read *)
(* that succeeds returns the sectors asked for, whatever requests on both  *)
(* drives of the channel failed half way or were abandoned before, and a   *)
(* sector written to a PC Card disk without an error is stored             *)
(* (ATA::access and its callers, pci/ide/ata.rs).                          *)
THEOREM DisksAreExact == MCSpec => []DisksExact
<1>1. MCInit => DisksInv
    <2>1. MCInit => AtaInit
        BY Zenon DEF MCInit
    <2>2. QED
        BY <2>1, AtaStarts, Zenon DEF DisksInv
<1>2. ASSUME DisksInv, [MCNext]_mcVars PROVE DisksInv'
    <2>1. part' = part
        BY <1>2 DEF MCNext, mcVars
    <2>2. CASE part = "ata"
        <3>1. AtaNext \/ UNCHANGED ataVars
            BY <1>2, <2>2 DEF MCNext, mcVars
        <3>2. AtaInv
            BY <1>2, <2>2 DEF DisksInv
        <3>3. AtaInv'
            BY <3>1, <3>2, AtaSteps, AtaStays
        <3>4. QED
            BY <2>1, <2>2, <3>3 DEF DisksInv
    <2>3. QED
        BY <2>1, <2>2 DEF DisksInv
<1>3. DisksInv => DisksExact
    BY AtaHolds DEF DisksInv, DisksExact
<1>4. QED
    BY <1>1, <1>2, <1>3, PTL DEF MCSpec

(* Input, for every set of cells and owners and every size of the ring:    *)
(* unless the ring dropped an input, a client that was told of a press     *)
(* holds the mouse until it is told of the release, whatever the pointer   *)
(* crosses and whatever windows come, go and move while packets wait for   *)
(* the lock; the mouse and the pointer are at windows that exist; and a    *)
(* drag left over from a window that is gone takes no other one, as long   *)
(* as ids have not wrapped around (wm.rs, mouse.rs).                       *)
THEOREM InputIsSound == MCSpec => []InputSound
<1>1. MCInit => InputInv
    <2>1. MCInit => WmInit
        BY Zenon DEF MCInit
    <2>2. QED
        BY <2>1, WmStarts, Zenon DEF InputInv
<1>2. ASSUME InputInv, [MCNext]_mcVars PROVE InputInv'
    <2>1. part' = part
        BY <1>2 DEF MCNext, mcVars
    <2>2. CASE part = "manager"
        <3>1. WmNext \/ UNCHANGED wmVars
            BY <1>2, <2>2 DEF MCNext, mcVars
        <3>2. WmInv
            BY <1>2, <2>2 DEF InputInv
        <3>3. WmInv'
            BY <3>1, <3>2, WmSteps, WmStays
        <3>4. QED
            BY <2>1, <2>2, <3>3 DEF InputInv
    <2>3. QED
        BY <2>1, <2>2 DEF InputInv
<1>3. InputInv => InputSound
    BY WmHolds DEF InputInv, InputSound
<1>4. QED
    BY <1>1, <1>2, <1>3, PTL DEF MCSpec
=============================================================================
