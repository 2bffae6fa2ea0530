-------------------------------- MODULE Usb --------------------------------
(***************************************************************************)
(* USB hot-plug (kernel/src/drivers/usb): the idle task polls the root     *)
(* ports, enumerates what it finds, binds a class driver and, when a port  *)
(* is empty, takes everything apart again.  A device may be pulled out at  *)
(* any step, so every transfer of the enumeration may fail.  Transfers are *)
(* modelled by their outcome (OhciQueue has their descriptors), descriptor *)
(* bytes by the kind of device they describe.  Each controller has one     *)
(* root port; its number in Ports is the controller's instance.            *)
(***************************************************************************)
EXTENDS Integers, FiniteSets, Tables

CONSTANTS
    Ports,         \* 0..n: one root port on each of n + 1 controllers
    UsbKinds,      \* kinds of device that are plugged in
    MaxUsbAddr     \* bound on addresses handed out (NEXT_ADDR never goes back)

VARIABLES
    plugged,       \* what sits in each port, or "none"
    usbdevs,       \* device::DEVICES: (controller, port) -> [addr, driver]
    disks,         \* msc::DEVICES: address -> [port, media]
    nodes,         \* /dev nodes of disks, named after their address
    latched,       \* ENUM_FAIL_MASK
    next_addr,     \* NEXT_ADDR
    hub_task       \* the idle task: [pc, port it looks at, addr]

usbVars == <<plugged, usbdevs, disks, nodes, latched, next_addr, hub_task>>

Root(p) == <<p, "root">>
BehindHub(p) == <<p, "hub">>        \* port 0xFF

\* The poll goes through the controllers in turn.
At(pc, p, a) == [pc |-> pc, port |-> p, addr |-> a]
NextPort(p) == (p + 1) % Cardinality(Ports)
Idle == At("idle", NextPort(hub_task.port), 0)

\* Controllers after the second share their latch with it.
enum_fail_bit(p) == IF p < 1 THEN p ELSE 1

\* best_match over registry: the driver whose rules score highest.
best_match(kind) ==
    CASE kind = "disk" -> "usb-storage" [] kind = "hub" -> "hub" [] kind = "keyboard" -> "usbhid" [] OTHER -> "none"

UsbInit ==
    /\ plugged = [p \in Ports |-> "none"] /\ usbdevs = NoEntries /\ disks = NoEntries
    /\ nodes = {} /\ latched = {} /\ next_addr = 1 /\ hub_task = At("idle", 0, 0)

\* The outside world.
plug(p) ==
    /\ plugged[p] = "none" /\ \E k \in UsbKinds : plugged' = [plugged EXCEPT ![p] = k]
    /\ UNCHANGED <<usbdevs, disks, nodes, latched, next_addr, hub_task>>

unplug(p) ==
    /\ plugged[p] # "none" /\ plugged' = [plugged EXCEPT ![p] = "none"]
    /\ UNCHANGED <<usbdevs, disks, nodes, latched, next_addr, hub_task>>

(***************************************************************************)
(* poll_root_hub                                                           *)
(***************************************************************************)
Looking == hub_task.pc = "idle"
Here == hub_task.port

found ==
    /\ Looking /\ plugged[Here] # "none"
    /\ hub_task' = IF Root(Here) \in DOMAIN usbdevs \/ enum_fail_bit(Here) \in latched THEN Idle ELSE At("debounce", Here, 0)
    /\ UNCHANGED <<plugged, usbdevs, disks, nodes, latched, next_addr>>

\* Mutant: the class driver is not told.
release_none(addr) == UNCHANGED <<disks, nodes>>

\* usb-storage's disconnect: the entry, its mounts and its node.
release(addr) ==
    /\ disks' = IF addr \in DOMAIN disks THEN Drop(disks, {addr}) ELSE disks
    /\ nodes' = nodes \ {addr}

\* Mutant: only a port that failed is cleaned up.
gone_skips ==
    /\ Looking /\ plugged[Here] = "none"
    /\ latched' = latched \ {enum_fail_bit(Here)} /\ hub_task' = Idle
    /\ UNCHANGED <<plugged, usbdevs, disks, nodes, next_addr>>

\* disconnect_port: record, drivers, endpoints; a hub's and a keyboard's callback does nothing.
gone ==
    /\ Looking /\ plugged[Here] = "none"
    /\ latched' = latched \ {enum_fail_bit(Here)} /\ hub_task' = Idle
    /\ IF Root(Here) \in DOMAIN usbdevs
         THEN /\ usbdevs' = Drop(usbdevs, {Root(Here)})
              /\ IF usbdevs[Root(Here)].driver = "usb-storage" THEN release(usbdevs[Root(Here)].addr) ELSE UNCHANGED <<disks, nodes>>
         ELSE UNCHANGED <<usbdevs, disks, nodes>>
    /\ UNCHANGED <<plugged, next_addr>>

debounce ==
    /\ hub_task.pc = "debounce"
    /\ hub_task' = IF plugged[Here] = "none" THEN Idle ELSE [hub_task EXCEPT !.pc = "reset"]
    /\ UNCHANGED <<plugged, usbdevs, disks, nodes, latched, next_addr>>

(***************************************************************************)
(* enumerate_port.  A transfer with an empty port fails; with a device it  *)
(* may fail.  A failed reset is not latched, a failed transfer is.         *)
(***************************************************************************)
Works(ok) == ok => plugged[Here] # "none"

reset_port ==
    /\ hub_task.pc = "reset"
    /\ \E ok \in BOOLEAN : Works(ok) /\ hub_task' = IF ok THEN [hub_task EXCEPT !.pc = "describe"] ELSE Idle
    /\ UNCHANGED <<plugged, usbdevs, disks, nodes, latched, next_addr>>

Latch == latched \cup {enum_fail_bit(Here)}

\* Mutant: the address is read and not counted.
alloc_addr_reused == next_addr

alloc_addr == next_addr + 1

\* Two GET_DESCRIPTORs at address 0, then an address is taken.
describe ==
    /\ hub_task.pc = "describe"
    /\ \E ok \in BOOLEAN :
         /\ Works(ok) /\ (ok => next_addr <= MaxUsbAddr)
         /\ IF ok THEN /\ next_addr' = alloc_addr /\ UNCHANGED latched
                       /\ hub_task' = [hub_task EXCEPT !.pc = "address", !.addr = next_addr]
                  ELSE hub_task' = Idle /\ latched' = Latch /\ UNCHANGED next_addr
    /\ UNCHANGED <<plugged, usbdevs, disks, nodes>>

set_address ==
    /\ hub_task.pc = "address"
    /\ \E ok \in BOOLEAN :
         /\ Works(ok)
         /\ IF ok THEN hub_task' = [hub_task EXCEPT !.pc = "bind"] /\ UNCHANGED latched
                  ELSE hub_task' = Idle /\ latched' = Latch
    /\ UNCHANGED <<plugged, usbdevs, disks, nodes, next_addr>>

(***************************************************************************)
(* bind_with_port.  Whatever happens here, the port counts as enumerated.  *)
(***************************************************************************)
\* msc::probe: the interface has no usable endpoints, no medium, or a medium.
probe_disk(addr, port, outcome) ==
    /\ disks' = IF outcome = "refused" THEN disks ELSE Put(disks, addr, [port |-> port, media |-> outcome])
    /\ nodes' = IF outcome = "media" THEN nodes \cup {addr} ELSE nodes

\* A configuration that cannot be read or set leaves no record.
bind_fails ==
    /\ hub_task.pc = "bind" /\ latched' = latched \ {enum_fail_bit(Here)} /\ hub_task' = Idle
    /\ UNCHANGED <<plugged, usbdevs, disks, nodes, next_addr>>

Record(addr, driver) == [addr |-> addr, driver |-> driver]

\* Once configured the device is recorded even if it is pulled out meanwhile.
bind_device ==
    /\ hub_task.pc = "bind" /\ plugged[Here] \notin {"none", "hub"}
    /\ LET p == Here a == hub_task.addr k == plugged[Here] IN
         /\ \E outcome \in IF k = "disk" THEN {"refused", "empty", "media"} ELSE {"refused"} :
              /\ probe_disk(a, Root(p), outcome)
              /\ usbdevs' = Put(usbdevs, Root(p), Record(a, IF k = "disk" /\ outcome = "refused" THEN "none" ELSE best_match(k)))
         /\ latched' = latched \ {enum_fail_bit(p)} /\ hub_task' = Idle
         /\ UNCHANGED <<plugged, next_addr>>

\* A hub probes the device behind it first, under port 0xFF: its record replaces that of any other.
bind_hub ==
    /\ hub_task.pc = "bind" /\ plugged[Here] = "hub"
    /\ LET p == Here a == hub_task.addr IN
         /\ \/ usbdevs' = Put(usbdevs, Root(p), Record(a, best_match("hub"))) /\ UNCHANGED <<disks, nodes, next_addr>>
            \/ /\ next_addr <= MaxUsbAddr /\ next_addr' = alloc_addr
               /\ \E outcome \in {"empty", "media"} : probe_disk(next_addr, BehindHub(p), outcome)
               /\ usbdevs' = Put(Put(usbdevs, BehindHub(p), Record(next_addr, "usb-storage")), Root(p), Record(a, best_match("hub")))
         /\ latched' = latched \ {enum_fail_bit(p)} /\ hub_task' = Idle
         /\ UNCHANGED plugged

UsbStep == found \/ gone \/ debounce \/ reset_port \/ describe \/ set_address \/ bind_fails \/ bind_device \/ bind_hub

UsbNext == UsbStep \/ \E p \in Ports : plug(p) \/ unplug(p)

\* The idle task polls again and again.
UsbFairness == WF_usbVars(UsbStep)

UsbSpec == UsbInit /\ [][UsbNext]_usbVars /\ UsbFairness

(***************************************************************************)
(* Properties                                                              *)
(***************************************************************************)
\* Between two polls the tables of the USB core, of the disk driver and of
\* devfs agree: a disk found at a root port is recorded there under its own
\* address, a record held by the disk driver has its disk, every node belongs
\* to a disk with a medium, and no two records share an address
\* (bind_with_port, disconnect_port, msc::probe, msc::disconnect).
UsbTablesAgree ==
    Looking =>
        /\ \A a \in DOMAIN disks : disks[a].port[2] = "root" =>
               disks[a].port \in DOMAIN usbdevs /\ usbdevs[disks[a].port] = Record(a, "usb-storage")
        /\ \A k \in DOMAIN usbdevs : usbdevs[k].driver = "usb-storage" => usbdevs[k].addr \in DOMAIN disks
        /\ nodes = {a \in DOMAIN disks : disks[a].media = "media"}
        /\ \A j, k \in DOMAIN usbdevs : usbdevs[j].addr = usbdevs[k].addr => j = k

\* A root port that stays empty ends without record, disk or node, whatever
\* enumeration was under way when the device was pulled out (poll_root_hub).
UnpluggedIsForgotten ==
    \A p \in Ports : <>[](plugged[p] = "none") =>
        <>[](Root(p) \notin DOMAIN usbdevs /\ \A a \in DOMAIN disks : disks[a].port # Root(p))
=============================================================================
