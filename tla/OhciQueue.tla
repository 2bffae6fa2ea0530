----------------------------- MODULE OhciQueue ------------------------------
(***************************************************************************)
(* The bulk schedule of one OHCI controller (kernel/src/drivers/usb/       *)
(* ohci.rs).  Every bulk endpoint keeps an endpoint descriptor (ED) in a   *)
(* list the controller walks, and two transfer descriptors (TD) that take  *)
(* turns as the request and the dummy tail.  A disk driver waits for a     *)
(* transfer while the idle task, on another processor, runs the control    *)
(* transfers of an enumeration or removes a device; neither holds a lock   *)
(* of the controller.  The controller may answer late, after the driver    *)
(* gave up.  A transfer has the number of its DMA buffer.                  *)
(***************************************************************************)
EXTENDS Integers, Sequences, SequencesExt, Tables

CONSTANTS
    BulkEps,       \* bulk endpoints, one per device
    MaxTransfers   \* bound on transfers ever made

VARIABLES
    bulk_eps,      \* BULK_EPS: the endpoints of this controller, in order
    ed,            \* endpoint -> [head, tail, next, dummy, halted]; its TDs are 0 and 1
    td,            \* endpoint -> TD -> [cc, buf]
    bulk_head,     \* HcBulkHeadED
    ble,           \* HcControl.BLE
    moved,         \* transfers whose data the controller has moved
    xfer,          \* the driver: [pc, ep, td, buf, ok, cut]
    hotplug,       \* the idle task: [pc, ep, ble, first]
    transfers      \* transfers made so far

ohciVars == <<bulk_eps, ed, td, bulk_head, ble, moved, xfer, hotplug, transfers>>

Other(t) == 1 - t
NoEd == "none"
NewEp == [head |-> 0, tail |-> 0, next |-> NoEd, dummy |-> 0, halted |-> FALSE]
NewTds == [t \in {0, 1} |-> [cc |-> "not_accessed", buf |-> 0]]
Free == [pc |-> "idle", ep |-> NoEd, td |-> 0, buf |-> 0, ok |-> FALSE, cut |-> FALSE]
Away == [pc |-> "idle", ep |-> NoEd, ble |-> FALSE, first |-> NoEd]

OhciInit ==
    /\ bulk_eps = <<>> /\ ed = NoEntries /\ td = NoEntries /\ bulk_head = NoEd /\ ble = FALSE
    /\ moved = {} /\ xfer = Free /\ hotplug = Away /\ transfers = 0

Live(e) == e \in DOMAIN ed

(***************************************************************************)
(* bulk                                                                    *)
(***************************************************************************)
\* A new ED goes behind the last one of the list.
AddEp(e) ==
    IF Live(e) THEN ed
    ELSE LET linked == IF bulk_eps = <<>> THEN ed ELSE [ed EXCEPT ![Last(bulk_eps)].next = e] IN Put(linked, e, NewEp)

\* Mutant: the TD keeps the condition code of its last use.
Fresh_kept(d, b) == [cc |-> d.cc, buf |-> b]

Fresh(d, b) == [cc |-> "not_accessed", buf |-> b]

\* The dummy becomes the request, the other TD the new dummy.
bulk_enqueue(e) ==
    /\ xfer.pc = "idle" /\ transfers < MaxTransfers
    /\ transfers' = transfers + 1 /\ bulk_eps' = IF Live(e) THEN bulk_eps ELSE Append(bulk_eps, e)
    /\ LET d == AddEp(e)
           q == IF Live(e) THEN td[e] ELSE NewTds
           t == d[e].dummy IN
         /\ ed' = [d EXCEPT ![e].tail = Other(t), ![e].dummy = Other(t)]
         /\ td' = Put(td, e, [q EXCEPT ![t] = Fresh(q[t], transfers + 1), ![Other(t)] = Fresh(q[Other(t)], 0)])
         /\ xfer' = [pc |-> "start", ep |-> e, td |-> t, buf |-> transfers + 1, ok |-> FALSE, cut |-> FALSE]
    /\ UNCHANGED <<bulk_head, ble, moved, hotplug>>

bulk_start ==
    /\ xfer.pc = "start"
    /\ bulk_head' = IF bulk_head = NoEd THEN xfer.ep ELSE bulk_head
    /\ ble' = TRUE /\ xfer' = [xfer EXCEPT !.pc = "wait"]
    /\ UNCHANGED <<bulk_eps, ed, td, moved, hotplug, transfers>>

\* A TD whose device is removed meanwhile is read from freed memory: anything.
bulk_done ==
    /\ xfer.pc = "wait"
    /\ IF xfer.cut THEN \E ok \in BOOLEAN : xfer' = [xfer EXCEPT !.pc = "end", !.ok = ok]
       ELSE /\ td[xfer.ep][xfer.td].cc # "not_accessed"
            /\ xfer' = [xfer EXCEPT !.pc = "end", !.ok = td[xfer.ep][xfer.td].cc = "ok"]
    /\ UNCHANGED <<bulk_eps, ed, td, bulk_head, ble, moved, hotplug, transfers>>

\* Mutant: a wedged controller is waited for.
bulk_timeout_alive ==
    /\ xfer.pc = "wait" /\ ble /\ xfer' = [xfer EXCEPT !.pc = "end"]
    /\ UNCHANGED <<bulk_eps, ed, td, bulk_head, ble, moved, hotplug, transfers>>

\* 2000 frames have passed, or the frame counter stands still.
bulk_timeout ==
    /\ xfer.pc = "wait" /\ xfer' = [xfer EXCEPT !.pc = "end"]
    /\ UNCHANGED <<bulk_eps, ed, td, bulk_head, ble, moved, hotplug, transfers>>

\* The buffer is freed in either case.
bulk_return ==
    /\ xfer.pc = "end" /\ xfer' = Free
    /\ UNCHANGED <<bulk_eps, ed, td, bulk_head, ble, moved, hotplug, transfers>>

(***************************************************************************)
(* The idle task: control_ex of an enumeration, disconnect_address         *)
(***************************************************************************)
\* The control list replaces the bulk list for the transfer, and nobody puts BLE back.
control_ex ==
    /\ hotplug.pc = "idle" /\ ble' = FALSE
    /\ UNCHANGED <<bulk_eps, ed, td, bulk_head, moved, xfer, hotplug, transfers>>

disconnect_stop(e) ==
    /\ hotplug.pc = "idle" /\ Live(e)
    /\ hotplug' = [pc |-> "edit", ep |-> e, ble |-> ble, first |-> NoEd] /\ ble' = FALSE
    /\ UNCHANGED <<bulk_eps, ed, td, bulk_head, moved, xfer, transfers>>

\* Mutant: the neighbours of the removed ED are not linked to each other.
Relinked_not(left) == [e \in Range(left) |-> ed[e]]

Relinked(left) ==
    [e \in Range(left) |-> [ed[e] EXCEPT !.next =
        LET i == CHOOSE n \in DOMAIN left : left[n] = e IN IF i < Len(left) THEN left[i + 1] ELSE NoEd]]

\* Under the lock of BULK_EPS; then the descriptors are freed.
disconnect_edit ==
    /\ hotplug.pc = "edit"
    /\ LET left == Omitting(bulk_eps, {hotplug.ep}) IN
         /\ bulk_eps' = left /\ ed' = Relinked(left) /\ td' = Drop(td, {hotplug.ep})
         /\ hotplug' = [hotplug EXCEPT !.pc = "head", !.first = IF left = <<>> THEN NoEd ELSE Head(left)]
    /\ xfer' = [xfer EXCEPT !.cut = xfer.cut \/ (xfer.pc # "idle" /\ xfer.ep = hotplug.ep)]
    /\ UNCHANGED <<bulk_head, ble, moved, transfers>>

disconnect_head ==
    /\ hotplug.pc = "head" /\ bulk_head' = hotplug.first
    /\ ble' = (hotplug.ble /\ hotplug.first # NoEd) /\ hotplug' = Away
    /\ UNCHANGED <<bulk_eps, ed, td, moved, xfer, transfers>>

(***************************************************************************)
(* The controller serves the TD at the head of a queue, well or badly, at  *)
(* any time or never.  It holds a TD for a packet, far less than a frame;  *)
(* a driver waits for 2000 frames.  A failed TD halts its ED for good:     *)
(* nothing in the driver clears the halt bit.                              *)
(***************************************************************************)
Walked(e) == \E i, j \in DOMAIN bulk_eps : bulk_eps[i] = bulk_head /\ bulk_eps[j] = e /\ i <= j

hc_serve(e, cc) ==
    /\ ble /\ Walked(e) /\ ed[e].head # ed[e].tail /\ ~ed[e].halted
    /\ LET t == ed[e].head IN
         /\ td' = [td EXCEPT ![e][t].cc = cc]
         /\ ed' = [ed EXCEPT ![e].head = Other(t), ![e].halted = cc = "failed"]
         /\ moved' = IF cc = "ok" THEN moved \cup {td[e][t].buf} ELSE moved
    /\ UNCHANGED <<bulk_eps, bulk_head, ble, xfer, hotplug, transfers>>

OhciNext ==
    \/ \E e \in BulkEps : bulk_enqueue(e) \/ disconnect_stop(e) \/ \E cc \in {"ok", "failed"} : hc_serve(e, cc)
    \/ bulk_start \/ bulk_done \/ bulk_timeout \/ bulk_return
    \/ control_ex \/ disconnect_edit \/ disconnect_head

\* The waits are bounded by the frame counter or by the number of polls.
OhciFairness == WF_ohciVars(bulk_start \/ bulk_done \/ bulk_timeout \/ bulk_return)

OhciSpec == OhciInit /\ [][OhciNext]_ohciVars /\ OhciFairness

(***************************************************************************)
(* Properties                                                              *)
(***************************************************************************)
\* A transfer reported as done on a device that is still there had its own
\* data moved, also right after transfers that timed out and whose TDs the
\* controller may still hold (bulk's use of dummy and spare).
CompletedIsMine == (xfer.pc = "end" /\ xfer.ok /\ ~xfer.cut) => xfer.buf \in moved

\* A transfer ends, also when the schedule it waits for was switched off by
\* another processor or the controller stands still (frame_clock_alive).
TransferEnds == []<>(xfer.pc = "idle")

\* The EDs are linked in the order of BULK_EPS, each exactly once, whatever
\* devices came and went: none is linked that has been freed (bulk,
\* disconnect_address).
BulkListLinked ==
    /\ DOMAIN ed = Range(bulk_eps) /\ \A i, j \in DOMAIN bulk_eps : bulk_eps[i] = bulk_eps[j] => i = j
    /\ \A i \in DOMAIN bulk_eps : ed[bulk_eps[i]].next = IF i < Len(bulk_eps) THEN bulk_eps[i + 1] ELSE NoEd
=============================================================================
