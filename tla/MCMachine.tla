------------------------------ MODULE MCMachine ------------------------------
(***************************************************************************)
(* Instances for TLC of the parts of the kernel next to the machine: TLB   *)
(* shootdown, processor start-up, shared interrupts, USB, PC Cards,        *)
(* network cards, sound, IDE disks, and the way of input from the mouse to *)
(* a window.                                                               *)
(*                                                                         *)
(* The components of this module share no variable and call each other     *)
(* only through what each of them models of the others, so their runs are  *)
(* checked side by side: `part` chooses one of them at the start and the   *)
(* others stay where they are. A property of one component holds of every  *)
(* behaviour here exactly when it holds of that component's own            *)
(* specification.                                                          *)
(*                                                                         *)
(* The shootdown of this instance loses no interrupt and makes every kind  *)
(* of page-table change, which is where it must always complete; lost and  *)
(* late interrupts are the subject of Storage.cfg.                         *)
(***************************************************************************)
EXTENDS TlbShootdown, Usb, OhciQueue, CardSocket, SmpStart, NicRing, AudioDma, AtaPio,
        WindowManager

VARIABLE part   \* the component that runs

mcVars == <<part, vars, usbVars, ohciVars, cardVars, irqVars, smpVars, nicVars, audioVars, ataVars,
            wmVars, ringVars>>

SmpTables == {<<1, 9, 2, 3>>, <<9>>, <<1, 2, 3, 4, 5>>}

(* Only the chosen component leaves its initial state; where a component has several,
   the others take one of them.  *)
MCInit ==
    /\ part \in {"tlb", "usb", "ohci", "card", "irq", "smp", "nic", "audio", "ata", "manager",
                "ring"}
    /\ Init
    /\ UsbInit
    /\ OhciInit
    /\ CardInit
    /\ part # "card" => card = "none"
    /\ IrqInit
    /\ SmpInit
    /\ NicInit
    /\ AudioInit
    /\ AtaInit
    /\ part # "ata" => selected = CHOOSE d \in AtaDrives : TRUE
    /\ WmInit
    /\ RingInit

MCNext ==
    \/ /\ part = "tlb" /\ Next
       /\ UNCHANGED <<part, usbVars, ohciVars, cardVars, irqVars, smpVars, nicVars, audioVars,
                       ataVars, wmVars, ringVars>>
    \/ /\ part = "usb" /\ UsbNext
       /\ UNCHANGED <<part, vars, ohciVars, cardVars, irqVars, smpVars, nicVars, audioVars,
                       ataVars, wmVars, ringVars>>
    \/ /\ part = "ohci" /\ OhciNext
       /\ UNCHANGED <<part, vars, usbVars, cardVars, irqVars, smpVars, nicVars, audioVars,
                       ataVars, wmVars, ringVars>>
    \/ /\ part = "card" /\ CardNext
       /\ UNCHANGED <<part, vars, usbVars, ohciVars, irqVars, smpVars, nicVars, audioVars,
                       ataVars, wmVars, ringVars>>
    \/ /\ part = "irq" /\ IrqNext
       /\ UNCHANGED <<part, vars, usbVars, ohciVars, cardVars, smpVars, nicVars, audioVars,
                       ataVars, wmVars, ringVars>>
    \/ /\ part = "smp" /\ SmpNext
       /\ UNCHANGED <<part, vars, usbVars, ohciVars, cardVars, irqVars, nicVars, audioVars,
                       ataVars, wmVars, ringVars>>
    \/ /\ part = "nic" /\ NicNext
       /\ UNCHANGED <<part, vars, usbVars, ohciVars, cardVars, irqVars, smpVars, audioVars,
                       ataVars, wmVars, ringVars>>
    \/ /\ part = "audio" /\ AudioNext
       /\ UNCHANGED <<part, vars, usbVars, ohciVars, cardVars, irqVars, smpVars, nicVars,
                       ataVars, wmVars, ringVars>>
    \/ /\ part = "ata" /\ AtaNext
       /\ UNCHANGED <<part, vars, usbVars, ohciVars, cardVars, irqVars, smpVars, nicVars,
                       audioVars, wmVars, ringVars>>
    \/ /\ part = "manager" /\ WmNext
       /\ UNCHANGED <<part, vars, usbVars, ohciVars, cardVars, irqVars, smpVars, nicVars,
                       audioVars, ataVars, ringVars>>
    \/ /\ part = "ring" /\ RingNext
       /\ UNCHANGED <<part, vars, usbVars, ohciVars, cardVars, irqVars, smpVars, nicVars,
                       audioVars, ataVars, wmVars>>

(* The fairness of each component, while it runs.  *)
MCFairness ==
    /\ \A c \in Cpus : WF_vars(part = "tlb" /\ Sender(c)) /\ WF_vars(part = "tlb" /\ Handler(c))
    /\ WF_usbVars(part = "usb" /\ UsbStep)
    /\ WF_ohciVars(part = "ohci" /\ (bulk_start \/ bulk_done \/ bulk_timeout \/ bulk_return))
    /\ WF_cardVars(part = "card" /\ CardPoll)
    /\ WF_irqVars(part = "irq" /\ boot_masks)
    /\ WF_irqVars(part = "irq" /\ shared_irq_dispatch)
    /\ WF_irqVars(part = "irq" /\ maintenance_tick)
    /\ WF_irqVars(part = "irq" /\ late_restore_once)
    /\ \A a \in Apics : WF_smpVars(part = "smp" /\ a \in DOMAIN ap /\ ApLoop(a))
    /\ WF_audioVars(part = "audio" /\ card_advances)
    /\ WF_audioVars(part = "audio" /\ (audio_ack \/ audio_poll))
    /\ \A p \in Players : WF_audioVars(part = "audio" /\ audio_write(p, TRUE))
    /\ WF_ataVars(part = "ata" /\ Polls)
    /\ WF_ringVars(part = "ring" /\ (pop_load \/ pop_read \/ pop_read2 \/ pop_advance))

MCSpec == MCInit /\ [][MCNext]_mcVars /\ MCFairness

-----------------------------------------------------------------------------
(* Rings shared with hardware: frames reach the stack and the wire in order and none
   twice, and what is ready is announced or polled for (drivers/net). The input ring
   between interrupt and lock holder hands over whole inputs in order (wm.rs).  *)
RingsInOrder ==
    /\ part = "nic" => FramesInOrder /\ SentInOrder /\ ReadyIsAnnounced
    /\ part = "ring" => TakenWhole /\ RingHoldsQueue

(* Sound: blocks of a process are played in the order it wrote them, none twice and,
   while the controller reports no error, none skipped, with the engine refilling the
   fragments the card has left while it plays the others (drivers/audio).  *)
SoundInOrder ==
    /\ part = "audio" => PlayedInOrder /\ NothingSkipped

(* Devices that come and go: the tables of the USB core, its disk driver and devfs
   agree; a bulk transfer reported done moved its own data and the controller's list
   stays linked; a card's node belongs to the card in the socket; a shared line is
   masked only to rest; processors that came up late run on stacks of their own, and
   the one chosen for the network is up.  *)
DevicesKnown ==
    /\ part = "usb" => UsbTablesAgree
    /\ part = "ohci" => CompletedIsMine /\ BulkListLinked
    /\ part = "card" => NodeOfActiveCard
    /\ part = "irq" => MaskedOnlyToRest
    /\ part = "smp" => StacksDistinct /\ NetworkCpuOnline

(* IDE disks (pci/ide): a read that succeeds returns the sectors asked for, after any
   sequence of requests on both drives of the channel of which some failed half way
   or were abandoned; a sector written to a PC Card disk without an error is stored.  *)
DisksExact ==
    /\ part = "ata" => ReadIsRequested /\ CardWriteIsStored

(* Input of the window manager (wm.rs): a client told of a press is told of the
   release, and pointer, drag and capture name windows that exist, ids being reused.  *)
InputSound ==
    /\ part = "manager" => PressIsCaptured /\ PointerTargetsLive /\ DragHoldsItsWindow

(* What a device asks for happens: an unplugged disk and an ejected card are
   forgotten, a bulk transfer ends, a registered device is served whatever storms its
   line goes through, jobs queued for another processor run and its network requests
   are taken, input in the window manager's ring is drained, a disk request ends
   with an answer though the drive stops responding (ATA::access), and sound that was
   written is played to the end and its writer goes on, also when the engine ran dry
   in between (audio_write, poll, kick).  *)
DevicesServed ==
    /\ EveryBlockIsPlayed /\ WriterIsServed
    /\ UnpluggedIsForgotten /\ TransferEnds /\ EjectedIsForgotten /\ DeviceIsServed
    /\ JobsRun /\ NetworkRequestTaken /\ QueuedIsTaken /\ RequestEnds
=============================================================================
