------------------------------- MODULE AtaPio -------------------------------
(***************************************************************************)
(* Programmed I/O with ATA disks: the two drives of an IDE channel         *)
(* (kernel/src/pci/ide) and the CompactFlash card of the PCMCIA socket     *)
(* (kernel/src/drivers/pcmcia/ata.rs).  One request at a time holds the    *)
(* channel; it polls the status of the drive, and gives up after a number  *)
(* of polls while the drive goes on with the command.  A sector is its     *)
(* address.                                                                *)
(***************************************************************************)
EXTENDS Integers, Sequences, Tables

CONSTANTS
    IdeDrives,     \* the drives of the channel; the card is a bus of its own
    Lbas,          \* sectors of every drive
    MaxSects       \* largest request

Card == "cf"
AtaDrives == IdeDrives \cup {Card}

ASSUME AtaAssumption == Card \notin IdeDrives /\ Lbas \subseteq Nat /\ MaxSects \in Nat

VARIABLES
    selected,      \* the drive whose registers the channel shows
    drive,         \* drive -> [st, dir, lba, left]; st is what the status register shows
    ata            \* the request: [pc, d, dir, lba, n, i, got, stored, pulled]

ataVars == <<selected, drive, ata>>

Rest == [st |-> "ready", dir |-> "none", lba |-> 0, left |-> 0]
NoRequest == [pc |-> "idle", d |-> Card, dir |-> "read", lba |-> 0, n |-> 0, i |-> 0, got |-> <<>>,
              stored |-> {}, pulled |-> FALSE]

\* initialize and identify have found every drive.  The two buses share nothing:
\* a behaviour uses one, and on the socket there is nothing to select.
AtaInit ==
    /\ selected \in AtaDrives /\ drive = [d \in AtaDrives |-> Rest]
    /\ ata = NoRequest

(***************************************************************************)
(* The drives                                                              *)
(***************************************************************************)
\* A busy drive ignores its command register; any other starts afresh.
Commanded(d, dir, lba, n) ==
    IF drive[d].st = "busy" THEN drive
    ELSE [drive EXCEPT ![d] = [st |-> "busy", dir |-> dir, lba |-> lba, left |-> n]]

\* A drive ends a phase: it asks for or offers a sector, is done, or fails.
drive_phase(d) ==
    /\ drive[d].st = "busy"
    /\ \E x \in {IF drive[d].left > 0 THEN [drive[d] EXCEPT !.st = "drq"] ELSE Rest, [Rest EXCEPT !.st = "err"]} :
          drive' = [drive EXCEPT ![d] = x]
    /\ UNCHANGED <<selected, ata>>

AtaMoved(x) ==
    IF x.dir = "read" /\ x.left = 1 THEN Rest ELSE [x EXCEPT !.st = "busy", !.lba = @ + 1, !.left = @ - 1]

\* The socket's bus floats, and reads as a drive without BSY, ERR or DRQ.
pull_card ==
    /\ selected = Card /\ drive[Card].st # "float" /\ drive' = [drive EXCEPT ![Card] = [Rest EXCEPT !.st = "float"]]
    /\ ata' = [ata EXCEPT !.pulled = @ \/ (ata.pc # "idle" /\ ata.d = Card)]
    /\ UNCHANGED selected

insert_card ==
    /\ drive[Card].st = "float" /\ ata.pc = "idle" /\ drive' = [drive EXCEPT ![Card] = Rest]
    /\ UNCHANGED <<selected, ata>>

(***************************************************************************)
(* The requests                                                            *)
(***************************************************************************)
\* read_sectors and write_sectors check the end of the drive.
ata_request(d, dir, lba, n) ==
    /\ ata.pc = "idle" /\ (d = Card <=> selected = Card) /\ \A k \in 0..(n - 1) : lba + k \in Lbas
    /\ ata' = [NoRequest EXCEPT !.pc = IF d = Card THEN "select" ELSE "bsy", !.d = d, !.dir = dir, !.lba = lba, !.n = n]
    /\ UNCHANGED <<selected, drive>>

\* Mutant: the drive is selected and commanded without a look at BSY.
access_command_rash ==
    /\ ata.pc = "bsy" /\ selected' = ata.d
    /\ drive' = Commanded(ata.d, ata.dir, ata.lba, ata.n) /\ ata' = [ata EXCEPT !.pc = "poll"]

\* ATA::access waits for the drive that is selected, then selects its own.
access_command ==
    /\ ata.pc = "bsy" /\ drive[selected].st # "busy"
    /\ selected' = ata.d /\ drive' = Commanded(ata.d, ata.dir, ata.lba, ata.n)
    /\ ata' = [ata EXCEPT !.pc = "poll"]

\* AtaPio selects first, and waits for the card it talks to.
card_command ==
    /\ ata.pc = "select" /\ drive[Card].st \notin {"busy", "float"}
    /\ drive' = Commanded(Card, ata.dir, ata.lba, ata.n)
    /\ ata' = [ata EXCEPT !.pc = "poll"] /\ UNCHANGED selected

Status == drive[ata.d].st
AtaDone(k) == IF k < ata.n THEN "poll" ELSE IF ata.dir = "read" THEN "ok" ELSE IF ata.d = Card THEN "settle" ELSE "flush"

read_sector ==
    /\ ata.pc = "poll" /\ ata.dir = "read" /\ Status = "drq"
    /\ ata' = [ata EXCEPT !.got = Append(@, drive[ata.d].lba), !.i = @ + 1, !.pc = AtaDone(ata.i + 1)]
    /\ drive' = [drive EXCEPT ![ata.d] = AtaMoved(@)] /\ UNCHANGED selected

\* polling(0): the IDE driver writes as soon as BSY is clear; what a drive that
\* does not ask for data is given is lost.  The card must ask.
write_sector ==
    /\ ata.pc = "poll" /\ ata.dir = "write" /\ Status \notin {"busy", "float"} /\ (ata.d = Card => Status = "drq")
    /\ ata' = [ata EXCEPT !.i = @ + 1, !.pc = AtaDone(ata.i + 1),
                          !.stored = IF Status = "drq" THEN @ \cup {drive[ata.d].lba} ELSE @]
    /\ drive' = IF Status = "drq" THEN [drive EXCEPT ![ata.d] = AtaMoved(@)] ELSE drive
    /\ UNCHANGED selected

\* CacheFlush of the IDE driver.
access_flush ==
    /\ ata.pc = "flush" /\ drive' = Commanded(ata.d, "none", 0, 0) /\ ata' = [ata EXCEPT !.pc = "settle"]
    /\ UNCHANGED selected

\* Mutant: the card's ERR and DF bits are not read after the last sector.
Settled_blind == "ok"

Settled == IF ata.d = Card /\ Status = "err" THEN "failed" ELSE "ok"

write_settled ==
    /\ ata.pc = "settle" /\ Status # "busy" /\ ata' = [ata EXCEPT !.pc = Settled]
    /\ UNCHANGED <<selected, drive>>

\* Mutant: a drive that neither asks nor fails is polled for ever.
ata_fail_busy ==
    /\ \/ ata.pc \in {"bsy", "select", "poll", "settle"} /\ (IF ata.pc = "bsy" THEN drive[selected].st ELSE Status) = "busy"
       \/ ata.pc = "poll" /\ Status = "err" /\ (ata.dir = "read" \/ ata.d = Card)
    /\ ata' = [ata EXCEPT !.pc = "failed"] /\ UNCHANGED <<selected, drive>>

\* An error bit, or a poll count that ran out.
ata_fail ==
    /\ \/ ata.pc = "bsy" /\ drive[selected].st = "busy"
       \/ ata.pc = "select" /\ Status \in {"busy", "float"}
       \/ ata.pc = "poll" /\ Status = "busy"
       \/ ata.pc = "poll" /\ Status \in {"err", "ready", "float"} /\ (ata.dir = "read" \/ ata.d = Card)
       \/ ata.pc = "settle" /\ Status = "busy"
    /\ ata' = [ata EXCEPT !.pc = "failed"] /\ UNCHANGED <<selected, drive>>

ata_return ==
    /\ ata.pc \in {"ok", "failed"} /\ ata' = NoRequest /\ UNCHANGED <<selected, drive>>

Polls ==
    \/ access_command \/ card_command \/ read_sector \/ write_sector \/ access_flush
    \/ write_settled \/ ata_fail \/ ata_return

AtaNext ==
    \/ Polls \/ pull_card \/ insert_card
    \/ \E d \in AtaDrives : drive_phase(d)
    \/ \E d \in AtaDrives, dir \in {"read", "write"}, l \in Lbas, n \in 1..MaxSects : ata_request(d, dir, l, n)

\* Every wait of the drivers is a counted loop; the drives owe nothing.
AtaFairness == WF_ataVars(Polls)

AtaSpec == AtaInit /\ [][AtaNext]_ataVars /\ AtaFairness

(***************************************************************************)
(* Properties                                                              *)
(***************************************************************************)
\* A read that succeeds got the sectors it asked for, in order, also when
\* earlier requests gave up on a drive that was still at work: the BSY wait
\* of ATA::access looks at the drive selected last, not at its own.
ReadIsRequested ==
    ata.pc = "ok" /\ ata.dir = "read" =>
        ata.got = [k \in 1..ata.n |-> ata.lba + k - 1]

\* A write the card driver reports as done reached the card, every sector of
\* it and no later error, unless the card was pulled under the request
\* (AtaPio::write_sectors).  The IDE driver promises less: it reads no error.
CardWriteIsStored ==
    ata.pc = "ok" /\ ata.dir = "write" /\ ata.d = Card /\ ~ata.pulled =>
        /\ Status # "err" /\ ata.stored = ata.lba..(ata.lba + ata.n - 1)

\* No request waits for ever, whatever a drive does (the counted loops of
\* polling, wait_drq and wait_not_busy).
RequestEnds == []<>(ata.pc = "idle")
=============================================================================
