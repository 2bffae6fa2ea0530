------------------------------ MODULE BlockIo -------------------------------
(***************************************************************************)
(* DiskBytes on top of sectors: the FatDisk stream with its one-sector cache   *)
(* (kernel/src/filesystem/fat32.rs) and the block nodes of /dev            *)
(* (devfs.rs), over one device whose transfers may fail.  A byte of the    *)
(* disk is the number of the call that wrote it.  A call is one step: the  *)
(* device's mutex and the kernel lock are held.                            *)
(***************************************************************************)
EXTENDS Integers, Sequences, Tables

CONSTANTS
    Sector,        \* bytes of a sector
    NSectors,      \* sectors of the device
    MaxLen,        \* longest transfer
    RawOffsets,    \* offsets at which /dev is read and written
    RawMounted,    \* whether /dev is written while the file system is mounted
    TornReads,     \* whether a read that fails may have filled its buffer
    MaxWrites      \* bound on writes ever made

ASSUME BlockAssumption ==
    /\ Sector \in Nat \ {0} /\ NSectors \in Nat /\ MaxLen \in Nat
    /\ RawOffsets \subseteq Nat /\ RawMounted \in BOOLEAN /\ TornReads \in BOOLEAN

VARIABLES
    medium,        \* the bytes of the device
    mountedPart,       \* whether a FatDisk uses the device
    cached,        \* FatDisk.cached_lba, cached_sector
    blkCall,       \* the last call: [kind, at, len, ok, got, before]
    writes         \* writes made so far

blkVars == <<medium, mountedPart, cached, blkCall, writes>>

DiskBytes == 0..(Sector * NSectors - 1)
SectorAt(m, lba) == [k \in 0..(Sector - 1) |-> m[lba * Sector + k]]
NoLba == NSectors
NoSector == [k \in 0..(Sector - 1) |-> 0]
NoBlockCall == [kind |-> "none", at |-> 0, len |-> 0, ok |-> TRUE, got |-> <<>>, before |-> [b \in DiskBytes |-> 0]]

BlockInit ==
    /\ medium = [b \in DiskBytes |-> 0] /\ cached = [lba |-> NoLba, data |-> NoSector]
    /\ mountedPart = FALSE /\ blkCall = NoBlockCall /\ writes = 0

\* Mutant: a new mount keeps the sector of the last one.
fat_mount_warm == /\ mountedPart' = ~mountedPart /\ blkCall' = NoBlockCall /\ UNCHANGED <<medium, cached, writes>>

\* The medium is found to hold a FAT file system when it is plugged, and is
\* given up when it is pulled.
fat_mount ==
    /\ mountedPart' = ~mountedPart /\ cached' = [lba |-> NoLba, data |-> NoSector] /\ blkCall' = NoBlockCall
    /\ UNCHANGED <<medium, writes>>

(***************************************************************************)
(* FatDisk: a transfer is cut at the sectors of the disk                   *)
(***************************************************************************)
\* Mutant: the cache is asked for the sector of the stream's position only.
Lba_start(at, k) == at \div Sector

\* abs_lba
Lba(at, k) == (at + k) \div Sector

Hit(lba) == cached.lba = lba
FirstLba(at) == Lba(at, 0)
LastLba(at, len) == Lba(at, len - 1)

\* The bytes of sector lba that a read sees: only its first sector can be the
\* cached one, a later one is read behind it.
Seen(at, lba) == IF lba = FirstLba(at) /\ Hit(lba) THEN cached.data ELSE SectorAt(medium, lba)

\* The read ends well, or fails at a sector that is not cached; the stream's
\* position is then where it was.  A torn read replaces the cached bytes only.
fat_read(at, len) ==
    /\ mountedPart
    /\ \/ /\ cached' = [lba |-> LastLba(at, len), data |-> Seen(at, LastLba(at, len))]
          /\ blkCall' = [kind |-> "fatread", at |-> at, len |-> len, ok |-> TRUE, before |-> medium,
                         got |-> [k \in 1..len |-> Seen(at, Lba(at, k - 1))[(at + k - 1) % Sector]]]
       \/ \E lba \in FirstLba(at)..LastLba(at, len) :
            /\ ~(lba = FirstLba(at) /\ Hit(lba))
            /\ \E torn \in {FALSE, TornReads} :
                 LET held == IF lba = FirstLba(at) THEN cached ELSE [lba |-> lba - 1, data |-> Seen(at, lba - 1)] IN
                 cached' = IF torn THEN [held EXCEPT !.data = SectorAt(medium, lba)] ELSE held
            /\ blkCall' = [kind |-> "fatread", at |-> at, len |-> len, ok |-> FALSE, got |-> <<>>, before |-> medium]
    /\ UNCHANGED <<medium, mountedPart, writes>>

\* Sector lba with the call's bytes in it, from the cache, from the disk, or
\* from nothing when all of it is replaced.
Merged(at, len, lba, w) ==
    [k \in 0..(Sector - 1) |->
        IF lba * Sector + k \in at..(at + len - 1) THEN w ELSE Seen(at, lba)[k]]

\* Mutant: the cache keeps the sector as it was read.
Held_read(at, len, lba, w) == [lba |-> lba, data |-> Seen(at, lba)]

Held(at, len, lba, w) == [lba |-> lba, data |-> Merged(at, len, lba, w)]

\* The sectors before `upto` are written; a failure keeps them.
fat_write(at, len) ==
    /\ mountedPart /\ writes < MaxWrites /\ writes' = writes + 1
    /\ \E upto \in FirstLba(at)..(LastLba(at, len) + 1) :
         /\ medium' = [b \in DiskBytes |->
                LET lba == b \div Sector IN
                IF lba \in FirstLba(at)..(upto - 1) THEN Merged(at, len, lba, writes + 1)[b % Sector] ELSE medium[b]]
         /\ cached' = IF upto = FirstLba(at) THEN cached ELSE Held(at, len, upto - 1, writes + 1)
         /\ blkCall' = [kind |-> "fatwrite", at |-> at, len |-> len, ok |-> upto > LastLba(at, len), got |-> <<>>,
                        before |-> medium]
    /\ UNCHANGED mountedPart

(***************************************************************************)
(* /dev: the chunks of read_from_block_device and write_to_block_device    *)
(***************************************************************************)
\* Mutant: the number of bytes so far is not part of the sector.
ChunkLba_first(at, j) == at \div Sector

\* DiskBytes moved before chunk j, and the sector the code moves it from or to.
Before(at, j) == IF j = 0 THEN 0 ELSE j * Sector - (at % Sector)
ChunkLba(at, j) == (at \div Sector) + (Before(at, j) \div Sector)
ChunkOffset(at, j) == IF j = 0 THEN at % Sector ELSE 0
ChunkOf(at, k) == CHOOSE j \in 0..k : Before(at, j) <= k /\ k < Before(at, j + 1)
Chunks(at, len) == ChunkOf(at, len - 1) + 1

\* Where byte k of the buffer comes from or goes to.
Place(at, k) == LET j == ChunkOf(at, k) IN ChunkLba(at, j) * Sector + ChunkOffset(at, j) + k - Before(at, j)

raw_read(at, len) ==
    /\ \E n \in 0..Chunks(at, len) :
         LET done == AtMost(len, Before(at, n)) IN
         blkCall' = [kind |-> "rawread", at |-> at, len |-> done, ok |-> n = Chunks(at, len), before |-> medium,
                     got |-> [k \in 1..done |-> medium[Place(at, k - 1)]]]
    /\ UNCHANGED <<medium, mountedPart, cached, writes>>

\* Each chunk is a read, a change and a write of a whole sector, in order.
raw_write(at, len) ==
    /\ (RawMounted \/ ~mountedPart) /\ writes < MaxWrites /\ writes' = writes + 1
    /\ \E n \in 0..Chunks(at, len) :
         LET done == AtMost(len, Before(at, n)) IN
         /\ medium' = [b \in DiskBytes |-> IF \E k \in 1..done : Place(at, k - 1) = b THEN writes + 1 ELSE medium[b]]
         /\ blkCall' = [kind |-> "rawwrite", at |-> at, len |-> done, ok |-> n = Chunks(at, len), got |-> <<>>,
                        before |-> medium]
    /\ UNCHANGED <<mountedPart, cached>>

BlockNext ==
    \/ fat_mount
    \/ \E at \in DiskBytes, len \in 1..MaxLen : at + len - 1 \in DiskBytes /\ (fat_read(at, len) \/ fat_write(at, len))
    \/ \E at \in RawOffsets, len \in 1..MaxLen : at + len - 1 \in DiskBytes /\ (raw_read(at, len) \/ raw_write(at, len))

BlockSpec == BlockInit /\ [][BlockNext]_blkVars

(***************************************************************************)
(* Properties                                                              *)
(***************************************************************************)
\* A FAT or /dev read that succeeds returns what is on the disk, after any
\* sequence of reads and writes of which some failed half way: the cached
\* sector is never one that was not read or written through
\* (FatDisk::read, FatDisk::write, read_from_block_device).
ReadIsTheDisk ==
    blkCall.kind \in {"fatread", "rawread"} /\ blkCall.ok =>
        blkCall.got = [k \in 1..blkCall.len |-> medium[blkCall.at + k - 1]]

\* A FAT write changes only bytes of its own range, also where it shares a
\* sector with others and when it fails half way; all of them if it succeeds.
WriteInRange ==
    blkCall.kind = "fatwrite" =>
        /\ \A b \in DiskBytes : medium[b] # blkCall.before[b] => b \in blkCall.at..(blkCall.at + blkCall.len - 1)
        /\ blkCall.ok => \A b \in blkCall.at..(blkCall.at + blkCall.len - 1) : medium[b] = writes
=============================================================================
