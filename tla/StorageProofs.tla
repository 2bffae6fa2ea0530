----------------------------- MODULE StorageProofs -----------------------------
(***************************************************************************)
(* Proofs about what keeps memory and files: the TLB shootdown first, then *)
(* physical frames, the kernel heap and the address ranges of drivers,     *)
(* then mounts, FAT, block devices and ext2.                               *)
(*                                                                         *)
(* NoStaleFrame for every number of processors, directories, pages, frames *)
(* and transactions, as long as nothing but munmap and the reaper of       *)
(* threads clears page-table entries (Retains): the window manager, the    *)
(* rollback of a shared mapping and execve break the property.             *)
(*                                                                         *)
(* NoStaleFrame alone is not inductive.  What is: CURRENT_CR3 agrees with  *)
(* the hardware; mapped frames are distinct and not free; the frame of an  *)
(* unfinished transaction is cached by its targets only; and a processor   *)
(* that has acknowledged the transaction's epoch, or is about to, caches   *)
(* it no more.                                                             *)
(*                                                                         *)
(* MemoryAccounted rests on three invariants about tables: FrOk (a frame   *)
(* in use has one holder, any other none, and the cache counts mappings),  *)
(* HeapOk and WinOk.  FilesystemsSound rests on VfsInv, FatInv, BlockInv   *)
(* and, for ext2, DiskOK: every block pointer of the disk by inode and     *)
(* position, no block at two positions, each of them marked, and what the  *)
(* entries of directories name.                                            *)
(***************************************************************************)
EXTENDS MCStorage, FiniteSetTheorems, FunctionTheorems, NaturalsInduction, SequenceTheorems, WellFoundedInduction, TLAPS

Retains == Ops \subseteq {"munmap", "stack", "fixed"}

Busy == job.pc \in {"cr3", "page", "epoch", "send"}

Typed ==
    /\ TypeOK
    /\ job.pc \in {"cr3", "page", "epoch"} => epoch < MaxEpoch
    /\ Busy => job.dir \in Dirs /\ job.page \in Pages /\ job.frame \in Frames
    /\ job.pc # "rollback"

Recorded == current_cr3 = cr3

MappedOnce ==
    \A d, e \in Dirs, p, q \in Pages :
        pt[d][p] # None =>
            /\ pt[d][p] \notin free
            /\ pt[e][q] = pt[d][p] => e = d /\ q = p

Cached ==
    \A c \in Cpus, p \in Pages :
        tlb[c][p] # None =>
            /\ cr3[c] \in Dirs
            /\ tlb[c][p] \notin free
            /\ \A d \in Dirs, q \in Pages : pt[d][q] = tlb[c][p] => d = cr3[c] /\ q = p

InFlight ==
    Busy =>
        /\ lock \in Cpus
        /\ job.op \in {"munmap", "stack"}
        /\ job.frame \notin free
        /\ \A d \in Dirs, q \in Pages : pt[d][q] # job.frame
        /\ \A x \in Cpus, q \in Pages :
               tlb[x][q] = job.frame => x \in job.to /\ q = job.page /\ cr3[x] = job.dir

Published ==
    /\ job.pc \in {"page", "epoch", "send"} => target_cr3 = job.dir
    /\ job.pc \in {"epoch", "send"} => target_page = job.page

Epochs == \A x \in Cpus : ack[x] <= epoch /\ isr[x].epoch <= epoch

Acked ==
    job.pc = "send" =>
        \A x \in Cpus :
            ack[x] = epoch \/ (isr[x].pc = "ack" /\ isr[x].epoch = epoch) =>
                tlb[x][job.page] # job.frame

Inv == Typed /\ Recorded /\ MappedOnce /\ Cached /\ InFlight /\ Published /\ Epochs /\ Acked

(* The steps Retains leaves: none of execve and the failing shared mapping. *)
Step(c) ==
    \/ \E p \in Pages : Fill(c, p)
    \/ Trap(c)
    \/ Acquire(c)
    \/ \E d \in Dirs \cup {KernelDir} : Switch(c, d)
    \/ \E p \in Pages, f \in Frames : Mmap(c, p, f)
    \/ \E d \in Dirs, p \in Pages, op \in {"munmap", "stack"} : Unmap(c, op, d, p)
    \/ StoreCr3(c)
    \/ StorePage(c)
    \/ AdvanceEpoch(c)
    \/ \E x \in Cpus : SendIpi(c, x)
    \/ WaitEnds(c)
    \/ TakeIpi(c)
    \/ CompareCr3(c)
    \/ FlushPage(c)
    \/ StoreAck(c)

(* Under Retains every step is one of those.                               *)
LEMMA StepOfNext ==
  ASSUME Retains, Next, job.pc # "rollback"
  PROVE  \E c \in Cpus : Step(c)
<1>1. "execve" \notin Ops /\ "rollback" \notin Ops /\ "surface" \notin Ops
  BY DEF Retains
<1>2. \A c, d : ~Execve(c, d)
  BY <1>1 DEF Execve
<1>3. \A c, p, f : ~MmapShared(c, p, f)
  BY <1>1 DEF MmapShared
<1>4. \A c : ~Rollback(c)
  BY DEF Rollback
<1>5. \A c, d, p, op : Unmap(c, op, d, p) => op \in {"munmap", "stack"}
  BY <1>1 DEF Unmap
<1>6. QED
  BY <1>2, <1>3, <1>4, <1>5 DEF Next, Step, Sender, Handler

(* The two outcomes of Unmap: nobody to interrupt, or a transaction.        *)
UnmapDone(c, d, p) ==
    /\ job.pc = "entered"
    /\ \A x \in Cpus \ {c} : current_cr3[x] # d
    /\ pt[d][p] # None
    /\ pt' = [pt EXCEPT ![d][p] = None]
    /\ tlb' = [tlb EXCEPT ![c][p] = None]
    /\ free' = free \cup {pt[d][p]}
    /\ job' = NoJob
    /\ lock' = None
    /\ UNCHANGED <<retired, spinning, cr3, current_cr3, protocol>>

UnmapSends(c, op, d, p) ==
    /\ lock = c /\ job.pc = "entered"
    /\ epoch < MaxEpoch
    /\ pt[d][p] # None
    /\ pt' = [pt EXCEPT ![d][p] = None]
    /\ tlb' = [tlb EXCEPT ![c][p] = None]
    /\ \E to \in SUBSET Cpus :
           /\ \A x \in Cpus \ {c} : current_cr3[x] = d => x \in to
           /\ job' = [pc |-> "cr3", op |-> op, dir |-> d, page |-> p,
                      frame |-> pt[d][p], to |-> to, left |-> to]
    /\ UNCHANGED <<free, retired, lock, spinning, cr3, current_cr3, protocol>>

(* Every Unmap has one of these outcomes.                                  *)
LEMMA UnmapCases ==
  ASSUME NEW c \in Cpus, NEW d \in Dirs, NEW p \in Pages, NEW op, Unmap(c, op, d, p)
  PROVE  UnmapDone(c, d, p) \/ UnmapSends(c, op, d, p)
<1> DEFINE to == {x \in Cpus \ {c} : current_cr3[x] = d}
<1>1. CASE to = {} /\ Finish(op, d, p, pt[d][p], TRUE)
  <2>1. FrameReleased(op, TRUE) /\ ~AddressWithheld(op, TRUE)
    BY DEF FrameReleased, AddressWithheld
  <2>2. QED
    BY <1>1, <2>1 DEF Unmap, UnmapDone, Enters, Finish, Done, Flushed
<1>2. CASE to # {} /\ job' = [pc |-> "cr3", op |-> op, dir |-> d, page |-> p,
                               frame |-> pt[d][p], to |-> to, left |-> to]
                   /\ UNCHANGED <<free, retired, lock, spinning>>
  <2>1. to \in SUBSET Cpus /\ \A x \in Cpus \ {c} : current_cr3[x] = d => x \in to
    OBVIOUS
  <2> HIDE DEF to
  <2>2. QED
    BY <1>2, <2>1 DEF Unmap, UnmapSends, Enters, Flushed
<1>3. QED
  BY <1>1, <1>2 DEF Unmap

(* The invariant holds initially.                                          *)
LEMMA InitInv == Init => Inv
BY TlbAssumption DEF Init, Inv, Typed, TypeOK, Recorded, MappedOnce, Cached, InFlight,
   Published, Epochs, Acked, Busy, NoTlb, NoJob, NoIsr

(* Types, and the bound on the transactions.                               *)
LEMMA TypedStep ==
  ASSUME Typed, Retains, NEW c \in Cpus, Step(c)
  PROVE  Typed'
<1>1. ASSUME NEW p \in Pages, Fill(c, p)
      PROVE  Typed'
  BY <1>1, TlbAssumption DEF Fill, Typed, TypeOK, Busy, memory, protocol
<1>2. ASSUME Trap(c) PROVE Typed'
  BY <1>2, TlbAssumption DEF Trap, Typed, TypeOK, Busy, memory, loaded, protocol
<1>3. ASSUME Acquire(c) PROVE Typed'
  BY <1>3, TlbAssumption DEF Acquire, Typed, TypeOK, Busy, NoJob, memory, loaded, protocol
<1>4. ASSUME NEW d \in Dirs \cup {KernelDir}, Switch(c, d)
      PROVE  Typed'
  BY <1>4, TlbAssumption DEF Switch, Enters, Typed, TypeOK, Busy, Done, NoJob, NoTlb,
     memory, protocol
<1>5. ASSUME NEW p \in Pages, NEW f \in Frames, Mmap(c, p, f)
      PROVE  Typed'
  BY <1>5, TlbAssumption DEF Mmap, Enters, Available, Flushed, Typed, TypeOK, Busy, Done,
     NoJob, protocol
<1>6. ASSUME NEW d \in Dirs, NEW p \in Pages, NEW op \in {"munmap", "stack"}, Unmap(c, op, d, p)
      PROVE  Typed'
  <2>1. CASE UnmapDone(c, d, p)
    BY <2>1, TlbAssumption DEF UnmapDone, Typed, TypeOK, Busy, NoJob, protocol
  <2>2. CASE UnmapSends(c, op, d, p)
    BY <2>2, TlbAssumption DEF UnmapSends, Typed, TypeOK, Busy, protocol
  <2>3. QED
    BY <1>6, <2>1, <2>2, UnmapCases
<1>7. ASSUME StoreCr3(c) PROVE Typed'
  BY <1>7, TlbAssumption DEF StoreCr3, Typed, TypeOK, Busy, memory, loaded
<1>8. ASSUME StorePage(c) PROVE Typed'
  BY <1>8, TlbAssumption DEF StorePage, Typed, TypeOK, Busy, memory, loaded
<1>9. ASSUME AdvanceEpoch(c) PROVE Typed'
  <2>1. epoch' \in 0..MaxEpoch
    BY <1>9, TlbAssumption DEF AdvanceEpoch, NextEpoch, Typed, TypeOK
  <2>2. QED
    BY <1>9, <2>1, TlbAssumption DEF AdvanceEpoch, Typed, TypeOK, Busy, memory, loaded
<1>10. ASSUME NEW x \in Cpus, SendIpi(c, x)
      PROVE  Typed'
  BY <1>10, TlbAssumption DEF SendIpi, Typed, TypeOK, Busy, memory, loaded
<1>11. ASSUME WaitEnds(c) PROVE Typed'
  BY <1>11, TlbAssumption DEF WaitEnds, Finish, FrameReleased, AddressWithheld,
     Acknowledged, Typed, TypeOK, Busy, Done, NoJob, loaded, protocol
<1>12. ASSUME TakeIpi(c) PROVE Typed'
  BY <1>12, TlbAssumption DEF TakeIpi, Typed, TypeOK, Busy, memory, loaded
<1>13. ASSUME CompareCr3(c) PROVE Typed'
  BY <1>13, TlbAssumption DEF CompareCr3, Typed, TypeOK, Busy, memory, loaded
<1>14. ASSUME FlushPage(c) PROVE Typed'
  <2>1. tlb' \in [Cpus -> [Pages -> Frames \cup {None}]]
    <3> DEFINE row == [p \in Pages |-> IF p = target_page THEN None ELSE tlb[c][p]]
    <3>1. row \in [Pages -> Frames \cup {None}]
      BY DEF Typed, TypeOK
    <3>2. tlb' = [tlb EXCEPT ![c] = row]
      BY <1>14 DEF FlushPage
    <3> HIDE DEF row
    <3>3. QED
      BY <3>1, <3>2 DEF Typed, TypeOK
  <2>2. isr' \in [Cpus -> [pc : {"none", "cr3", "page", "ack"}, epoch : 0..MaxEpoch]]
    BY <1>14 DEF FlushPage, Typed, TypeOK
  <2>3. QED
    BY <1>14, <2>1, <2>2 DEF FlushPage, Typed, TypeOK, Busy, memory
<1>15. ASSUME StoreAck(c) PROVE Typed'
  BY <1>15, TlbAssumption DEF StoreAck, LoadedEpoch, Typed, TypeOK, Busy, NoIsr, memory,
     loaded
<1>16. QED
  BY <1>1, <1>2, <1>3, <1>4, <1>5, <1>6, <1>7, <1>8, <1>9, <1>10, <1>11, <1>12, <1>13,
     <1>14, <1>15 DEF Step

(* CURRENT_CR3 changes with CR3.                                           *)
LEMMA RecordedStep ==
  ASSUME Typed, Recorded, NEW c \in Cpus, Step(c)
  PROVE  Recorded'
<1>1. ASSUME NEW p \in Pages, Fill(c, p)
      PROVE  Recorded'
  BY <1>1, TlbAssumption DEF Fill, Recorded, memory, protocol
<1>2. ASSUME Trap(c) PROVE Recorded'
  BY <1>2, TlbAssumption DEF Trap, Recorded, memory, loaded, protocol
<1>3. ASSUME Acquire(c) PROVE Recorded'
  BY <1>3, TlbAssumption DEF Acquire, Recorded, NoJob, memory, loaded, protocol
<1>4. ASSUME NEW d \in Dirs \cup {KernelDir}, Switch(c, d)
      PROVE  Recorded'
  BY <1>4, TlbAssumption DEF Switch, Enters, Recorded, Done, NoJob, NoTlb, memory, protocol
<1>5. ASSUME NEW p \in Pages, NEW f \in Frames, Mmap(c, p, f)
      PROVE  Recorded'
  BY <1>5, TlbAssumption DEF Mmap, Enters, Available, Flushed, Recorded, Done, NoJob,
     protocol
<1>6. ASSUME NEW d \in Dirs, NEW p \in Pages, NEW op \in {"munmap", "stack"}, Unmap(c, op, d, p)
      PROVE  Recorded'
  <2>1. CASE UnmapDone(c, d, p)
    BY <2>1, TlbAssumption DEF UnmapDone, Recorded, NoJob, protocol
  <2>2. CASE UnmapSends(c, op, d, p)
    BY <2>2, TlbAssumption DEF UnmapSends, Recorded, protocol
  <2>3. QED
    BY <1>6, <2>1, <2>2, UnmapCases
<1>7. ASSUME StoreCr3(c) PROVE Recorded'
  BY <1>7, TlbAssumption DEF StoreCr3, Recorded, memory, loaded
<1>8. ASSUME StorePage(c) PROVE Recorded'
  BY <1>8, TlbAssumption DEF StorePage, Recorded, memory, loaded
<1>9. ASSUME AdvanceEpoch(c) PROVE Recorded'
  BY <1>9, TlbAssumption DEF AdvanceEpoch, NextEpoch, Recorded, memory, loaded
<1>10. ASSUME NEW x \in Cpus, SendIpi(c, x)
      PROVE  Recorded'
  BY <1>10, TlbAssumption DEF SendIpi, Recorded, memory, loaded
<1>11. ASSUME WaitEnds(c) PROVE Recorded'
  BY <1>11, TlbAssumption DEF WaitEnds, Finish, FrameReleased, AddressWithheld,
     Acknowledged, Recorded, Done, NoJob, loaded, protocol
<1>12. ASSUME TakeIpi(c) PROVE Recorded'
  BY <1>12, TlbAssumption DEF TakeIpi, Recorded, memory, loaded
<1>13. ASSUME CompareCr3(c) PROVE Recorded'
  BY <1>13, TlbAssumption DEF CompareCr3, Recorded, memory, loaded
<1>14. ASSUME FlushPage(c) PROVE Recorded'
  BY <1>14, TlbAssumption DEF FlushPage, Recorded, memory
<1>15. ASSUME StoreAck(c) PROVE Recorded'
  BY <1>15, TlbAssumption DEF StoreAck, LoadedEpoch, Recorded, NoIsr, memory, loaded
<1>16. QED
  BY <1>1, <1>2, <1>3, <1>4, <1>5, <1>6, <1>7, <1>8, <1>9, <1>10, <1>11, <1>12, <1>13,
     <1>14, <1>15 DEF Step

(* A frame is mapped once, and only while it is not free.                  *)
LEMMA MappedOnceStep ==
  ASSUME Inv, NEW c \in Cpus, Step(c)
  PROVE  MappedOnce'
<1>1. ASSUME NEW p \in Pages, Fill(c, p)
      PROVE  MappedOnce'
  BY <1>1, TlbAssumption DEF Fill, Inv, Typed, TypeOK, MappedOnce, InFlight, Busy, memory,
     protocol
<1>2. ASSUME Trap(c) PROVE MappedOnce'
  BY <1>2, TlbAssumption DEF Trap, Inv, Typed, TypeOK, MappedOnce, InFlight, Busy, memory,
     loaded, protocol
<1>3. ASSUME Acquire(c) PROVE MappedOnce'
  BY <1>3, TlbAssumption DEF Acquire, Inv, Typed, TypeOK, MappedOnce, InFlight, Busy, NoJob,
     memory, loaded, protocol
<1>4. ASSUME NEW d \in Dirs \cup {KernelDir}, Switch(c, d)
      PROVE  MappedOnce'
  BY <1>4, TlbAssumption DEF Switch, Enters, Inv, Typed, TypeOK, MappedOnce, InFlight, Busy,
     Done, NoJob, NoTlb, memory, protocol
<1>5. ASSUME NEW p \in Pages, NEW f \in Frames, Mmap(c, p, f)
      PROVE  MappedOnce'
  BY <1>5, TlbAssumption DEF Mmap, Enters, Available, Flushed, Inv, Typed, TypeOK,
     MappedOnce, InFlight, Busy, Done, NoJob, protocol
<1>6. ASSUME NEW d \in Dirs, NEW p \in Pages, NEW op \in {"munmap", "stack"}, Unmap(c, op, d, p)
      PROVE  MappedOnce'
  <2>1. CASE UnmapDone(c, d, p)
    BY <2>1, TlbAssumption DEF UnmapDone, Inv, Typed, TypeOK, MappedOnce, InFlight, Busy,
       NoJob, protocol
  <2>2. CASE UnmapSends(c, op, d, p)
    BY <2>2, TlbAssumption DEF UnmapSends, Inv, Typed, TypeOK, MappedOnce, InFlight, Busy,
       protocol
  <2>3. QED
    BY <1>6, <2>1, <2>2, UnmapCases
<1>7. ASSUME StoreCr3(c) PROVE MappedOnce'
  BY <1>7, TlbAssumption DEF StoreCr3, Inv, Typed, TypeOK, MappedOnce, InFlight, Busy,
     memory, loaded
<1>8. ASSUME StorePage(c) PROVE MappedOnce'
  BY <1>8, TlbAssumption DEF StorePage, Inv, Typed, TypeOK, MappedOnce, InFlight, Busy,
     memory, loaded
<1>9. ASSUME AdvanceEpoch(c) PROVE MappedOnce'
  BY <1>9, TlbAssumption DEF AdvanceEpoch, NextEpoch, Inv, Typed, TypeOK, MappedOnce,
     InFlight, Busy, memory, loaded
<1>10. ASSUME NEW x \in Cpus, SendIpi(c, x)
      PROVE  MappedOnce'
  BY <1>10, TlbAssumption DEF SendIpi, Inv, Typed, TypeOK, MappedOnce, InFlight, Busy,
     memory, loaded
<1>11. ASSUME WaitEnds(c) PROVE MappedOnce'
  BY <1>11, TlbAssumption DEF WaitEnds, Finish, FrameReleased, AddressWithheld,
     Acknowledged, Inv, Typed, TypeOK, MappedOnce, InFlight, Busy, Done, NoJob, loaded,
     protocol
<1>12. ASSUME TakeIpi(c) PROVE MappedOnce'
  BY <1>12, TlbAssumption DEF TakeIpi, Inv, Typed, TypeOK, MappedOnce, InFlight, Busy,
     memory, loaded
<1>13. ASSUME CompareCr3(c) PROVE MappedOnce'
  BY <1>13, TlbAssumption DEF CompareCr3, Inv, Typed, TypeOK, MappedOnce, InFlight, Busy,
     memory, loaded
<1>14. ASSUME FlushPage(c) PROVE MappedOnce'
  BY <1>14, TlbAssumption DEF FlushPage, Inv, Typed, TypeOK, MappedOnce, InFlight, Busy,
     memory
<1>15. ASSUME StoreAck(c) PROVE MappedOnce'
  BY <1>15, TlbAssumption DEF StoreAck, LoadedEpoch, Inv, Typed, TypeOK, MappedOnce,
     InFlight, Busy, NoIsr, memory, loaded
<1>16. QED
  BY <1>1, <1>2, <1>3, <1>4, <1>5, <1>6, <1>7, <1>8, <1>9, <1>10, <1>11, <1>12, <1>13,
     <1>14, <1>15 DEF Step

(* A cached frame is not free and is mapped nowhere else.                  *)
LEMMA CachedStep ==
  ASSUME Inv, NEW c \in Cpus, Step(c)
  PROVE  Cached'
<1>1. ASSUME NEW p \in Pages, Fill(c, p)
      PROVE  Cached'
  BY <1>1, TlbAssumption DEF Fill, Inv, Typed, TypeOK, Recorded, MappedOnce, Cached,
     InFlight, Busy, memory, protocol
<1>2. ASSUME Trap(c) PROVE Cached'
  BY <1>2, TlbAssumption DEF Trap, Inv, Typed, TypeOK, Recorded, MappedOnce, Cached,
     InFlight, Busy, memory, loaded, protocol
<1>3. ASSUME Acquire(c) PROVE Cached'
  BY <1>3, TlbAssumption DEF Acquire, Inv, Typed, TypeOK, Recorded, MappedOnce, Cached,
     InFlight, Busy, NoJob, memory, loaded, protocol
<1>4. ASSUME NEW d \in Dirs \cup {KernelDir}, Switch(c, d)
      PROVE  Cached'
  BY <1>4, TlbAssumption DEF Switch, Enters, Inv, Typed, TypeOK, Recorded, MappedOnce,
     Cached, InFlight, Busy, Done, NoJob, NoTlb, memory, protocol
<1>5. ASSUME NEW p \in Pages, NEW f \in Frames, Mmap(c, p, f)
      PROVE  Cached'
  BY <1>5, TlbAssumption DEF Mmap, Enters, Available, Flushed, Inv, Typed, TypeOK, Recorded,
     MappedOnce, Cached, InFlight, Busy, Done, NoJob, protocol
<1>6. ASSUME NEW d \in Dirs, NEW p \in Pages, NEW op \in {"munmap", "stack"}, Unmap(c, op, d, p)
      PROVE  Cached'
  <2>1. CASE UnmapDone(c, d, p)
    BY <2>1, TlbAssumption DEF UnmapDone, Inv, Typed, TypeOK, Recorded, MappedOnce, Cached,
       InFlight, Busy, NoJob, protocol
  <2>2. CASE UnmapSends(c, op, d, p)
    BY <2>2, TlbAssumption DEF UnmapSends, Inv, Typed, TypeOK, Recorded, MappedOnce, Cached,
       InFlight, Busy, protocol
  <2>3. QED
    BY <1>6, <2>1, <2>2, UnmapCases
<1>7. ASSUME StoreCr3(c) PROVE Cached'
  BY <1>7, TlbAssumption DEF StoreCr3, Inv, Typed, TypeOK, Recorded, MappedOnce, Cached,
     InFlight, Busy, memory, loaded
<1>8. ASSUME StorePage(c) PROVE Cached'
  BY <1>8, TlbAssumption DEF StorePage, Inv, Typed, TypeOK, Recorded, MappedOnce, Cached,
     InFlight, Busy, memory, loaded
<1>9. ASSUME AdvanceEpoch(c) PROVE Cached'
  BY <1>9, TlbAssumption DEF AdvanceEpoch, NextEpoch, Inv, Typed, TypeOK, Recorded,
     MappedOnce, Cached, InFlight, Busy, memory, loaded
<1>10. ASSUME NEW x \in Cpus, SendIpi(c, x)
      PROVE  Cached'
  BY <1>10, TlbAssumption DEF SendIpi, Inv, Typed, TypeOK, Recorded, MappedOnce, Cached,
     InFlight, Busy, memory, loaded
<1>11. ASSUME WaitEnds(c) PROVE Cached'
  BY <1>11, TlbAssumption DEF WaitEnds, Finish, FrameReleased, AddressWithheld,
     Acknowledged, Inv, Typed, TypeOK, Recorded, Cached, InFlight, Acked, Busy, Done, NoJob,
     loaded, protocol
<1>12. ASSUME TakeIpi(c) PROVE Cached'
  BY <1>12, TlbAssumption DEF TakeIpi, Inv, Typed, TypeOK, Recorded, MappedOnce, Cached,
     InFlight, Busy, memory, loaded
<1>13. ASSUME CompareCr3(c) PROVE Cached'
  BY <1>13, TlbAssumption DEF CompareCr3, Inv, Typed, TypeOK, Recorded, MappedOnce, Cached,
     InFlight, Busy, memory, loaded
<1>14. ASSUME FlushPage(c) PROVE Cached'
  BY <1>14, TlbAssumption DEF FlushPage, Inv, Typed, TypeOK, Recorded, MappedOnce, Cached,
     InFlight, Busy, memory
<1>15. ASSUME StoreAck(c) PROVE Cached'
  BY <1>15, TlbAssumption DEF StoreAck, LoadedEpoch, Inv, Typed, TypeOK, Recorded,
     MappedOnce, Cached, InFlight, Busy, NoIsr, memory, loaded
<1>16. QED
  BY <1>1, <1>2, <1>3, <1>4, <1>5, <1>6, <1>7, <1>8, <1>9, <1>10, <1>11, <1>12, <1>13,
     <1>14, <1>15 DEF Step

(* The frame of a transaction is cached by its targets only.               *)
LEMMA InFlightStep ==
  ASSUME Inv, NEW c \in Cpus, Step(c)
  PROVE  InFlight'
<1>1. ASSUME NEW p \in Pages, Fill(c, p)
      PROVE  InFlight'
  BY <1>1, TlbAssumption DEF Fill, Inv, Typed, TypeOK, Recorded, MappedOnce, Cached,
     InFlight, Busy, memory, protocol
<1>2. ASSUME Trap(c) PROVE InFlight'
  BY <1>2, TlbAssumption DEF Trap, Inv, Typed, TypeOK, Recorded, MappedOnce, Cached,
     InFlight, Busy, memory, loaded, protocol
<1>3. ASSUME Acquire(c) PROVE InFlight'
  BY <1>3, TlbAssumption DEF Acquire, Inv, Typed, TypeOK, Recorded, MappedOnce, Cached,
     InFlight, Busy, NoJob, memory, loaded, protocol
<1>4. ASSUME NEW d \in Dirs \cup {KernelDir}, Switch(c, d)
      PROVE  InFlight'
  BY <1>4, TlbAssumption DEF Switch, Enters, Inv, Typed, TypeOK, Recorded, MappedOnce,
     Cached, InFlight, Busy, Done, NoJob, NoTlb, memory, protocol
<1>5. ASSUME NEW p \in Pages, NEW f \in Frames, Mmap(c, p, f)
      PROVE  InFlight'
  BY <1>5, TlbAssumption DEF Mmap, Enters, Available, Flushed, Inv, Typed, TypeOK, Recorded,
     MappedOnce, Cached, InFlight, Busy, Done, NoJob, protocol
<1>6. ASSUME NEW d \in Dirs, NEW p \in Pages, NEW op \in {"munmap", "stack"}, Unmap(c, op, d, p)
      PROVE  InFlight'
  <2>1. CASE UnmapDone(c, d, p)
    BY <2>1, TlbAssumption DEF UnmapDone, Inv, Typed, TypeOK, Recorded, MappedOnce, Cached,
       InFlight, Busy, NoJob, protocol
  <2>2. CASE UnmapSends(c, op, d, p)
    BY <2>2, TlbAssumption DEF UnmapSends, Inv, Typed, TypeOK, Recorded, MappedOnce, Cached,
       InFlight, Busy, protocol
  <2>3. QED
    BY <1>6, <2>1, <2>2, UnmapCases
<1>7. ASSUME StoreCr3(c) PROVE InFlight'
  BY <1>7, TlbAssumption DEF StoreCr3, Inv, Typed, TypeOK, Recorded, MappedOnce, Cached,
     InFlight, Busy, memory, loaded
<1>8. ASSUME StorePage(c) PROVE InFlight'
  BY <1>8, TlbAssumption DEF StorePage, Inv, Typed, TypeOK, Recorded, MappedOnce, Cached,
     InFlight, Busy, memory, loaded
<1>9. ASSUME AdvanceEpoch(c) PROVE InFlight'
  BY <1>9, TlbAssumption DEF AdvanceEpoch, NextEpoch, Inv, Typed, TypeOK, Recorded,
     MappedOnce, Cached, InFlight, Busy, memory, loaded
<1>10. ASSUME NEW x \in Cpus, SendIpi(c, x)
      PROVE  InFlight'
  BY <1>10, TlbAssumption DEF SendIpi, Inv, Typed, TypeOK, Recorded, MappedOnce, Cached,
     InFlight, Busy, memory, loaded
<1>11. ASSUME WaitEnds(c) PROVE InFlight'
  BY <1>11, TlbAssumption DEF WaitEnds, Finish, FrameReleased, AddressWithheld,
     Acknowledged, Inv, Typed, TypeOK, Recorded, Cached, InFlight, Acked, Busy, Done, NoJob,
     loaded, protocol
<1>12. ASSUME TakeIpi(c) PROVE InFlight'
  BY <1>12, TlbAssumption DEF TakeIpi, Inv, Typed, TypeOK, Recorded, MappedOnce, Cached,
     InFlight, Busy, memory, loaded
<1>13. ASSUME CompareCr3(c) PROVE InFlight'
  BY <1>13, TlbAssumption DEF CompareCr3, Inv, Typed, TypeOK, Recorded, MappedOnce, Cached,
     InFlight, Busy, memory, loaded
<1>14. ASSUME FlushPage(c) PROVE InFlight'
  BY <1>14, TlbAssumption DEF FlushPage, Inv, Typed, TypeOK, Recorded, MappedOnce, Cached,
     InFlight, Busy, memory
<1>15. ASSUME StoreAck(c) PROVE InFlight'
  BY <1>15, TlbAssumption DEF StoreAck, LoadedEpoch, Inv, Typed, TypeOK, Recorded,
     MappedOnce, Cached, InFlight, Busy, NoIsr, memory, loaded
<1>16. QED
  BY <1>1, <1>2, <1>3, <1>4, <1>5, <1>6, <1>7, <1>8, <1>9, <1>10, <1>11, <1>12, <1>13,
     <1>14, <1>15 DEF Step

(* The published words are those of the transaction.                       *)
LEMMA PublishedStep ==
  ASSUME Typed, Published, NEW c \in Cpus, Step(c)
  PROVE  Published'
<1>1. ASSUME NEW p \in Pages, Fill(c, p)
      PROVE  Published'
  BY <1>1, TlbAssumption DEF Fill, Typed, TypeOK, Published, memory, protocol
<1>2. ASSUME Trap(c) PROVE Published'
  BY <1>2, TlbAssumption DEF Trap, Typed, TypeOK, Published, memory, loaded, protocol
<1>3. ASSUME Acquire(c) PROVE Published'
  BY <1>3, TlbAssumption DEF Acquire, Typed, TypeOK, Published, NoJob, memory, loaded,
     protocol
<1>4. ASSUME NEW d \in Dirs \cup {KernelDir}, Switch(c, d)
      PROVE  Published'
  BY <1>4, TlbAssumption DEF Switch, Enters, Typed, TypeOK, Published, Done, NoJob, NoTlb,
     memory, protocol
<1>5. ASSUME NEW p \in Pages, NEW f \in Frames, Mmap(c, p, f)
      PROVE  Published'
  BY <1>5, TlbAssumption DEF Mmap, Enters, Available, Flushed, Typed, TypeOK, Published,
     Done, NoJob, protocol
<1>6. ASSUME NEW d \in Dirs, NEW p \in Pages, NEW op \in {"munmap", "stack"}, Unmap(c, op, d, p)
      PROVE  Published'
  <2>1. CASE UnmapDone(c, d, p)
    BY <2>1, TlbAssumption DEF UnmapDone, Typed, TypeOK, Published, NoJob, protocol
  <2>2. CASE UnmapSends(c, op, d, p)
    BY <2>2, TlbAssumption DEF UnmapSends, Typed, TypeOK, Published, protocol
  <2>3. QED
    BY <1>6, <2>1, <2>2, UnmapCases
<1>7. ASSUME StoreCr3(c) PROVE Published'
  BY <1>7, TlbAssumption DEF StoreCr3, Typed, TypeOK, Published, memory, loaded
<1>8. ASSUME StorePage(c) PROVE Published'
  BY <1>8, TlbAssumption DEF StorePage, Typed, TypeOK, Published, memory, loaded
<1>9. ASSUME AdvanceEpoch(c) PROVE Published'
  BY <1>9, TlbAssumption DEF AdvanceEpoch, NextEpoch, Typed, TypeOK, Published, memory,
     loaded
<1>10. ASSUME NEW x \in Cpus, SendIpi(c, x)
      PROVE  Published'
  BY <1>10, TlbAssumption DEF SendIpi, Typed, TypeOK, Published, memory, loaded
<1>11. ASSUME WaitEnds(c) PROVE Published'
  BY <1>11, TlbAssumption DEF WaitEnds, Finish, FrameReleased, AddressWithheld,
     Acknowledged, Typed, TypeOK, Published, Done, NoJob, loaded, protocol
<1>12. ASSUME TakeIpi(c) PROVE Published'
  BY <1>12, TlbAssumption DEF TakeIpi, Typed, TypeOK, Published, memory, loaded
<1>13. ASSUME CompareCr3(c) PROVE Published'
  BY <1>13, TlbAssumption DEF CompareCr3, Typed, TypeOK, Published, memory, loaded
<1>14. ASSUME FlushPage(c) PROVE Published'
  BY <1>14, TlbAssumption DEF FlushPage, Typed, TypeOK, Published, memory
<1>15. ASSUME StoreAck(c) PROVE Published'
  BY <1>15, TlbAssumption DEF StoreAck, LoadedEpoch, Typed, TypeOK, Published, NoIsr,
     memory, loaded
<1>16. QED
  BY <1>1, <1>2, <1>3, <1>4, <1>5, <1>6, <1>7, <1>8, <1>9, <1>10, <1>11, <1>12, <1>13,
     <1>14, <1>15 DEF Step

(* Nobody is ahead of the epoch.                                           *)
LEMMA EpochsStep ==
  ASSUME Typed, Epochs, NEW c \in Cpus, Step(c)
  PROVE  Epochs'
<1>1. ASSUME NEW p \in Pages, Fill(c, p)
      PROVE  Epochs'
  BY <1>1, TlbAssumption DEF Fill, Typed, TypeOK, Epochs, memory, protocol
<1>2. ASSUME Trap(c) PROVE Epochs'
  BY <1>2, TlbAssumption DEF Trap, Typed, TypeOK, Epochs, memory, loaded, protocol
<1>3. ASSUME Acquire(c) PROVE Epochs'
  BY <1>3, TlbAssumption DEF Acquire, Typed, TypeOK, Epochs, NoJob, memory, loaded, protocol
<1>4. ASSUME NEW d \in Dirs \cup {KernelDir}, Switch(c, d)
      PROVE  Epochs'
  BY <1>4, TlbAssumption DEF Switch, Enters, Typed, TypeOK, Epochs, Done, NoJob, NoTlb,
     memory, protocol
<1>5. ASSUME NEW p \in Pages, NEW f \in Frames, Mmap(c, p, f)
      PROVE  Epochs'
  BY <1>5, TlbAssumption DEF Mmap, Enters, Available, Flushed, Typed, TypeOK, Epochs, Done,
     NoJob, protocol
<1>6. ASSUME NEW d \in Dirs, NEW p \in Pages, NEW op \in {"munmap", "stack"}, Unmap(c, op, d, p)
      PROVE  Epochs'
  <2>1. CASE UnmapDone(c, d, p)
    BY <2>1, TlbAssumption DEF UnmapDone, Typed, TypeOK, Epochs, NoJob, protocol
  <2>2. CASE UnmapSends(c, op, d, p)
    BY <2>2, TlbAssumption DEF UnmapSends, Typed, TypeOK, Epochs, protocol
  <2>3. QED
    BY <1>6, <2>1, <2>2, UnmapCases
<1>7. ASSUME StoreCr3(c) PROVE Epochs'
  BY <1>7, TlbAssumption DEF StoreCr3, Typed, TypeOK, Epochs, memory, loaded
<1>8. ASSUME StorePage(c) PROVE Epochs'
  BY <1>8, TlbAssumption DEF StorePage, Typed, TypeOK, Epochs, memory, loaded
<1>9. ASSUME AdvanceEpoch(c) PROVE Epochs'
  BY <1>9, TlbAssumption DEF AdvanceEpoch, NextEpoch, Typed, TypeOK, Epochs, memory, loaded
<1>10. ASSUME NEW x \in Cpus, SendIpi(c, x)
      PROVE  Epochs'
  BY <1>10, TlbAssumption DEF SendIpi, Typed, TypeOK, Epochs, memory, loaded
<1>11. ASSUME WaitEnds(c) PROVE Epochs'
  BY <1>11, TlbAssumption DEF WaitEnds, Finish, FrameReleased, AddressWithheld,
     Acknowledged, Typed, TypeOK, Epochs, Done, NoJob, loaded, protocol
<1>12. ASSUME TakeIpi(c) PROVE Epochs'
  BY <1>12, TlbAssumption DEF TakeIpi, Typed, TypeOK, Epochs, memory, loaded
<1>13. ASSUME CompareCr3(c) PROVE Epochs'
  BY <1>13, TlbAssumption DEF CompareCr3, Typed, TypeOK, Epochs, memory, loaded
<1>14. ASSUME FlushPage(c) PROVE Epochs'
  BY <1>14, TlbAssumption DEF FlushPage, Typed, TypeOK, Epochs, memory
<1>15. ASSUME StoreAck(c) PROVE Epochs'
  BY <1>15, TlbAssumption DEF StoreAck, LoadedEpoch, Typed, TypeOK, Epochs, NoIsr, memory,
     loaded
<1>16. QED
  BY <1>1, <1>2, <1>3, <1>4, <1>5, <1>6, <1>7, <1>8, <1>9, <1>10, <1>11, <1>12, <1>13,
     <1>14, <1>15 DEF Step

(* Who acknowledged the epoch has dropped the page.                        *)
LEMMA AckedStep ==
  ASSUME Inv, NEW c \in Cpus, Step(c)
  PROVE  Acked'
<1>1. ASSUME NEW p \in Pages, Fill(c, p)
      PROVE  Acked'
  BY <1>1, TlbAssumption DEF Fill, Inv, Typed, TypeOK, InFlight, Published, Epochs, Acked,
     Busy, memory, protocol
<1>2. ASSUME Trap(c) PROVE Acked'
  BY <1>2, TlbAssumption DEF Trap, Inv, Typed, TypeOK, InFlight, Published, Epochs, Acked,
     Busy, memory, loaded, protocol
<1>3. ASSUME Acquire(c) PROVE Acked'
  BY <1>3, TlbAssumption DEF Acquire, Inv, Typed, TypeOK, InFlight, Published, Epochs,
     Acked, Busy, NoJob, memory, loaded, protocol
<1>4. ASSUME NEW d \in Dirs \cup {KernelDir}, Switch(c, d)
      PROVE  Acked'
  BY <1>4, TlbAssumption DEF Switch, Enters, Inv, Typed, TypeOK, InFlight, Published,
     Epochs, Acked, Busy, Done, NoJob, NoTlb, memory, protocol
<1>5. ASSUME NEW p \in Pages, NEW f \in Frames, Mmap(c, p, f)
      PROVE  Acked'
  BY <1>5, TlbAssumption DEF Mmap, Enters, Available, Flushed, Inv, Typed, TypeOK, InFlight,
     Published, Epochs, Acked, Busy, Done, NoJob, protocol
<1>6. ASSUME NEW d \in Dirs, NEW p \in Pages, NEW op \in {"munmap", "stack"}, Unmap(c, op, d, p)
      PROVE  Acked'
  <2>1. CASE UnmapDone(c, d, p)
    BY <2>1, TlbAssumption DEF UnmapDone, Inv, Typed, TypeOK, InFlight, Published, Epochs,
       Acked, Busy, NoJob, protocol
  <2>2. CASE UnmapSends(c, op, d, p)
    BY <2>2, TlbAssumption DEF UnmapSends, Inv, Typed, TypeOK, InFlight, Published, Epochs,
       Acked, Busy, protocol
  <2>3. QED
    BY <1>6, <2>1, <2>2, UnmapCases
<1>7. ASSUME StoreCr3(c) PROVE Acked'
  BY <1>7, TlbAssumption DEF StoreCr3, Inv, Typed, TypeOK, InFlight, Published, Epochs,
     Acked, Busy, memory, loaded
<1>8. ASSUME StorePage(c) PROVE Acked'
  BY <1>8, TlbAssumption DEF StorePage, Inv, Typed, TypeOK, InFlight, Published, Epochs,
     Acked, Busy, memory, loaded
<1>9. ASSUME AdvanceEpoch(c) PROVE Acked'
  BY <1>9, TlbAssumption DEF AdvanceEpoch, NextEpoch, Inv, Typed, TypeOK, InFlight,
     Published, Epochs, Acked, Busy, memory, loaded
<1>10. ASSUME NEW x \in Cpus, SendIpi(c, x)
      PROVE  Acked'
  BY <1>10, TlbAssumption DEF SendIpi, Inv, Typed, TypeOK, InFlight, Published, Epochs,
     Acked, Busy, memory, loaded
<1>11. ASSUME WaitEnds(c) PROVE Acked'
  BY <1>11, TlbAssumption DEF WaitEnds, Finish, FrameReleased, AddressWithheld,
     Acknowledged, Inv, Typed, TypeOK, InFlight, Published, Epochs, Acked, Busy, Done,
     NoJob, loaded, protocol
<1>12. ASSUME TakeIpi(c) PROVE Acked'
  BY <1>12, TlbAssumption DEF TakeIpi, Inv, Typed, TypeOK, InFlight, Published, Epochs,
     Acked, Busy, memory, loaded
<1>13. ASSUME CompareCr3(c) PROVE Acked'
  BY <1>13, TlbAssumption DEF CompareCr3, Inv, Typed, TypeOK, InFlight, Published, Epochs,
     Acked, Busy, memory, loaded
<1>14. ASSUME FlushPage(c) PROVE Acked'
  BY <1>14, TlbAssumption DEF FlushPage, Inv, Typed, TypeOK, InFlight, Published, Epochs,
     Acked, Busy, memory
<1>15. ASSUME StoreAck(c) PROVE Acked'
  BY <1>15, TlbAssumption DEF StoreAck, LoadedEpoch, Inv, Typed, TypeOK, InFlight,
     Published, Epochs, Acked, Busy, NoIsr, memory, loaded
<1>16. QED
  BY <1>1, <1>2, <1>3, <1>4, <1>5, <1>6, <1>7, <1>8, <1>9, <1>10, <1>11, <1>12, <1>13,
     <1>14, <1>15 DEF Step

(* Every step preserves the invariant.                                     *)
LEMMA InvStep ==
  ASSUME Retains, Inv, [Next]_vars
  PROVE  Inv'
<1>1. CASE Next
  <2>1. PICK c \in Cpus : Step(c)
    BY <1>1, StepOfNext DEF Inv, Typed
  <2>2. Typed /\ Recorded /\ Published /\ Epochs
    BY DEF Inv
  <2>3. QED
    BY <2>1, <2>2, TypedStep, RecordedStep, MappedOnceStep, CachedStep, InFlightStep,
       PublishedStep, EpochsStep, AckedStep DEF Inv
<1>2. CASE UNCHANGED vars
  BY <1>2 DEF vars, Inv, Typed, TypeOK, Recorded, MappedOnce, Cached, InFlight, Published,
     Epochs, Acked, Busy
<1>3. QED
  BY <1>1, <1>2

(* The shootdown's inductive invariant holds in every reachable state.     *)
THEOREM Invariance ==
  ASSUME Retains
  PROVE  Spec => []Inv
<1>1. Inv /\ [Next]_vars => Inv'
  BY InvStep
<1>2. QED
  BY <1>1, InitInv, PTL DEF Spec

(* A frame that shootdown_tlb's callers free is cached by no processor: for *)
(* any number of processors, and however many interrupts are lost or late.  *)
THEOREM FramesSafe ==
  ASSUME Retains
  PROVE  Spec => []NoStaleFrame
<1>1. Inv => NoStaleFrame
  BY DEF Inv, Cached, NoStaleFrame
<1>2. QED
  BY <1>1, Invariance, PTL

(***************************************************************************)
(* TlbCoherent when programs only use mmap without an address and munmap:  *)
(* a translation that is not the page table's belongs to an address that   *)
(* is withheld, or to the transaction under way.                           *)
(***************************************************************************)
OnlyMunmap == Ops \subseteq {"munmap"}

Withheld ==
    /\ Busy => job.op = "munmap"
    /\ \A x \in Cpus, p \in Pages :
           tlb[x][p] # None /\ tlb[x][p] # pt[cr3[x]][p] =>
               /\ pt[cr3[x]][p] = None
               /\ <<cr3[x], p>> \in retired \/ (Busy /\ job.frame = tlb[x][p])

(* No step makes a translation stale without withholding its address.      *)
LEMMA WithheldStep ==
  ASSUME OnlyMunmap, Inv, Withheld, NEW c \in Cpus, Step(c)
  PROVE  Withheld'
<1> USE TlbAssumption
<1>1. ASSUME NEW p \in Pages, Fill(c, p)
      PROVE  Withheld'
  BY <1>1 DEF Fill, Inv, Typed, TypeOK, Recorded, Cached, InFlight, Acked, Withheld, Busy,
     memory, protocol
<1>2. ASSUME Trap(c) PROVE Withheld'
  BY <1>2 DEF Trap, Inv, Typed, TypeOK, Recorded, Cached, InFlight, Acked, Withheld, Busy,
     memory, loaded, protocol
<1>3. ASSUME Acquire(c) PROVE Withheld'
  BY <1>3 DEF Acquire, Inv, Typed, TypeOK, Recorded, Cached, InFlight, Acked, Withheld,
     Busy, NoJob, memory, loaded, protocol
<1>4. ASSUME NEW d \in Dirs \cup {KernelDir}, Switch(c, d)
      PROVE  Withheld'
  BY <1>4 DEF Switch, Enters, Inv, Typed, TypeOK, Recorded, Cached, InFlight, Acked,
     Withheld, Busy, Done, NoJob, NoTlb, memory, protocol
<1>5. ASSUME NEW p \in Pages, NEW f \in Frames, Mmap(c, p, f)
      PROVE  Withheld'
  BY <1>5 DEF OnlyMunmap, Mmap, Enters, Available, Flushed, Inv, Typed, TypeOK, Recorded,
     Cached, InFlight, Acked, Withheld, Busy, Done, NoJob, protocol
<1>6. ASSUME NEW d \in Dirs, NEW p \in Pages, NEW op \in {"munmap", "stack"}, Unmap(c, op, d, p)
      PROVE  Withheld'
  <2>1. op = "munmap"
    BY <1>6 DEF Unmap, OnlyMunmap
  <2>2. CASE UnmapDone(c, d, p)
    BY <2>2 DEF UnmapDone, Inv, Typed, TypeOK, Recorded, Cached, InFlight, Acked, Withheld,
       Busy, NoJob, protocol
  <2>3. CASE UnmapSends(c, op, d, p)
    BY <2>1, <2>3 DEF UnmapSends, MappedOnce, Inv, Typed, TypeOK, Recorded, Cached,
       InFlight, Acked, Withheld, Busy, protocol
  <2>4. QED
    BY <1>6, <2>2, <2>3, UnmapCases
<1>7. ASSUME StoreCr3(c) PROVE Withheld'
  BY <1>7 DEF StoreCr3, Inv, Typed, TypeOK, Recorded, Cached, InFlight, Acked, Withheld,
     Busy, memory, loaded
<1>8. ASSUME StorePage(c) PROVE Withheld'
  BY <1>8 DEF StorePage, Inv, Typed, TypeOK, Recorded, Cached, InFlight, Acked, Withheld,
     Busy, memory, loaded
<1>9. ASSUME AdvanceEpoch(c) PROVE Withheld'
  BY <1>9 DEF AdvanceEpoch, NextEpoch, Inv, Typed, TypeOK, Recorded, Cached, InFlight,
     Acked, Withheld, Busy, memory, loaded
<1>10. ASSUME NEW x \in Cpus, SendIpi(c, x)
      PROVE  Withheld'
  BY <1>10 DEF SendIpi, Inv, Typed, TypeOK, Recorded, Cached, InFlight, Acked, Withheld,
     Busy, memory, loaded
<1>11. ASSUME WaitEnds(c) PROVE Withheld'
  BY <1>11 DEF WaitEnds, Finish, FrameReleased, AddressWithheld, Acknowledged, Inv, Typed,
     TypeOK, Recorded, Cached, InFlight, Acked, Withheld, Busy, Done, NoJob, loaded,
     protocol
<1>12. ASSUME TakeIpi(c) PROVE Withheld'
  BY <1>12 DEF TakeIpi, Inv, Typed, TypeOK, Recorded, Cached, InFlight, Acked, Withheld,
     Busy, memory, loaded
<1>13. ASSUME CompareCr3(c) PROVE Withheld'
  BY <1>13 DEF CompareCr3, Inv, Typed, TypeOK, Recorded, Cached, InFlight, Acked, Withheld,
     Busy, memory, loaded
<1>14. ASSUME FlushPage(c) PROVE Withheld'
  BY <1>14 DEF FlushPage, Inv, Typed, TypeOK, Recorded, Cached, InFlight, Acked, Withheld,
     Busy, memory
<1>15. ASSUME StoreAck(c) PROVE Withheld'
  BY <1>15 DEF StoreAck, LoadedEpoch, Inv, Typed, TypeOK, Recorded, Cached, InFlight, Acked,
     Withheld, Busy, NoIsr, memory, loaded
<1>16. QED
  BY <1>1, <1>2, <1>3, <1>4, <1>5, <1>6, <1>7, <1>8, <1>9, <1>10, <1>11, <1>12, <1>13,
     <1>14, <1>15 DEF Step

(* An address that munmap gave back to mmap_free is cached nowhere.        *)
THEOREM AddressesCoherent ==
  ASSUME OnlyMunmap
  PROVE  Spec => []TlbCoherent
<1>1. Retains
  BY DEF OnlyMunmap, Retains
<1>2. Init => Withheld
  BY DEF Init, Withheld, Busy, NoJob, NoTlb
<1>3. Inv /\ Withheld /\ [Next]_vars => Withheld'
  <2> SUFFICES ASSUME Inv, Withheld, [Next]_vars PROVE Withheld'
    OBVIOUS
  <2>1. CASE Next
    BY <1>1, <2>1, StepOfNext, WithheldStep DEF Inv, Typed
  <2>2. CASE UNCHANGED vars
    BY <2>2 DEF vars, Withheld, Busy
  <2>3. QED
    BY <2>1, <2>2
<1>4. Inv /\ Withheld => TlbCoherent
  BY DEF Inv, Withheld, TlbCoherent
<1>5. Spec => []Inv
  BY <1>1, Invariance
<1>6. QED
  BY <1>2, <1>3, <1>4, <1>5, PTL DEF Spec

(* Drop on a table.                                                        *)
LEMMA DropFacts ==
    ASSUME NEW f, NEW S
    PROVE  /\ DOMAIN Drop(f, S) = DOMAIN f \ S
           /\ \A x \in DOMAIN f \ S : Drop(f, S)[x] = f[x]
    BY DEF Drop

(* The least element of a set of naturals is one of them.                  *)
LEMMA MinIn ==
    ASSUME NEW S \in SUBSET Nat, S # {}
    PROVE  Min(S) \in S
<1>1. PICK m \in S : \A x \in S : ~(<<x, m>> \in OpToRel(<, Nat))
    BY NatLessThanWellFounded, WFMin, Zenon
<1>2. \A x \in S : ~(x < m)
    BY <1>1 DEF OpToRel
<1>3. \E x \in S : \A y \in S : x <= y
    BY <1>2
<1>4. QED
    BY <1>3 DEF Min

(***************************************************************************)
(* Ranges.  A table of blocks below top; free blocks do not even touch.    *)
(***************************************************************************)
Blocks(f, top) ==
    /\ top \in Nat /\ DOMAIN f \subseteq Nat
    /\ \A p \in DOMAIN f : f[p] \in Nat /\ f[p] > 0 /\ p + f[p] <= top

Apart(f) == \A p, q \in DOMAIN f : p < q => p + f[p] <= q
Spread(f) == \A p, q \in DOMAIN f : p < q => p + f[p] < q
Clear(f, a, m) == \A q \in DOMAIN f : q + f[q] <= a \/ a + m <= q

(* r is f with what touches p .. p + n - 1 joined to a block of length l   *)
(* at s.                                                                   *)
Joins(f, p, n, r, s, l) ==
    /\ s \in Nat /\ l \in Nat /\ s <= p /\ p + n <= s + l
    /\ \/ s = p /\ \A q \in DOMAIN f : q + f[q] # p
       \/ s \in DOMAIN f /\ s + f[s] = p
    /\ \/ s + l = p + n /\ p + n \notin DOMAIN f
       \/ p + n \in DOMAIN f /\ s + l = p + n + f[p + n]
    /\ DOMAIN r = (DOMAIN f \ {p + n}) \cup {s}
    /\ r[s] = l
    /\ \A x \in DOMAIN f \ {p + n, s} : r[x] = f[x]

(* add_free_block joins.                                                   *)
LEMMA AddJoins ==
    ASSUME NEW f, NEW top, Blocks(f, top), NEW p \in Nat, NEW n \in Nat, n > 0,
           NEW r, r = add_free_block(f, p, n)
    PROVE  \E s, l : Joins(f, p, n, r, s, l)
<1>. DEFINE nx == {q \in DOMAIN f : q = p + n}
             pv == {q \in DOMAIN f : q + f[q] = p}
             ln == n + IF nx = {} THEN 0 ELSE f[p + n]
             q0 == CHOOSE q \in pv : TRUE
<1>0. r = IF pv = {} THEN Put(Drop(f, nx), p, ln) ELSE Put(Drop(f, nx), q0, f[q0] + ln)
    BY DEF add_free_block
<1>. HIDE DEF nx, pv, ln, q0
<1>1. PICK next : next = nx
    OBVIOUS
<1>2. PICK prev : prev = pv
    OBVIOUS
<1>a. PICK len : len = ln
    OBVIOUS
<1>b. prev = {} => r = Put(Drop(f, next), p, len)
    BY <1>0, <1>1, <1>2, <1>a, Zenon
<1>c. prev # {} => r = Put(Drop(f, next), q0, f[q0] + len)
    BY <1>0, <1>1, <1>2, <1>a, Zenon
<1>d. prev = {q \in DOMAIN f : q + f[q] = p}
    BY <1>2 DEF pv
<1>e. prev # {} => q0 \in prev
    BY <1>2 DEF q0
<1>3. next = IF p + n \in DOMAIN f THEN {p + n} ELSE {}
    BY <1>1 DEF nx
<1>4. len \in Nat /\ len >= n /\ (p + n \in DOMAIN f => len = n + f[p + n]) /\ (p + n \notin DOMAIN f => len = n)
    BY <1>1, <1>a, <1>3 DEF Blocks, ln
<1>5. PICK g : g = Drop(f, next)
    OBVIOUS
<1>6. DOMAIN g = DOMAIN f \ {p + n} /\ \A x \in DOMAIN g : g[x] = f[x]
    <2>1. DOMAIN g = DOMAIN f \ next /\ \A x \in DOMAIN f \ next : g[x] = f[x]
        BY <1>5, DropFacts
    <2>2. DOMAIN f \ next = DOMAIN f \ {p + n}
        BY <1>3
    <2>3. QED
        BY <2>1, <2>2
<1>7. CASE prev = {}
    <2>1. r = Put(g, p, len)
        BY <1>b, <1>5, <1>7, Zenon
    <2>2. DOMAIN r = DOMAIN g \cup {p} /\ r[p] = len /\ \A x \in DOMAIN g \ {p} : r[x] = g[x]
        <3>1. /\ DOMAIN Put(g, p, len) = DOMAIN g \cup {p}
              /\ Put(g, p, len)[p] = len
              /\ \A x \in DOMAIN g \ {p} : Put(g, p, len)[x] = g[x]
            BY SMT DEF Put
        <3>2. QED
            BY <3>1, <2>1
    <2>3. \A q \in DOMAIN f : q + f[q] # p
        BY <1>d, <1>7
    <2>4. p + len = p + n + (len - n) /\ p + n <= p + len
        BY <1>4
    <2>5. Joins(f, p, n, r, p, len)
        <3>1. DOMAIN r = (DOMAIN f \ {p + n}) \cup {p} /\ \A x \in DOMAIN f \ {p + n, p} : r[x] = f[x]
            BY <1>6, <2>2
        <3>2. (p + len = p + n /\ p + n \notin DOMAIN f) \/ (p + n \in DOMAIN f /\ p + len = p + n + f[p + n])
            BY <1>4, <2>4 DEF Blocks
        <3>3. QED
            BY <1>4, <2>2, <2>3, <2>4, <3>1, <3>2 DEF Joins
    <2>6. QED
        BY <2>5
<1>8. CASE prev # {}
    <2>1. PICK s : s = q0
        OBVIOUS
    <2>2. s \in DOMAIN f /\ s + f[s] = p
        BY <1>d, <1>e, <1>8, <2>1
    <2>3. PICK l : l = f[s] + len
        OBVIOUS
    <2>4. r = Put(g, s, l)
        BY <1>c, <1>5, <1>8, <2>1, <2>3, Zenon
    <2>5. DOMAIN r = DOMAIN g \cup {s} /\ r[s] = l /\ \A x \in DOMAIN g \ {s} : r[x] = g[x]
        <3>1. /\ DOMAIN Put(g, s, l) = DOMAIN g \cup {s}
              /\ Put(g, s, l)[s] = l
              /\ \A x \in DOMAIN g \ {s} : Put(g, s, l)[x] = g[x]
            BY SMT DEF Put
        <3>2. QED
            BY <3>1, <2>4
    <2>6. s \in Nat /\ f[s] \in Nat /\ f[s] > 0
        BY <2>2 DEF Blocks
    <2>7. l \in Nat /\ s <= p /\ s + l = p + len
        BY <1>4, <2>2, <2>3, <2>6
    <2>8. Joins(f, p, n, r, s, l)
        <3>1. DOMAIN r = (DOMAIN f \ {p + n}) \cup {s} /\ \A x \in DOMAIN f \ {p + n, s} : r[x] = f[x]
            BY <1>6, <2>5
        <3>2. (s + l = p + n /\ p + n \notin DOMAIN f) \/ (p + n \in DOMAIN f /\ s + l = p + n + f[p + n])
            BY <1>4, <2>7 DEF Blocks
        <3>3. p + n <= s + l
            BY <1>4, <2>7
        <3>4. QED
            BY <2>2, <2>5, <2>6, <2>7, <3>1, <3>2, <3>3 DEF Joins
    <2>9. QED
        BY <2>8
<1>9. QED
    BY <1>7, <1>8

(* A block put into the free list leaves it spread, and clear of what it   *)
(* was clear of.                                                           *)
LEMMA AddFree ==
    ASSUME NEW f, NEW top, Blocks(f, top), Spread(f), NEW p \in Nat, NEW n \in Nat, n > 0,
           p + n <= top, Clear(f, p, n), NEW r, r = add_free_block(f, p, n)
    PROVE  /\ Blocks(r, top) /\ Spread(r)
           /\ \A a \in Nat, m \in Nat : m > 0 /\ Clear(f, a, m) /\ (p + n <= a \/ a + m <= p) => Clear(r, a, m)
<1>1. PICK s, l : Joins(f, p, n, r, s, l)
    BY AddJoins
<1>2. s \in Nat /\ l \in Nat /\ s <= p /\ p + n <= s + l /\ l > 0
    BY <1>1 DEF Joins
<1>3. s + l <= top
    BY <1>1, <1>2 DEF Joins, Blocks
<1>4. Blocks(r, top)
    BY <1>1, <1>2, <1>3 DEF Joins, Blocks
<1>5. ASSUME NEW x \in DOMAIN f \ {p + n, s}
      PROVE  x + f[x] < s \/ s + l < x
    <2>1. x \in Nat /\ f[x] \in Nat /\ f[x] > 0 /\ x # p + n /\ x # s
        BY DEF Blocks
    <2>2. CASE x + f[x] <= p
        <3>1. CASE s = p /\ \A q \in DOMAIN f : q + f[q] # p
            BY <1>2, <2>1, <2>2, <3>1
        <3>2. CASE s \in DOMAIN f /\ s + f[s] = p
            <4>1. ~(s < x)
                BY <1>2, <2>1, <2>2, <3>2 DEF Spread, Blocks
            <4>2. QED
                BY <1>2, <2>1, <3>2, <4>1 DEF Spread
        <3>3. QED
            BY <1>1, <3>1, <3>2 DEF Joins
    <2>3. CASE p + n <= x
        <3>1. CASE s + l = p + n
            BY <1>2, <2>1, <2>3, <3>1
        <3>2. CASE p + n \in DOMAIN f /\ s + l = p + n + f[p + n]
            <4>1. p + n < x
                BY <2>1, <2>3
            <4>2. QED
                BY <3>2, <4>1 DEF Spread
        <3>3. QED
            BY <1>1, <3>1, <3>2 DEF Joins
    <2>4. QED
        BY <2>2, <2>3 DEF Clear
<1>6. Spread(r)
    <2>1. SUFFICES ASSUME NEW x \in DOMAIN r, NEW y \in DOMAIN r, x < y
                   PROVE  x + r[x] < y
        BY DEF Spread
    <2>2. x \in Nat /\ y \in Nat /\ r[x] \in Nat /\ r[y] \in Nat
        BY <1>4 DEF Blocks
    <2>3. \A z \in DOMAIN r : z # s => z \in DOMAIN f \ {p + n, s} /\ r[z] = f[z]
        BY <1>1 DEF Joins
    <2>4. r[s] = l
        BY <1>1 DEF Joins
    <2>5. CASE x = s
        BY <1>2, <1>5, <2>1, <2>2, <2>3, <2>4, <2>5
    <2>6. CASE y = s
        BY <1>2, <1>5, <2>1, <2>2, <2>3, <2>4, <2>6
    <2>7. CASE x # s /\ y # s
        BY <2>1, <2>3, <2>7 DEF Spread
    <2>8. QED
        BY <2>5, <2>6, <2>7
<1>7. ASSUME NEW a \in Nat, NEW m \in Nat, m > 0, Clear(f, a, m), p + n <= a \/ a + m <= p
      PROVE  Clear(r, a, m)
    <2>1. SUFFICES ASSUME NEW x \in DOMAIN r
                   PROVE  x + r[x] <= a \/ a + m <= x
        BY DEF Clear
    <2>2. CASE x # s
        BY <1>1, <1>7, <2>2 DEF Joins, Clear
    <2>3. CASE x = s
        <3>1. r[x] = l
            BY <1>1, <2>3 DEF Joins
        <3>2. CASE p + n <= a
            <4>1. CASE s + l = p + n
                BY <2>3, <3>1, <3>2, <4>1
            <4>2. CASE p + n \in DOMAIN f /\ s + l = p + n + f[p + n]
                <5>1. p + n + f[p + n] <= a \/ a + m <= p + n
                    BY <1>7, <4>2 DEF Clear
                <5>2. QED
                    BY <1>7, <2>3, <3>1, <3>2, <4>2, <5>1
            <4>3. QED
                BY <1>1, <4>1, <4>2 DEF Joins
        <3>3. CASE a + m <= p
            <4>1. CASE s = p
                BY <2>3, <3>3, <4>1
            <4>2. CASE s \in DOMAIN f /\ s + f[s] = p
                <5>1. p <= a \/ a + m <= s
                    BY <1>7, <4>2 DEF Clear
                <5>2. QED
                    BY <1>7, <2>3, <3>3, <5>1
            <4>3. QED
                BY <1>1, <4>1, <4>2 DEF Joins
        <3>4. QED
            BY <1>7, <3>2, <3>3
    <2>4. QED
        BY <2>2, <2>3
<1>8. QED
    BY <1>4, <1>6, <1>7

HeapOk(unused, used, top) ==
    /\ Blocks(unused, top) /\ Spread(unused)
    /\ Blocks(used, top) /\ Apart(used)
    /\ \A p \in DOMAIN used : Clear(unused, p, used[p])

(* A block of a table taken out, and one put into it.                      *)
LEMMA DropBlock ==
    ASSUME NEW f, NEW top, Blocks(f, top), NEW p, NEW g, g = Drop(f, {p})
    PROVE  /\ Blocks(g, top)
           /\ Spread(f) => Spread(g)
           /\ Apart(f) => Apart(g)
           /\ \A a, m : Clear(f, a, m) => Clear(g, a, m)
<1>1. DOMAIN g = DOMAIN f \ {p} /\ \A x \in DOMAIN g : g[x] = f[x]
    BY SMT DEF Drop
<1>2. QED
    BY <1>1 DEF Blocks, Spread, Apart, Clear

(* A block that overlaps none, put into a table.                           *)
LEMMA PutBlock ==
    ASSUME NEW f, NEW top, Blocks(f, top), Apart(f), NEW p \in Nat, NEW n \in Nat, n > 0, p + n <= top,
           \A q \in DOMAIN f : q + f[q] <= p \/ p + n <= q, NEW g, g = Put(f, p, n)
    PROVE  Blocks(g, top) /\ Apart(g)
<1>1. /\ DOMAIN g = DOMAIN f \cup {p} /\ g[p] = n
      /\ \A x \in DOMAIN f \ {p} : g[x] = f[x]
    BY SMT DEF Put
<1>2. Blocks(g, top)
    BY <1>1 DEF Blocks
<1>3. SUFFICES ASSUME NEW x \in DOMAIN g, NEW y \in DOMAIN g, x < y
               PROVE  x + g[x] <= y
    BY <1>2 DEF Apart
<1>4. x \in Nat /\ y \in Nat /\ g[x] \in Nat
    BY <1>2 DEF Blocks
<1>5. CASE x = p
    <2>1. y \in DOMAIN f /\ f[y] \in Nat /\ f[y] > 0
        BY <1>1, <1>3, <1>4, <1>5 DEF Blocks
    <2>2. QED
        BY <1>1, <1>3, <1>4, <1>5, <2>1
<1>6. CASE y = p
    <2>1. x \in DOMAIN f \ {p} /\ f[x] = g[x]
        BY <1>1, <1>3, <1>4, <1>6
    <2>2. QED
        BY <1>1, <1>3, <1>4, <1>6, <2>1
<1>7. CASE x # p /\ y # p
    BY <1>1, <1>3, <1>7 DEF Apart
<1>8. QED
    BY <1>5, <1>6, <1>7

(* What alloc_inner leaves in the free list is clear of what it hands out. *)
LEMMA RestFree ==
    ASSUME NEW f, NEW top, Blocks(f, top), Spread(f), NEW p \in DOMAIN f, NEW n \in Nat, n > 0, n <= f[p],
           NEW r, r = Rest(f, p, n)
    PROVE  /\ Blocks(r, top) /\ Spread(r) /\ Clear(r, p, n)
           /\ \A a \in Nat, m \in Nat : m > 0 /\ Clear(f, a, m) => Clear(r, a, m)
<1>1. PICK g : g = Drop(f, {p})
    OBVIOUS
<1>2. p \in Nat /\ f[p] \in Nat /\ f[p] > 0 /\ p + f[p] <= top /\ top \in Nat
    BY DEF Blocks
<1>3. Blocks(g, top) /\ Spread(g) /\ \A a, m : Clear(f, a, m) => Clear(g, a, m)
    BY <1>1, DropBlock
<1>4. \A q \in DOMAIN g : q + g[q] <= p \/ p + f[p] <= q
    <2>1. DOMAIN g = DOMAIN f \ {p} /\ \A x \in DOMAIN g : g[x] = f[x]
        BY <1>1, SMT DEF Drop
    <2>2. QED
        BY <1>2, <1>3, <2>1 DEF Spread, Blocks
<1>5. \A q \in DOMAIN g : q \in Nat /\ g[q] \in Nat
    BY <1>3 DEF Blocks
<1>6. CASE f[p] - n > 2
    <2>1. PICK a, m : a = p + n /\ m = f[p] - n
        OBVIOUS
    <2>2. a \in Nat /\ m \in Nat /\ m > 0 /\ a + m <= top /\ a + m = p + f[p]
        BY <1>2, <1>6, <2>1
    <2>3. r = add_free_block(g, a, m)
        BY <1>1, <1>6, <2>1 DEF Rest
    <2>4. Clear(g, a, m)
        BY <1>2, <1>4, <1>5, <2>1, <2>2 DEF Clear
    <2>5. /\ Blocks(r, top) /\ Spread(r)
          /\ \A b \in Nat, k \in Nat : k > 0 /\ Clear(g, b, k) /\ (a + m <= b \/ b + k <= a) => Clear(r, b, k)
        BY <1>3, <2>2, <2>3, <2>4, AddFree
    <2>6. Clear(g, p, n)
        BY <1>2, <1>4, <1>5 DEF Clear
    <2>7. Clear(r, p, n)
        BY <1>2, <2>1, <2>5, <2>6
    <2>8. ASSUME NEW b \in Nat, NEW k \in Nat, k > 0, Clear(f, b, k)
          PROVE  Clear(r, b, k)
        <3>1. p + f[p] <= b \/ b + k <= p
            BY <2>8 DEF Clear
        <3>2. a + m <= b \/ b + k <= a
            BY <1>2, <2>1, <2>2, <3>1
        <3>3. QED
            BY <1>3, <2>5, <2>8, <3>2
    <2>9. QED
        BY <2>5, <2>7, <2>8
<1>7. CASE ~(f[p] - n > 2)
    <2>1. r = g
        BY <1>1, <1>7 DEF Rest
    <2>2. Clear(g, p, n)
        BY <1>2, <1>4, <1>5 DEF Clear
    <2>3. QED
        BY <1>3, <2>1, <2>2
<1>8. QED
    BY <1>6, <1>7

(* The heap's blocks stay apart.                                           *)
LEMMA HeapAlloc ==
    ASSUME HeapOk(heapFree, heapUsed, heapBump), NEW n \in HeapSizes, heap_alloc(n), RangesAssumption
    PROVE  HeapOk(heapFree', heapUsed', heapBump')
<1>1. n \in Nat /\ n > 0
    BY DEF RangesAssumption
<1>2. Blocks(heapFree, heapBump) /\ Spread(heapFree) /\ Blocks(heapUsed, heapBump) /\ Apart(heapUsed)
      /\ \A p \in DOMAIN heapUsed : Clear(heapFree, p, heapUsed[p])
    BY DEF HeapOk
<1>3. \A p \in DOMAIN heapUsed : p \in Nat /\ heapUsed[p] \in Nat /\ heapUsed[p] > 0 /\ p + heapUsed[p] <= heapBump
    BY <1>2 DEF Blocks
<1>4. \A p \in DOMAIN heapFree : p \in Nat /\ heapFree[p] \in Nat /\ heapFree[p] > 0 /\ p + heapFree[p] <= heapBump
    BY <1>2 DEF Blocks
<1>0. PICK fits : fits = {p \in DOMAIN heapFree : heapFree[p] >= n}
    OBVIOUS
<1>5. CASE fits # {}
    <2>1. PICK p : p = Min(fits)
        OBVIOUS
    <2>2. heapFree' = Rest(heapFree, p, n) /\ heapUsed' = Put(heapUsed, p, n) /\ heapBump' = heapBump
        BY <1>0, <1>5, <2>1 DEF heap_alloc
    <2>3. fits \in SUBSET Nat
        BY <1>0, <1>4
    <2>4. p \in fits
        BY <1>5, <2>1, <2>3, MinIn
    <2>5. p \in DOMAIN heapFree /\ n <= heapFree[p]
        BY <1>0, <1>1, <1>4, <2>4
    <2>6. /\ Blocks(heapFree', heapBump) /\ Spread(heapFree') /\ Clear(heapFree', p, n)
          /\ \A a \in Nat, m \in Nat : m > 0 /\ Clear(heapFree, a, m) => Clear(heapFree', a, m)
        BY <1>1, <1>2, <2>2, <2>5, RestFree
    <2>7. p \in Nat /\ p + n <= heapBump
        BY <1>1, <1>2, <1>4, <2>5 DEF Blocks
    <2>8. \A q \in DOMAIN heapUsed : q + heapUsed[q] <= p \/ p + n <= q
        <3>1. SUFFICES ASSUME NEW q \in DOMAIN heapUsed PROVE q + heapUsed[q] <= p \/ p + n <= q
            OBVIOUS
        <3>2. p + heapFree[p] <= q \/ q + heapUsed[q] <= p
            BY <1>2, <2>5 DEF Clear
        <3>3. QED
            BY <1>1, <1>3, <1>4, <2>5, <3>2
    <2>9. Blocks(heapUsed', heapBump) /\ Apart(heapUsed')
        BY <1>1, <1>2, <2>2, <2>7, <2>8, PutBlock
    <2>10. ASSUME NEW q \in DOMAIN heapUsed' PROVE Clear(heapFree', q, heapUsed'[q])
        <3>1. DOMAIN heapUsed' = DOMAIN heapUsed \cup {p} /\ heapUsed'[p] = n
              /\ \A x \in DOMAIN heapUsed \ {p} : heapUsed'[x] = heapUsed[x]
            BY <2>2, SMT DEF Put
        <3>2. CASE q = p
            BY <2>6, <3>1, <3>2
        <3>3. CASE q # p
            BY <1>2, <1>3, <2>6, <3>1, <3>3
        <3>4. QED
            BY <3>2, <3>3
    <2>11. QED
        BY <2>2, <2>6, <2>9, <2>10 DEF HeapOk
<1>6. CASE fits = {}
    <2>2. heapFree' = heapFree /\ heapUsed' = Put(heapUsed, heapBump, n) /\ heapBump' = heapBump + n
        BY <1>0, <1>6 DEF heap_alloc
    <2>3. heapBump \in Nat
        BY <1>2 DEF Blocks
    <2>4. Blocks(heapFree, heapBump') /\ Blocks(heapUsed, heapBump')
        BY <1>1, <1>2, <2>2, <2>3 DEF Blocks
    <2>5. \A q \in DOMAIN heapUsed : q + heapUsed[q] <= heapBump
        BY <1>3
    <2>6. Blocks(heapUsed', heapBump') /\ Apart(heapUsed')
        <3>1. heapBump + n <= heapBump'
            BY <1>1, <2>2, <2>3
        <3>2. QED
            BY <1>1, <1>2, <2>2, <2>3, <2>4, <2>5, <3>1, PutBlock
    <2>7. ASSUME NEW q \in DOMAIN heapUsed' PROVE Clear(heapFree', q, heapUsed'[q])
        <3>1. DOMAIN heapUsed' = DOMAIN heapUsed \cup {heapBump} /\ heapUsed'[heapBump] = n
              /\ \A x \in DOMAIN heapUsed \ {heapBump} : heapUsed'[x] = heapUsed[x]
            BY <2>2, SMT DEF Put
        <3>2. CASE q = heapBump
            BY <1>4, <2>2, <3>1, <3>2 DEF Clear
        <3>3. CASE q # heapBump
            BY <1>2, <2>2, <3>1, <3>3
        <3>4. QED
            BY <3>2, <3>3
    <2>8. QED
        BY <1>2, <2>2, <2>4, <2>6, <2>7 DEF HeapOk
<1>7. QED
    BY <1>5, <1>6

(* Freeing a block keeps the heap in order.                                *)
LEMMA HeapDealloc ==
    ASSUME HeapOk(heapFree, heapUsed, heapBump), NEW p, heap_dealloc(p)
    PROVE  HeapOk(heapFree', heapUsed', heapBump')
<1>1. Blocks(heapFree, heapBump) /\ Spread(heapFree) /\ Blocks(heapUsed, heapBump) /\ Apart(heapUsed)
      /\ \A q \in DOMAIN heapUsed : Clear(heapFree, q, heapUsed[q])
    BY DEF HeapOk
<1>2. \A q \in DOMAIN heapUsed : q \in Nat /\ heapUsed[q] \in Nat /\ heapUsed[q] > 0 /\ q + heapUsed[q] <= heapBump
    BY <1>1 DEF Blocks
<1>3. PICK n : n = heapUsed[p]
    OBVIOUS
<1>4. p \in DOMAIN heapUsed /\ heapFree' = add_free_block(heapFree, p, n) /\ heapUsed' = Drop(heapUsed, {p})
      /\ heapBump' = heapBump
    BY <1>3 DEF heap_dealloc
<1>5. p \in Nat /\ n \in Nat /\ n > 0 /\ p + n <= heapBump /\ Clear(heapFree, p, n)
    BY <1>1, <1>2, <1>3, <1>4
<1>6. /\ Blocks(heapFree', heapBump) /\ Spread(heapFree')
      /\ \A a \in Nat, m \in Nat :
           m > 0 /\ Clear(heapFree, a, m) /\ (p + n <= a \/ a + m <= p) => Clear(heapFree', a, m)
    BY <1>1, <1>4, <1>5, AddFree
<1>7. Blocks(heapUsed', heapBump) /\ Apart(heapUsed')
    BY <1>1, <1>4, DropBlock
<1>8. ASSUME NEW q \in DOMAIN heapUsed' PROVE Clear(heapFree', q, heapUsed'[q])
    <2>1. DOMAIN heapUsed' = DOMAIN heapUsed \ {p} /\ \A x \in DOMAIN heapUsed' : heapUsed'[x] = heapUsed[x]
        BY <1>4, SMT DEF Drop
    <2>2. q \in DOMAIN heapUsed /\ q # p /\ heapUsed'[q] = heapUsed[q]
        BY <2>1
    <2>3. p + n <= q \/ q + heapUsed[q] <= p
        BY <1>1, <1>2, <1>3, <1>4, <2>2 DEF Apart
    <2>4. QED
        BY <1>1, <1>2, <1>6, <2>2, <2>3
<1>9. QED
    BY <1>4, <1>6, <1>7, <1>8 DEF HeapOk

(* The heap's invariant is what the run checks.                            *)
LEMMA HeapOkSound ==
    ASSUME HeapOk(heapFree, heapUsed, heapBump)
    PROVE  HeapSound
<1>2. \A q \in DOMAIN heapUsed : q \in Nat /\ heapUsed[q] \in Nat /\ heapUsed[q] > 0
    BY DEF HeapOk, Blocks
<1>3. \A q \in DOMAIN heapFree : q \in Nat /\ heapFree[q] \in Nat /\ heapFree[q] > 0
    BY DEF HeapOk, Blocks
<1>4. ASSUME NEW p \in DOMAIN heapUsed, NEW q \in DOMAIN heapUsed, p # q
      PROVE  ~Overlap(p, heapUsed[p], q, heapUsed[q])
    BY <1>2, <1>4 DEF HeapOk, Apart, Overlap
<1>5. ASSUME NEW p \in DOMAIN heapUsed, NEW q \in DOMAIN heapFree
      PROVE  ~Overlap(p, heapUsed[p], q, heapFree[q])
    BY <1>2, <1>3 DEF HeapOk, Clear, Overlap
<1>6. ASSUME NEW p \in DOMAIN heapFree, NEW q \in DOMAIN heapFree, p # q
      PROVE  ~Overlap(p, heapFree[p] + 1, q, heapFree[q])
    BY <1>3, <1>6 DEF HeapOk, Spread, Overlap
<1>7. QED
    BY <1>4, <1>5, <1>6 DEF HeapSound

(* The window of device registers and the mappings drivers hold.           *)
WinOk(vr, io, rg) ==
    /\ Blocks(vr, WindowUnits) /\ Apart(vr)
    /\ DOMAIN io \subseteq Drivers
    /\ \A d \in DOMAIN io : io[d].virt \in DOMAIN vr /\ io[d].size = vr[io[d].virt]
    /\ \A v \in DOMAIN vr : \E d \in DOMAIN io : io[d].virt = v
    /\ \A d, e \in DOMAIN io : d # e => io[d].virt # io[e].virt
    /\ \A r \in rg : \E d \in DOMAIN io : DeviceRange(d) = r

(* alloc_kernel_virtual returns a range that overlaps none.                *)
LEMMA GapFound ==
    ASSUME Blocks(vranges, WindowUnits), NEW n \in Nat, n > 0, NEW v, v = FirstGap(n), v # -1
    PROVE  /\ v \in Nat /\ v + n <= WindowUnits
           /\ \A q \in DOMAIN vranges : q + vranges[q] <= v \/ v + n <= q
<1>. DEFINE ends == {0} \cup {q + vranges[q] : q \in DOMAIN vranges}
            gaps == {e \in ends : e + n <= WindowUnits /\ \A q \in DOMAIN vranges : ~Overlap(e, n, q, vranges[q])}
<1>1. v = IF gaps = {} THEN -1 ELSE Min(gaps)
    BY DEF FirstGap
<1>2. \A q \in DOMAIN vranges : q \in Nat /\ vranges[q] \in Nat /\ vranges[q] > 0
    BY DEF Blocks
<1>3. gaps \in SUBSET Nat
    BY <1>2
<1>4. v \in gaps
    BY <1>1, <1>3, MinIn
<1>5. QED
    BY <1>2, <1>3, <1>4 DEF Overlap, Blocks

(* A driver's probe, with or without room in the window.                   *)
LEMMA MapResource ==
    ASSUME WinOk(vranges, ioMaps, ranges), NEW d \in Drivers, map_resource(d), RangesAssumption
    PROVE  WinOk(vranges', ioMaps', ranges')
<1>1. PICK r : r = DeviceRange(d)
    OBVIOUS
<1>2. PICK n : n = r.size
    OBVIOUS
<1>3. n \in Nat /\ n > 0
    BY <1>1, <1>2 DEF DeviceRange, RangesAssumption
<1>4. PICK v : v = FirstGap(n)
    OBVIOUS
<1>5. CASE v = -1
    <2>1. ranges' \subseteq ranges /\ vranges' = vranges /\ ioMaps' = ioMaps
        BY <1>1, <1>2, <1>4, <1>5 DEF map_resource, Undo
    <2>2. QED
        BY <2>1 DEF WinOk
<1>6. CASE v # -1
    <2>1. /\ ranges' = ranges \cup {r}
          /\ vranges' = Put(vranges, v, n)
          /\ ioMaps' = Put(ioMaps, d, [virt |-> v, size |-> n])
          /\ d \notin DOMAIN ioMaps
        BY <1>1, <1>2, <1>4, <1>6 DEF map_resource
    <2>2. Blocks(vranges, WindowUnits) /\ Apart(vranges)
        BY DEF WinOk
    <2>3. /\ v \in Nat /\ v + n <= WindowUnits
          /\ \A q \in DOMAIN vranges : q + vranges[q] <= v \/ v + n <= q
        BY <1>3, <1>4, <1>6, <2>2, GapFound
    <2>4. Blocks(vranges', WindowUnits) /\ Apart(vranges')
        BY <1>3, <2>1, <2>2, <2>3, PutBlock
    <2>5. DOMAIN vranges' = DOMAIN vranges \cup {v} /\ vranges'[v] = n
          /\ \A x \in DOMAIN vranges \ {v} : vranges'[x] = vranges[x]
        BY <2>1, SMT DEF Put
    <2>6. DOMAIN ioMaps' = DOMAIN ioMaps \cup {d} /\ ioMaps'[d] = [virt |-> v, size |-> n]
          /\ \A x \in DOMAIN ioMaps : ioMaps'[x] = ioMaps[x]
        BY <2>1, SMT DEF Put
    <2>7. v \notin DOMAIN vranges
        BY <1>3, <2>2, <2>3 DEF Blocks
    <2>8. \A e \in DOMAIN ioMaps : ioMaps[e].virt \in DOMAIN vranges /\ ioMaps[e].virt # v
        BY <2>7 DEF WinOk
    <2>9. \A e \in DOMAIN ioMaps' : ioMaps'[e].virt \in DOMAIN vranges' /\ ioMaps'[e].size = vranges'[ioMaps'[e].virt]
        BY <2>5, <2>6, <2>8 DEF WinOk
    <2>10. \A x \in DOMAIN vranges' : \E e \in DOMAIN ioMaps' : ioMaps'[e].virt = x
        BY <2>5, <2>6 DEF WinOk
    <2>11. \A e, g \in DOMAIN ioMaps' : e # g => ioMaps'[e].virt # ioMaps'[g].virt
        BY <2>6, <2>8 DEF WinOk
    <2>12. \A x \in ranges' : \E e \in DOMAIN ioMaps' : DeviceRange(e) = x
        BY <1>1, <2>1, <2>6 DEF WinOk
    <2>13. DOMAIN ioMaps' \subseteq Drivers
        BY <2>6 DEF WinOk
    <2>14. QED
        BY <2>4, <2>9, <2>10, <2>11, <2>12, <2>13 DEF WinOk
<1>7. QED
    BY <1>5, <1>6

(* A driver's mapping dropped.                                             *)
LEMMA ReleaseOwned ==
    ASSUME WinOk(vranges, ioMaps, ranges), NEW d, release_owned(d)
    PROVE  WinOk(vranges', ioMaps', ranges')
<1>1. PICK v : v = ioMaps[d].virt
    OBVIOUS
<1>2. /\ d \in DOMAIN ioMaps
      /\ vranges' = Drop(vranges, {v}) /\ ioMaps' = Drop(ioMaps, {d})
      /\ ranges' = ranges \ {DeviceRange(d)}
    BY <1>1 DEF release_owned
<1>3. DOMAIN vranges' = DOMAIN vranges \ {v} /\ \A x \in DOMAIN vranges' : vranges'[x] = vranges[x]
    BY <1>2, SMT DEF Drop
<1>4. DOMAIN ioMaps' = DOMAIN ioMaps \ {d} /\ \A x \in DOMAIN ioMaps' : ioMaps'[x] = ioMaps[x]
    BY <1>2, SMT DEF Drop
<1>5. Blocks(vranges', WindowUnits) /\ Apart(vranges')
    <2>1. Blocks(vranges, WindowUnits) /\ Apart(vranges)
        BY DEF WinOk
    <2>2. QED
        BY <1>2, <2>1, DropBlock
<1>6. \A e \in DOMAIN ioMaps' : ioMaps'[e].virt # v /\ ioMaps'[e] = ioMaps[e] /\ e \in DOMAIN ioMaps
    <2>1. \A e \in DOMAIN ioMaps : e # d => ioMaps[e].virt # v
        BY <1>1, <1>2 DEF WinOk
    <2>2. QED
        BY <1>4, <2>1
<1>7. \A e \in DOMAIN ioMaps' : ioMaps'[e].virt \in DOMAIN vranges' /\ ioMaps'[e].size = vranges'[ioMaps'[e].virt]
    BY <1>3, <1>6 DEF WinOk
<1>8. \A x \in DOMAIN vranges' : \E e \in DOMAIN ioMaps' : ioMaps'[e].virt = x
    BY <1>1, <1>3, <1>4 DEF WinOk
<1>9. \A e, g \in DOMAIN ioMaps' : e # g => ioMaps'[e].virt # ioMaps'[g].virt
    BY <1>6 DEF WinOk
<1>10. \A x \in ranges' : \E e \in DOMAIN ioMaps' : DeviceRange(e) = x
    BY <1>2, <1>4 DEF WinOk
<1>11. DOMAIN ioMaps' \subseteq Drivers
    BY <1>4 DEF WinOk
<1>12. QED
    BY <1>5, <1>7, <1>8, <1>9, <1>10, <1>11 DEF WinOk

(* The window's invariant is what the run checks.                          *)
LEMMA WinOkExact ==
    ASSUME WinOk(vranges, ioMaps, ranges)
    PROVE  WindowExact /\ NoOrphanRange
<1>1. \A v \in DOMAIN vranges : v \in Nat /\ vranges[v] \in Nat /\ vranges[v] > 0
    BY DEF WinOk, Blocks
<1>2. ASSUME NEW d \in DOMAIN ioMaps, NEW e \in DOMAIN ioMaps, d # e
      PROVE  ~Overlap(ioMaps[d].virt, ioMaps[d].size, ioMaps[e].virt, ioMaps[e].size)
    <2>1. PICK a, b : a = ioMaps[d].virt /\ b = ioMaps[e].virt
        OBVIOUS
    <2>2. /\ a \in DOMAIN vranges /\ b \in DOMAIN vranges /\ a # b
          /\ ioMaps[d].size = vranges[a] /\ ioMaps[e].size = vranges[b]
        BY <1>2, <2>1 DEF WinOk
    <2>3. ~Overlap(a, vranges[a], b, vranges[b])
        BY <1>1, <2>2 DEF WinOk, Apart, Overlap
    <2>4. QED
        BY <2>1, <2>2, <2>3
<1>3. DOMAIN vranges = {ioMaps[d].virt : d \in DOMAIN ioMaps}
    BY DEF WinOk
<1>4. QED
    BY <1>2, <1>3 DEF WindowExact, NoOrphanRange, WinOk

(***************************************************************************)
(* Frames.                                                                 *)
(***************************************************************************)
InUse(a) == {f \in Nat : f < a.bump /\ f \notin a.free}
Pool(a) == a.bump \in Nat /\ a.free \in SUBSET Nat /\ (\A f \in a.free : f < a.bump)
           /\ a = [bump |-> a.bump, free |-> a.free]

(* alloc_frame takes a frame nobody uses.                                  *)
LEMMA TakeOne ==
    ASSUME NEW a, Pool(a), NEW f \in alloc_frames(a), NEW b, b = Took(a, f)
    PROVE  f \in Nat /\ f \notin InUse(a) /\ Pool(b) /\ InUse(b) = InUse(a) \cup {f}
<1>1. CASE a.free # {}
    <2>1. f \in a.free /\ b = [a EXCEPT !.free = @ \ {f}]
        BY <1>1 DEF alloc_frames, Took
    <2>2. b.bump = a.bump /\ b.free = a.free \ {f} /\ b = [bump |-> b.bump, free |-> b.free]
        BY <2>1 DEF Pool
    <2>3. QED
        BY <2>1, <2>2 DEF Pool, InUse
<1>2. CASE a.free = {}
    <2>1. f = a.bump /\ b = [a EXCEPT !.bump = @ + 1]
        BY <1>2 DEF alloc_frames, Took
    <2>2. b.bump = a.bump + 1 /\ b.free = a.free /\ b = [bump |-> b.bump, free |-> b.free]
        BY <2>1 DEF Pool
    <2>3. QED
        BY <1>2, <2>1, <2>2 DEF Pool, InUse
<1>3. QED
    BY <1>1, <1>2

(* free_phys_frame frees what it is given.                                 *)
LEMMA GiveBack ==
    ASSUME NEW a, Pool(a), NEW T \in SUBSET Nat, NEW b, b = Freed(a, T)
    PROVE  Pool(b) /\ InUse(b) = InUse(a) \ T
<1>1. b.bump = a.bump /\ b.free = a.free \cup {f \in T : f < a.bump} /\ b = [bump |-> b.bump, free |-> b.free]
    BY DEF Freed, Pool
<1>2. QED
    BY <1>1 DEF Pool, InUse

(* Rounding up does not go below.                                          *)
LEMMA AlignUpBound ==
    ASSUME NEW f \in Nat, NEW al \in Nat \ {0}
    PROVE  AlignUp(f, al) \in Nat /\ AlignUp(f, al) >= f
<1>1. PICK x : x = f + al - 1
    OBVIOUS
<1>2. PICK q : q = x \div al
    OBVIOUS
<1>3. x \in Nat /\ x >= al - 1 /\ q \in Int
    BY <1>1, <1>2
<1>4. al * q <= x /\ x < al * (q + 1)
    BY <1>2, <1>3
<1>5. al * (q + 1) = al * q + al
    BY <1>3
<1>6. q * al = al * q /\ q * al \in Int
    BY <1>3
<1>7. q * al >= f
    BY <1>1, <1>3, <1>4, <1>5, <1>6
<1>8. QED
    BY <1>1, <1>2, <1>6, <1>7 DEF AlignUp

(* alloc_contiguous_frames_aligned_below takes frames nobody uses, and the *)
(* frames it skips are free.                                               *)
LEMMA TakeRun ==
    ASSUME NEW a, Pool(a), NEW n \in Nat \ {0}, NEW al \in Nat \ {0}, TotalFrames \in Nat,
           NEW s, s = contiguous(a, n, al), s # -1, NEW b, b = TookRun(a, s, n)
    PROVE  /\ s \in Nat /\ Pool(b) /\ FrameRun(s, n) \cap InUse(a) = {}
           /\ InUse(b) = InUse(a) \cup FrameRun(s, n)
<1>. DEFINE starts == {x \in a.free : x - 1 \notin a.free}
            fits == {x \in starts : FrameRun(AlignUp(x, al), n) \subseteq a.free
                                /\ FrameRun(x, AlignUp(x, al) - x) \subseteq a.free}
<1>1. PICK r : r = ReusableRun(a, n, al)
    OBVIOUS
<1>2. r = IF fits = {} THEN -1 ELSE AlignUp(Min(fits), al)
    BY <1>1 DEF ReusableRun
<1>3. fits \in SUBSET Nat
    BY DEF Pool
<1>4. CASE r # -1
    <2>1. PICK m : m = Min(fits)
        OBVIOUS
    <2>2. m \in fits
        BY <1>2, <1>3, <1>4, <2>1, MinIn
    <2>3. s = r /\ r = AlignUp(m, al)
        BY <1>1, <1>2, <1>4, <2>1 DEF contiguous
    <2>4. m \in Nat /\ s \in Nat
        BY <1>3, <2>2, <2>3, AlignUpBound
    <2>5. FrameRun(s, n) \subseteq a.free
        BY <2>2, <2>3
    <2>6. s \in a.free
        BY <2>4, <2>5 DEF FrameRun
    <2>7. s < a.bump
        BY <2>6 DEF Pool
    <2>8. b = [a EXCEPT !.free = @ \ FrameRun(s, n)]
        BY <2>7 DEF TookRun
    <2>9. b.bump = a.bump /\ b.free = a.free \ FrameRun(s, n) /\ b = [bump |-> b.bump, free |-> b.free]
        BY <2>8 DEF Pool
    <2>10. QED
        BY <2>4, <2>5, <2>9 DEF Pool, InUse
<1>5. CASE r = -1
    <2>1. s = AlignUp(a.bump, al)
        BY <1>1, <1>5 DEF contiguous
    <2>2. s \in Nat /\ s >= a.bump /\ a.bump \in Nat
        BY <2>1, AlignUpBound DEF Pool
    <2>3. b = [bump |-> s + n, free |-> a.free \cup (a.bump .. s - 1)]
        BY <2>2 DEF TookRun
    <2>4. b.bump = s + n /\ b.free = a.free \cup (a.bump .. s - 1) /\ b = [bump |-> b.bump, free |-> b.free]
        BY <2>3
    <2>5. QED
        BY <2>2, <2>4 DEF Pool, InUse, FrameRun
<1>6. QED
    BY <1>4, <1>5

(* Who holds a frame, by kind; the pages that map it, as pairs.            *)
InCache(C, f) == {<<"cache", k>> : k \in {j \in DOMAIN C : C[j].frame = f}}
InRead(A, f) == {<<"reading", t>> : t \in {u \in DOMAIN A : A[u].frame = f}}
InDir(M, f) == {<<"pd", t>> : t \in {u \in DOMAIN M : M[u].pd = f}}
InStack(M, f) == {<<"stack", t>> : t \in {u \in DOMAIN M : f \in FrameRun(M[u].stack, StackFrames)}}
InDma(D, f) == {<<"dma", 0>> : x \in {y \in {f} : y \in D}}
Maps(M, f) == {tv \in (DOMAIN M) \X FrPages : tv[2] \in DOMAIN M[tv[1]].pages /\ M[tv[1]].pages[tv[2]] = f}
InPage(M, C, f) ==
    IF \E k \in DOMAIN C : C[k].frame = f THEN {} ELSE {<<"page", tv[1], tv[2]>> : tv \in Maps(M, f)}
HeldBy(M, C, A, D, f) ==
    InCache(C, f) \cup InRead(A, f) \cup InDir(M, f) \cup InStack(M, f) \cup InDma(D, f) \cup InPage(M, C, f)

(* The kind of a holder can be told from it.                               *)
LEMMA TagsDiffer ==
    ASSUME NEW M, NEW C, NEW A, NEW D, NEW f
    PROVE  /\ \A h \in InCache(C, f) : h[1] = "cache"
           /\ \A h \in InRead(A, f) : h[1] = "reading"
           /\ \A h \in InDir(M, f) : h[1] = "pd"
           /\ \A h \in InStack(M, f) : h[1] = "stack"
           /\ \A h \in InDma(D, f) : h[1] = "dma"
           /\ \A h \in InPage(M, C, f) : h[1] = "page"
<1>1. \A h \in InCache(C, f) : h[1] = "cache"
    BY DEF InCache
<1>2. \A h \in InRead(A, f) : h[1] = "reading"
    BY DEF InRead
<1>3. \A h \in InDir(M, f) : h[1] = "pd"
    BY DEF InDir
<1>4. \A h \in InStack(M, f) : h[1] = "stack"
    BY DEF InStack
<1>5. \A h \in InDma(D, f) : h[1] = "dma"
    BY DEF InDma
<1>6. \A h \in InPage(M, C, f) : h[1] = "page"
    BY DEF InPage
<1>7. QED
    BY <1>1, <1>2, <1>3, <1>4, <1>5, <1>6

(* When a frame has one holder, the other kinds hold it not.               *)
LEMMA OnlyKind ==
    ASSUME NEW M, NEW C, NEW A, NEW D, NEW f, NEW h, HeldBy(M, C, A, D, f) = {h}
    PROVE  /\ h[1] # "cache" => InCache(C, f) = {}
           /\ h[1] # "reading" => InRead(A, f) = {}
           /\ h[1] # "pd" => InDir(M, f) = {}
           /\ h[1] # "stack" => InStack(M, f) = {}
           /\ h[1] # "dma" => InDma(D, f) = {}
           /\ h[1] # "page" => InPage(M, C, f) = {}
<1>1. \A x \in HeldBy(M, C, A, D, f) : x = h
    OBVIOUS
<1>2. QED
    BY <1>1, TagsDiffer DEF HeldBy

(* The types of the tables.                                                *)
TablesOk(M, C, A, D) ==
    /\ DOMAIN M \subseteq FrTasks
    /\ \A t \in DOMAIN M :
         /\ M[t] = [pd |-> M[t].pd, stack |-> M[t].stack, pages |-> M[t].pages]
         /\ M[t].pd \in Nat /\ M[t].stack \in Nat
         /\ DOMAIN M[t].pages \subseteq FrPages
         /\ \A v \in DOMAIN M[t].pages : M[t].pages[v] \in Nat
    /\ \A k \in DOMAIN C : C[k] = [frame |-> C[k].frame, refs |-> C[k].refs] /\ C[k].frame \in Nat
    /\ \A t \in DOMAIN A : /\ t \in DOMAIN M /\ A[t].frame \in Nat
                           /\ A[t].page \in FrPages /\ A[t].page \notin DOMAIN M[t].pages
    /\ D \in SUBSET Nat

OneHolder(a, M, C, A, D) ==
    \A f \in Nat : IF f \in InUse(a) THEN \E h : HeldBy(M, C, A, D, f) = {h} ELSE HeldBy(M, C, A, D, f) = {}

RefsOk(M, C) == \A k \in DOMAIN C : C[k].refs = Cardinality(Maps(M, C[k].frame)) /\ C[k].refs # 0

FrOk(a, M, C, A, D) == Pool(a) /\ TablesOk(M, C, A, D) /\ OneHolder(a, M, C, A, D) /\ RefsOk(M, C)

(* Who holds a frame holds it alone.                                       *)
LEMMA HolderOf ==
    ASSUME NEW a, NEW M, NEW C, NEW A, NEW D, OneHolder(a, M, C, A, D),
           NEW f \in Nat, NEW h, h \in HeldBy(M, C, A, D, f)
    PROVE  f \in InUse(a) /\ HeldBy(M, C, A, D, f) = {h}
    BY DEF OneHolder

(* Nobody holds a frame that is not in use.                                *)
LEMMA FreeNotHeld ==
    ASSUME NEW a, NEW M, NEW C, NEW A, NEW D, OneHolder(a, M, C, A, D), NEW f \in Nat, f \notin InUse(a)
    PROVE  /\ HeldBy(M, C, A, D, f) = {}
           /\ InCache(C, f) = {} /\ InRead(A, f) = {} /\ InDir(M, f) = {} /\ InStack(M, f) = {}
           /\ InDma(D, f) = {} /\ InPage(M, C, f) = {} /\ \A k \in DOMAIN C : C[k].frame # f
<1>1. HeldBy(M, C, A, D, f) = {}
    BY DEF OneHolder
<1>2. InCache(C, f) = {} /\ InRead(A, f) = {} /\ InDir(M, f) = {} /\ InStack(M, f) = {}
           /\ InDma(D, f) = {} /\ InPage(M, C, f) = {}
    BY <1>1 DEF HeldBy
<1>3. \A k \in DOMAIN C : C[k].frame # f
    BY <1>2 DEF InCache
<1>4. QED
    BY <1>1, <1>2, <1>3

(* The pages of a frame are a finite set.                                  *)
LEMMA MapsFinite ==
    ASSUME FramesAssumption, NEW M, DOMAIN M \subseteq FrTasks, NEW f
    PROVE  IsFiniteSet(Maps(M, f)) /\ Cardinality(Maps(M, f)) \in Nat
<1>1. IsFiniteSet(FrTasks \X FrPages)
    BY FS_Product DEF FramesAssumption
<1>2. Maps(M, f) \in SUBSET (FrTasks \X FrPages)
    BY DEF Maps
<1>3. IsFiniteSet(Maps(M, f))
    BY <1>1, <1>2, FS_Subset
<1>4. QED
    BY <1>3, FS_CardinalityType

MemOk(M) ==
    /\ DOMAIN M \subseteq FrTasks
    /\ \A t \in DOMAIN M :
         /\ M[t] = [pd |-> M[t].pd, stack |-> M[t].stack, pages |-> M[t].pages]
         /\ M[t].pd \in Nat /\ M[t].stack \in Nat
         /\ DOMAIN M[t].pages \subseteq FrPages
         /\ \A v \in DOMAIN M[t].pages : M[t].pages[v] \in Nat

SamePairs(X, Y, P, Q) ==
    /\ P \in SUBSET (X \X Y) /\ Q \in SUBSET (X \X Y)
    /\ \A x \in X, y \in Y : <<x, y>> \in P <=> <<x, y>> \in Q

(* Sets of pairs with the same pairs are equal.                            *)
LEMMA PairSets ==
    ASSUME NEW X, NEW Y, NEW P, NEW Q, SamePairs(X, Y, P, Q)
    PROVE  P = Q
<1>1. \A z \in X \X Y : \E x \in X, y \in Y : z = <<x, y>>
    OBVIOUS
<1>2. ASSUME NEW z \in X \X Y PROVE z \in P <=> z \in Q
    BY <1>1 DEF SamePairs
<1>3. QED
    BY <1>2 DEF SamePairs

(* The mappings of a frame are pairs of a task and a page.                 *)
LEMMA MapsPairs ==
    ASSUME NEW M, NEW f
    PROVE  Maps(M, f) \in SUBSET ((DOMAIN M) \X FrPages)
    BY DEF Maps

PageAdded(M, t, v, x, N) ==
    /\ MemOk(M) /\ t \in DOMAIN M /\ v \in FrPages /\ v \notin DOMAIN M[t].pages /\ x \in Nat
    /\ N = [M EXCEPT ![t].pages = Put(@, v, x)]

PageMapped(M, t, v, x, N) ==
    /\ MemOk(N) /\ DOMAIN N = DOMAIN M
    /\ \A u \in DOMAIN M : u # t => N[u] = M[u]
    /\ \A f : Maps(N, f) = IF f = x THEN Maps(M, f) \cup {<<t, v>>} ELSE Maps(M, f)
    /\ \A f : <<t, v>> \notin Maps(M, f)
    /\ \A f : InDir(N, f) = InDir(M, f) /\ InStack(N, f) = InStack(M, f)

(* A page mapped by a task.                                                *)
LEMMA MapPage ==
    ASSUME NEW M, NEW t, NEW v, NEW x, NEW N, PageAdded(M, t, v, x, N)
    PROVE  PageMapped(M, t, v, x, N)
<1>0. /\ MemOk(M) /\ t \in DOMAIN M /\ v \in FrPages /\ v \notin DOMAIN M[t].pages /\ x \in Nat
      /\ N = [M EXCEPT ![t].pages = Put(@, v, x)]
    BY DEF PageAdded
<1>1. PICK pg : pg = Put(M[t].pages, v, x)
    OBVIOUS
<1>2. DOMAIN pg = DOMAIN M[t].pages \cup {v} /\ pg[v] = x /\ \A w \in DOMAIN M[t].pages : pg[w] = M[t].pages[w]
    BY <1>0, <1>1, SMT DEF Put
<1>3. DOMAIN N = DOMAIN M /\ (\A u \in DOMAIN M : u # t => N[u] = M[u]) /\ N[t] = [M[t] EXCEPT !.pages = pg]
    BY <1>0, <1>1
<1>4. N[t].pd = M[t].pd /\ N[t].stack = M[t].stack /\ N[t].pages = pg
      /\ N[t] = [pd |-> N[t].pd, stack |-> N[t].stack, pages |-> N[t].pages]
    <2>1. M[t] = [pd |-> M[t].pd, stack |-> M[t].stack, pages |-> M[t].pages]
        BY <1>0 DEF MemOk
    <2>2. QED
        BY <1>3, <2>1
<1>5. MemOk(N)
    BY <1>0, <1>2, <1>3, <1>4 DEF MemOk
<1>6. \A u \in DOMAIN M : N[u].pd = M[u].pd /\ N[u].stack = M[u].stack
    BY <1>0, <1>3, <1>4
<1>7. \A f : InDir(N, f) = InDir(M, f)
    BY <1>3, <1>6 DEF InDir
<1>8. \A f : InStack(N, f) = InStack(M, f)
    BY <1>3, <1>6 DEF InStack
<1>9. \A f : <<t, v>> \notin Maps(M, f)
    BY <1>0 DEF Maps
<1>10. ASSUME NEW f PROVE Maps(N, f) = IF f = x THEN Maps(M, f) \cup {<<t, v>>} ELSE Maps(M, f)
    <2>1. ASSUME NEW u \in DOMAIN M, NEW w \in FrPages
          PROVE  <<u, w>> \in Maps(N, f) <=> <<u, w>> \in Maps(M, f) \/ (f = x /\ u = t /\ w = v)
        <3>1. <<u, w>> \in Maps(N, f) <=> w \in DOMAIN N[u].pages /\ N[u].pages[w] = f
            BY <1>3 DEF Maps
        <3>2. <<u, w>> \in Maps(M, f) <=> w \in DOMAIN M[u].pages /\ M[u].pages[w] = f
            BY DEF Maps
        <3>3. QED
            BY <1>0, <1>2, <1>3, <1>4, <3>1, <3>2
    <2>2. PICK Q : Q = IF f = x THEN Maps(M, f) \cup {<<t, v>>} ELSE Maps(M, f)
        OBVIOUS
    <2>3. Maps(N, f) \in SUBSET ((DOMAIN M) \X FrPages)
        BY MapsPairs, <1>3
    <2>4. Q \in SUBSET ((DOMAIN M) \X FrPages)
        BY <1>0, MapsPairs, <2>2
    <2>5. \A u \in DOMAIN M, w \in FrPages : <<u, w>> \in Maps(N, f) <=> <<u, w>> \in Q
        BY <2>1, <2>2
    <2>6. Maps(N, f) = Q
        <3>1. SamePairs(DOMAIN M, FrPages, Maps(N, f), Q)
            BY <2>3, <2>4, <2>5 DEF SamePairs
        <3>2. QED
            BY <3>1, PairSets, Zenon
    <2>7. QED
        BY <2>2, <2>6
<1>11. QED
    BY <1>3, <1>5, <1>7, <1>8, <1>9, <1>10 DEF PageMapped

PagesCut(M, t, vs, N) ==
    MemOk(M) /\ t \in DOMAIN M /\ N = [M EXCEPT ![t].pages = Drop(@, vs)]
PagesUnmapped(M, t, vs, N) ==
    /\ MemOk(N) /\ DOMAIN N = DOMAIN M
    /\ \A u \in DOMAIN M : u # t => N[u] = M[u]
    /\ \A f : Maps(N, f) = Maps(M, f) \ ({t} \X vs)
    /\ \A f : InDir(N, f) = InDir(M, f) /\ InStack(N, f) = InStack(M, f)

(* Pages vs of a task unmapped.                                            *)
LEMMA UnmapPages ==
    ASSUME NEW M, NEW t, NEW vs, NEW N, PagesCut(M, t, vs, N)
    PROVE  PagesUnmapped(M, t, vs, N)
<1>0. MemOk(M) /\ t \in DOMAIN M /\ N = [M EXCEPT ![t].pages = Drop(@, vs)]
    BY DEF PagesCut
<1>1. PICK pg : pg = Drop(M[t].pages, vs)
    OBVIOUS
<1>2. DOMAIN pg = DOMAIN M[t].pages \ vs /\ \A w \in DOMAIN pg : pg[w] = M[t].pages[w]
    BY <1>1, SMT DEF Drop
<1>3. DOMAIN N = DOMAIN M /\ (\A u \in DOMAIN M : u # t => N[u] = M[u]) /\ N[t] = [M[t] EXCEPT !.pages = pg]
    BY <1>0, <1>1
<1>4. N[t].pd = M[t].pd /\ N[t].stack = M[t].stack /\ N[t].pages = pg
      /\ N[t] = [pd |-> N[t].pd, stack |-> N[t].stack, pages |-> N[t].pages]
    <2>1. M[t] = [pd |-> M[t].pd, stack |-> M[t].stack, pages |-> M[t].pages]
        BY <1>0 DEF MemOk
    <2>2. QED
        BY <1>3, <2>1
<1>5. MemOk(N)
    BY <1>0, <1>2, <1>3, <1>4 DEF MemOk
<1>6. \A u \in DOMAIN M : N[u].pd = M[u].pd /\ N[u].stack = M[u].stack
    BY <1>3, <1>4
<1>7. \A f : InDir(N, f) = InDir(M, f)
    BY <1>3, <1>6 DEF InDir
<1>8. \A f : InStack(N, f) = InStack(M, f)
    BY <1>3, <1>6 DEF InStack
<1>10. ASSUME NEW f PROVE Maps(N, f) = Maps(M, f) \ ({t} \X vs)
    <2>1. ASSUME NEW u \in DOMAIN M, NEW w \in FrPages
          PROVE  <<u, w>> \in Maps(N, f) <=> <<u, w>> \in Maps(M, f) /\ ~(u = t /\ w \in vs)
        <3>1. <<u, w>> \in Maps(N, f) <=> w \in DOMAIN N[u].pages /\ N[u].pages[w] = f
            BY <1>3 DEF Maps
        <3>2. <<u, w>> \in Maps(M, f) <=> w \in DOMAIN M[u].pages /\ M[u].pages[w] = f
            BY DEF Maps
        <3>3. QED
            BY <1>2, <1>3, <1>4, <3>1, <3>2
    <2>2. PICK Q : Q = Maps(M, f) \ ({t} \X vs)
        OBVIOUS
    <2>3. Maps(N, f) \in SUBSET ((DOMAIN M) \X FrPages)
        BY MapsPairs, <1>3
    <2>4. Q \in SUBSET ((DOMAIN M) \X FrPages)
        BY MapsPairs, <2>2
    <2>5. \A u \in DOMAIN M, w \in FrPages : <<u, w>> \in Maps(N, f) <=> <<u, w>> \in Q
        BY <2>1, <2>2
    <2>6. Maps(N, f) = Q
        <3>1. SamePairs(DOMAIN M, FrPages, Maps(N, f), Q)
            BY <2>3, <2>4, <2>5 DEF SamePairs
        <3>2. QED
            BY <3>1, PairSets, Zenon
    <2>7. QED
        BY <2>2, <2>6
<1>11. QED
    BY <1>3, <1>5, <1>7, <1>8, <1>10 DEF PagesUnmapped

TaskDropped(M, t, N) ==
    /\ MemOk(N) /\ DOMAIN N = DOMAIN M \ {t}
    /\ \A u \in DOMAIN N : N[u] = M[u]
    /\ \A f : Maps(N, f) = Maps(M, f)
    /\ \A f : InDir(N, f) = InDir(M, f) \ {<<"pd", t>>}
    /\ \A f : InStack(N, f) = InStack(M, f) \ {<<"stack", t>>}

(* A task without pages dropped.                                           *)
LEMMA DropTask ==
    ASSUME NEW M, MemOk(M), NEW t \in DOMAIN M, DOMAIN M[t].pages = {}, NEW N, N = Drop(M, {t})
    PROVE  TaskDropped(M, t, N)
<1>1. DOMAIN N = DOMAIN M \ {t} /\ \A u \in DOMAIN N : N[u] = M[u]
    BY SMT DEF Drop
<1>2. MemOk(N)
    BY <1>1 DEF MemOk
<1>3. \A f : InDir(N, f) = InDir(M, f) \ {<<"pd", t>>}
    BY <1>1 DEF InDir
<1>4. \A f : InStack(N, f) = InStack(M, f) \ {<<"stack", t>>}
    BY <1>1 DEF InStack
<1>5. ASSUME NEW f PROVE Maps(N, f) = Maps(M, f)
    BY <1>1 DEF Maps
<1>6. QED
    BY <1>1, <1>2, <1>3, <1>4, <1>5 DEF TaskDropped

TaskAdded(M, t, p, S, N) ==
    /\ MemOk(N) /\ DOMAIN N = DOMAIN M \cup {t}
    /\ \A u \in DOMAIN M : N[u] = M[u]
    /\ \A f : Maps(N, f) = Maps(M, f)
    /\ \A f : InDir(N, f) = InDir(M, f) \cup (IF f = p THEN {<<"pd", t>>} ELSE {})
    /\ \A f : InStack(N, f) = InStack(M, f) \cup (IF f \in S THEN {<<"stack", t>>} ELSE {})

(* A task made.                                                            *)
LEMMA AddTask ==
    ASSUME NEW M, MemOk(M), NEW t \in FrTasks, t \notin DOMAIN M, NEW p \in Nat, NEW s \in Nat,
           NEW N, N = Put(M, t, [pd |-> p, stack |-> s, pages |-> NoEntries])
    PROVE  TaskAdded(M, t, p, FrameRun(s, StackFrames), N)
<1>1. DOMAIN N = DOMAIN M \cup {t} /\ (\A u \in DOMAIN M : N[u] = M[u])
      /\ N[t] = [pd |-> p, stack |-> s, pages |-> NoEntries]
    BY SMT DEF Put
<1>2. N[t].pd = p /\ N[t].stack = s /\ N[t].pages = NoEntries /\ DOMAIN NoEntries = {}
    BY <1>1 DEF NoEntries
<1>3. MemOk(N)
    BY <1>1, <1>2 DEF MemOk
<1>4. ASSUME NEW f PROVE InDir(N, f) = InDir(M, f) \cup (IF f = p THEN {<<"pd", t>>} ELSE {})
    BY <1>1, <1>2 DEF InDir
<1>5. ASSUME NEW f
      PROVE  InStack(N, f) = InStack(M, f) \cup (IF f \in FrameRun(s, StackFrames) THEN {<<"stack", t>>} ELSE {})
    BY <1>1, <1>2 DEF InStack
<1>6. ASSUME NEW f PROVE Maps(N, f) = Maps(M, f)
    BY <1>1, <1>2 DEF Maps
<1>7. QED
    BY <1>1, <1>3, <1>4, <1>5, <1>6 DEF TaskAdded

(* The types of the tables, one by one.                                    *)
LEMMA TablesSplit ==
    ASSUME NEW M, NEW C, NEW A, NEW D
    PROVE  TablesOk(M, C, A, D) <=>
             /\ MemOk(M)
             /\ \A k \in DOMAIN C : C[k] = [frame |-> C[k].frame, refs |-> C[k].refs] /\ C[k].frame \in Nat
             /\ \A t \in DOMAIN A : /\ t \in DOMAIN M /\ A[t].frame \in Nat
                                    /\ A[t].page \in FrPages /\ A[t].page \notin DOMAIN M[t].pages
             /\ D \in SUBSET Nat
    BY DEF TablesOk, MemOk

(* Task::new: a directory and a stack.                                     *)
LEMMA CreateTask ==
    ASSUME FramesAssumption, NEW a, NEW M, NEW C, NEW A, NEW D, FrOk(a, M, C, A, D),
           NEW t \in FrTasks, t \notin DOMAIN M, NEW p \in alloc_frames(a), NEW a1, a1 = Took(a, p),
           NEW s, s = contiguous(a1, StackFrames, 1), s # -1, NEW b, b = TookRun(a1, s, StackFrames),
           NEW N, N = Put(M, t, [pd |-> p, stack |-> s, pages |-> NoEntries])
    PROVE  FrOk(b, N, C, A, D)
<1>1. Pool(a) /\ TablesOk(M, C, A, D) /\ OneHolder(a, M, C, A, D) /\ RefsOk(M, C) /\ MemOk(M)
    BY TablesSplit DEF FrOk
<1>2. p \in Nat /\ p \notin InUse(a) /\ Pool(a1) /\ InUse(a1) = InUse(a) \cup {p}
    BY <1>1, TakeOne
<1>3. StackFrames \in Nat \ {0} /\ 1 \in Nat \ {0} /\ TotalFrames \in Nat
    BY DEF FramesAssumption
<1>4. PICK S : S = FrameRun(s, StackFrames)
    OBVIOUS
<1>5. s \in Nat /\ Pool(b) /\ S \cap InUse(a1) = {} /\ InUse(b) = InUse(a1) \cup S
    BY <1>2, <1>3, <1>4, TakeRun
<1>6. /\ MemOk(N) /\ DOMAIN N = DOMAIN M \cup {t}
      /\ \A u \in DOMAIN M : N[u] = M[u]
      /\ \A f : Maps(N, f) = Maps(M, f)
      /\ \A f : InDir(N, f) = InDir(M, f) \cup (IF f = p THEN {<<"pd", t>>} ELSE {})
      /\ \A f : InStack(N, f) = InStack(M, f) \cup (IF f \in S THEN {<<"stack", t>>} ELSE {})
    <2>1. TaskAdded(M, t, p, FrameRun(s, StackFrames), N)
        BY <1>1, <1>2, <1>5, AddTask
    <2>2. QED
        BY <1>4, <2>1 DEF TaskAdded
<1>7. TablesOk(N, C, A, D)
    BY <1>1, <1>6, TablesSplit
<1>8. RefsOk(N, C)
    BY <1>1, <1>6 DEF RefsOk
<1>9. ASSUME NEW f \in Nat
      PROVE  IF f \in InUse(b) THEN \E h : HeldBy(N, C, A, D, f) = {h} ELSE HeldBy(N, C, A, D, f) = {}
    <2>1. InPage(N, C, f) = InPage(M, C, f)
        BY <1>6 DEF InPage
    <2>2. CASE f = p
        <3>1. HeldBy(M, C, A, D, f) = {} /\ f \notin S
            BY <1>1, <1>2, <1>5, <2>2 DEF OneHolder
        <3>2. HeldBy(N, C, A, D, f) = {<<"pd", t>>}
            BY <1>6, <2>1, <2>2, <3>1 DEF HeldBy
        <3>3. QED
            BY <1>2, <1>5, <2>2, <3>2
    <2>3. CASE f \in S
        <3>1. HeldBy(M, C, A, D, f) = {} /\ f # p
            BY <1>1, <1>2, <1>5, <2>3 DEF OneHolder
        <3>2. HeldBy(N, C, A, D, f) = {<<"stack", t>>}
            BY <1>6, <2>1, <2>3, <3>1 DEF HeldBy
        <3>3. QED
            BY <1>2, <1>5, <2>3, <3>2
    <2>4. CASE f # p /\ f \notin S
        <3>1. HeldBy(N, C, A, D, f) = HeldBy(M, C, A, D, f)
            BY <1>6, <2>1, <2>4 DEF HeldBy
        <3>2. QED
            BY <1>1, <1>2, <1>5, <2>4, <3>1 DEF OneHolder
    <2>5. QED
        BY <2>2, <2>3, <2>4
<1>10. OneHolder(b, N, C, A, D)
    BY <1>9 DEF OneHolder
<1>11. QED
    BY <1>5, <1>7, <1>8, <1>10 DEF FrOk

(* A page of a task's own.                                                 *)
LEMMA PrivatePage ==
    ASSUME NEW a, NEW M, NEW C, NEW A, NEW D, FrOk(a, M, C, A, D),
           NEW t \in DOMAIN M, t \notin DOMAIN A, NEW v \in FrPages, v \notin DOMAIN M[t].pages,
           NEW x \in alloc_frames(a), NEW b, b = Took(a, x), NEW N, N = [M EXCEPT ![t].pages = Put(@, v, x)]
    PROVE  FrOk(b, N, C, A, D)
<1>1. Pool(a) /\ TablesOk(M, C, A, D) /\ OneHolder(a, M, C, A, D) /\ RefsOk(M, C) /\ MemOk(M)
    BY TablesSplit DEF FrOk
<1>2. x \in Nat /\ x \notin InUse(a) /\ Pool(b) /\ InUse(b) = InUse(a) \cup {x}
    BY <1>1, TakeOne
<1>3. /\ MemOk(N) /\ DOMAIN N = DOMAIN M
      /\ \A u \in DOMAIN M : u # t => N[u] = M[u]
      /\ \A f : Maps(N, f) = IF f = x THEN Maps(M, f) \cup {<<t, v>>} ELSE Maps(M, f)
      /\ \A f : <<t, v>> \notin Maps(M, f)
      /\ \A f : InDir(N, f) = InDir(M, f) /\ InStack(N, f) = InStack(M, f)
    <2>1. PageAdded(M, t, v, x, N)
        BY <1>1, <1>2 DEF PageAdded
    <2>2. PageMapped(M, t, v, x, N)
        BY <2>1, MapPage
    <2>3. QED
        BY <2>2 DEF PageMapped
<1>4. /\ HeldBy(M, C, A, D, x) = {}
      /\ InPage(M, C, x) = {} /\ \A k \in DOMAIN C : C[k].frame # x
    BY <1>1, <1>2, FreeNotHeld
<1>5. TablesOk(N, C, A, D)
    BY <1>1, <1>3, TablesSplit
<1>6. RefsOk(N, C)
    BY <1>1, <1>3, <1>4 DEF RefsOk
<1>7. ASSUME NEW f \in Nat
      PROVE  IF f \in InUse(b) THEN \E h : HeldBy(N, C, A, D, f) = {h} ELSE HeldBy(N, C, A, D, f) = {}
    <2>1. CASE f = x
        <3>1. Maps(M, x) = {}
            BY <1>4 DEF InPage
        <3>2. Maps(N, x) = {<<t, v>>}
            BY <1>3, <3>1
        <3>3. InPage(N, C, x) = {<<"page", tv[1], tv[2]>> : tv \in {<<t, v>>}}
            BY <1>4, <3>2 DEF InPage
        <3>4. InPage(N, C, x) = {<<"page", t, v>>}
            BY <3>3
        <3>5. HeldBy(N, C, A, D, x) = {<<"page", t, v>>}
            BY <1>3, <1>4, <3>4 DEF HeldBy
        <3>6. QED
            BY <1>2, <2>1, <3>5
    <2>2. CASE f # x
        <3>1. HeldBy(N, C, A, D, f) = HeldBy(M, C, A, D, f)
            BY <1>3, <2>2 DEF HeldBy, InPage
        <3>2. QED
            BY <1>1, <1>2, <2>2, <3>1 DEF OneHolder
    <2>3. QED
        BY <2>1, <2>2
<1>8. OneHolder(b, N, C, A, D)
    BY <1>7 DEF OneHolder
<1>9. QED
    BY <1>2, <1>5, <1>6, <1>8 DEF FrOk

(* One page of a file is cached once, in a frame of its own.               *)
LEMMA CacheApart ==
    ASSUME NEW a, NEW M, NEW C, NEW A, NEW D, FrOk(a, M, C, A, D), NEW k \in DOMAIN C, NEW j \in DOMAIN C,
           C[j].frame = C[k].frame
    PROVE  j = k
<1>1. PICK f : f = C[k].frame
    OBVIOUS
<1>2. f \in Nat
    BY <1>1 DEF FrOk, TablesOk
<1>3. <<"cache", k>> \in InCache(C, f) /\ <<"cache", j>> \in InCache(C, f)
    BY <1>1 DEF InCache
<1>4. <<"cache", k>> \in HeldBy(M, C, A, D, f) /\ <<"cache", j>> \in HeldBy(M, C, A, D, f)
    BY <1>3 DEF HeldBy
<1>5. HeldBy(M, C, A, D, f) = {<<"cache", k>>}
    BY <1>2, <1>4, HolderOf DEF FrOk
<1>6. <<"cache", j>> = <<"cache", k>>
    BY <1>4, <1>5
<1>7. QED
    BY <1>6

(* A page that is in the cache already.                                    *)
LEMMA SharedPage ==
    ASSUME FramesAssumption, NEW a, NEW M, NEW C, NEW A, NEW D, FrOk(a, M, C, A, D),
           NEW t \in DOMAIN M, t \notin DOMAIN A, NEW v \in FrPages, v \notin DOMAIN M[t].pages,
           NEW k \in DOMAIN C, NEW E, E = [C EXCEPT ![k].refs = @ + 1],
           NEW N, N = [M EXCEPT ![t].pages = Put(@, v, C[k].frame)]
    PROVE  FrOk(a, N, E, A, D)
<1>1. Pool(a) /\ TablesOk(M, C, A, D) /\ OneHolder(a, M, C, A, D) /\ RefsOk(M, C) /\ MemOk(M)
    BY TablesSplit DEF FrOk
<1>2. PICK x : x = C[k].frame
    OBVIOUS
<1>3. x \in Nat /\ DOMAIN M \subseteq FrTasks
    BY <1>1, <1>2 DEF TablesOk
<1>4. /\ MemOk(N) /\ DOMAIN N = DOMAIN M
      /\ \A u \in DOMAIN M : u # t => N[u] = M[u]
      /\ \A f : Maps(N, f) = IF f = x THEN Maps(M, f) \cup {<<t, v>>} ELSE Maps(M, f)
      /\ \A f : <<t, v>> \notin Maps(M, f)
      /\ \A f : InDir(N, f) = InDir(M, f) /\ InStack(N, f) = InStack(M, f)
    <2>1. PageAdded(M, t, v, x, N)
        BY <1>1, <1>2, <1>3 DEF PageAdded
    <2>2. PageMapped(M, t, v, x, N)
        BY <2>1, MapPage
    <2>3. QED
        BY <2>2 DEF PageMapped
<1>5. /\ DOMAIN E = DOMAIN C /\ \A j \in DOMAIN C : j # k => E[j] = C[j]
      /\ E[k].frame = x /\ E[k].refs = C[k].refs + 1 /\ E[k] = [frame |-> E[k].frame, refs |-> E[k].refs]
    <2>1. C[k] = [frame |-> C[k].frame, refs |-> C[k].refs]
        BY <1>1 DEF TablesOk
    <2>2. QED
        BY <1>2, <2>1
<1>6. \A j \in DOMAIN C : E[j].frame = C[j].frame
    BY <1>2, <1>5
<1>7. TablesOk(N, E, A, D)
    <2>1. \A j \in DOMAIN E : E[j] = [frame |-> E[j].frame, refs |-> E[j].refs] /\ E[j].frame \in Nat
        BY <1>1, <1>3, <1>5, <1>6 DEF TablesOk
    <2>2. \A u \in DOMAIN A : /\ u \in DOMAIN N /\ A[u].frame \in Nat
                              /\ A[u].page \in FrPages /\ A[u].page \notin DOMAIN N[u].pages
        BY <1>1, <1>4 DEF TablesOk
    <2>3. D \in SUBSET Nat
        BY <1>1 DEF TablesOk
    <2>4. QED
        BY <1>4, <2>1, <2>2, <2>3, TablesSplit
<1>8. RefsOk(N, E)
    <2>1. IsFiniteSet(Maps(M, x)) /\ Cardinality(Maps(M, x)) \in Nat
        BY <1>3, MapsFinite
    <2>2. Cardinality(Maps(M, x) \cup {<<t, v>>}) = Cardinality(Maps(M, x)) + 1
        <3>1. PICK S, e : S = Maps(M, x) /\ e = <<t, v>>
            OBVIOUS
        <3>2. IsFiniteSet(S) /\ e \notin S
            BY <1>4, <2>1, <3>1
        <3>3. Cardinality(S \cup {e}) = Cardinality(S) + 1
            BY <3>2, FS_AddElement
        <3>4. QED
            BY <3>1, <3>3
    <2>3. E[k].refs = Cardinality(Maps(N, E[k].frame)) /\ E[k].refs # 0
        <3>1. C[k].refs = Cardinality(Maps(M, x))
            BY <1>1, <1>2 DEF RefsOk
        <3>2. Maps(N, x) = Maps(M, x) \cup {<<t, v>>}
            BY <1>4
        <3>3. E[k].refs = Cardinality(Maps(N, x))
            BY <1>5, <2>2, <3>1, <3>2
        <3>4. QED
            BY <1>5, <2>1, <3>1, <3>3
    <2>4. ASSUME NEW j \in DOMAIN C, j # k PROVE E[j].refs = Cardinality(Maps(N, E[j].frame)) /\ E[j].refs # 0
        <3>1. C[j].frame # x
            BY <1>2, <2>4, CacheApart
        <3>2. QED
            BY <1>1, <1>4, <1>5, <2>4, <3>1 DEF RefsOk
    <2>5. QED
        BY <1>5, <2>3, <2>4 DEF RefsOk
<1>9. ASSUME NEW f \in Nat PROVE HeldBy(N, E, A, D, f) = HeldBy(M, C, A, D, f)
    <2>1. InCache(E, f) = InCache(C, f)
        BY <1>5, <1>6 DEF InCache
    <2>2. (\E j \in DOMAIN E : E[j].frame = f) <=> (\E j \in DOMAIN C : C[j].frame = f)
        BY <1>5, <1>6
    <2>3. InPage(N, E, f) = InPage(M, C, f)
        <3>1. CASE \E j \in DOMAIN C : C[j].frame = f
            BY <2>2, <3>1 DEF InPage
        <3>2. CASE ~\E j \in DOMAIN C : C[j].frame = f
            <4>1. f # x
                BY <1>2, <3>2
            <4>2. Maps(N, f) = Maps(M, f)
                BY <1>4, <4>1
            <4>3. QED
                BY <2>2, <3>2, <4>2 DEF InPage
        <3>3. QED
            BY <3>1, <3>2
    <2>4. QED
        BY <1>4, <2>1, <2>3 DEF HeldBy
<1>10. OneHolder(a, N, E, A, D)
    BY <1>1, <1>9 DEF OneHolder
<1>11. QED
    BY <1>1, <1>7, <1>8, <1>10 DEF FrOk

(* A task starts to read a page in.                                        *)
LEMMA ReadStart ==
    ASSUME NEW a, NEW M, NEW C, NEW A, NEW D, FrOk(a, M, C, A, D),
           NEW t \in DOMAIN M, t \notin DOMAIN A, NEW v \in FrPages, v \notin DOMAIN M[t].pages, NEW k,
           NEW x \in alloc_frames(a), NEW b, b = Took(a, x),
           NEW R, R = Put(A, t, [page |-> v, of |-> k, frame |-> x])
    PROVE  FrOk(b, M, C, R, D)
<1>1. Pool(a) /\ TablesOk(M, C, A, D) /\ OneHolder(a, M, C, A, D) /\ RefsOk(M, C)
    BY DEF FrOk
<1>2. x \in Nat /\ x \notin InUse(a) /\ Pool(b) /\ InUse(b) = InUse(a) \cup {x}
    BY <1>1, TakeOne
<1>3. /\ DOMAIN R = DOMAIN A \cup {t} /\ \A u \in DOMAIN A : R[u] = A[u]
      /\ R[t] = [page |-> v, of |-> k, frame |-> x]
    BY SMT DEF Put
<1>4. R[t].page = v /\ R[t].frame = x
    BY <1>3
<1>5. TablesOk(M, C, R, D)
    BY <1>1, <1>2, <1>3, <1>4 DEF TablesOk
<1>6. ASSUME NEW f \in Nat
      PROVE  IF f \in InUse(b) THEN \E h : HeldBy(M, C, R, D, f) = {h} ELSE HeldBy(M, C, R, D, f) = {}
    <2>1. InRead(R, f) = InRead(A, f) \cup (IF f = x THEN {<<"reading", t>>} ELSE {})
        BY <1>3, <1>4 DEF InRead
    <2>2. CASE f = x
        <3>1. HeldBy(M, C, A, D, f) = {}
            BY <1>1, <1>2, <2>2 DEF OneHolder
        <3>2. HeldBy(M, C, R, D, f) = {<<"reading", t>>}
            BY <2>1, <2>2, <3>1 DEF HeldBy
        <3>3. QED
            BY <1>2, <2>2, <3>2
    <2>3. CASE f # x
        <3>1. HeldBy(M, C, R, D, f) = HeldBy(M, C, A, D, f)
            BY <2>1, <2>3 DEF HeldBy
        <3>2. QED
            BY <1>1, <1>2, <2>3, <3>1 DEF OneHolder
    <2>4. QED
        BY <2>2, <2>3
<1>7. OneHolder(b, M, C, R, D)
    BY <1>6 DEF OneHolder
<1>8. QED
    BY <1>1, <1>2, <1>5, <1>7 DEF FrOk

(* The frame it was read into, taken from the reader.                      *)
LEMMA ReadEnd ==
    ASSUME NEW a, NEW M, NEW C, NEW A, NEW D, FrOk(a, M, C, A, D), NEW t \in DOMAIN A,
           NEW x, x = A[t].frame, NEW b, b = Freed(a, {x}), NEW R, R = Drop(A, {t})
    PROVE  FrOk(b, M, C, R, D) /\ x \in Nat /\ x \in InUse(a) /\ InUse(b) = InUse(a) \ {x}
<1>1. Pool(a) /\ TablesOk(M, C, A, D) /\ OneHolder(a, M, C, A, D) /\ RefsOk(M, C)
    BY DEF FrOk
<1>2. x \in Nat
    BY <1>1 DEF TablesOk
<1>3. Pool(b) /\ InUse(b) = InUse(a) \ {x}
    BY <1>1, <1>2, GiveBack
<1>4. DOMAIN R = DOMAIN A \ {t} /\ \A u \in DOMAIN R : R[u] = A[u]
    BY SMT DEF Drop
<1>5. TablesOk(M, C, R, D)
    BY <1>1, <1>4 DEF TablesOk
<1>6. <<"reading", t>> \in HeldBy(M, C, A, D, x)
    BY DEF HeldBy, InRead
<1>7. x \in InUse(a) /\ HeldBy(M, C, A, D, x) = {<<"reading", t>>}
    BY <1>1, <1>2, <1>6, HolderOf
<1>8. ASSUME NEW f PROVE InRead(R, f) = InRead(A, f) \ {<<"reading", t>>}
    BY <1>4 DEF InRead
<1>9. ASSUME NEW f \in Nat
      PROVE  IF f \in InUse(b) THEN \E h : HeldBy(M, C, R, D, f) = {h} ELSE HeldBy(M, C, R, D, f) = {}
    <2>1. CASE f = x
        <3>1. <<"reading", t>>[1] = "reading"
            OBVIOUS
        <3>2. InCache(C, f) = {} /\ InDir(M, f) = {} /\ InStack(M, f) = {} /\ InDma(D, f) = {} /\ InPage(M, C, f) = {}
            BY <1>7, <2>1, <3>1, OnlyKind
        <3>3. InRead(A, f) \subseteq {<<"reading", t>>}
            BY <1>7, <2>1 DEF HeldBy
        <3>4. HeldBy(M, C, R, D, f) = {}
            BY <1>8, <3>2, <3>3 DEF HeldBy
        <3>5. QED
            BY <1>3, <2>1, <3>4
    <2>2. CASE f # x
        <3>1. InRead(R, f) = InRead(A, f)
            BY <1>4, <2>2 DEF InRead
        <3>2. HeldBy(M, C, R, D, f) = HeldBy(M, C, A, D, f)
            BY <3>1 DEF HeldBy
        <3>3. QED
            BY <1>1, <1>3, <2>2, <3>2 DEF OneHolder
    <2>3. QED
        BY <2>1, <2>2
<1>10. OneHolder(b, M, C, R, D)
    BY <1>9 DEF OneHolder
<1>11. QED
    BY <1>1, <1>2, <1>3, <1>5, <1>7, <1>10 DEF FrOk

(* A page read in is put in the cache and mapped.                          *)
LEMMA CachePage ==
    ASSUME FramesAssumption, NEW a, NEW M, NEW C, NEW A, NEW D, FrOk(a, M, C, A, D),
           NEW t \in DOMAIN M, t \notin DOMAIN A, NEW v \in FrPages, v \notin DOMAIN M[t].pages,
           NEW x \in Nat, x \notin InUse(a), NEW b, Pool(b), InUse(b) = InUse(a) \cup {x},
           NEW k, k \notin DOMAIN C, NEW E, E = Put(C, k, [frame |-> x, refs |-> 1]),
           NEW N, N = [M EXCEPT ![t].pages = Put(@, v, x)]
    PROVE  FrOk(b, N, E, A, D)
<1>1. Pool(a) /\ TablesOk(M, C, A, D) /\ OneHolder(a, M, C, A, D) /\ RefsOk(M, C) /\ MemOk(M)
    BY TablesSplit DEF FrOk
<1>2. /\ MemOk(N) /\ DOMAIN N = DOMAIN M
      /\ \A u \in DOMAIN M : u # t => N[u] = M[u]
      /\ \A f : Maps(N, f) = IF f = x THEN Maps(M, f) \cup {<<t, v>>} ELSE Maps(M, f)
      /\ \A f : <<t, v>> \notin Maps(M, f)
      /\ \A f : InDir(N, f) = InDir(M, f) /\ InStack(N, f) = InStack(M, f)
    <2>1. PageAdded(M, t, v, x, N)
        BY <1>1 DEF PageAdded
    <2>2. PageMapped(M, t, v, x, N)
        BY <2>1, MapPage
    <2>3. QED
        BY <2>2 DEF PageMapped
<1>3. /\ HeldBy(M, C, A, D, x) = {} /\ InRead(A, x) = {} /\ InDir(M, x) = {} /\ InStack(M, x) = {} /\ InDma(D, x) = {}
      /\ InPage(M, C, x) = {} /\ InCache(C, x) = {} /\ \A j \in DOMAIN C : C[j].frame # x
    BY <1>1, FreeNotHeld
<1>4. /\ DOMAIN E = DOMAIN C \cup {k} /\ \A j \in DOMAIN C : E[j] = C[j]
      /\ E[k] = [frame |-> x, refs |-> 1]
    BY SMT DEF Put
<1>5. E[k].frame = x /\ E[k].refs = 1
    BY <1>4
<1>6. TablesOk(N, E, A, D)
    <2>1. \A j \in DOMAIN E : E[j] = [frame |-> E[j].frame, refs |-> E[j].refs] /\ E[j].frame \in Nat
        BY <1>1, <1>4, <1>5 DEF TablesOk
    <2>2. \A u \in DOMAIN A : /\ u \in DOMAIN N /\ A[u].frame \in Nat
                              /\ A[u].page \in FrPages /\ A[u].page \notin DOMAIN N[u].pages
        BY <1>1, <1>2 DEF TablesOk
    <2>3. D \in SUBSET Nat
        BY <1>1 DEF TablesOk
    <2>4. QED
        BY <1>2, <2>1, <2>2, <2>3, TablesSplit
<1>7. RefsOk(N, E)
    <2>1. Maps(M, x) = {}
        BY <1>3 DEF InPage
    <2>2. Maps(N, x) = {<<t, v>>}
        BY <1>2, <2>1
    <2>3. Cardinality(Maps(N, x)) = 1
        <3>1. PICK e : e = <<t, v>>
            OBVIOUS
        <3>2. Cardinality({e}) = 1
            BY FS_Singleton
        <3>3. QED
            BY <2>2, <3>1, <3>2
    <2>4. \A j \in DOMAIN C : E[j].refs = Cardinality(Maps(N, E[j].frame)) /\ E[j].refs # 0
        <3>1. SUFFICES ASSUME NEW j \in DOMAIN C
                       PROVE  E[j].refs = Cardinality(Maps(N, E[j].frame)) /\ E[j].refs # 0
            OBVIOUS
        <3>2. C[j].frame # x /\ E[j] = C[j]
            BY <1>3, <1>4
        <3>3. Maps(N, C[j].frame) = Maps(M, C[j].frame)
            BY <1>2, <3>2
        <3>4. C[j].refs = Cardinality(Maps(M, C[j].frame)) /\ C[j].refs # 0
            BY <1>1 DEF RefsOk
        <3>5. QED
            BY <3>2, <3>3, <3>4
    <2>5. E[k].refs = Cardinality(Maps(N, E[k].frame)) /\ E[k].refs # 0
        BY <1>5, <2>3
    <2>6. \A j \in DOMAIN E : E[j].refs = Cardinality(Maps(N, E[j].frame)) /\ E[j].refs # 0
        BY <1>4, <2>4, <2>5, Zenon
    <2>7. QED
        BY <2>6 DEF RefsOk
<1>8. ASSUME NEW f \in Nat
      PROVE  IF f \in InUse(b) THEN \E h : HeldBy(N, E, A, D, f) = {h} ELSE HeldBy(N, E, A, D, f) = {}
    <2>1. CASE f = x
        <3>1. InPage(N, E, x) = {}
            BY <1>4, <1>5 DEF InPage
        <3>2. InCache(E, x) = {<<"cache", k>>}
            <4>1. {j \in DOMAIN E : E[j].frame = x} = {k}
                BY <1>3, <1>4, <1>5
            <4>2. QED
                BY <4>1 DEF InCache
        <3>3. HeldBy(N, E, A, D, x) = {<<"cache", k>>}
            BY <1>2, <1>3, <3>1, <3>2 DEF HeldBy
        <3>4. QED
            BY <2>1, <3>3
    <2>2. CASE f # x
        <3>1. {j \in DOMAIN E : E[j].frame = f} = {j \in DOMAIN C : C[j].frame = f}
            BY <1>4, <1>5, <2>2
        <3>2. InCache(E, f) = InCache(C, f)
            BY <3>1 DEF InCache
        <3>3. (\E j \in DOMAIN E : E[j].frame = f) <=> (\E j \in DOMAIN C : C[j].frame = f)
            BY <3>1
        <3>4. InPage(N, E, f) = InPage(M, C, f)
            BY <1>2, <2>2, <3>3 DEF InPage
        <3>5. HeldBy(N, E, A, D, f) = HeldBy(M, C, A, D, f)
            BY <1>2, <3>2, <3>4 DEF HeldBy
        <3>6. QED
            BY <1>1, <2>2, <3>5 DEF OneHolder
    <2>3. QED
        BY <2>1, <2>2
<1>9. OneHolder(b, N, E, A, D)
    BY <1>8 DEF OneHolder
<1>10. QED
    BY <1>6, <1>7, <1>9 DEF FrOk

(* Device memory.                                                          *)
LEMMA DmaTake ==
    ASSUME FramesAssumption, NEW a, NEW M, NEW C, NEW A, FrOk(a, M, C, A, {}),
           NEW s, s = contiguous(a, 2, DmaAlign), s # -1, NEW b, b = TookRun(a, s, 2),
           NEW D, D = FrameRun(s, 2)
    PROVE  FrOk(b, M, C, A, D)
<1>1. Pool(a) /\ TablesOk(M, C, A, {}) /\ OneHolder(a, M, C, A, {}) /\ RefsOk(M, C)
    BY DEF FrOk
<1>2. DmaAlign \in Nat \ {0} /\ 2 \in Nat \ {0} /\ TotalFrames \in Nat
    BY DEF FramesAssumption
<1>3. s \in Nat /\ Pool(b) /\ D \cap InUse(a) = {} /\ InUse(b) = InUse(a) \cup D
    BY <1>1, <1>2, TakeRun
<1>4. D \in SUBSET Nat
    BY <1>3 DEF FrameRun
<1>5. TablesOk(M, C, A, D)
    BY <1>1, <1>4 DEF TablesOk
<1>6. ASSUME NEW f \in Nat
      PROVE  IF f \in InUse(b) THEN \E h : HeldBy(M, C, A, D, f) = {h} ELSE HeldBy(M, C, A, D, f) = {}
    <2>0. InDma({}, f) = {}
        BY DEF InDma
    <2>1. CASE f \in D
        <3>1. HeldBy(M, C, A, {}, f) = {}
            BY <1>1, <1>3, <2>1 DEF OneHolder
        <3>2. InDma(D, f) = {<<"dma", 0>>}
            BY <2>1 DEF InDma
        <3>3. HeldBy(M, C, A, D, f) = {<<"dma", 0>>}
            BY <3>1, <3>2 DEF HeldBy
        <3>4. QED
            BY <1>3, <2>1, <3>3
    <2>2. CASE f \notin D
        <3>1. InDma(D, f) = {}
            BY <2>2 DEF InDma
        <3>2. HeldBy(M, C, A, D, f) = HeldBy(M, C, A, {}, f)
            BY <2>0, <3>1 DEF HeldBy
        <3>3. QED
            BY <1>1, <1>3, <2>2, <3>2 DEF OneHolder
    <2>3. QED
        BY <2>1, <2>2
<1>7. OneHolder(b, M, C, A, D)
    BY <1>6 DEF OneHolder
<1>8. QED
    BY <1>1, <1>3, <1>5, <1>7 DEF FrOk

(* Device memory given back.                                               *)
LEMMA DmaGive ==
    ASSUME NEW a, NEW M, NEW C, NEW A, NEW D, FrOk(a, M, C, A, D), NEW b, b = Freed(a, D)
    PROVE  FrOk(b, M, C, A, {})
<1>1. Pool(a) /\ TablesOk(M, C, A, D) /\ OneHolder(a, M, C, A, D) /\ RefsOk(M, C)
    BY DEF FrOk
<1>2. D \in SUBSET Nat
    BY <1>1 DEF TablesOk
<1>3. Pool(b) /\ InUse(b) = InUse(a) \ D
    BY <1>1, <1>2, GiveBack
<1>4. TablesOk(M, C, A, {})
    BY <1>1 DEF TablesOk
<1>5. ASSUME NEW f \in Nat
      PROVE  IF f \in InUse(b) THEN \E h : HeldBy(M, C, A, {}, f) = {h} ELSE HeldBy(M, C, A, {}, f) = {}
    <2>0. InDma({}, f) = {}
        BY DEF InDma
    <2>1. CASE f \in D
        <3>1. <<"dma", 0>> \in HeldBy(M, C, A, D, f)
            BY <2>1 DEF InDma, HeldBy
        <3>2. HeldBy(M, C, A, D, f) = {<<"dma", 0>>}
            BY <1>1, <3>1, HolderOf
        <3>3. <<"dma", 0>>[1] = "dma"
            OBVIOUS
        <3>4. InCache(C, f) = {} /\ InRead(A, f) = {} /\ InDir(M, f) = {} /\ InStack(M, f) = {} /\ InPage(M, C, f) = {}
            BY <3>2, <3>3, OnlyKind
        <3>5. HeldBy(M, C, A, {}, f) = {}
            BY <2>0, <3>4 DEF HeldBy
        <3>6. QED
            BY <1>3, <2>1, <3>5
    <2>2. CASE f \notin D
        <3>1. InDma(D, f) = {}
            BY <2>2 DEF InDma
        <3>2. HeldBy(M, C, A, {}, f) = HeldBy(M, C, A, D, f)
            BY <2>0, <3>1 DEF HeldBy
        <3>3. QED
            BY <1>1, <1>3, <2>2, <3>2 DEF OneHolder
    <2>3. QED
        BY <2>1, <2>2
<1>6. OneHolder(b, M, C, A, {})
    BY <1>5 DEF OneHolder
<1>7. QED
    BY <1>1, <1>3, <1>4, <1>6 DEF FrOk

PagesDropped(M, t, vs, N) ==
    /\ MemOk(M) /\ t \in DOMAIN M /\ vs \in SUBSET DOMAIN M[t].pages
    /\ MemOk(N) /\ DOMAIN N = DOMAIN M
    /\ \A u \in DOMAIN M : u # t => N[u] = M[u]
    /\ \A f : Maps(N, f) = Maps(M, f) \ ({t} \X vs)

(* The mappings of a frame that go are counted.                            *)
LEMMA LostMaps ==
    ASSUME FramesAssumption, NEW M, NEW t, NEW vs, NEW N, PagesDropped(M, t, vs, N), NEW f,
           NEW V, V = {v \in vs : M[t].pages[v] = f}
    PROVE  /\ IsFiniteSet(V) /\ Cardinality(V) \in Nat
           /\ Cardinality(Maps(N, f)) \in Nat /\ Cardinality(Maps(M, f)) \in Nat
           /\ Cardinality(Maps(N, f)) = Cardinality(Maps(M, f)) - Cardinality(V)
           /\ IsFiniteSet(Maps(N, f))
<1>1. /\ MemOk(M) /\ t \in DOMAIN M /\ vs \in SUBSET DOMAIN M[t].pages
      /\ MemOk(N) /\ DOMAIN N = DOMAIN M
      /\ Maps(N, f) = Maps(M, f) \ ({t} \X vs)
    BY DEF PagesDropped
<1>2. DOMAIN M \subseteq FrTasks /\ DOMAIN N \subseteq FrTasks /\ vs \subseteq FrPages
    BY <1>1 DEF MemOk
<1>3. PICK P, Q, W : P = Maps(M, f) /\ Q = Maps(N, f) /\ W = {t} \X V
    OBVIOUS
<1>4. IsFiniteSet(P) /\ Cardinality(P) \in Nat /\ IsFiniteSet(Q) /\ Cardinality(Q) \in Nat
    BY <1>2, <1>3, MapsFinite
<1>5. IsFiniteSet(V) /\ Cardinality(V) \in Nat
    <2>1. IsFiniteSet(FrPages) /\ V \in SUBSET FrPages
        BY <1>2 DEF FramesAssumption
    <2>2. IsFiniteSet(V)
        BY <2>1, FS_Subset
    <2>3. QED
        BY <2>2, FS_CardinalityType
<1>6. IsFiniteSet(W) /\ Cardinality(W) = Cardinality(V)
    <2>1. PICK X : X = {t}
        OBVIOUS
    <2>2. IsFiniteSet(X) /\ Cardinality(X) = 1
        BY <2>1, FS_Singleton
    <2>3. IsFiniteSet(X \X V) /\ Cardinality(X \X V) = Cardinality(X) * Cardinality(V)
        BY <1>5, <2>2, FS_Product
    <2>4. QED
        BY <1>3, <1>5, <2>1, <2>2, <2>3
<1>7. P = Q \cup W /\ Q \cap W = {}
    <2>1. P \in SUBSET ((DOMAIN M) \X FrPages)
        BY <1>3, MapsPairs
    <2>2. \A v \in FrPages : <<t, v>> \in P <=> v \in DOMAIN M[t].pages /\ M[t].pages[v] = f
        BY <1>1, <1>3 DEF Maps
    <2>3. W \in SUBSET ((DOMAIN M) \X FrPages)
        BY <1>1, <1>2, <1>3
    <2>4. Q = P \ ({t} \X vs)
        BY <1>1, <1>3
    <2>5. \A u \in DOMAIN M, v \in FrPages : <<u, v>> \in W <=> u = t /\ v \in vs /\ M[t].pages[v] = f
        BY <1>3
    <2>6. \A u \in DOMAIN M, v \in FrPages : <<u, v>> \in Q <=> <<u, v>> \in P /\ ~(u = t /\ v \in vs)
        BY <2>4
    <2>7. \A u \in DOMAIN M, v \in FrPages : <<u, v>> \in P <=> <<u, v>> \in Q \cup W
        BY <1>1, <2>2, <2>5, <2>6
    <2>8. Q \cup W \in SUBSET ((DOMAIN M) \X FrPages)
        BY <2>1, <2>3, <2>4
    <2>9. SamePairs(DOMAIN M, FrPages, P, Q \cup W)
        BY <2>1, <2>7, <2>8 DEF SamePairs
    <2>10. P = Q \cup W
        BY <2>9, PairSets, Zenon
    <2>11. Q \cap W = {}
        BY <1>3, <2>4
    <2>12. QED
        BY <2>10, <2>11
<1>8. Cardinality(Q \cup W) = Cardinality(Q) + Cardinality(W) - Cardinality(Q \cap W)
    BY <1>4, <1>6, FS_Union
<1>9. Cardinality(Q \cap W) = 0
    BY <1>7, FS_EmptySet
<1>10. Cardinality(Q) = Cardinality(P) - Cardinality(V)
    BY <1>4, <1>5, <1>6, <1>7, <1>8, <1>9
<1>11. QED
    BY <1>3, <1>4, <1>5, <1>10

ReleasedOk(M, C, t, vs, N, E) == PagesDropped(M, t, vs, N) /\ E = Released(C, M[t].pages, vs)

CacheKept(M, C, t, vs, N, E) ==
    /\ DOMAIN E \subseteq DOMAIN C
    /\ \A k \in DOMAIN E : /\ E[k].frame = C[k].frame /\ E[k] = [frame |-> E[k].frame, refs |-> E[k].refs]
                           /\ E[k].refs = Cardinality(Maps(N, E[k].frame)) /\ E[k].refs # 0
    /\ \A k \in DOMAIN C \ DOMAIN E : Maps(N, C[k].frame) = {} /\ \E v \in vs : M[t].pages[v] = C[k].frame

(* What remains in the cache after pages vs of task t are released.        *)
LEMMA Remains ==
    ASSUME FramesAssumption, NEW a, NEW M, NEW C, NEW A, NEW D, FrOk(a, M, C, A, D),
           NEW t, NEW vs, NEW N, NEW E, ReleasedOk(M, C, t, vs, N, E)
    PROVE  CacheKept(M, C, t, vs, N, E)
<1>1. PICK pages : pages = M[t].pages
    OBVIOUS
<1>2. PagesDropped(M, t, vs, N) /\ E = Released(C, pages, vs)
    BY <1>1 DEF ReleasedOk
<1>3. \A k \in DOMAIN C : /\ C[k] = [frame |-> C[k].frame, refs |-> C[k].refs]
                          /\ C[k].refs = Cardinality(Maps(M, C[k].frame)) /\ C[k].refs # 0
    BY DEF FrOk, TablesOk, RefsOk
<1>4. ASSUME NEW k \in DOMAIN C
      PROVE  /\ Lost(C, k, pages, vs) \in Nat /\ C[k].refs \in Nat
             /\ Cardinality(Maps(N, C[k].frame)) = C[k].refs - Lost(C, k, pages, vs)
             /\ Cardinality(Maps(N, C[k].frame)) \in Nat /\ IsFiniteSet(Maps(N, C[k].frame))
             /\ Lost(C, k, pages, vs) # 0 => \E v \in vs : pages[v] = C[k].frame
    <2>1. PICK f : f = C[k].frame
        OBVIOUS
    <2>2. PICK V : V = {v \in vs : M[t].pages[v] = f}
        OBVIOUS
    <2>3. Lost(C, k, pages, vs) = Cardinality(V)
        BY <1>1, <2>1, <2>2 DEF Lost
    <2>4. /\ IsFiniteSet(V) /\ Cardinality(V) \in Nat
          /\ Cardinality(Maps(N, f)) \in Nat /\ Cardinality(Maps(M, f)) \in Nat
          /\ Cardinality(Maps(N, f)) = Cardinality(Maps(M, f)) - Cardinality(V)
          /\ IsFiniteSet(Maps(N, f))
        BY <1>2, <2>2, LostMaps
    <2>5. Cardinality(V) # 0 => V # {}
        BY FS_EmptySet
    <2>6. QED
        BY <1>1, <1>3, <2>1, <2>2, <2>3, <2>4, <2>5
<1>5. DOMAIN E = {j \in DOMAIN C : C[j].refs > Lost(C, j, pages, vs)}
    BY <1>2 DEF Released
<1>6. ASSUME NEW k \in DOMAIN E
      PROVE  /\ E[k].frame = C[k].frame /\ E[k] = [frame |-> E[k].frame, refs |-> E[k].refs]
             /\ E[k].refs = Cardinality(Maps(N, E[k].frame)) /\ E[k].refs # 0
    <2>1. k \in DOMAIN C /\ C[k].refs > Lost(C, k, pages, vs)
        BY <1>5
    <2>2. E[k] = [C[k] EXCEPT !.refs = @ - Lost(C, k, pages, vs)]
        BY <1>2, <1>5 DEF Released
    <2>3. /\ E[k].frame = C[k].frame /\ E[k].refs = C[k].refs - Lost(C, k, pages, vs)
          /\ E[k] = [frame |-> E[k].frame, refs |-> E[k].refs]
        BY <1>3, <2>1, <2>2
    <2>4. QED
        BY <1>4, <2>1, <2>3
<1>7. ASSUME NEW k \in DOMAIN C \ DOMAIN E
      PROVE  Maps(N, C[k].frame) = {} /\ \E v \in vs : M[t].pages[v] = C[k].frame
    <2>1. ~(C[k].refs > Lost(C, k, pages, vs))
        BY <1>5
    <2>2. Cardinality(Maps(N, C[k].frame)) = 0 /\ Lost(C, k, pages, vs) # 0
        BY <1>3, <1>4, <2>1
    <2>3. Maps(N, C[k].frame) = {}
        BY <1>4, <2>2, FS_EmptySet
    <2>4. QED
        BY <1>1, <1>4, <2>2, <2>3
<1>8. QED
    BY <1>5, <1>6, <1>7 DEF CacheKept

(* Pages of a task unmapped, their references released, and the frames     *)
(* that nothing maps any more freed.                                       *)
LEMMA ReleasePages ==
    ASSUME FramesAssumption, NEW a, NEW M, NEW C, NEW A, NEW D, FrOk(a, M, C, A, D),
           NEW t \in DOMAIN M, t \notin DOMAIN A, NEW vs \in SUBSET DOMAIN M[t].pages,
           NEW N, N = [M EXCEPT ![t].pages = Drop(@, vs)],
           NEW E, E = Released(C, M[t].pages, vs), NEW b, b = Freed(a, ToFree(E, M[t].pages, vs))
    PROVE  FrOk(b, N, E, A, D)
<1>1. Pool(a) /\ TablesOk(M, C, A, D) /\ OneHolder(a, M, C, A, D) /\ RefsOk(M, C) /\ MemOk(M)
    BY TablesSplit DEF FrOk
<1>2. /\ MemOk(N) /\ DOMAIN N = DOMAIN M
      /\ \A u \in DOMAIN M : u # t => N[u] = M[u]
      /\ \A f : Maps(N, f) = Maps(M, f) \ ({t} \X vs)
      /\ \A f : InDir(N, f) = InDir(M, f) /\ InStack(N, f) = InStack(M, f)
    <2>1. PagesCut(M, t, vs, N)
        BY <1>1 DEF PagesCut
    <2>2. PagesUnmapped(M, t, vs, N)
        BY <2>1, UnmapPages
    <2>3. QED
        BY <2>2 DEF PagesUnmapped
<1>3. ReleasedOk(M, C, t, vs, N, E)
    BY <1>1, <1>2 DEF ReleasedOk, PagesDropped
<1>4. /\ DOMAIN E \subseteq DOMAIN C
      /\ \A k \in DOMAIN E : /\ E[k].frame = C[k].frame /\ E[k] = [frame |-> E[k].frame, refs |-> E[k].refs]
                             /\ E[k].refs = Cardinality(Maps(N, E[k].frame)) /\ E[k].refs # 0
      /\ \A k \in DOMAIN C \ DOMAIN E : Maps(N, C[k].frame) = {} /\ \E v \in vs : M[t].pages[v] = C[k].frame
    <2>1. CacheKept(M, C, t, vs, N, E)
        BY <1>3, Remains
    <2>2. QED
        BY <2>1 DEF CacheKept
<1>5. PICK pages : pages = M[t].pages
    OBVIOUS
<1>6. PICK T : T = ToFree(E, pages, vs)
    OBVIOUS
<1>7. \A f : f \in T <=> (\E v \in vs : pages[v] = f) /\ (\A k \in DOMAIN E : E[k].frame # f)
    BY <1>6 DEF ToFree
<1>8. \A v \in vs : pages[v] \in Nat /\ v \in FrPages /\ v \in DOMAIN pages
    BY <1>1, <1>5 DEF MemOk
<1>9. T \in SUBSET Nat
    BY <1>7, <1>8
<1>10. Pool(b) /\ InUse(b) = InUse(a) \ T
    BY <1>1, <1>5, <1>6, <1>9, GiveBack
<1>11. TablesOk(N, E, A, D)
    <2>1. \A j \in DOMAIN E : E[j] = [frame |-> E[j].frame, refs |-> E[j].refs] /\ E[j].frame \in Nat
        BY <1>1, <1>4 DEF TablesOk
    <2>2. \A u \in DOMAIN A : /\ u \in DOMAIN N /\ A[u].frame \in Nat
                              /\ A[u].page \in FrPages /\ A[u].page \notin DOMAIN N[u].pages
        BY <1>1, <1>2 DEF TablesOk
    <2>3. D \in SUBSET Nat
        BY <1>1 DEF TablesOk
    <2>4. QED
        BY <1>2, <2>1, <2>2, <2>3, TablesSplit
<1>12. RefsOk(N, E)
    BY <1>4 DEF RefsOk
<1>13. ASSUME NEW f \in Nat
       PROVE  IF f \in InUse(b) THEN \E h : HeldBy(N, E, A, D, f) = {h} ELSE HeldBy(N, E, A, D, f) = {}
    <2>1. ASSUME NEW k \in DOMAIN C, C[k].frame = f
          PROVE  IF f \in InUse(b) THEN \E h : HeldBy(N, E, A, D, f) = {h} ELSE HeldBy(N, E, A, D, f) = {}
        <3>1. \A j \in DOMAIN C : C[j].frame = f => j = k
            BY <2>1, CacheApart
        <3>2. <<"cache", k>> \in HeldBy(M, C, A, D, f)
            BY <2>1 DEF HeldBy, InCache
        <3>3. HeldBy(M, C, A, D, f) = {<<"cache", k>>} /\ f \in InUse(a)
            BY <1>1, <3>2, HolderOf
        <3>4. <<"cache", k>>[1] = "cache"
            OBVIOUS
        <3>5. InRead(A, f) = {} /\ InDir(M, f) = {} /\ InStack(M, f) = {} /\ InDma(D, f) = {}
            BY <3>3, <3>4, OnlyKind
        <3>6. CASE k \in DOMAIN E
            <4>1. E[k].frame = f /\ \A j \in DOMAIN E : E[j].frame = f => j = k
                BY <1>4, <2>1, <3>1, <3>6
            <4>2. InPage(N, E, f) = {}
                BY <3>6, <4>1 DEF InPage
            <4>3. InCache(E, f) = {<<"cache", k>>}
                <5>1. {j \in DOMAIN E : E[j].frame = f} = {k}
                    BY <3>6, <4>1
                <5>2. QED
                    BY <5>1 DEF InCache
            <4>4. HeldBy(N, E, A, D, f) = {<<"cache", k>>}
                BY <1>2, <3>5, <4>2, <4>3 DEF HeldBy
            <4>5. f \notin T
                BY <1>7, <3>6, <4>1
            <4>6. QED
                BY <1>10, <3>3, <4>4, <4>5
        <3>7. CASE k \notin DOMAIN E
            <4>1. \A j \in DOMAIN E : E[j].frame # f
                BY <1>4, <3>1, <3>7
            <4>2. Maps(N, f) = {} /\ \E v \in vs : pages[v] = f
                BY <1>4, <1>5, <2>1, <3>7
            <4>3. InPage(N, E, f) = {}
                BY <4>2 DEF InPage
            <4>4. InCache(E, f) = {}
                BY <4>1 DEF InCache
            <4>5. HeldBy(N, E, A, D, f) = {}
                BY <1>2, <3>5, <4>3, <4>4 DEF HeldBy
            <4>6. f \in T
                BY <1>7, <4>1, <4>2
            <4>7. QED
                BY <1>10, <4>5, <4>6
        <3>8. QED
            BY <3>6, <3>7
    <2>2. ASSUME \A k \in DOMAIN C : C[k].frame # f
          PROVE  IF f \in InUse(b) THEN \E h : HeldBy(N, E, A, D, f) = {h} ELSE HeldBy(N, E, A, D, f) = {}
        <3>1. \A k \in DOMAIN E : E[k].frame # f
            BY <1>4, <2>2
        <3>2. InCache(E, f) = {} /\ InCache(C, f) = {}
            BY <2>2, <3>1 DEF InCache
        <3>3. /\ InPage(M, C, f) = {<<"page", tv[1], tv[2]>> : tv \in Maps(M, f)}
              /\ InPage(N, E, f) = {<<"page", tv[1], tv[2]>> : tv \in Maps(N, f)}
            BY <2>2, <3>1 DEF InPage
        <3>4. CASE f \in T
            <4>1. PICK v \in vs : pages[v] = f
                BY <1>7, <3>4
            <4>2. <<t, v>> \in Maps(M, f)
                BY <1>5, <1>8, <4>1 DEF Maps
            <4>3. <<"page", t, v>> \in HeldBy(M, C, A, D, f)
                BY <3>3, <4>2 DEF HeldBy
            <4>4. HeldBy(M, C, A, D, f) = {<<"page", t, v>>}
                BY <1>1, <4>3, HolderOf
            <4>5. <<"page", t, v>>[1] = "page"
                OBVIOUS
            <4>6. InRead(A, f) = {} /\ InDir(M, f) = {} /\ InStack(M, f) = {} /\ InDma(D, f) = {}
                BY <4>4, <4>5, OnlyKind
            <4>7. ASSUME NEW tv \in Maps(M, f) PROVE tv \in {t} \X vs
                <5>1. <<"page", tv[1], tv[2]>> \in HeldBy(M, C, A, D, f)
                    BY <3>3 DEF HeldBy
                <5>2. <<"page", tv[1], tv[2]>> = <<"page", t, v>>
                    BY <4>4, <5>1
                <5>3. tv[1] = t /\ tv[2] = v
                    BY <5>2
                <5>4. tv \in (DOMAIN M) \X FrPages
                    BY MapsPairs
                <5>5. tv = <<t, v>>
                    BY <5>3, <5>4
                <5>6. QED
                    BY <4>1, <5>5
            <4>8. Maps(N, f) = {}
                BY <1>2, <4>7
            <4>9. HeldBy(N, E, A, D, f) = {}
                BY <1>2, <3>2, <3>3, <4>6, <4>8 DEF HeldBy
            <4>10. QED
                BY <1>10, <3>4, <4>9
        <3>5. CASE f \notin T
            <4>1. \A v \in vs : pages[v] # f
                BY <1>7, <3>1, <3>5
            <4>2. ASSUME NEW tv \in Maps(M, f) PROVE tv \notin {t} \X vs
                BY <1>5, <4>1 DEF Maps
            <4>3. Maps(N, f) = Maps(M, f)
                BY <1>2, <4>2
            <4>4. HeldBy(N, E, A, D, f) = HeldBy(M, C, A, D, f)
                BY <1>2, <3>2, <3>3, <4>3 DEF HeldBy
            <4>5. QED
                BY <1>1, <1>10, <3>5, <4>4 DEF OneHolder
        <3>6. QED
            BY <3>4, <3>5
    <2>3. QED
        BY <2>1, <2>2
<1>14. OneHolder(b, N, E, A, D)
    BY <1>13 DEF OneHolder
<1>15. QED
    BY <1>10, <1>11, <1>12, <1>14 DEF FrOk

(* The directory and the stack of a task that has no pages any more.       *)
LEMMA ReleaseTask ==
    ASSUME FramesAssumption, NEW a, NEW M, NEW C, NEW A, NEW D, FrOk(a, M, C, A, D),
           NEW t \in DOMAIN M, t \notin DOMAIN A, DOMAIN M[t].pages = {}, NEW N, N = Drop(M, {t}),
           NEW b, b = Freed(a, {M[t].pd} \cup FrameRun(M[t].stack, StackFrames))
    PROVE  FrOk(b, N, C, A, D)
<1>1. Pool(a) /\ TablesOk(M, C, A, D) /\ OneHolder(a, M, C, A, D) /\ RefsOk(M, C) /\ MemOk(M)
    BY TablesSplit DEF FrOk
<1>2. /\ MemOk(N) /\ DOMAIN N = DOMAIN M \ {t}
      /\ \A u \in DOMAIN N : N[u] = M[u]
      /\ \A f : Maps(N, f) = Maps(M, f)
      /\ \A f : InDir(N, f) = InDir(M, f) \ {<<"pd", t>>}
      /\ \A f : InStack(N, f) = InStack(M, f) \ {<<"stack", t>>}
    <2>1. TaskDropped(M, t, N)
        BY <1>1, DropTask
    <2>2. QED
        BY <2>1 DEF TaskDropped
<1>3. PICK p, S : p = M[t].pd /\ S = FrameRun(M[t].stack, StackFrames)
    OBVIOUS
<1>4. {p} \cup S \in SUBSET Nat
    BY <1>1, <1>3 DEF MemOk, FrameRun, FramesAssumption
<1>5. Pool(b) /\ InUse(b) = InUse(a) \ ({p} \cup S)
    BY <1>1, <1>3, <1>4, GiveBack
<1>6. TablesOk(N, C, A, D)
    BY <1>1, <1>2, TablesSplit
<1>7. RefsOk(N, C)
    BY <1>1, <1>2 DEF RefsOk
<1>8. ASSUME NEW f \in Nat
      PROVE  IF f \in InUse(b) THEN \E h : HeldBy(N, C, A, D, f) = {h} ELSE HeldBy(N, C, A, D, f) = {}
    <2>1. InPage(N, C, f) = InPage(M, C, f)
        BY <1>2 DEF InPage
    <2>2. CASE f = p
        <3>1. <<"pd", t>> \in HeldBy(M, C, A, D, f)
            BY <1>3, <2>2 DEF HeldBy, InDir
        <3>2. HeldBy(M, C, A, D, f) = {<<"pd", t>>}
            BY <1>1, <3>1, HolderOf
        <3>3. <<"pd", t>>[1] = "pd"
            OBVIOUS
        <3>4. InCache(C, f) = {} /\ InRead(A, f) = {} /\ InStack(M, f) = {} /\ InDma(D, f) = {} /\ InPage(M, C, f) = {}
            BY <3>2, <3>3, OnlyKind
        <3>5. InDir(M, f) \subseteq {<<"pd", t>>}
            BY <3>2 DEF HeldBy
        <3>6. HeldBy(N, C, A, D, f) = {}
            BY <1>2, <2>1, <3>4, <3>5 DEF HeldBy
        <3>7. QED
            BY <1>5, <2>2, <3>6
    <2>3. CASE f \in S
        <3>1. <<"stack", t>> \in HeldBy(M, C, A, D, f)
            BY <1>3, <2>3 DEF HeldBy, InStack
        <3>2. HeldBy(M, C, A, D, f) = {<<"stack", t>>}
            BY <1>1, <3>1, HolderOf
        <3>3. <<"stack", t>>[1] = "stack"
            OBVIOUS
        <3>4. InCache(C, f) = {} /\ InRead(A, f) = {} /\ InDir(M, f) = {} /\ InDma(D, f) = {} /\ InPage(M, C, f) = {}
            BY <3>2, <3>3, OnlyKind
        <3>5. InStack(M, f) \subseteq {<<"stack", t>>}
            BY <3>2 DEF HeldBy
        <3>6. HeldBy(N, C, A, D, f) = {}
            BY <1>2, <2>1, <3>4, <3>5 DEF HeldBy
        <3>7. QED
            BY <1>5, <2>3, <3>6
    <2>4. CASE f # p /\ f \notin S
        <3>1. InDir(N, f) = InDir(M, f)
            BY <1>2, <1>3, <2>4 DEF InDir
        <3>2. InStack(N, f) = InStack(M, f)
            BY <1>2, <1>3, <2>4 DEF InStack
        <3>3. HeldBy(N, C, A, D, f) = HeldBy(M, C, A, D, f)
            BY <2>1, <3>1, <3>2 DEF HeldBy
        <3>4. QED
            BY <1>1, <1>5, <2>4, <3>3 DEF OneHolder
    <2>5. QED
        BY <2>2, <2>3, <2>4
<1>9. OneHolder(b, N, C, A, D)
    BY <1>8 DEF OneHolder
<1>10. QED
    BY <1>5, <1>6, <1>7, <1>9 DEF FrOk

FrInv == FrOk(Alloc, mem, sharedCache, acquiring, dmaRange)

(* The allocator after a step that sets it.                                *)
LEMMA SetAllocIs ==
    ASSUME NEW b, Pool(b), SetAlloc(b)
    PROVE  Alloc' = b
    BY DEF SetAlloc, Alloc, Pool

(* The allocator after a step that leaves it alone.                        *)
LEMMA SameAlloc ==
    ASSUME UNCHANGED <<bump, freeFrames>>
    PROVE  Alloc' = Alloc
    BY DEF Alloc

(* The actions of Frames keep the invariant, one by one.                   *)
LEMMA FrNewTask ==
    ASSUME FramesAssumption, FrInv, NEW t \in FrTasks, new_task(t)
    PROVE  FrInv'
<1>1. PICK p \in alloc_frames(Alloc) :
         LET a == Took(Alloc, p)
             s == contiguous(a, StackFrames, 1)
         IN  /\ s # -1
             /\ SetAlloc(TookRun(a, s, StackFrames))
             /\ mem' = Put(mem, t, [pd |-> p, stack |-> s, pages |-> NoEntries])
    BY DEF new_task
<1>2. PICK a1 : a1 = Took(Alloc, p)
    OBVIOUS
<1>3. PICK s : s = contiguous(a1, StackFrames, 1)
    OBVIOUS
<1>4. PICK b : b = TookRun(a1, s, StackFrames)
    OBVIOUS
<1>5. s # -1 /\ SetAlloc(b) /\ mem' = Put(mem, t, [pd |-> p, stack |-> s, pages |-> NoEntries])
    BY <1>1, <1>2, <1>3, <1>4
<1>6. t \notin DOMAIN mem /\ sharedCache' = sharedCache /\ acquiring' = acquiring /\ dmaRange' = dmaRange
    BY DEF new_task
<1>7. FrOk(b, mem', sharedCache, acquiring, dmaRange)
    BY <1>2, <1>3, <1>4, <1>5, <1>6, CreateTask DEF FrInv
<1>8. Alloc' = b
    BY <1>5, <1>7, SetAllocIs DEF FrOk
<1>9. QED
    BY <1>6, <1>7, <1>8 DEF FrInv

(* alloc_and_map_user_page.                                                *)
LEMMA FrMapUser ==
    ASSUME FramesAssumption, FrInv, NEW t, NEW v \in FrPages, alloc_and_map_user_page(t, v)
    PROVE  FrInv'
<1>1. /\ t \in DOMAIN mem /\ v \notin DOMAIN mem[t].pages /\ t \notin DOMAIN acquiring
      /\ sharedCache' = sharedCache /\ acquiring' = acquiring /\ dmaRange' = dmaRange
    BY DEF alloc_and_map_user_page
<1>2. PICK x \in alloc_frames(Alloc) : SetAlloc(Took(Alloc, x)) /\ mem' = [mem EXCEPT ![t].pages = Put(@, v, x)]
    BY DEF alloc_and_map_user_page
<1>3. PICK b : b = Took(Alloc, x)
    OBVIOUS
<1>4. FrOk(b, mem', sharedCache, acquiring, dmaRange)
    BY <1>1, <1>2, <1>3, PrivatePage DEF FrInv
<1>5. Alloc' = b
    BY <1>2, <1>3, <1>4, SetAllocIs DEF FrOk
<1>6. QED
    BY <1>1, <1>4, <1>5 DEF FrInv

(* acquire_file_page, with the page in the cache and without.              *)
LEMMA FrAcquire ==
    ASSUME FramesAssumption, FrInv, NEW t, NEW v \in FrPages, NEW k, acquire_file_page(t, v, k)
    PROVE  FrInv'
<1>1. t \in DOMAIN mem /\ v \notin DOMAIN mem[t].pages /\ t \notin DOMAIN acquiring /\ dmaRange' = dmaRange
    BY DEF acquire_file_page
<1>2. CASE k \in DOMAIN sharedCache
    <2>1. /\ sharedCache' = [sharedCache EXCEPT ![k].refs = @ + 1]
          /\ mem' = [mem EXCEPT ![t].pages = Put(@, v, sharedCache[k].frame)]
          /\ UNCHANGED <<acquiring, bump, freeFrames>>
        BY <1>2 DEF acquire_file_page, MapShared
    <2>2. FrOk(Alloc, mem', sharedCache', acquiring, dmaRange)
        BY <1>1, <1>2, <2>1, SharedPage DEF FrInv
    <2>3. Alloc' = Alloc
        BY <2>1, SameAlloc
    <2>4. QED
        BY <1>1, <2>1, <2>2, <2>3 DEF FrInv
<1>3. CASE k \notin DOMAIN sharedCache
    <2>1. sharedCache' = sharedCache /\ mem' = mem
        BY <1>3 DEF acquire_file_page
    <2>2. PICK x \in alloc_frames(Alloc) :
             SetAlloc(Took(Alloc, x)) /\ acquiring' = Put(acquiring, t, [page |-> v, of |-> k, frame |-> x])
        BY <1>3 DEF acquire_file_page
    <2>3. PICK b : b = Took(Alloc, x)
        OBVIOUS
    <2>4. FrOk(b, mem, sharedCache, acquiring', dmaRange)
        BY <1>1, <2>2, <2>3, ReadStart DEF FrInv
    <2>5. Alloc' = b
        BY <2>2, <2>3, <2>4, SetAllocIs DEF FrOk
    <2>6. QED
        BY <1>1, <2>1, <2>4, <2>5 DEF FrInv
<1>4. QED
    BY <1>2, <1>3

(* The end of the read: another task may have filled the cache.            *)
LEMMA FrAcquireDone ==
    ASSUME FramesAssumption, FrInv, NEW t, acquire_done(t)
    PROVE  FrInv'
<1>1. t \in DOMAIN acquiring /\ acquiring' = Drop(acquiring, {t}) /\ dmaRange' = dmaRange /\ acquire_finish(t)
    BY DEF acquire_done
<1>2. PICK q : q = acquiring[t]
    OBVIOUS
<1>3. PICK x : x = q.frame
    OBVIOUS
<1>4. PICK v : v = q.page
    OBVIOUS
<1>5. PICK b : b = Freed(Alloc, {x})
    OBVIOUS
<1>6. /\ FrOk(b, mem, sharedCache, acquiring', dmaRange) /\ x \in Nat /\ x \in InUse(Alloc)
      /\ InUse(b) = InUse(Alloc) \ {x}
    BY <1>1, <1>2, <1>3, <1>5, ReadEnd DEF FrInv
<1>7. t \in DOMAIN mem /\ v \in FrPages /\ v \notin DOMAIN mem[t].pages
    BY <1>1, <1>2, <1>4 DEF FrInv, FrOk, TablesOk
<1>8. t \notin DOMAIN acquiring'
    BY <1>1, SMT DEF Drop
<1>9. CASE q.of \in DOMAIN sharedCache
    <2>1. /\ sharedCache' = [sharedCache EXCEPT ![q.of].refs = @ + 1]
          /\ mem' = [mem EXCEPT ![t].pages = Put(@, v, sharedCache[q.of].frame)] /\ SetAlloc(b)
        BY <1>1, <1>2, <1>3, <1>4, <1>5, <1>9 DEF acquire_finish, MapShared
    <2>2. FrOk(b, mem', sharedCache', acquiring', dmaRange)
        BY <1>6, <1>7, <1>8, <1>9, <2>1, SharedPage
    <2>3. Alloc' = b
        BY <2>1, <2>2, SetAllocIs DEF FrOk
    <2>4. QED
        BY <1>1, <2>2, <2>3 DEF FrInv
<1>10. CASE q.of \notin DOMAIN sharedCache
    <2>1. PICK k : k = q.of
        OBVIOUS
    <2>2. /\ sharedCache' = Put(sharedCache, k, [frame |-> x, refs |-> 1])
          /\ mem' = [mem EXCEPT ![t].pages = Put(@, v, x)] /\ UNCHANGED <<bump, freeFrames>>
        BY <1>1, <1>2, <1>3, <1>4, <1>10, <2>1 DEF acquire_finish, MapShared
    <2>3. Pool(Alloc) /\ x \notin InUse(b) /\ InUse(Alloc) = InUse(b) \cup {x}
        BY <1>6 DEF FrInv, FrOk
    <2>4. FrOk(Alloc, mem', sharedCache', acquiring', dmaRange)
        BY <1>6, <1>7, <1>8, <1>10, <2>1, <2>2, <2>3, CachePage
    <2>5. Alloc' = Alloc
        BY <2>2, SameAlloc
    <2>6. QED
        BY <1>1, <2>4, <2>5 DEF FrInv
<1>11. QED
    BY <1>9, <1>10

(* unmap_page.                                                             *)
LEMMA FrUnmap ==
    ASSUME FramesAssumption, FrInv, NEW t, NEW v, unmap_page(t, v)
    PROVE  FrInv'
<1>1. PICK vs : vs = {v}
    OBVIOUS
<1>2. PICK b : b = Freed(Alloc, ToFree(sharedCache', mem[t].pages, vs))
    OBVIOUS
<1>3. /\ t \in DOMAIN mem /\ t \notin DOMAIN acquiring /\ vs \in SUBSET DOMAIN mem[t].pages
      /\ sharedCache' = Released(sharedCache, mem[t].pages, vs) /\ SetAlloc(b)
      /\ mem' = [mem EXCEPT ![t].pages = Drop(@, vs)]
      /\ acquiring' = acquiring /\ dmaRange' = dmaRange
    BY <1>1, <1>2 DEF unmap_page
<1>4. FrOk(b, mem', sharedCache', acquiring, dmaRange)
    BY <1>2, <1>3, ReleasePages DEF FrInv
<1>5. Alloc' = b
    BY <1>3, <1>4, SetAllocIs DEF FrOk
<1>6. QED
    BY <1>3, <1>4, <1>5 DEF FrInv

(* release_memory: first the pages, then the directory and the stack.      *)
LEMMA FrRelease ==
    ASSUME FramesAssumption, FrInv, NEW t, release_memory(t)
    PROVE  FrInv'
<1>1. PICK vs : vs = DOMAIN mem[t].pages
    OBVIOUS
<1>2. PICK T : T = ToFree(sharedCache', mem[t].pages, vs)
    OBVIOUS
<1>3. PICK W : W = {mem[t].pd} \cup FrameRun(mem[t].stack, StackFrames)
    OBVIOUS
<1>4. /\ t \in DOMAIN mem /\ t \notin DOMAIN acquiring
      /\ sharedCache' = Released(sharedCache, mem[t].pages, vs)
      /\ SetAlloc(Freed(Alloc, T \cup {mem[t].pd} \cup FrameRun(mem[t].stack, StackFrames)))
      /\ mem' = Drop(mem, {t}) /\ acquiring' = acquiring /\ dmaRange' = dmaRange
    BY <1>1, <1>2 DEF release_memory
<1>5. PICK N : N = [mem EXCEPT ![t].pages = Drop(@, vs)]
    OBVIOUS
<1>6. PICK b : b = Freed(Alloc, T)
    OBVIOUS
<1>7. FrOk(b, N, sharedCache', acquiring, dmaRange)
    BY <1>1, <1>2, <1>4, <1>5, <1>6, ReleasePages DEF FrInv
<1>8. /\ DOMAIN N = DOMAIN mem /\ DOMAIN N[t].pages = {} /\ N[t].pd = mem[t].pd /\ N[t].stack = mem[t].stack
      /\ \A u \in DOMAIN mem : u # t => N[u] = mem[u]
    <2>1. mem[t] = [pd |-> mem[t].pd, stack |-> mem[t].stack, pages |-> mem[t].pages]
        BY <1>4 DEF FrInv, FrOk, TablesOk
    <2>2. PICK pg : pg = Drop(mem[t].pages, vs)
        OBVIOUS
    <2>3. DOMAIN pg = {}
        BY <1>1, <2>2, SMT DEF Drop
    <2>4. DOMAIN N = DOMAIN mem /\ (\A u \in DOMAIN mem : u # t => N[u] = mem[u]) /\ N[t] = [mem[t] EXCEPT !.pages = pg]
        BY <1>4, <1>5, <2>2
    <2>5. QED
        BY <2>1, <2>3, <2>4
<1>9. mem' = Drop(N, {t})
    BY <1>4, <1>8, SMT DEF Drop
<1>10. PICK c : c = Freed(b, W)
    OBVIOUS
<1>11. FrOk(c, mem', sharedCache', acquiring, dmaRange)
    <2>1. c = Freed(b, {N[t].pd} \cup FrameRun(N[t].stack, StackFrames)) /\ t \in DOMAIN N
        BY <1>3, <1>4, <1>8, <1>10
    <2>2. QED
        BY <1>4, <1>7, <1>8, <1>9, <2>1, ReleaseTask
<1>12. c = Freed(Alloc, T \cup W)
    <2>1. Alloc.bump = bump /\ Alloc.free = freeFrames
        BY DEF Alloc
    <2>2. b = [bump |-> bump, free |-> freeFrames \cup {f \in T : f < bump}]
        BY <1>6 DEF Freed, Alloc
    <2>3. c = [bump |-> bump, free |-> (freeFrames \cup {f \in T : f < bump}) \cup {f \in W : f < bump}]
        BY <1>10, <2>2 DEF Freed
    <2>4. Freed(Alloc, T \cup W) = [bump |-> bump, free |-> freeFrames \cup {f \in T \cup W : f < bump}]
        BY DEF Freed, Alloc
    <2>5. (freeFrames \cup {f \in T : f < bump}) \cup {f \in W : f < bump} = freeFrames \cup {f \in T \cup W : f < bump}
        OBVIOUS
    <2>6. QED
        BY <2>3, <2>4, <2>5
<1>13. T \cup {mem[t].pd} \cup FrameRun(mem[t].stack, StackFrames) = T \cup W
    BY <1>3
<1>14. Alloc' = c
    BY <1>4, <1>11, <1>12, <1>13, SetAllocIs DEF FrOk
<1>15. QED
    BY <1>4, <1>11, <1>14 DEF FrInv

(* Device memory.                                                          *)
LEMMA FrDma ==
    ASSUME FramesAssumption, FrInv, dma_alloc_for \/ dma_free
    PROVE  FrInv'
<1>1. CASE dma_alloc_for
    <2>1. PICK s : s = contiguous(Alloc, 2, DmaAlign)
        OBVIOUS
    <2>2. PICK b : b = TookRun(Alloc, s, 2)
        OBVIOUS
    <2>3. /\ dmaRange = {} /\ s # -1 /\ dmaRange' = FrameRun(s, 2) /\ SetAlloc(b)
          /\ mem' = mem /\ sharedCache' = sharedCache /\ acquiring' = acquiring
        BY <1>1, <2>1, <2>2 DEF dma_alloc_for
    <2>4. FrOk(b, mem, sharedCache, acquiring, dmaRange')
        BY <2>1, <2>2, <2>3, DmaTake DEF FrInv
    <2>5. Alloc' = b
        BY <2>3, <2>4, SetAllocIs DEF FrOk
    <2>6. QED
        BY <2>3, <2>4, <2>5 DEF FrInv
<1>2. CASE dma_free
    <2>1. PICK b : b = Freed(Alloc, dmaRange)
        OBVIOUS
    <2>2. dmaRange' = {} /\ SetAlloc(b) /\ mem' = mem /\ sharedCache' = sharedCache /\ acquiring' = acquiring
        BY <1>2, <2>1 DEF dma_free
    <2>3. FrOk(b, mem, sharedCache, acquiring, {})
        BY <2>1, DmaGive DEF FrInv
    <2>4. Alloc' = b
        BY <2>2, <2>3, SetAllocIs DEF FrOk
    <2>5. QED
        BY <2>2, <2>3, <2>4 DEF FrInv
<1>3. QED
    BY <1>1, <1>2

(* Every step of Frames.                                                   *)
LEMMA FrStep ==
    ASSUME FramesAssumption, FrInv, FrNext
    PROVE  FrInv'
    BY FrNewTask, FrMapUser, FrAcquire, FrAcquireDone, FrUnmap, FrRelease, FrDma DEF FrNext

(* Nothing is in use at the start.                                         *)
LEMMA FrStart ==
    ASSUME FrInit
    PROVE  FrInv
<1>1. DOMAIN mem = {} /\ DOMAIN sharedCache = {} /\ DOMAIN acquiring = {} /\ dmaRange = {}
    BY DEF FrInit, NoEntries
<1>2. Pool(Alloc) /\ InUse(Alloc) = {}
    BY DEF FrInit, Alloc, Pool, InUse
<1>3. TablesOk(mem, sharedCache, acquiring, dmaRange) /\ RefsOk(mem, sharedCache)
    BY <1>1 DEF TablesOk, RefsOk
<1>4. ASSUME NEW f \in Nat PROVE HeldBy(mem, sharedCache, acquiring, dmaRange, f) = {}
    <2>1. InCache(sharedCache, f) = {} /\ InRead(acquiring, f) = {} /\ InDir(mem, f) = {} /\ InStack(mem, f) = {}
        BY <1>1 DEF InCache, InRead, InDir, InStack
    <2>2. InDma(dmaRange, f) = {}
        BY <1>1 DEF InDma
    <2>3. Maps(mem, f) = {}
        BY <1>1 DEF Maps
    <2>4. InPage(mem, sharedCache, f) = {}
        BY <2>3 DEF InPage
    <2>5. QED
        BY <2>1, <2>2, <2>4 DEF HeldBy
<1>5. OneHolder(Alloc, mem, sharedCache, acquiring, dmaRange)
    BY <1>2, <1>4 DEF OneHolder
<1>6. QED
    BY <1>2, <1>3, <1>5 DEF FrInv, FrOk

(* The invariant gives what the run checks.                                *)
LEMMA FrSound ==
    ASSUME FrInv
    PROVE  FramesAccounted /\ SharedRefsExact
<1>1. Pool(Alloc) /\ TablesOk(mem, sharedCache, acquiring, dmaRange) /\ RefsOk(mem, sharedCache)
      /\ OneHolder(Alloc, mem, sharedCache, acquiring, dmaRange)
    BY DEF FrInv, FrOk
<1>2. bump \in Nat /\ \A f \in Nat : f \in InUse(Alloc) <=> f < bump /\ f \notin freeFrames
    BY <1>1 DEF Pool, InUse, Alloc
<1>3. ASSUME NEW f PROVE Holders(f) = HeldBy(mem, sharedCache, acquiring, dmaRange, f)
    <2>1. PICK U : U = UNION {{<<"page", t, v>> : v \in {p \in DOMAIN mem[t].pages :
                    mem[t].pages[p] = f /\ \A k \in DOMAIN sharedCache : sharedCache[k].frame # f}} : t \in DOMAIN mem}
        OBVIOUS
    <2>2. Holders(f) = InCache(sharedCache, f) \cup InRead(acquiring, f) \cup InDir(mem, f) \cup InStack(mem, f)
                       \cup InDma(dmaRange, f) \cup U
        BY <2>1 DEF Holders, InCache, InRead, InDir, InStack, InDma
    <2>3. U = InPage(mem, sharedCache, f)
        <3>1. CASE \E k \in DOMAIN sharedCache : sharedCache[k].frame = f
            BY <2>1, <3>1 DEF InPage
        <3>2. CASE ~\E k \in DOMAIN sharedCache : sharedCache[k].frame = f
            <4>1. InPage(mem, sharedCache, f) = {<<"page", tv[1], tv[2]>> : tv \in Maps(mem, f)}
                BY <3>2 DEF InPage
            <4>2. \A h : h \in U <=> \E t \in DOMAIN mem : \E v \in DOMAIN mem[t].pages :
                                        mem[t].pages[v] = f /\ h = <<"page", t, v>>
                BY <2>1, <3>2
            <4>3. ASSUME NEW t \in DOMAIN mem, NEW v \in DOMAIN mem[t].pages, mem[t].pages[v] = f
                  PROVE  <<"page", t, v>> \in InPage(mem, sharedCache, f)
                <5>1. v \in FrPages
                    BY <1>1 DEF TablesOk
                <5>2. <<t, v>> \in Maps(mem, f)
                    BY <4>3, <5>1 DEF Maps
                <5>3. QED
                    BY <4>1, <5>2
            <4>4. ASSUME NEW tv \in Maps(mem, f) PROVE <<"page", tv[1], tv[2]>> \in U
                <5>1. tv[1] \in DOMAIN mem /\ tv[2] \in DOMAIN mem[tv[1]].pages /\ mem[tv[1]].pages[tv[2]] = f
                    BY DEF Maps
                <5>2. QED
                    BY <4>2, <5>1
            <4>5. QED
                BY <4>1, <4>2, <4>3, <4>4
        <3>3. QED
            BY <3>1, <3>2
    <2>4. QED
        BY <2>2, <2>3 DEF HeldBy
<1>4. FramesAccounted
    <2>1. SUFFICES ASSUME NEW f \in 0 .. bump - 1
                   PROVE  Cardinality(Holders(f)) = IF f \in freeFrames THEN 0 ELSE 1
        BY DEF FramesAccounted
    <2>2. f \in Nat /\ f < bump
        BY <1>2
    <2>3. PICK H : H = Holders(f)
        OBVIOUS
    <2>4. IF f \in InUse(Alloc) THEN \E h : H = {h} ELSE H = {}
        BY <1>1, <1>3, <2>2, <2>3 DEF OneHolder
    <2>5. (H = {} => Cardinality(H) = 0) /\ \A h : H = {h} => Cardinality(H) = 1
        BY FS_EmptySet, FS_Singleton
    <2>6. QED
        BY <1>2, <2>2, <2>3, <2>4, <2>5
<1>5. SharedRefsExact
    BY <1>1 DEF RefsOk, Maps, SharedRefsExact
<1>6. QED
    BY <1>4, <1>5

RgInv == HeapOk(heapFree, heapUsed, heapBump) /\ WinOk(vranges, ioMaps, ranges)

(* Ranges at the start.                                                    *)
LEMMA RgStart ==
    ASSUME RgInit, RangesAssumption
    PROVE  RgInv
<1>1. /\ DOMAIN heapFree = {} /\ DOMAIN heapUsed = {} /\ DOMAIN vranges = {} /\ DOMAIN ioMaps = {}
      /\ ranges = {} /\ heapBump = 0
    BY DEF RgInit, NoEntries
<1>2. QED
    BY <1>1 DEF RgInv, HeapOk, WinOk, Blocks, Spread, Apart, RangesAssumption

(* Every step of Ranges.                                                   *)
LEMMA RgStep ==
    ASSUME RgInv, RangesAssumption, RgNext
    PROVE  RgInv'
<1>1. ASSUME NEW n \in HeapSizes, heap_alloc(n) PROVE RgInv'
    <2>1. HeapOk(heapFree', heapUsed', heapBump')
        BY <1>1, HeapAlloc DEF RgInv
    <2>2. UNCHANGED <<ranges, vranges, ioMaps>>
        BY <1>1 DEF heap_alloc
    <2>3. QED
        BY <2>1, <2>2 DEF RgInv
<1>2. ASSUME NEW p, heap_dealloc(p) PROVE RgInv'
    <2>1. HeapOk(heapFree', heapUsed', heapBump')
        BY <1>2, HeapDealloc DEF RgInv
    <2>2. UNCHANGED <<ranges, vranges, ioMaps>>
        BY <1>2 DEF heap_dealloc
    <2>3. QED
        BY <2>1, <2>2 DEF RgInv
<1>3. ASSUME NEW d \in Drivers, map_resource(d) \/ release_owned(d) PROVE RgInv'
    <2>1. WinOk(vranges', ioMaps', ranges')
        BY <1>3, MapResource, ReleaseOwned DEF RgInv
    <2>2. UNCHANGED <<heapBump, heapFree, heapUsed>>
        BY <1>3 DEF map_resource, release_owned
    <2>3. QED
        BY <2>1, <2>2 DEF RgInv
<1>4. QED
    BY <1>1, <1>2, <1>3 DEF RgNext

(* Every physical frame ever handed out is free or has exactly one holder, *)
(* the cache of shared file pages counts their mappings, blocks of the     *)
(* kernel heap neither overlap nor lie side by side free, and the window   *)
(* of device registers holds the drivers' mappings and nothing else, for   *)
(* any number of tasks, pages, drivers and any amount of memory.           *)
THEOREM MemoryIsAccounted == MCSpec => []MemoryAccounted
<1>1. MCInit => FrInv /\ RgInv
    BY FrStart, RgStart, RangesAssumption DEF MCInit
<1>2. FrInv /\ RgInv /\ [MCNext]_mcVars => FrInv' /\ RgInv'
    <2>1. ASSUME FrInv, RgInv, UNCHANGED frVars, UNCHANGED rgVars PROVE FrInv' /\ RgInv'
        BY <2>1 DEF FrInv, RgInv, frVars, rgVars, Alloc
    <2>2. ASSUME FrInv, RgInv, FrNext, UNCHANGED rgVars PROVE FrInv' /\ RgInv'
        <3>1. FrInv'
            BY <2>2, FrStep, FramesAssumption
        <3>2. RgInv'
            BY <2>2 DEF RgInv, rgVars
        <3>3. QED
            BY <3>1, <3>2
    <2>3. ASSUME FrInv, RgInv, RgNext, UNCHANGED frVars PROVE FrInv' /\ RgInv'
        <3>1. RgInv'
            BY <2>3, RgStep, RangesAssumption
        <3>2. FrInv'
            BY <2>3 DEF FrInv, frVars, Alloc
        <3>3. QED
            BY <3>1, <3>2
    <2>4. MCNext => \/ UNCHANGED frVars /\ UNCHANGED rgVars
                    \/ FrNext /\ UNCHANGED rgVars
                    \/ RgNext /\ UNCHANGED frVars
        BY DEF MCNext
    <2>5. UNCHANGED mcVars => UNCHANGED frVars /\ UNCHANGED rgVars
        BY DEF mcVars
    <2>6. QED
        BY <2>1, <2>2, <2>3, <2>4, <2>5
<1>3. FrInv /\ RgInv => MemoryAccounted
    BY FrSound, HeapOkSound, WinOkExact DEF MemoryAccounted, RgInv
<1>4. QED
    BY <1>1, <1>2, <1>3, PTL DEF MCSpec

(***************************************************************************)
(* Mounts.                                                                 *)
(***************************************************************************)
(* Until ids wrap around, the n-th mount has the id n, and so has what was *)
(* opened on it.                                                           *)
NumberedOK(M, n, fds) ==
    /\ \A p \in DOMAIN M : M[p].nth \in 1..n
    /\ n <= MaxFsId => /\ \A p \in DOMAIN M : M[p].id = M[p].nth
                       /\ \A fd \in fds : fd.id = fd.nth

PointsOK(M, reg, dm, nds) ==
    /\ DevPoint \in DOMAIN M /\ \A p \in DOMAIN M : Len(p) \in Nat \ {0}
    /\ reg = DOMAIN M \cup {<<>>}
    /\ dm = {<<M[p].dev, p>> : p \in DOMAIN M \ {DevPoint}}
    /\ \A p \in DOMAIN M \ {DevPoint} : M[p].dev \in nds

VfsInv ==
    /\ PointsOK(mounts, registry, device_mounts, nodes) /\ NumberedOK(mounts, mounted, vfsFds)
    /\ mounted \in Nat \ {0} /\ (mounted < MaxFsId => next_fs_id = mounted + 1)

(* Only devfs is mounted at the start.                                     *)
LEMMA VfsStarts == VfsInit => VfsInv
<1> SUFFICES ASSUME VfsInit PROVE VfsInv
    OBVIOUS
<1>1. PICK e : e = [id |-> 1, dev |-> "devfs", nth |-> 1]
    OBVIOUS
<1>2. DOMAIN mounts = {DevPoint} /\ mounts[DevPoint] = e
    BY <1>1 DEF VfsInit, Put, NoEntries
<1>3. Len(DevPoint) = 1
    BY DEF DevPoint
<1>4. PointsOK(mounts, registry, device_mounts, nodes)
    BY <1>2, <1>3 DEF VfsInit, PointsOK
<1>5. e.nth = 1 /\ e.id = 1
    BY <1>1
<1>6. mounted = 1 /\ next_fs_id = 2 /\ vfsFds = {}
    BY DEF VfsInit
<1>7. NumberedOK(mounts, mounted, vfsFds)
    BY <1>2, <1>5, <1>6 DEF NumberedOK
<1>8. QED
    BY <1>4, <1>6, <1>7 DEF VfsInv

(* The root is not in the mount table.                                     *)
LEMMA EmptyIsNoPoint ==
    ASSUME NEW M, NEW reg, NEW dm, NEW nds, PointsOK(M, reg, dm, nds)
    PROVE  <<>> \notin DOMAIN M
<1>1. Len(<<>>) = 0
    BY EmptySeq
<1>2. QED
    BY <1>1 DEF PointsOK

(* A mount on a free point, recorded.                                      *)
LEMMA MountPoints ==
    ASSUME NEW M, NEW reg, NEW dm, NEW nds, PointsOK(M, reg, dm, nds),
           NEW point, point \notin DOMAIN M, Len(point) \in Nat \ {0}, NEW e, e.dev \in nds
    PROVE  PointsOK(Put(M, point, e), reg \cup {point}, {m \in dm : m[2] # point} \cup {<<e.dev, point>>}, nds)
<1>1. PICK N : N = Put(M, point, e)
    OBVIOUS
<1>2. DOMAIN N = DOMAIN M \cup {point} /\ N[point] = e /\ \A p \in DOMAIN M : N[p] = M[p]
    BY <1>1 DEF Put
<1>3. DevPoint \in DOMAIN M /\ point # DevPoint
    BY DEF PointsOK
<1>4. \A m \in dm : m[2] # point
    BY DEF PointsOK
<1>5. {m \in dm : m[2] # point} \cup {<<e.dev, point>>} = {<<N[p].dev, p>> : p \in DOMAIN N \ {DevPoint}}
    <2>1. {m \in dm : m[2] # point} = dm
        BY <1>4
    <2>2. dm = {<<M[p].dev, p>> : p \in DOMAIN M \ {DevPoint}}
        BY DEF PointsOK
    <2>3. dm = {<<N[p].dev, p>> : p \in DOMAIN M \ {DevPoint}}
        BY <1>2, <2>2
    <2>4. QED
        BY <1>2, <1>3, <2>1, <2>3
<1>6. \A p \in DOMAIN N : Len(p) \in Nat \ {0}
    BY <1>2 DEF PointsOK
<1>7. reg \cup {point} = DOMAIN N \cup {<<>>}
    BY <1>2 DEF PointsOK
<1>8. \A p \in DOMAIN N \ {DevPoint} : N[p].dev \in nds
    BY <1>2 DEF PointsOK
<1>9. QED
    BY <1>1, <1>2, <1>3, <1>5, <1>6, <1>7, <1>8 DEF PointsOK

(* An unmount of points, with their records.                               *)
LEMMA UnmountPoints ==
    ASSUME NEW M, NEW reg, NEW dm, NEW nds, PointsOK(M, reg, dm, nds),
           NEW points, DevPoint \notin points, points \in SUBSET (DOMAIN M),
           NEW left, \A p \in DOMAIN M \ (points \cup {DevPoint}) : M[p].dev \in left
    PROVE  PointsOK(Drop(M, points), reg \ (points \cap DOMAIN M), {m \in dm : m[2] \notin points}, left)
<1>1. PICK N : N = Drop(M, points)
    OBVIOUS
<1>2. DOMAIN N = DOMAIN M \ points /\ \A p \in DOMAIN N : N[p] = M[p]
    BY <1>1 DEF Drop
<1>3. {m \in dm : m[2] \notin points} = {<<N[p].dev, p>> : p \in DOMAIN N \ {DevPoint}}
    <2>1. dm = {<<M[p].dev, p>> : p \in DOMAIN M \ {DevPoint}}
        BY DEF PointsOK
    <2>2. {m \in dm : m[2] \notin points} = {<<M[p].dev, p>> : p \in DOMAIN N \ {DevPoint}}
        BY <1>2, <2>1
    <2>3. QED
        BY <1>2, <2>2
<1>4. <<>> \notin DOMAIN M
    BY EmptyIsNoPoint
<1>5. reg \ (points \cap DOMAIN M) = DOMAIN N \cup {<<>>}
    BY <1>2, <1>4 DEF PointsOK
<1>6. DevPoint \in DOMAIN N /\ \A p \in DOMAIN N : Len(p) \in Nat \ {0}
    BY <1>2 DEF PointsOK
<1>7. \A p \in DOMAIN N \ {DevPoint} : N[p].dev \in left
    BY <1>2
<1>8. QED
    BY <1>1, <1>3, <1>5, <1>6, <1>7 DEF PointsOK

(* A device node that comes takes nothing from the mounts.                 *)
LEMMA MoreNodes ==
    ASSUME NEW M, NEW reg, NEW dm, NEW nds, PointsOK(M, reg, dm, nds), NEW more, nds \subseteq more
    PROVE  PointsOK(M, reg, dm, more)
    BY DEF PointsOK

(* A set of naturals has a least member.                                   *)
LEMMA LeastIsMember ==
    ASSUME NEW S \in SUBSET Nat, S # {}
    PROVE  \E m \in S : \A x \in S : m <= x
<1>1. PICK m \in S : \A x \in S : ~(<<x, m>> \in OpToRel(<, Nat))
    BY NatLessThanWellFounded, WFMin, Zenon
<1>2. \A x \in S : ~(x < m)
    BY <1>1 DEF OpToRel
<1>3. QED
    BY <1>2

(* Least returns it.                                                       *)
LEMMA LeastFacts ==
    ASSUME NEW S \in SUBSET Nat, S # {}
    PROVE  Least(S) \in S /\ \A x \in S : Least(S) <= x
<1>1. \E m \in S : \A x \in S : m <= x
    BY LeastIsMember
<1>2. QED
    BY <1>1, Zenon DEF Least

(* The n-th mount gets the id n while there are ids.                       *)
LEMMA FreshId ==
    ASSUME VfsInv, mounted < MaxFsId
    PROVE  alloc_mount_id = mounted + 1
<1>1. mounted \in Nat \ {0} /\ next_fs_id = mounted + 1 /\ MaxFsId \in Nat
    BY VfsAssumption DEF VfsInv
<1>2. PICK after : after = {i \in next_fs_id..MaxFsId : i \notin UsedIds}
    OBVIOUS
<1>3. \A i \in UsedIds : i \in 1..mounted
    <2>1. \A p \in DOMAIN mounts : mounts[p].id \in 1..mounted
        BY <1>1 DEF VfsInv, NumberedOK
    <2>2. QED
        BY <2>1 DEF UsedIds
<1>4. mounted + 1 \in after /\ after \in SUBSET Nat /\ \A x \in after : mounted + 1 <= x
    BY <1>1, <1>2, <1>3
<1>5. PICK l : l = Least(after) /\ l \in after /\ l <= mounted + 1
    BY <1>4, LeastFacts
<1>6. l = mounted + 1
    BY <1>1, <1>4, <1>5
<1>7. alloc_mount_id = Least(after)
    <2>1. after # {}
        BY <1>4
    <2>2. alloc_mount_id = IF after # {} THEN Least(after) ELSE Least((1..MaxFsId) \ UsedIds)
        BY <1>2 DEF alloc_mount_id
    <2>3. QED
        BY <2>1, <2>2, Zenon
<1>8. QED
    BY <1>5, <1>6, <1>7

(* A mount made under a number not in use is numbered well.                *)
LEMMA NumberedMount ==
    ASSUME VfsInv, NEW point, point \notin DOMAIN mounts, NEW dev, NEW e,
           e = [id |-> alloc_mount_id, dev |-> dev, nth |-> mounted + 1]
    PROVE  /\ NumberedOK(Put(mounts, point, e), mounted + 1, vfsFds) /\ mounted + 1 \in Nat \ {0}
           /\ mounted + 1 < MaxFsId => NextId(alloc_mount_id) = mounted + 1 + 1
<1>1. mounted \in Nat \ {0} /\ MaxFsId \in Nat \ {0}
    BY VfsAssumption DEF VfsInv
<1>2. PICK a : a = alloc_mount_id /\ (mounted < MaxFsId => a = mounted + 1)
    BY FreshId
<1>3. e.id = a /\ e.nth = mounted + 1
    BY <1>2
<1>4. PICK N : N = Put(mounts, point, e)
    OBVIOUS
<1>5. DOMAIN N = DOMAIN mounts \cup {point} /\ N[point] = e /\ \A p \in DOMAIN mounts : N[p] = mounts[p]
    BY <1>4 DEF Put
<1>6. \A p \in DOMAIN mounts : mounts[p].nth \in 1..(mounted + 1)
    BY <1>1 DEF VfsInv, NumberedOK
<1>7. \A p \in DOMAIN N : N[p].nth \in 1..(mounted + 1)
    BY <1>1, <1>3, <1>5, <1>6
<1>8. ASSUME mounted + 1 <= MaxFsId
      PROVE  /\ \A p \in DOMAIN N : N[p].id = N[p].nth
             /\ \A fd \in vfsFds : fd.id = fd.nth
    <2>1. mounted <= MaxFsId /\ mounted < MaxFsId
        BY <1>1, <1>8
    <2>2. QED
        BY <1>2, <1>3, <1>5, <2>1 DEF VfsInv, NumberedOK
<1>9. mounted + 1 < MaxFsId => NextId(a) = mounted + 1 + 1
    BY <1>1, <1>2 DEF NextId
<1>10. NumberedOK(N, mounted + 1, vfsFds)
    BY <1>7, <1>8 DEF NumberedOK
<1>11. QED
    BY <1>1, <1>2, <1>4, <1>9, <1>10

(* A path resolves to the root or to a mount.                              *)
LEMMA LongestPrefix ==
    ASSUME VfsInv, NEW path, Len(path) \in Nat
    PROVE  \/ vfs_resolve(path) = [id |-> 0, dev |-> "root", nth |-> 0]
           \/ \E p \in DOMAIN mounts : vfs_resolve(path) = mounts[p]
<1>1. PICK over : over = {p \in DOMAIN mounts : IsPrefix(p, path)}
    OBVIOUS
<1>2. CASE over = {}
    BY <1>1, <1>2, Zenon DEF vfs_resolve
<1>3. CASE over # {}
    <2>1. \A p \in over : p \in DOMAIN mounts /\ Len(p) \in Nat /\ Len(p) <= Len(path)
        BY <1>1 DEF VfsInv, PointsOK, IsPrefix
    <2>2. PICK S : S = {Len(path) - Len(p) : p \in over}
        OBVIOUS
    <2>3. S \in SUBSET Nat
        <3>1. \A p \in over : Len(path) - Len(p) \in Nat
            BY <2>1
        <3>2. QED
            BY <2>2, <3>1
    <2>4. S # {}
        BY <1>3, <2>2
    <2>5. PICK m \in S : \A x \in S : m <= x
        BY <2>3, <2>4, LeastIsMember
    <2>6. PICK p \in over : m = Len(path) - Len(p)
        BY <2>2, <2>5
    <2>7. \A q \in over : Len(q) <= Len(p)
        <3>1. \A q \in over : Len(path) - Len(p) <= Len(path) - Len(q)
            BY <2>2, <2>5, <2>6
        <3>2. QED
            BY <2>1, <2>6, <3>1
    <2>8. PICK c : c = CHOOSE q \in over : \A r \in over : Len(r) <= Len(q)
        OBVIOUS
    <2>9. c \in over
        BY <2>6, <2>7, <2>8, Zenon
    <2>10. vfs_resolve(path) = mounts[c]
        BY <1>1, <1>3, <2>8, Zenon DEF vfs_resolve
    <2>11. QED
        BY <2>1, <2>9, <2>10
<1>4. QED
    BY <1>2, <1>3

(***************************************************************************)
(* The steps                                                               *)
(***************************************************************************)
LEMMA VfsNow ==
    ASSUME PointsOK(mounts', registry', device_mounts', nodes'), NumberedOK(mounts', mounted', vfsFds'),
           mounted' \in Nat \ {0}, mounted' < MaxFsId => next_fs_id' = mounted' + 1
    PROVE  VfsInv'
    BY DEF VfsInv

(* The mount of a device at a free point, or none when ids have run out.   *)
LEMMA MountStep ==
    ASSUME VfsInv, NEW point, point \notin DOMAIN mounts, Len(point) \in Nat \ {0}, NEW dev, dev \in nodes',
           nodes \subseteq nodes', vfsFds' = vfsFds, vfs_mount(point, dev), record_device_mount(dev, point)
    PROVE  VfsInv'
<1>1. PointsOK(mounts, registry, device_mounts, nodes')
    BY MoreNodes DEF VfsInv
<1>2. CASE (1..MaxFsId) \subseteq UsedIds
    <2>1. UNCHANGED <<mounts, next_fs_id, mounted, registry>>
        BY <1>2 DEF vfs_mount
    <2>2. device_mounts' = device_mounts
        BY <2>1 DEF record_device_mount
    <2>3. QED
        BY <1>1, <2>1, <2>2, VfsNow DEF VfsInv
<1>3. CASE ~((1..MaxFsId) \subseteq UsedIds)
    <2>1. PICK e : e = [id |-> alloc_mount_id, dev |-> dev, nth |-> mounted + 1]
        OBVIOUS
    <2>2. /\ mounts' = Put(mounts, point, e) /\ mounted' = mounted + 1
          /\ next_fs_id' = NextId(alloc_mount_id) /\ registry' = registry \cup {point}
        BY <1>3, <2>1 DEF vfs_mount
    <2>3. e.dev = dev
        BY <2>1
    <2>4. point \in DOMAIN mounts'
        BY <2>2 DEF Put
    <2>5. device_mounts' = {m \in device_mounts : m[2] # point} \cup {<<dev, point>>}
        BY <2>4 DEF record_device_mount
    <2>6. PointsOK(mounts', registry', device_mounts', nodes')
        BY <1>1, <2>2, <2>3, <2>5, MountPoints
    <2>7. /\ NumberedOK(Put(mounts, point, e), mounted + 1, vfsFds) /\ mounted + 1 \in Nat \ {0}
          /\ mounted + 1 < MaxFsId => NextId(alloc_mount_id) = mounted + 1 + 1
        BY <2>1, NumberedMount
    <2>8. QED
        BY <2>2, <2>6, <2>7, VfsNow
<1>4. QED
    BY <1>2, <1>3

(* Taking mounts away, with their records, keeps the invariant.            *)
LEMMA UnmountStep ==
    ASSUME VfsInv, NEW points, DevPoint \notin points, points \in SUBSET (DOMAIN mounts),
           \A p \in DOMAIN mounts \ (points \cup {DevPoint}) : mounts[p].dev \in nodes',
           vfs_unmount(points), device_mounts' = {m \in device_mounts : m[2] \notin points}, vfsFds' = vfsFds
    PROVE  VfsInv'
<1>1. /\ mounts' = Drop(mounts, points) /\ registry' = registry \ (points \cap DOMAIN mounts)
      /\ next_fs_id' = next_fs_id /\ mounted' = mounted
    BY DEF vfs_unmount
<1>2. PointsOK(mounts', registry', device_mounts', nodes')
    BY <1>1, UnmountPoints DEF VfsInv
<1>3. DOMAIN mounts' \subseteq DOMAIN mounts /\ \A p \in DOMAIN mounts' : mounts'[p] = mounts[p]
    BY <1>1 DEF Drop
<1>4. NumberedOK(mounts', mounted', vfsFds')
    BY <1>1, <1>3 DEF VfsInv, NumberedOK
<1>5. QED
    BY <1>1, <1>2, <1>4, VfsNow DEF VfsInv

(* Opening a path keeps the invariant: the descriptor has the number of its file system.  *)
LEMMA OpenStep ==
    ASSUME VfsInv, NEW path, Len(path) \in Nat, vfs_open(path)
    PROVE  VfsInv'
<1>1. PICK r : r = vfs_resolve(path)
    OBVIOUS
<1>2. /\ vfsFds' = vfsFds \cup {[id |-> r.id, nth |-> r.nth]}
      /\ UNCHANGED <<mounts, next_fs_id, mounted, registry, device_mounts, nodes>>
    BY <1>1 DEF vfs_open
<1>3. mounted <= MaxFsId => r.id = r.nth
    <2>1. CASE r = [id |-> 0, dev |-> "root", nth |-> 0]
        BY <2>1
    <2>2. CASE \E p \in DOMAIN mounts : r = mounts[p]
        BY <2>2 DEF VfsInv, NumberedOK
    <2>3. QED
        BY <1>1, <2>1, <2>2, LongestPrefix
<1>4. PICK fd : fd = [id |-> r.id, nth |-> r.nth]
    OBVIOUS
<1>5. fd.id = r.id /\ fd.nth = r.nth /\ vfsFds' = vfsFds \cup {fd}
    BY <1>2, <1>4
<1>6. NumberedOK(mounts, mounted, vfsFds')
    BY <1>3, <1>5 DEF VfsInv, NumberedOK
<1>7. QED
    BY <1>2, <1>6, VfsNow DEF VfsInv

(* Every step of Vfs.                                                      *)
LEMMA VfsSteps == VfsInv /\ VfsNext => VfsInv'
<1> SUFFICES ASSUME VfsInv, VfsNext PROVE VfsInv'
    OBVIOUS
<1>0. PointsOK(mounts, registry, device_mounts, nodes)
    BY DEF VfsInv
<1>1. ASSUME NEW dev, plug(dev) PROVE VfsInv'
    <2>1. PICK n : n = Least({i \in 0..MaxMounts : RemovablePoint(i) \notin DOMAIN mounts})
        OBVIOUS
    <2>2. /\ nodes' = nodes \cup {dev} /\ vfsFds' = vfsFds
          /\ \/ /\ RemovablePoint(n) \notin DOMAIN mounts
                /\ vfs_mount(RemovablePoint(n), dev) /\ record_device_mount(dev, RemovablePoint(n))
             \/ UNCHANGED <<mounts, next_fs_id, mounted, registry, device_mounts>>
        BY <1>1, <2>1, Zenon DEF plug
    <2>3. CASE UNCHANGED <<mounts, next_fs_id, mounted, registry, device_mounts>>
        <3>1. PointsOK(mounts, registry, device_mounts, nodes')
            BY <1>0, <2>2, MoreNodes
        <3>2. QED
            BY <2>2, <2>3, <3>1, VfsNow DEF VfsInv
    <2>4. CASE /\ RemovablePoint(n) \notin DOMAIN mounts
               /\ vfs_mount(RemovablePoint(n), dev) /\ record_device_mount(dev, RemovablePoint(n))
        <3>1. PICK point : point = RemovablePoint(n)
            OBVIOUS
        <3>2. Len(point) = 2
            BY <3>1 DEF RemovablePoint
        <3>3. dev \in nodes' /\ nodes \subseteq nodes'
            BY <2>2
        <3>4. point \notin DOMAIN mounts /\ vfs_mount(point, dev) /\ record_device_mount(dev, point)
            BY <2>4, <3>1, Zenon
        <3>5. Len(point) \in Nat \ {0}
            BY <3>2
        <3>6. QED
            BY <2>2, <3>3, <3>4, <3>5, MountStep
    <2>5. QED
        BY <2>2, <2>3, <2>4
<1>2. ASSUME NEW dev, unplug(dev) PROVE VfsInv'
    <2>1. PICK points : points = {m[2] : m \in {x \in device_mounts : x[1] = dev}}
        OBVIOUS
    <2>2. /\ nodes' = nodes \ {dev} /\ vfs_unmount(points) /\ vfsFds' = vfsFds
          /\ device_mounts' = {m \in device_mounts : m[1] # dev}
        BY <1>2, <2>1, Zenon DEF unplug
    <2>3. device_mounts = {<<mounts[p].dev, p>> : p \in DOMAIN mounts \ {DevPoint}}
        BY <1>0 DEF PointsOK
    <2>4. points = {p \in DOMAIN mounts \ {DevPoint} : mounts[p].dev = dev}
        <3>1. \A p : p \in points <=> \E m \in device_mounts : m[1] = dev /\ m[2] = p
            BY <2>1
        <3>2. \A p : (\E m \in device_mounts : m[1] = dev /\ m[2] = p)
                       <=> p \in DOMAIN mounts \ {DevPoint} /\ mounts[p].dev = dev
            <4>1. \A m \in device_mounts : m[2] \in DOMAIN mounts \ {DevPoint} /\ m[1] = mounts[m[2]].dev
                BY <2>3
            <4>2. ASSUME NEW p \in DOMAIN mounts \ {DevPoint}, mounts[p].dev = dev
                  PROVE  \E m \in device_mounts : m[1] = dev /\ m[2] = p
                <5>1. PICK m : m = <<mounts[p].dev, p>>
                    OBVIOUS
                <5>2. m \in device_mounts /\ m[1] = mounts[p].dev /\ m[2] = p
                    BY <2>3, <5>1
                <5>3. QED
                    BY <4>2, <5>2
            <4>3. QED
                BY <4>1, <4>2
        <3>3. QED
            BY <3>1, <3>2
    <2>5. device_mounts' = {m \in device_mounts : m[2] \notin points}
        <3>1. \A m \in device_mounts : m[1] # dev <=> m[2] \notin points
            BY <2>3, <2>4
        <3>2. QED
            BY <2>2, <3>1
    <2>6. \A p \in DOMAIN mounts \ (points \cup {DevPoint}) : mounts[p].dev \in nodes'
        BY <1>0, <2>2, <2>4 DEF PointsOK
    <2>7. DevPoint \notin points /\ points \in SUBSET (DOMAIN mounts)
        BY <2>4
    <2>8. QED
        BY <2>2, <2>5, <2>6, <2>7, UnmountStep
<1>3. ASSUME NEW dev, NEW p \in Targets, sys_mount(dev, p) PROVE VfsInv'
    <2>1. /\ dev \in nodes /\ p \notin DOMAIN mounts /\ vfs_mount(p, dev) /\ record_device_mount(dev, p)
          /\ nodes' = nodes /\ vfsFds' = vfsFds
        BY <1>3 DEF sys_mount
    <2>2. Len(p) \in Nat \ {0}
        BY VfsAssumption
    <2>3. QED
        BY <2>1, <2>2, MountStep
<1>4. ASSUME NEW p \in DOMAIN mounts, sys_umount2(p) PROVE VfsInv'
    <2>1. /\ p # DevPoint /\ vfs_unmount({p}) /\ device_mounts' = {m \in device_mounts : m[2] # p}
          /\ nodes' = nodes /\ vfsFds' = vfsFds
        BY <1>4 DEF sys_umount2, forget_device_mount
    <2>2. PICK points : points = {p}
        OBVIOUS
    <2>3. device_mounts' = {m \in device_mounts : m[2] \notin points} /\ vfs_unmount(points)
        BY <2>1, <2>2
    <2>4. DevPoint \notin points /\ points \in SUBSET (DOMAIN mounts)
        BY <2>1, <2>2
    <2>5. \A q \in DOMAIN mounts \ (points \cup {DevPoint}) : mounts[q].dev \in nodes'
        BY <1>0, <2>1 DEF PointsOK
    <2>6. QED
        BY <2>1, <2>3, <2>4, <2>5, UnmountStep
<1>5. ASSUME NEW p \in DOMAIN mounts \cup Targets, vfs_open(p) PROVE VfsInv'
    <2>1. Len(p) \in Nat
        BY <1>0, VfsAssumption DEF PointsOK
    <2>2. QED
        BY <1>5, <2>1, OpenStep
<1>6. ASSUME NEW fd, vfs_close(fd) PROVE VfsInv'
    <2>1. vfsFds' = vfsFds \ {fd} /\ UNCHANGED <<mounts, next_fs_id, mounted, registry, device_mounts, nodes>>
        BY <1>6 DEF vfs_close
    <2>2. NumberedOK(mounts, mounted, vfsFds')
        BY <2>1 DEF VfsInv, NumberedOK
    <2>3. QED
        BY <2>1, <2>2, VfsNow DEF VfsInv
<1>7. QED
    BY <1>1, <1>2, <1>3, <1>4, <1>5, <1>6, Zenon DEF VfsNext

(* The invariant gives what the run checks of the mounts.                  *)
LEMMA VfsHolds == VfsInv => RegistryAgrees /\ DiskMountsRecorded /\ UnpluggedUnmounted /\ StaleDescriptorHarmless
<1> SUFFICES ASSUME VfsInv PROVE RegistryAgrees /\ DiskMountsRecorded /\ UnpluggedUnmounted /\ StaleDescriptorHarmless
    OBVIOUS
<1>1. RegistryAgrees /\ DiskMountsRecorded /\ UnpluggedUnmounted
    BY DEF VfsInv, PointsOK, RegistryAgrees, DiskMountsRecorded, UnpluggedUnmounted
<1>2. ASSUME mounted <= MaxFsId, NEW fd \in vfsFds PROVE vfs_reached(fd.id) \subseteq {fd.nth}
    <2>1. fd.id = fd.nth /\ \A p \in DOMAIN mounts : mounts[p].id = mounts[p].nth
        BY <1>2 DEF VfsInv, NumberedOK
    <2>2. CASE fd.id = 0
        BY <2>1, <2>2 DEF vfs_reached
    <2>3. CASE fd.id # 0
        <3>1. vfs_reached(fd.id) = {mounts[p].nth : p \in {q \in DOMAIN mounts : mounts[q].id = fd.id}}
            BY <2>3 DEF vfs_reached
        <3>2. QED
            BY <2>1, <3>1
    <2>4. QED
        BY <2>2, <2>3
<1>3. StaleDescriptorHarmless
    BY <1>2 DEF StaleDescriptorHarmless
<1>4. QED
    BY <1>1, <1>3

(***************************************************************************)
(* FAT: paths have one name or two.                                        *)
(***************************************************************************)
LEMMA FatPathKinds ==
    ASSUME NEW p \in FatPaths
    PROVE  \/ \E a \in FatNames : p = <<a>>
           \/ \E a, b \in FatNames : p = <<a, b>>
    BY DEF FatPaths

(* Paths of one name and of two differ.                                    *)
LEMMA PairsDiffer ==
    ASSUME NEW a, NEW b, NEW c
    PROVE  /\ <<a, b>> # <<c>> /\ Len(<<a>>) = 1 /\ Len(<<a, b>>) = 2 /\ <<a>> # <<>> /\ <<a, b>> # <<>>
           /\ (<<a>> = <<c>> <=> a = c)
<1>1. Len(<<a>>) = 1 /\ Len(<<a, b>>) = 2 /\ Len(<<c>>) = 1 /\ Len(<<>>) = 0
    OBVIOUS
<1>2. <<a>>[1] = a /\ <<c>>[1] = c
    OBVIOUS
<1>3. QED
    BY <1>1, <1>2

(* The parts of a path of one name or two.                                 *)
LEMMA SubSeqsOf ==
    ASSUME NEW a, NEW b
    PROVE  /\ SubSeq(<<a>>, 1, 0) = <<>> /\ SubSeq(<<a>>, 2, 1) = <<>>
           /\ SubSeq(<<a, b>>, 1, 1) = <<a>> /\ SubSeq(<<a, b>>, 2, 2) = <<b>> /\ SubSeq(<<a, b>>, 3, 2) = <<>>
<1>1. PICK T, s, t : T = {a, b} /\ s = <<a>> /\ t = <<a, b>>
    OBVIOUS
<1>2. s \in Seq(T) /\ t \in Seq(T) /\ Len(s) = 1 /\ Len(t) = 2 /\ s[1] = a /\ t[1] = a /\ t[2] = b
    BY <1>1
<1>3. SubSeq(s, 1, 0) = <<>> /\ SubSeq(s, 2, 1) = <<>> /\ SubSeq(t, 3, 2) = <<>>
    BY <1>2, SubSeqEmpty
<1>4. ASSUME NEW i \in 1..2 PROVE SubSeq(t, i, i) = <<t[i]>>
    <2>1. PICK u, w : u = SubSeq(t, i, i) /\ w = <<t[i]>>
        OBVIOUS
    <2>2. \A k \in i..i : t[k] \in T
        BY <1>1, <1>2
    <2>3. u \in Seq(T) /\ Len(u) = 1 /\ u[1] = t[i]
        <3>1. u \in Seq(T) /\ Len(u) = (IF i <= i THEN i - i + 1 ELSE 0) /\ \A k \in 1..(i - i + 1) : u[k] = t[i + k - 1]
            BY <1>4, <2>1, <2>2, SubSeqProperties
        <3>2. i - i + 1 = 1 /\ i + 1 - 1 = i /\ 1 \in 1..1 /\ i <= i
            BY <1>4
        <3>3. QED
            BY <3>1, <3>2
    <2>4. w \in Seq(T) /\ Len(w) = 1 /\ w[1] = t[i]
        BY <2>1, <2>2
    <2>5. \A k \in 1..Len(u) : u[k] = w[k]
        BY <2>3, <2>4
    <2>6. u = w
        BY <2>3, <2>4, <2>5, SeqEqual
    <2>7. QED
        BY <2>1, <2>6
<1>5. SubSeq(t, 1, 1) = <<a>> /\ SubSeq(t, 2, 2) = <<b>>
    BY <1>2, <1>4
<1>6. QED
    BY <1>1, <1>3, <1>5, Zenon

(* The parent of a path.                                                   *)
LEMMA ParentOf ==
    ASSUME NEW a, NEW b
    PROVE  Parent(<<a>>) = <<>> /\ Parent(<<a, b>>) = <<a>>
<1>1. Len(<<a>>) - 1 = 0 /\ Len(<<a, b>>) - 1 = 1
    BY PairsDiffer
<1>2. QED
    BY <1>1, SubSeqsOf, Zenon DEF Parent

(* When one path lies below another.                                       *)
LEMMA PrefixOf ==
    ASSUME NEW a, NEW b, NEW c, NEW d
    PROVE  /\ (IsPrefix(<<a>>, <<c>>) <=> a = c)
           /\ (IsPrefix(<<a>>, <<c, d>>) <=> a = c)
           /\ ~IsPrefix(<<a, b>>, <<c>>)
           /\ (IsPrefix(<<a, b>>, <<c, d>>) <=> a = c /\ b = d)
<1>1. IsPrefix(<<a>>, <<c>>) <=> a = c
    BY DEF IsPrefix
<1>2. IsPrefix(<<a>>, <<c, d>>) <=> a = c
    BY DEF IsPrefix
<1>3. ~IsPrefix(<<a, b>>, <<c>>)
    BY DEF IsPrefix
<1>4. IsPrefix(<<a, b>>, <<c, d>>) <=> a = c /\ b = d
    BY DEF IsPrefix
<1>5. QED
    BY <1>1, <1>2, <1>3, <1>4

(* With two names at most, what lies strictly below is a child.            *)
LEMMA ChildIsBelow ==
    ASSUME NEW p \in FatPaths, NEW q \in FatPaths
    PROVE  Parent(q) = p <=> IsStrictPrefix(p, q)
<1>1. CASE \E c \in FatNames : q = <<c>>
    <2>1. PICK c \in FatNames : q = <<c>>
        BY <1>1
    <2>2. Parent(<<c>>) = <<>>
        BY ParentOf, Zenon
    <2>3. CASE \E a \in FatNames : p = <<a>>
        <3>1. PICK a \in FatNames : p = <<a>>
            BY <2>3
        <3>2. <<a>> # <<>> /\ (IsPrefix(<<a>>, <<c>>) <=> a = c)
            BY PairsDiffer, PrefixOf, Zenon
        <3>3. QED
            BY <2>1, <2>2, <3>1, <3>2, Zenon DEF IsStrictPrefix
    <2>4. CASE \E a, b \in FatNames : p = <<a, b>>
        <3>1. PICK a, b \in FatNames : p = <<a, b>>
            BY <2>4
        <3>2. <<a, b>> # <<>> /\ ~IsPrefix(<<a, b>>, <<c>>)
            BY PairsDiffer, PrefixOf, Zenon
        <3>3. QED
            BY <2>1, <2>2, <3>1, <3>2, Zenon DEF IsStrictPrefix
    <2>5. QED
        BY <2>3, <2>4, FatPathKinds
<1>2. CASE \E c, d \in FatNames : q = <<c, d>>
    <2>1. PICK c, d \in FatNames : q = <<c, d>>
        BY <1>2
    <2>2. Parent(<<c, d>>) = <<c>>
        BY ParentOf, Zenon
    <2>3. CASE \E a \in FatNames : p = <<a>>
        <3>1. PICK a \in FatNames : p = <<a>>
            BY <2>3
        <3>2. <<c, d>> # <<a>> /\ (<<c>> = <<a>> <=> c = a) /\ (IsPrefix(<<a>>, <<c, d>>) <=> a = c)
            BY PairsDiffer, PrefixOf, Zenon
        <3>3. QED
            BY <2>1, <2>2, <3>1, <3>2, Zenon DEF IsStrictPrefix
    <2>4. CASE \E a, b \in FatNames : p = <<a, b>>
        <3>1. PICK a, b \in FatNames : p = <<a, b>>
            BY <2>4
        <3>2. <<a, b>> # <<c>> /\ (IsPrefix(<<a, b>>, <<c, d>>) <=> a = c /\ b = d)
            BY PairsDiffer, PrefixOf, Zenon
        <3>3. a = c /\ b = d => p = q
            BY <2>1, <3>1
        <3>4. QED
            BY <2>1, <2>2, <3>1, <3>2, <3>3, Zenon DEF IsStrictPrefix
    <2>5. QED
        BY <2>3, <2>4, FatPathKinds
<1>3. QED
    BY <1>1, <1>2, FatPathKinds

(* Where a renamed path itself goes.                                       *)
LEMMA MovedSelf ==
    ASSUME NEW a, NEW b, NEW new \in FatPaths
    PROVE  Moved(<<a>>, <<a>>, new) = new /\ Moved(<<a, b>>, <<a, b>>, new) = new
<1>1. Len(<<a>>) + 1 = 2 /\ Len(<<a>>) = 1 /\ Len(<<a, b>>) + 1 = 3 /\ Len(<<a, b>>) = 2
    BY PairsDiffer
<1>2. Moved(<<a>>, <<a>>, new) = new \o <<>> /\ Moved(<<a, b>>, <<a, b>>, new) = new \o <<>>
    BY <1>1, SubSeqsOf, Zenon DEF Moved
<1>3. new \in Seq(FatNames)
    <2>1. ASSUME NEW x \in FatNames PROVE <<x>> \in Seq(FatNames)
        OBVIOUS
    <2>2. ASSUME NEW x \in FatNames, NEW y \in FatNames PROVE <<x, y>> \in Seq(FatNames)
        OBVIOUS
    <2>3. QED
        BY <2>1, <2>2, FatPathKinds
<1>4. new \o <<>> = new
    BY <1>3, ConcatEmptySeq
<1>5. QED
    BY <1>2, <1>4

(* Where a path below a renamed one goes.                                  *)
LEMMA MovedBelow ==
    ASSUME NEW a, NEW b, NEW c
    PROVE  Moved(<<a, b>>, <<a>>, <<c>>) = <<c, b>>
<1>1. Len(<<a>>) + 1 = 2 /\ Len(<<a, b>>) = 2
    BY PairsDiffer
<1>2. Moved(<<a, b>>, <<a>>, <<c>>) = <<c>> \o <<b>>
    BY <1>1, SubSeqsOf, Zenon DEF Moved
<1>3. <<c>> \o <<b>> = <<c, b>>
    <2>1. PICK T, s, t, u : T = {c, b} /\ s = <<c>> /\ t = <<b>> /\ u = <<c, b>>
        OBVIOUS
    <2>2. s \in Seq(T) /\ t \in Seq(T) /\ u \in Seq(T) /\ Len(s) = 1 /\ Len(t) = 1 /\ Len(u) = 2
        BY <2>1
    <2>3. s[1] = c /\ t[1] = b /\ u[1] = c /\ u[2] = b
        BY <2>1
    <2>4. PICK w : w = s \o t
        OBVIOUS
    <2>5. w \in Seq(T) /\ Len(w) = Len(s) + Len(t) /\ \A k \in 1..(Len(s) + Len(t)) : w[k] = IF k <= Len(s) THEN s[k] ELSE t[k - Len(s)]
        BY <2>2, <2>4, ConcatProperties
    <2>6. Len(w) = 2 /\ w[1] = c /\ w[2] = b
        <3>1. Len(s) + Len(t) = 2 /\ 1 \in 1..2 /\ 2 \in 1..2 /\ 1 <= Len(s) /\ ~(2 <= Len(s)) /\ 2 - Len(s) = 1
            BY <2>2
        <3>2. QED
            BY <2>3, <2>5, <3>1
    <2>7. \A k \in 1..Len(w) : w[k] = u[k]
        <3>1. \A k \in 1..Len(w) : k = 1 \/ k = 2
            BY <2>6
        <3>2. QED
            BY <2>3, <2>6, <3>1
    <2>8. w = u
        BY <2>2, <2>5, <2>6, <2>7, SeqEqual
    <2>9. QED
        BY <2>1, <2>4, <2>8
<1>4. QED
    BY <1>2, <1>3

(***************************************************************************)
(* The tree, the two maps and the descriptors.                             *)
(***************************************************************************)
FatTree(T, m) ==
    /\ DOMAIN T \subseteq FatPaths /\ \A p \in DOMAIN T : T[p].id \in 1..m
    /\ \A p, q \in DOMAIN T : T[p].id = T[q].id => p = q
    /\ \A p \in DOMAIN T : Parent(p) = <<>> \/ (Parent(p) \in DOMAIN T /\ T[Parent(p)].dir)

FatMaps(T, P, I, n) ==
    /\ \A p \in DOMAIN P : P[p] \in DOMAIN I /\ I[P[p]] = p
    /\ \A i \in DOMAIN I : I[i] \in DOMAIN T /\ I[i] \in DOMAIN P /\ P[I[i]] = i /\ i \in Nat /\ i < n

(* A descriptor's number stands for its file, as long as there is one.     *)
FatOpen(T, I, F, n, m) ==
    \A fd \in F : /\ fd.ino \in Nat /\ fd.ino < n /\ fd.id \in 1..m
                  /\ fd.ino \in DOMAIN I => T[I[fd.ino]].id = fd.id
                  /\ (\E p \in DOMAIN T : T[p].id = fd.id) => fd.ino \in DOMAIN I

FatInv ==
    /\ FatTree(tree, made) /\ FatMaps(tree, path_to_ino, ino_to_path, next_ino)
    /\ FatOpen(tree, ino_to_path, fatFds, next_ino, made)
    /\ made \in Nat /\ next_ino \in Nat

(* Put adds one entry and keeps the others.                                *)
LEMMA PutFacts ==
    ASSUME NEW f, NEW k, NEW v
    PROVE  /\ DOMAIN Put(f, k, v) = DOMAIN f \cup {k} /\ Put(f, k, v)[k] = v
           /\ \A x \in DOMAIN f : x # k => Put(f, k, v)[x] = f[x]
    BY DEF Put

(* An inode number is given to a path that has none.                       *)
LEMMA AllocNumber ==
    ASSUME NEW T, NEW P, NEW I, NEW n \in Nat, FatMaps(T, P, I, n), NEW path \in DOMAIN T,
           NEW i, i = IF path \in DOMAIN P THEN P[path] ELSE n,
           NEW k, k = IF path \in DOMAIN P THEN n ELSE n + 1
    PROVE  /\ FatMaps(T, Put(P, path, i), Put(I, i, path), k)
           /\ k \in Nat /\ n <= k /\ i \in Nat /\ i < k
           /\ i \in DOMAIN Put(I, i, path) /\ Put(I, i, path)[i] = path
           /\ \A j \in DOMAIN I : j \in DOMAIN Put(I, i, path) /\ Put(I, i, path)[j] = I[j]
           /\ \A j \in DOMAIN Put(I, i, path) : j < n => j \in DOMAIN I
<1>1. PICK Q, J : Q = Put(P, path, i) /\ J = Put(I, i, path)
    OBVIOUS
<1>2. DOMAIN Q = DOMAIN P \cup {path} /\ Q[path] = i /\ \A x \in DOMAIN P : x # path => Q[x] = P[x]
    BY <1>1 DEF Put
<1>3. DOMAIN J = DOMAIN I \cup {i} /\ J[i] = path /\ \A x \in DOMAIN I : x # i => J[x] = I[x]
    BY <1>1 DEF Put
<1>4. CASE path \in DOMAIN P
    <2>1. i = P[path] /\ k = n /\ i \in DOMAIN I /\ I[i] = path /\ i \in Nat /\ i < n
        BY <1>4 DEF FatMaps
    <2>2. DOMAIN Q = DOMAIN P /\ DOMAIN J = DOMAIN I /\ \A x \in DOMAIN P : Q[x] = P[x]
        BY <1>2, <1>3, <1>4, <2>1
    <2>3. \A x \in DOMAIN I : J[x] = I[x]
        BY <1>3, <2>1
    <2>4. FatMaps(T, Q, J, k)
        BY <2>1, <2>2, <2>3 DEF FatMaps
    <2>5. QED
        BY <1>1, <1>3, <2>1, <2>2, <2>3, <2>4
<1>5. CASE path \notin DOMAIN P
    <2>1. i = n /\ k = n + 1 /\ i \notin DOMAIN I
        BY <1>5 DEF FatMaps
    <2>2. \A x \in DOMAIN P : x # path /\ Q[x] = P[x]
        BY <1>2, <1>5
    <2>3. \A x \in DOMAIN I : x # i /\ J[x] = I[x]
        BY <1>3, <2>1
    <2>4. \A x \in DOMAIN Q : Q[x] \in DOMAIN J /\ J[Q[x]] = x
        BY <1>2, <1>3, <2>2, <2>3 DEF FatMaps
    <2>5. \A x \in DOMAIN J : J[x] \in DOMAIN T /\ J[x] \in DOMAIN Q /\ Q[J[x]] = x /\ x \in Nat /\ x < k
        BY <1>2, <1>3, <2>1, <2>2, <2>3 DEF FatMaps
    <2>6. FatMaps(T, Q, J, k)
        BY <2>4, <2>5 DEF FatMaps
    <2>7. \A x \in DOMAIN J : x < n => x \in DOMAIN I
        BY <1>3, <2>1
    <2>8. QED
        BY <1>1, <1>3, <2>1, <2>3, <2>6, <2>7
<1>6. QED
    BY <1>4, <1>5

(* A descriptor keeps its file when inode numbers are added.               *)
LEMMA OpenKept ==
    ASSUME NEW T, NEW I, NEW F, NEW n \in Nat, NEW m, FatOpen(T, I, F, n, m), NEW J, NEW k \in Nat, n <= k,
           \A j \in DOMAIN I : j \in DOMAIN J /\ J[j] = I[j], \A j \in DOMAIN J : j < n => j \in DOMAIN I
    PROVE  FatOpen(T, J, F, k, m)
<1> SUFFICES ASSUME NEW fd \in F
             PROVE  /\ fd.ino \in Nat /\ fd.ino < k /\ fd.id \in 1..m
                    /\ fd.ino \in DOMAIN J => T[J[fd.ino]].id = fd.id
                    /\ (\E p \in DOMAIN T : T[p].id = fd.id) => fd.ino \in DOMAIN J
    BY DEF FatOpen
<1>1. /\ fd.ino \in Nat /\ fd.ino < n /\ fd.id \in 1..m
      /\ fd.ino \in DOMAIN I => T[I[fd.ino]].id = fd.id
      /\ (\E p \in DOMAIN T : T[p].id = fd.id) => fd.ino \in DOMAIN I
    BY DEF FatOpen
<1>2. fd.ino < k
    BY <1>1
<1>3. QED
    BY <1>1, <1>2

(* A file or directory is added to the tree.                               *)
LEMMA AddNode ==
    ASSUME NEW T, NEW P, NEW I, NEW F, NEW n, NEW m \in Nat,
           FatTree(T, m), FatMaps(T, P, I, n), FatOpen(T, I, F, n, m),
           NEW path \in FatPaths, path \notin DOMAIN T, NEW e, e.id = m + 1,
           Parent(path) = <<>> \/ (Parent(path) \in DOMAIN T /\ T[Parent(path)].dir)
    PROVE  /\ FatTree(Put(T, path, e), m + 1) /\ FatMaps(Put(T, path, e), P, I, n)
           /\ FatOpen(Put(T, path, e), I, F, n, m + 1)
<1>1. PICK U : U = Put(T, path, e)
    OBVIOUS
<1>2. DOMAIN U = DOMAIN T \cup {path} /\ U[path] = e /\ \A p \in DOMAIN T : U[p] = T[p]
    BY <1>1 DEF Put
<1>3. \A p \in DOMAIN T : T[p].id \in 1..m /\ T[p].id # m + 1 /\ T[p].id \in 1..(m + 1)
    BY DEF FatTree
<1>4. FatTree(U, m + 1)
    <2>1. DOMAIN U \subseteq FatPaths
        BY <1>2 DEF FatTree
    <2>2. \A p \in DOMAIN U : U[p].id \in 1..(m + 1)
        <3>1. m + 1 \in 1..(m + 1)
            OBVIOUS
        <3>2. QED
            BY <1>2, <1>3, <3>1
    <2>3. \A p, q \in DOMAIN U : U[p].id = U[q].id => p = q
        BY <1>2, <1>3 DEF FatTree
    <2>4. \A p \in DOMAIN U : Parent(p) = <<>> \/ (Parent(p) \in DOMAIN U /\ U[Parent(p)].dir)
        BY <1>2 DEF FatTree
    <2>5. QED
        BY <2>1, <2>2, <2>3, <2>4 DEF FatTree
<1>5. FatMaps(U, P, I, n)
    BY <1>2 DEF FatMaps
<1>6. FatOpen(U, I, F, n, m + 1)
    <2>1. ASSUME NEW fd \in F
          PROVE  /\ fd.ino \in Nat /\ fd.ino < n /\ fd.id \in 1..(m + 1)
                 /\ fd.ino \in DOMAIN I => U[I[fd.ino]].id = fd.id
                 /\ (\E p \in DOMAIN U : U[p].id = fd.id) => fd.ino \in DOMAIN I
        <3>1. /\ fd.ino \in Nat /\ fd.ino < n /\ fd.id \in 1..m
              /\ fd.ino \in DOMAIN I => T[I[fd.ino]].id = fd.id
              /\ (\E p \in DOMAIN T : T[p].id = fd.id) => fd.ino \in DOMAIN I
            BY DEF FatOpen
        <3>2. fd.id # m + 1 /\ fd.id \in 1..(m + 1)
            BY <3>1
        <3>3. fd.ino \in DOMAIN I => U[I[fd.ino]].id = fd.id
            BY <1>2, <3>1 DEF FatMaps
        <3>4. (\E p \in DOMAIN U : U[p].id = fd.id) => fd.ino \in DOMAIN I
            BY <1>2, <3>1, <3>2
        <3>5. QED
            BY <3>1, <3>2, <3>3, <3>4
    <2>2. QED
        BY <2>1 DEF FatOpen
<1>7. QED
    BY <1>1, <1>4, <1>5, <1>6

(***************************************************************************)
(* A rename: the nodes that move, and where to.                            *)
(***************************************************************************)
LEMMA MovedApart ==
    ASSUME NEW T, NEW m, FatTree(T, m), NEW old \in DOMAIN T, NEW new \in FatPaths, new \notin DOMAIN T,
           Parent(new) = <<>> \/ (Parent(new) \in DOMAIN T /\ T[Parent(new)].dir), ~IsPrefix(old, new),
           NEW N, N = {old} \cup {p \in DOMAIN T : IsStrictPrefix(old, p)},
           N # {old} => Len(new) <= Len(old)
    PROVE  /\ \A q \in N : Moved(q, old, new) \in FatPaths \ DOMAIN T
           /\ \A q, r \in N : Moved(q, old, new) = Moved(r, old, new) => q = r
           /\ Moved(old, old, new) = new
           /\ \A q \in N \ {old} : Parent(q) = old /\ Parent(Moved(q, old, new)) = new
           /\ \A p \in DOMAIN T \ N : Parent(p) \notin N
           /\ Parent(new) \notin N
           /\ \A p \in DOMAIN T : p \in N <=> IsPrefix(old, p)
<1>0. DOMAIN T \subseteq FatPaths /\ old \in FatPaths /\ N \subseteq DOMAIN T
    BY DEF FatTree
<1>00. <<>> \notin FatPaths
    BY PairsDiffer, FatPathKinds
<1>1. CASE \E a, b \in FatNames : old = <<a, b>>
    <2>1. PICK a, b \in FatNames : old = <<a, b>>
        BY <1>1
    <2>2. ASSUME NEW p \in FatPaths PROVE (IsPrefix(old, p) <=> p = old) /\ Parent(p) # old /\ Moved(old, old, p) = p
        <3>1. CASE \E c \in FatNames : p = <<c>>
            <4>1. PICK c \in FatNames : p = <<c>>
                BY <3>1
            <4>2. ~IsPrefix(<<a, b>>, <<c>>) /\ <<a, b>> # <<c>> /\ Parent(<<c>>) = <<>> /\ <<a, b>> # <<>>
                BY PrefixOf, PairsDiffer, ParentOf, Zenon
            <4>3. Moved(<<a, b>>, <<a, b>>, p) = p
                BY MovedSelf
            <4>4. QED
                BY <2>1, <4>1, <4>2, <4>3, Zenon
        <3>2. CASE \E c, d \in FatNames : p = <<c, d>>
            <4>1. PICK c, d \in FatNames : p = <<c, d>>
                BY <3>2
            <4>2. (IsPrefix(<<a, b>>, <<c, d>>) <=> a = c /\ b = d) /\ Parent(<<c, d>>) = <<c>> /\ <<a, b>> # <<c>>
                BY PrefixOf, PairsDiffer, ParentOf, Zenon
            <4>3. Moved(<<a, b>>, <<a, b>>, p) = p
                BY MovedSelf
            <4>4. (<<a, b>> = <<c, d>>) <=> a = c /\ b = d
                OBVIOUS
            <4>5. QED
                BY <2>1, <4>1, <4>2, <4>3, <4>4, Zenon
        <3>3. QED
            BY <2>2, <3>1, <3>2, FatPathKinds, Zenon
    <2>3. N = {old}
        BY <1>0, <2>2 DEF IsStrictPrefix
    <2>4. QED
        BY <1>0, <2>2, <2>3
<1>2. CASE \E a \in FatNames : old = <<a>>
    <2>1. PICK a \in FatNames : old = <<a>>
        BY <1>2
    <2>2. ASSUME NEW p \in FatPaths
          PROVE  /\ IsPrefix(old, p) <=> (p = old \/ Parent(p) = old)
                 /\ Parent(p) = old => \E b : p = <<a, b>>
                 /\ Parent(p) = <<>> \/ Parent(Parent(p)) = <<>>
                 /\ Moved(old, old, p) = p
        <3>1. CASE \E c \in FatNames : p = <<c>>
            <4>1. PICK c \in FatNames : p = <<c>>
                BY <3>1
            <4>2. (IsPrefix(<<a>>, <<c>>) <=> a = c) /\ Parent(<<c>>) = <<>> /\ <<a>> # <<>> /\ (<<c>> = <<a>> <=> c = a)
                BY PrefixOf, PairsDiffer, ParentOf, Zenon
            <4>3. Moved(<<a>>, <<a>>, p) = p
                BY MovedSelf
            <4>4. QED
                BY <2>1, <4>1, <4>2, <4>3, Zenon
        <3>2. CASE \E c, d \in FatNames : p = <<c, d>>
            <4>1. PICK c, d \in FatNames : p = <<c, d>>
                BY <3>2
            <4>2. /\ (IsPrefix(<<a>>, <<c, d>>) <=> a = c) /\ Parent(<<c, d>>) = <<c>> /\ Parent(<<c>>) = <<>>
                  /\ <<c, d>> # <<a>> /\ (<<c>> = <<a>> <=> c = a)
                BY PrefixOf, PairsDiffer, ParentOf, Zenon
            <4>3. Moved(<<a>>, <<a>>, p) = p
                BY MovedSelf
            <4>4. QED
                BY <2>1, <4>1, <4>2, <4>3, Zenon
        <3>3. QED
            BY <2>2, <3>1, <3>2, FatPathKinds, Zenon
    <2>3. \A p \in DOMAIN T : p \in N <=> (p = old \/ Parent(p) = old)
        BY <1>0, <2>2 DEF IsStrictPrefix
    <2>4. Parent(old) = <<>> /\ old # <<>>
        BY <2>1, ParentOf, PairsDiffer, Zenon
    <2>5. \A p \in FatPaths : Parent(p) \in N => Parent(p) = old
        BY <1>0, <1>00, <2>2, <2>3, <2>4
    <2>6. ASSUME NEW q \in N \ {old} 
          PROVE  \E b, c : new = <<c>> /\ q = <<a, b>> /\ Moved(q, old, new) = <<c, b>>
        <3>1. PICK b : q = <<a, b>>
            BY <1>0, <2>2, <2>3, <2>6
        <3>2. Len(new) <= 1
            BY <2>1, <2>6, PairsDiffer
        <3>3. PICK c : new = <<c>>
            <4>1. ASSUME NEW e, NEW d, new = <<e, d>> PROVE FALSE
                BY <3>2, <4>1, PairsDiffer
            <4>2. QED
                BY <4>1, FatPathKinds
        <3>4. Moved(<<a, b>>, <<a>>, <<c>>) = <<c, b>>
            BY MovedBelow
        <3>5. QED
            BY <2>1, <3>1, <3>3, <3>4
    <2>7. Moved(old, old, new) = new
        BY <2>2
    <2>8. ASSUME NEW q \in N \ {old}
          PROVE  Moved(q, old, new) \in FatPaths \ DOMAIN T /\ Parent(Moved(q, old, new)) = new /\ Moved(q, old, new) # new
        <3>1. PICK b, c : new = <<c>> /\ q = <<a, b>> /\ Moved(q, old, new) = <<c, b>>
            BY <2>6, <2>8
        <3>2. c \in FatNames /\ b \in FatNames
            <4>1. q \in FatPaths /\ <<a, b>>[2] = b /\ <<c>>[1] = c
                BY <1>0, <2>8
            <4>2. \A x, y : <<x, y>>[2] = y /\ <<x>>[1] = x
                OBVIOUS
            <4>3. b \in FatNames
                BY <3>1, <4>1, <4>2, PairsDiffer, FatPathKinds
            <4>4. c \in FatNames
                BY <3>1, <4>1, <4>2, PairsDiffer, FatPathKinds
            <4>5. QED
                BY <4>3, <4>4
        <3>3. <<c, b>> \in FatPaths
            BY <3>2 DEF FatPaths
        <3>4. Parent(<<c, b>>) = <<c>> /\ <<c, b>> # <<c>> /\ <<c>> # <<>>
            BY ParentOf, PairsDiffer, Zenon
        <3>5. <<c, b>> \notin DOMAIN T
            BY <3>1, <3>4 DEF FatTree
        <3>6. QED
            BY <3>1, <3>3, <3>4, <3>5, Zenon
    <2>9. ASSUME NEW q \in N, NEW r \in N, Moved(q, old, new) = Moved(r, old, new) PROVE q = r
        <3>1. CASE q = old \/ r = old
            BY <2>7, <2>8, <2>9, <3>1
        <3>2. CASE q # old /\ r # old
            <4>1. PICK b, c : q = <<a, b>> /\ Moved(q, old, new) = <<c, b>>
                BY <2>6, <2>9, <3>2
            <4>2. PICK d, e : r = <<a, d>> /\ Moved(r, old, new) = <<e, d>>
                BY <2>6, <2>9, <3>2
            <4>3. <<c, b>> = <<e, d>>
                BY <2>9, <4>1, <4>2
            <4>4. b = d
                BY <4>3
            <4>5. QED
                BY <4>1, <4>2, <4>4
        <3>3. QED
            BY <3>1, <3>2
    <2>10. \A q \in N \ {old} : Parent(q) = old
        BY <1>0, <2>3
    <2>11. \A p \in DOMAIN T \ N : Parent(p) \notin N
        BY <1>0, <2>3, <2>5
    <2>12. Parent(new) \notin N
        BY <2>2, <2>5
    <2>13. \A p \in DOMAIN T : p \in N <=> IsPrefix(old, p)
        BY <1>0, <2>2, <2>3
    <2>14. \A q \in N : Moved(q, old, new) \in FatPaths \ DOMAIN T
        BY <2>7, <2>8
    <2>15. QED
        BY <2>7, <2>8, <2>9, <2>10, <2>11, <2>12, <2>13, <2>14
<1>3. QED
    BY <1>0, <1>1, <1>2, FatPathKinds

(* mv takes the nodes N, old and what is below it, to paths that are free. *)
MovesTo(T, N, mv, old) ==
    /\ N \subseteq DOMAIN T /\ DOMAIN mv = N /\ \A q, r \in N : mv[q] = mv[r] => q = r
    /\ \A q \in N : mv[q] \in FatPaths \ DOMAIN T
    /\ old \in N /\ (Parent(mv[old]) = <<>> \/ (Parent(mv[old]) \in DOMAIN T \ N /\ T[Parent(mv[old])].dir))
    /\ \A q \in N \ {old} : Parent(q) = old /\ Parent(mv[q]) = mv[old]
    /\ old # <<>> /\ \A p \in DOMAIN T \ N : Parent(p) \notin N

(* g is f, with what f has for a member of N at its new place.             *)
Shifted(f, g, N, mv) ==
    /\ DOMAIN g = (DOMAIN f \ N) \cup {mv[q] : q \in N \cap DOMAIN f} /\ \A p \in DOMAIN f \ N : g[p] = f[p]
    /\ \A q \in N \cap DOMAIN f : g[mv[q]] = f[q]

Rewritten(I, J, N, mv) ==
    DOMAIN J = DOMAIN I /\ \A i \in DOMAIN I : J[i] = IF I[i] \in N THEN mv[I[i]] ELSE I[i]

(* The tree, the maps and the descriptors after the rename.                *)
LEMMA RenamedParts ==
    ASSUME NEW T, NEW P, NEW I, NEW F, NEW n, NEW m, FatTree(T, m), FatMaps(T, P, I, n), FatOpen(T, I, F, n, m),
           NEW N, NEW mv, NEW old, MovesTo(T, N, mv, old), NEW U, Shifted(T, U, N, mv), NEW Q, Shifted(P, Q, N, mv),
           NEW J, Rewritten(I, J, N, mv)
    PROVE  FatTree(U, m) /\ FatMaps(U, Q, J, n) /\ FatOpen(U, J, F, n, m)
<1>a. /\ N \subseteq DOMAIN T /\ DOMAIN mv = N /\ (\A q, r \in N : mv[q] = mv[r] => q = r)
      /\ \A q \in N : mv[q] \in FatPaths \ DOMAIN T
    BY DEF MovesTo
<1>b. /\ old \in N /\ (Parent(mv[old]) = <<>> \/ (Parent(mv[old]) \in DOMAIN T \ N /\ T[Parent(mv[old])].dir))
      /\ (\A q \in N \ {old} : Parent(q) = old /\ Parent(mv[q]) = mv[old]) /\ old # <<>>
      /\ \A p \in DOMAIN T \ N : Parent(p) \notin N
    BY DEF MovesTo
<1>c. /\ DOMAIN U = (DOMAIN T \ N) \cup {mv[q] : q \in N} /\ \A p \in DOMAIN T \ N : U[p] = T[p]
      /\ \A q \in N : U[mv[q]] = T[q]
    <2>1. N \cap DOMAIN T = N
        BY <1>a
    <2>2. QED
        BY <2>1 DEF Shifted
<1>d. /\ DOMAIN Q = (DOMAIN P \ N) \cup {mv[q] : q \in N \cap DOMAIN P} /\ \A p \in DOMAIN P \ N : Q[p] = P[p]
      /\ \A q \in N \cap DOMAIN P : Q[mv[q]] = P[q]
    BY DEF Shifted
<1>e. DOMAIN J = DOMAIN I /\ \A i \in DOMAIN I : J[i] = IF I[i] \in N THEN mv[I[i]] ELSE I[i]
    BY DEF Rewritten
<1>1. FatTree(U, m)
    <2>1. DOMAIN U \subseteq FatPaths
        BY <1>a, <1>c DEF FatTree
    <2>2. \A p \in DOMAIN U : U[p].id \in 1..m
        BY <1>a, <1>c DEF FatTree
    <2>3. \A p, q \in DOMAIN U : U[p].id = U[q].id => p = q
        <3>1. ASSUME NEW p \in DOMAIN U, NEW q \in DOMAIN U, U[p].id = U[q].id PROVE p = q
            <4>1. PICK x \in DOMAIN T : U[p] = T[x] /\ p = IF x \in N THEN mv[x] ELSE x
                BY <1>a, <1>c, <3>1
            <4>2. PICK y \in DOMAIN T : U[q] = T[y] /\ q = IF y \in N THEN mv[y] ELSE y
                BY <1>a, <1>c, <3>1
            <4>3. x = y
                BY <3>1, <4>1, <4>2 DEF FatTree
            <4>4. QED
                BY <4>1, <4>2, <4>3
        <3>2. QED
            BY <3>1
    <2>4. ASSUME NEW p \in DOMAIN U PROVE Parent(p) = <<>> \/ (Parent(p) \in DOMAIN U /\ U[Parent(p)].dir)
        <3>1. CASE p \in DOMAIN T \ N
            <4>1. Parent(p) = <<>> \/ (Parent(p) \in DOMAIN T /\ T[Parent(p)].dir)
                BY <3>1 DEF FatTree
            <4>2. QED
                BY <1>b, <1>c, <3>1, <4>1
        <3>2. CASE p = mv[old]
            BY <1>b, <1>c, <3>2
        <3>3. ASSUME NEW q \in N \ {old}, p = mv[q] PROVE Parent(p) \in DOMAIN U /\ U[Parent(p)].dir
            <4>1. Parent(q) = old /\ Parent(p) = mv[old] /\ mv[old] \in DOMAIN U /\ U[mv[old]] = T[old]
                BY <1>b, <1>c, <3>3
            <4>2. T[old].dir
                BY <1>a, <1>b, <3>3, <4>1 DEF FatTree
            <4>3. QED
                BY <4>1, <4>2
        <3>4. QED
            BY <1>c, <2>4, <3>1, <3>2, <3>3
    <2>5. QED
        BY <2>1, <2>2, <2>3, <2>4 DEF FatTree
<1>2. \A p \in DOMAIN P : p \in DOMAIN T /\ P[p] \in DOMAIN I /\ I[P[p]] = p
    BY DEF FatMaps
<1>3. \A i \in DOMAIN I : I[i] \in DOMAIN T /\ I[i] \in DOMAIN P /\ P[I[i]] = i /\ i \in Nat /\ i < n
    BY DEF FatMaps
<1>4. FatMaps(U, Q, J, n)
    <2>1. ASSUME NEW p \in DOMAIN Q PROVE Q[p] \in DOMAIN J /\ J[Q[p]] = p
        <3>1. CASE p \in DOMAIN P \ N
            BY <1>2, <1>d, <1>e, <3>1
        <3>2. ASSUME NEW q \in N \cap DOMAIN P, p = mv[q] PROVE Q[p] \in DOMAIN J /\ J[Q[p]] = p
            BY <1>2, <1>d, <1>e, <3>2
        <3>3. QED
            BY <1>d, <2>1, <3>1, <3>2
    <2>2. ASSUME NEW i \in DOMAIN J PROVE J[i] \in DOMAIN U /\ J[i] \in DOMAIN Q /\ Q[J[i]] = i /\ i \in Nat /\ i < n
        <3>1. CASE I[i] \in N
            <4>1. J[i] = mv[I[i]] /\ I[i] \in N \cap DOMAIN P
                BY <1>3, <1>e, <2>2, <3>1
            <4>2. QED
                BY <1>3, <1>c, <1>d, <1>e, <2>2, <4>1
        <3>2. CASE I[i] \notin N
            BY <1>3, <1>c, <1>d, <1>e, <2>2, <3>2
        <3>3. QED
            BY <3>1, <3>2
    <2>3. QED
        BY <2>1, <2>2 DEF FatMaps
<1>5. ASSUME NEW fd \in F
      PROVE  /\ fd.ino \in Nat /\ fd.ino < n /\ fd.id \in 1..m
             /\ fd.ino \in DOMAIN J => U[J[fd.ino]].id = fd.id
             /\ (\E p \in DOMAIN U : U[p].id = fd.id) => fd.ino \in DOMAIN J
    <2>1. /\ fd.ino \in Nat /\ fd.ino < n /\ fd.id \in 1..m
          /\ fd.ino \in DOMAIN I => T[I[fd.ino]].id = fd.id
          /\ (\E p \in DOMAIN T : T[p].id = fd.id) => fd.ino \in DOMAIN I
        BY <1>5 DEF FatOpen
    <2>2. fd.ino \in DOMAIN I => U[J[fd.ino]] = T[I[fd.ino]]
        BY <1>3, <1>c, <1>e
    <2>3. \A p \in DOMAIN U : \E x \in DOMAIN T : U[p] = T[x]
        BY <1>a, <1>c
    <2>4. QED
        BY <1>e, <2>1, <2>2, <2>3
<1>6. FatOpen(U, J, F, n, m)
    BY <1>5 DEF FatOpen
<1>7. QED
    BY <1>1, <1>4, <1>6

(* What is removed takes its number with it.                               *)
LEMMA RemovedParts ==
    ASSUME NEW T, NEW P, NEW I, NEW F, NEW n, NEW m, FatTree(T, m), FatMaps(T, P, I, n), FatOpen(T, I, F, n, m),
           NEW path \in DOMAIN T, \A p \in DOMAIN T : Parent(p) # path,
           NEW U, U = Drop(T, {path}), NEW Q, Q = Drop(P, {path}),
           NEW J, J = IF path \in DOMAIN P THEN Drop(I, {P[path]}) ELSE I
    PROVE  FatTree(U, m) /\ FatMaps(U, Q, J, n) /\ FatOpen(U, J, F, n, m)
<1>1. DOMAIN U = DOMAIN T \ {path} /\ \A p \in DOMAIN U : U[p] = T[p]
    BY DEF Drop
<1>2. DOMAIN Q = DOMAIN P \ {path} /\ \A p \in DOMAIN Q : Q[p] = P[p]
    BY DEF Drop
<1>3. \A i \in DOMAIN I : (I[i] = path <=> path \in DOMAIN P /\ i = P[path]) /\ I[i] \in DOMAIN T
    BY DEF FatMaps
<1>4. DOMAIN J = {i \in DOMAIN I : I[i] # path} /\ \A i \in DOMAIN J : J[i] = I[i]
    <2>1. CASE path \in DOMAIN P
        BY <1>3, <2>1 DEF Drop
    <2>2. CASE path \notin DOMAIN P
        BY <1>3, <2>2
    <2>3. QED
        BY <2>1, <2>2
<1>5. FatTree(U, m)
    <2>1. DOMAIN T \subseteq FatPaths /\ \A p \in DOMAIN T : T[p].id \in 1..m
        BY DEF FatTree
    <2>2. \A p, q \in DOMAIN T : T[p].id = T[q].id => p = q
        BY DEF FatTree
    <2>3. \A p \in DOMAIN T : Parent(p) = <<>> \/ (Parent(p) \in DOMAIN T /\ T[Parent(p)].dir)
        BY DEF FatTree
    <2>4. DOMAIN U \subseteq FatPaths /\ \A p \in DOMAIN U : U[p].id \in 1..m
        BY <1>1, <2>1
    <2>5. \A p, q \in DOMAIN U : U[p].id = U[q].id => p = q
        BY <1>1, <2>2
    <2>6. \A p \in DOMAIN U : Parent(p) = <<>> \/ (Parent(p) \in DOMAIN U /\ U[Parent(p)].dir)
        BY <1>1, <2>3
    <2>7. QED
        BY <2>4, <2>5, <2>6 DEF FatTree
<1>6. FatMaps(U, Q, J, n)
    <2>1. \A p \in DOMAIN P : P[p] \in DOMAIN I /\ I[P[p]] = p
        BY DEF FatMaps
    <2>2. \A i \in DOMAIN I : I[i] \in DOMAIN T /\ I[i] \in DOMAIN P /\ P[I[i]] = i /\ i \in Nat /\ i < n
        BY DEF FatMaps
    <2>3. \A p \in DOMAIN Q : Q[p] \in DOMAIN J /\ J[Q[p]] = p
        BY <1>2, <1>4, <2>1
    <2>4. \A i \in DOMAIN J : J[i] \in DOMAIN U /\ J[i] \in DOMAIN Q /\ Q[J[i]] = i /\ i \in Nat /\ i < n
        BY <1>1, <1>2, <1>4, <2>2
    <2>5. QED
        BY <2>3, <2>4 DEF FatMaps
<1>7. ASSUME NEW fd \in F
      PROVE  /\ fd.ino \in Nat /\ fd.ino < n /\ fd.id \in 1..m
             /\ fd.ino \in DOMAIN J => U[J[fd.ino]].id = fd.id
             /\ (\E p \in DOMAIN U : U[p].id = fd.id) => fd.ino \in DOMAIN J
    <2>1. /\ fd.ino \in Nat /\ fd.ino < n /\ fd.id \in 1..m
          /\ fd.ino \in DOMAIN I => T[I[fd.ino]].id = fd.id
          /\ (\E p \in DOMAIN T : T[p].id = fd.id) => fd.ino \in DOMAIN I
        BY <1>7 DEF FatOpen
    <2>2. ASSUME NEW p \in DOMAIN U, U[p].id = fd.id PROVE fd.ino \in DOMAIN J
        <3>1. fd.ino \in DOMAIN I /\ T[I[fd.ino]].id = fd.id /\ T[p].id = fd.id /\ p # path
            BY <1>1, <2>1, <2>2
        <3>2. I[fd.ino] = p
            BY <1>1, <1>3, <2>2, <3>1 DEF FatTree
        <3>3. QED
            BY <1>4, <3>1, <3>2
    <2>3. fd.ino \in DOMAIN J => U[J[fd.ino]].id = fd.id
        BY <1>1, <1>3, <1>4, <2>1
    <2>4. QED
        BY <2>1, <2>2, <2>3
<1>8. FatOpen(U, J, F, n, m)
    BY <1>7 DEF FatOpen
<1>9. QED
    BY <1>5, <1>6, <1>8

(***************************************************************************)
(* The steps.                                                              *)
(***************************************************************************)
LEMMA FatStarts == FatInit => FatInv
<1> SUFFICES ASSUME FatInit PROVE FatInv
    OBVIOUS
<1>1. PICK a, b \in FatNames : tree = Put(Put(NoEntries, <<a>>, [id |-> 1, dir |-> TRUE]), <<a, b>>, [id |-> 2, dir |-> FALSE])
    BY DEF FatInit
<1>2. path_to_ino = NoEntries /\ ino_to_path = NoEntries /\ next_ino = 1 /\ made = 2 /\ fatFds = {} /\ DOMAIN NoEntries = {}
    BY DEF FatInit, NoEntries
<1>3. PICK p, q : p = <<a>> /\ q = <<a, b>>
    OBVIOUS
<1>4. p # q /\ Parent(p) = <<>> /\ Parent(q) = p
    BY <1>3, PairsDiffer, ParentOf
<1>5. p \in FatPaths /\ q \in FatPaths
    BY <1>1, <1>3 DEF FatPaths
<1>6. DOMAIN tree = {p, q} /\ tree[p] = [id |-> 1, dir |-> TRUE] /\ tree[q] = [id |-> 2, dir |-> FALSE]
    BY <1>1, <1>2, <1>3, <1>4 DEF Put
<1>7. tree[p].id = 1 /\ tree[q].id = 2 /\ tree[p].dir
    BY <1>6
<1>8. 1 \in 1..2 /\ 2 \in 1..2
    OBVIOUS
<1>9. FatTree(tree, made)
    BY <1>2, <1>4, <1>5, <1>6, <1>7, <1>8 DEF FatTree
<1>10. FatMaps(tree, path_to_ino, ino_to_path, next_ino)
    BY <1>2 DEF FatMaps
<1>11. FatOpen(tree, ino_to_path, fatFds, next_ino, made)
    BY <1>2 DEF FatOpen
<1>12. QED
    BY <1>2, <1>9, <1>10, <1>11 DEF FatInv

(* Numbering a path that is there, in a tree that may just have grown.     *)
LEMMA Numbering ==
    ASSUME made' \in Nat, next_ino \in Nat, NEW F, FatTree(tree', made'), FatMaps(tree', path_to_ino, ino_to_path, next_ino),
           FatOpen(tree', ino_to_path, F, next_ino, made'), NEW path \in DOMAIN tree', fat_alloc_inode(path),
           fatFds' = F \/ fatFds' = F \cup {[ino |-> FatInode(path), id |-> tree'[path].id]}
    PROVE  FatInv'
<1>1. PICK i, k : i = FatInode(path) /\ k = IF path \in DOMAIN path_to_ino THEN next_ino ELSE next_ino + 1
    OBVIOUS
<1>2. path_to_ino' = Put(path_to_ino, path, i) /\ ino_to_path' = Put(ino_to_path, i, path) /\ next_ino' = k
    BY <1>1 DEF fat_alloc_inode
<1>3. i = IF path \in DOMAIN path_to_ino THEN path_to_ino[path] ELSE next_ino
    BY <1>1 DEF FatInode
<1>4. /\ FatMaps(tree', path_to_ino', ino_to_path', next_ino')
      /\ next_ino' \in Nat /\ next_ino <= next_ino' /\ i \in Nat /\ i < next_ino'
      /\ i \in DOMAIN ino_to_path' /\ ino_to_path'[i] = path
      /\ \A j \in DOMAIN ino_to_path : j \in DOMAIN ino_to_path' /\ ino_to_path'[j] = ino_to_path[j]
      /\ \A j \in DOMAIN ino_to_path' : j < next_ino => j \in DOMAIN ino_to_path
    BY <1>1, <1>2, <1>3, AllocNumber
<1>5. FatOpen(tree', ino_to_path', F, next_ino', made')
    BY <1>4, OpenKept
<1>6. tree'[path].id \in 1..made'
    BY DEF FatTree
<1>7. FatOpen(tree', ino_to_path', fatFds', next_ino', made')
    <2>1. CASE fatFds' = F
        BY <1>5, <2>1
    <2>2. CASE fatFds' = F \cup {[ino |-> i, id |-> tree'[path].id]}
        <3>1. PICK new : new = [ino |-> i, id |-> tree'[path].id]
            OBVIOUS
        <3>2. new.ino = i /\ new.id = tree'[path].id
            BY <3>1
        <3>3. fatFds' = F \cup {new}
            BY <2>2, <3>1
        <3>4. QED
            BY <1>4, <1>5, <1>6, <3>2, <3>3 DEF FatOpen
    <2>3. QED
        BY <1>1, <2>1, <2>2
<1>8. QED
    BY <1>4, <1>7 DEF FatInv

(* The invariant by its parts.                                             *)
LEMMA FatNow ==
    ASSUME FatInv
    PROVE  /\ FatTree(tree, made) /\ FatMaps(tree, path_to_ino, ino_to_path, next_ino)
           /\ FatOpen(tree, ino_to_path, fatFds, next_ino, made) /\ made \in Nat /\ next_ino \in Nat
    BY DEF FatInv

(* fat_rename keeps the invariant.                                         *)
LEMMA FatRenames ==
    ASSUME FatInv, NEW old \in FatPaths, NEW new \in FatPaths, fat_rename(old, new)
    PROVE  FatInv'
<1>1. PICK N, keys, nums : /\ N = {old} \cup Below(old) /\ keys = fat_moved(old) /\ nums = {path_to_ino[p] : p \in keys}
    OBVIOUS
<1>2. /\ old \in DOMAIN tree /\ new \notin DOMAIN tree /\ IsDir(Parent(new)) /\ ~IsPrefix(old, new)
      /\ tree[old].dir /\ Below(old) # {} => Len(new) <= Len(old)
      /\ tree' = [p \in (DOMAIN tree \ N) \cup {Moved(q, old, new) : q \in N} |->
                    IF p \in DOMAIN tree \ N THEN tree[p] ELSE tree[CHOOSE q \in N : Moved(q, old, new) = p]]
      /\ path_to_ino' = [p \in (DOMAIN path_to_ino \ keys) \cup {Moved(q, old, new) : q \in keys} |->
                    IF p \in {Moved(q, old, new) : q \in keys}
                    THEN path_to_ino[CHOOSE q \in keys : Moved(q, old, new) = p] ELSE path_to_ino[p]]
      /\ ino_to_path' = [i \in DOMAIN ino_to_path |->
                    IF i \in nums THEN Moved(ino_to_path[i], old, new) ELSE ino_to_path[i]]
      /\ next_ino' = next_ino /\ made' = made /\ fatFds' = fatFds
    BY <1>1 DEF fat_rename
<1>3. N = {old} \cup {p \in DOMAIN tree : IsStrictPrefix(old, p)}
    BY <1>1 DEF Below
<1>4. Parent(new) = <<>> \/ (Parent(new) \in DOMAIN tree /\ tree[Parent(new)].dir)
    BY <1>2 DEF IsDir
<1>5. \A p \in DOMAIN tree : Parent(p) = old => tree[old].dir
    <2>1. <<>> \notin FatPaths
        BY PairsDiffer, FatPathKinds
    <2>2. QED
        BY <2>1, FatNow DEF FatTree
<1>6. N # {old} => Len(new) <= Len(old)
    <2>1. ASSUME NEW p \in DOMAIN tree, IsStrictPrefix(old, p) PROVE Parent(p) = old
        <3>1. p \in FatPaths
            BY <2>1, FatNow DEF FatTree
        <3>2. QED
            BY <2>1, <3>1, ChildIsBelow
    <2>2. QED
        BY <1>1, <1>2, <1>3, <1>5, <2>1
<1>7. /\ \A q \in N : Moved(q, old, new) \in FatPaths \ DOMAIN tree
      /\ \A q, r \in N : Moved(q, old, new) = Moved(r, old, new) => q = r
      /\ Moved(old, old, new) = new
      /\ \A q \in N \ {old} : Parent(q) = old /\ Parent(Moved(q, old, new)) = new
      /\ \A p \in DOMAIN tree \ N : Parent(p) \notin N
      /\ Parent(new) \notin N
      /\ \A p \in DOMAIN tree : p \in N <=> IsPrefix(old, p)
    BY <1>2, <1>3, <1>4, <1>6, FatNow, MovedApart
<1>8. PICK mv : mv = [q \in N |-> Moved(q, old, new)]
    OBVIOUS
<1>9. DOMAIN mv = N /\ \A q \in N : mv[q] = Moved(q, old, new)
    BY <1>8
<1>10. N \subseteq DOMAIN tree /\ old \in N
    BY <1>2, <1>3
<1>11. \A p \in DOMAIN path_to_ino : p \in DOMAIN tree /\ path_to_ino[p] \in DOMAIN ino_to_path /\ ino_to_path[path_to_ino[p]] = p
    BY FatNow DEF FatMaps
<1>12. keys = N \cap DOMAIN path_to_ino
    BY <1>1, <1>7, <1>10, <1>11 DEF fat_moved, MovedKeys
<1>13. DOMAIN tree' = (DOMAIN tree \ N) \cup {mv[q] : q \in N} /\ (\A p \in DOMAIN tree \ N : tree'[p] = tree[p])
       /\ \A q \in N : tree'[mv[q]] = tree[q]
    <2>1. PICK M, D : M = {mv[q] : q \in N} /\ D = DOMAIN tree \ N
        OBVIOUS
    <2>2. M = {Moved(q, old, new) : q \in N}
        BY <1>9, <2>1
    <2>3. \A q \in N : mv[q] \in M /\ mv[q] \notin D
        BY <1>7, <1>9, <2>1
    <2>4. \A q \in N : (CHOOSE r \in N : Moved(r, old, new) = mv[q]) = q
        BY <1>7, <1>9
    <2>5. tree' = [p \in D \cup M |-> IF p \in D THEN tree[p] ELSE tree[CHOOSE q \in N : Moved(q, old, new) = p]]
        BY <1>2, <2>1, <2>2
    <2>6. DOMAIN tree' = D \cup M /\ \A p \in D : tree'[p] = tree[p]
        BY <2>5
    <2>7. \A q \in N : tree'[mv[q]] = tree[q]
        BY <2>3, <2>4, <2>5
    <2>8. QED
        BY <2>1, <2>6, <2>7
<1>14. DOMAIN path_to_ino' = (DOMAIN path_to_ino \ N) \cup {mv[q] : q \in N \cap DOMAIN path_to_ino}
       /\ (\A p \in DOMAIN path_to_ino \ N : path_to_ino'[p] = path_to_ino[p])
       /\ \A q \in N \cap DOMAIN path_to_ino : path_to_ino'[mv[q]] = path_to_ino[q]
    <2>1. PICK M, D : M = {mv[q] : q \in keys} /\ D = DOMAIN path_to_ino \ N
        OBVIOUS
    <2>2. M = {Moved(q, old, new) : q \in keys} /\ D = DOMAIN path_to_ino \ keys
        BY <1>9, <1>12, <2>1
    <2>3. \A q \in keys : mv[q] \in M /\ mv[q] \notin DOMAIN path_to_ino
        BY <1>7, <1>9, <1>11, <1>12, <2>1
    <2>4. \A q \in keys : (CHOOSE r \in keys : Moved(r, old, new) = mv[q]) = q
        BY <1>7, <1>9, <1>12
    <2>5. path_to_ino' = [p \in D \cup M |-> IF p \in M THEN path_to_ino[CHOOSE q \in keys : Moved(q, old, new) = p] ELSE path_to_ino[p]]
        BY <1>2, <2>2
    <2>6. DOMAIN path_to_ino' = D \cup M
        BY <2>5
    <2>7. \A p \in D : path_to_ino'[p] = path_to_ino[p]
        BY <2>1, <2>3, <2>5
    <2>8. \A q \in keys : path_to_ino'[mv[q]] = path_to_ino[q]
        BY <2>3, <2>4, <2>5
    <2>9. QED
        BY <1>12, <2>1, <2>6, <2>7, <2>8
<1>15. DOMAIN ino_to_path' = DOMAIN ino_to_path
       /\ \A i \in DOMAIN ino_to_path : ino_to_path'[i] = IF ino_to_path[i] \in N THEN mv[ino_to_path[i]] ELSE ino_to_path[i]
    <2>1. \A i \in DOMAIN ino_to_path : ino_to_path[i] \in DOMAIN path_to_ino /\ path_to_ino[ino_to_path[i]] = i
        BY FatNow DEF FatMaps
    <2>2. \A i \in DOMAIN ino_to_path : i \in nums <=> ino_to_path[i] \in N
        BY <1>1, <1>11, <1>12, <2>1
    <2>3. QED
        BY <1>2, <1>9, <2>2
<1>16. mv[old] = new /\ (Parent(mv[old]) = <<>> \/ (Parent(mv[old]) \in DOMAIN tree \ N /\ tree[Parent(mv[old])].dir))
    BY <1>4, <1>7, <1>9, <1>10
<1>17. (\A q \in N \ {old} : Parent(q) = old /\ Parent(mv[q]) = mv[old]) /\ old # <<>>
    BY <1>7, <1>9, <1>16, PairsDiffer, FatPathKinds
<1>18. (\A q, r \in N : mv[q] = mv[r] => q = r) /\ (\A q \in N : mv[q] \in FatPaths \ DOMAIN tree)
    BY <1>7, <1>9
<1>19. FatTree(tree', made) /\ FatMaps(tree', path_to_ino', ino_to_path', next_ino) /\ FatOpen(tree', ino_to_path', fatFds, next_ino, made)
    <2>1. MovesTo(tree, N, mv, old)
        BY <1>7, <1>9, <1>10, <1>16, <1>17, <1>18 DEF MovesTo
    <2>2. Shifted(tree, tree', N, mv)
        <3>1. N \cap DOMAIN tree = N
            BY <1>10
        <3>2. QED
            BY <1>13, <3>1 DEF Shifted
    <2>3. Shifted(path_to_ino, path_to_ino', N, mv) /\ Rewritten(ino_to_path, ino_to_path', N, mv)
        BY <1>14, <1>15 DEF Shifted, Rewritten
    <2>4. QED
        BY <2>1, <2>2, <2>3, FatNow, RenamedParts
<1>20. QED
    BY <1>2, <1>19, FatNow DEF FatInv

(* Every step of Fat.                                                      *)
LEMMA FatSteps == FatInv /\ FatNext => FatInv'
<1> SUFFICES ASSUME FatInv, FatNext PROVE FatInv'
    OBVIOUS
<1>1. ASSUME NEW p \in FatPaths, NEW dir \in BOOLEAN, fat_create(p, dir) PROVE FatInv'
    <2>1. IsDir(Parent(p)) /\ fat_alloc_inode(p) /\ fatFds' = fatFds
        BY <1>1 DEF fat_create
    <2>2. CASE p \in DOMAIN tree
        <3>1. tree' = tree /\ made' = made
            BY <1>1, <2>2 DEF fat_create
        <3>2. QED
            BY <2>1, <2>2, <3>1, FatNow, Numbering
    <2>3. CASE p \notin DOMAIN tree
        <3>1. PICK e : e = [id |-> made + 1, dir |-> dir]
            OBVIOUS
        <3>2. made' = made + 1 /\ tree' = Put(tree, p, e) /\ e.id = made + 1
            BY <1>1, <2>3, <3>1 DEF fat_create
        <3>3. Parent(p) = <<>> \/ (Parent(p) \in DOMAIN tree /\ tree[Parent(p)].dir)
            BY <2>1 DEF IsDir
        <3>4. FatTree(tree', made') /\ FatMaps(tree', path_to_ino, ino_to_path, next_ino) /\ FatOpen(tree', ino_to_path, fatFds, next_ino, made')
            BY <1>1, <2>3, <3>2, <3>3, FatNow, AddNode
        <3>5. p \in DOMAIN tree' /\ made' \in Nat
            <4>1. p \in DOMAIN tree'
                BY <3>2 DEF Put
            <4>2. QED
                BY <3>2, <4>1, FatNow
        <3>6. QED
            BY <2>1, <3>4, <3>5, FatNow, Numbering
    <2>4. QED
        BY <2>2, <2>3
<1>2. ASSUME NEW p \in FatPaths, fat_lookup(p) PROVE FatInv'
    <2>1. p \in DOMAIN tree /\ fat_alloc_inode(p) /\ tree' = tree /\ made' = made /\ fatFds' = fatFds
        BY <1>2 DEF fat_lookup
    <2>2. QED
        BY <2>1, FatNow, Numbering
<1>3. ASSUME NEW p \in FatPaths, fat_open(p) PROVE FatInv'
    <2>1. /\ p \in DOMAIN tree /\ fat_alloc_inode(p) /\ tree' = tree /\ made' = made
          /\ fatFds' = fatFds \cup {[ino |-> FatInode(p), id |-> tree'[p].id]}
        BY <1>3 DEF fat_open
    <2>2. QED
        BY <2>1, FatNow, Numbering
<1>4. ASSUME NEW p \in FatPaths, fat_remove(p) PROVE FatInv'
    <2>1. /\ p \in DOMAIN tree /\ Below(p) = {} /\ tree' = Drop(tree, {p}) /\ path_to_ino' = Drop(path_to_ino, {p})
          /\ ino_to_path' = IF p \in DOMAIN path_to_ino THEN Drop(ino_to_path, {path_to_ino[p]}) ELSE ino_to_path
          /\ next_ino' = next_ino /\ made' = made /\ fatFds' = fatFds
        BY <1>4 DEF fat_remove, fat_forget
    <2>2. ASSUME NEW q \in DOMAIN tree, Parent(q) = p PROVE FALSE
        <3>1. q \in FatPaths
            BY <2>2, FatNow DEF FatTree
        <3>2. IsStrictPrefix(p, q)
            BY <1>4, <2>2, <3>1, ChildIsBelow
        <3>3. QED
            BY <2>1, <2>2, <3>2 DEF Below
    <2>3. FatTree(tree', made) /\ FatMaps(tree', path_to_ino', ino_to_path', next_ino) /\ FatOpen(tree', ino_to_path', fatFds, next_ino, made)
        BY <2>1, <2>2, FatNow, RemovedParts
    <2>4. QED
        BY <2>1, <2>3, FatNow DEF FatInv
<1>5. ASSUME NEW fd \in fatFds, fat_close(fd) PROVE FatInv'
    <2>1. fatFds' = fatFds \ {fd} /\ UNCHANGED <<tree, path_to_ino, ino_to_path, next_ino, made>>
        BY <1>5 DEF fat_close
    <2>2. FatOpen(tree, ino_to_path, fatFds', next_ino, made)
        BY <2>1, FatNow DEF FatOpen
    <2>3. QED
        BY <2>1, <2>2, FatNow DEF FatInv
<1>6. QED
    BY <1>1, <1>2, <1>3, <1>4, <1>5, FatRenames, Zenon DEF FatNext

(* The invariant gives what the run checks of FAT.                         *)
LEMMA FatHolds == FatInv => DescriptorFollowsFile /\ InodeMapsInverse
<1> SUFFICES ASSUME FatInv PROVE DescriptorFollowsFile /\ InodeMapsInverse
    OBVIOUS
<1>1. InodeMapsInverse
    BY FatNow DEF FatMaps, InodeMapsInverse
<1>2. ASSUME NEW fd \in fatFds
      PROVE  fat_reached(fd.ino) = IF \E p \in DOMAIN tree : tree[p].id = fd.id THEN {fd.id} ELSE {}
    <2>1. /\ fd.ino \in DOMAIN ino_to_path => tree[ino_to_path[fd.ino]].id = fd.id
          /\ (\E p \in DOMAIN tree : tree[p].id = fd.id) => fd.ino \in DOMAIN ino_to_path
        BY <1>2, FatNow DEF FatOpen
    <2>2. fd.ino \in DOMAIN ino_to_path => ino_to_path[fd.ino] \in DOMAIN tree
        BY FatNow DEF FatMaps
    <2>3. QED
        BY <2>1, <2>2 DEF fat_reached
<1>3. QED
    BY <1>1, <1>2 DEF DescriptorFollowsFile

(***************************************************************************)
(* Block devices: bytes and their sectors.                                 *)
(***************************************************************************)
LEMMA TimesLe ==
    ASSUME NEW x \in Int, NEW y \in Int, NEW s \in Nat, x <= y
    PROVE  x * s <= y * s
<1>1. PICK d \in Nat : y = x + d
    <2>1. y - x \in Nat /\ y = x + (y - x)
        OBVIOUS
    <2>2. QED
        BY <2>1
<1>2. y * s = x * s + d * s /\ d * s \in Nat /\ x * s \in Int
    BY <1>1
<1>3. QED
    BY <1>2

(* Quotient and remainder.                                                 *)
LEMMA DivMod ==
    ASSUME NEW b \in Nat, NEW s \in Nat \ {0}
    PROVE  b \div s \in Nat /\ b % s \in 0..(s - 1) /\ b = (b \div s) * s + (b % s)
<1>1. b \div s \in Nat
    OBVIOUS
<1>2. b % s \in 0..(s - 1)
    OBVIOUS
<1>3. b = (b \div s) * s + (b % s)
    OBVIOUS
<1>4. QED
    BY <1>1, <1>2, <1>3

(* The sector of a byte, and its place there.                              *)
LEMMA SectorOf ==
    ASSUME NEW b \in Nat
    PROVE  /\ b \div Sector \in Nat /\ b % Sector \in 0..(Sector - 1) /\ b = (b \div Sector) * Sector + (b % Sector)
    BY BlockAssumption, DivMod

(* A byte lies in one sector only.                                         *)
LEMMA SectorIs ==
    ASSUME NEW q \in Int, NEW r \in 0..(Sector - 1), NEW b \in Nat, b = q * Sector + r
    PROVE  b \div Sector = q /\ b % Sector = r
<1>1. PICK p, t : p = b \div Sector /\ t = b % Sector
    OBVIOUS
<1>2. p \in Nat /\ t \in 0..(Sector - 1) /\ b = p * Sector + t
    BY <1>1, SectorOf
<1>3. Sector \in Nat \ {0}
    BY BlockAssumption
<1>4. ~(p < q)
    <2>1. SUFFICES ASSUME p + 1 <= q PROVE FALSE
        BY <1>2
    <2>2. (p + 1) * Sector <= q * Sector
        BY <1>2, <1>3, <2>1, TimesLe
    <2>3. (p + 1) * Sector = p * Sector + Sector /\ p * Sector \in Int /\ q * Sector \in Int
        BY <1>2, <1>3
    <2>4. QED
        BY <1>2, <1>3, <2>2, <2>3
<1>5. ~(q < p)
    <2>1. SUFFICES ASSUME q + 1 <= p PROVE FALSE
        BY <1>2
    <2>2. (q + 1) * Sector <= p * Sector
        BY <1>2, <1>3, <2>1, TimesLe
    <2>3. (q + 1) * Sector = q * Sector + Sector /\ p * Sector \in Int /\ q * Sector \in Int
        BY <1>2, <1>3
    <2>4. QED
        BY <1>2, <1>3, <2>2, <2>3
<1>6. p = q
    BY <1>2, <1>4, <1>5
<1>7. t = r
    <2>1. q * Sector \in Int
        BY <1>3
    <2>2. QED
        BY <1>2, <1>6, <2>1
<1>8. QED
    BY <1>1, <1>6, <1>7

(* Sectors come in the order of their bytes.                               *)
LEMMA SectorsInOrder ==
    ASSUME NEW b \in Nat, NEW c \in Nat, b <= c
    PROVE  b \div Sector <= c \div Sector
<1>1. PICK p, q, t, u : p = b \div Sector /\ q = c \div Sector /\ t = b % Sector /\ u = c % Sector
    OBVIOUS
<1>2. p \in Nat /\ q \in Nat /\ t \in 0..(Sector - 1) /\ u \in 0..(Sector - 1) /\ b = p * Sector + t /\ c = q * Sector + u
    BY <1>1, SectorOf
<1>3. Sector \in Nat \ {0}
    BY BlockAssumption
<1>4. SUFFICES ASSUME q + 1 <= p PROVE FALSE
    BY <1>1, <1>2
<1>5. (q + 1) * Sector <= p * Sector
    BY <1>2, <1>3, <1>4, TimesLe
<1>6. (q + 1) * Sector = q * Sector + Sector /\ p * Sector \in Int /\ q * Sector \in Int
    BY <1>2, <1>3
<1>7. QED
    BY <1>2, <1>3, <1>5, <1>6

(* A byte of the disk is in a sector of the disk, and the other way round. *)
LEMMA SectorOnDisk ==
    ASSUME NEW b \in DiskBytes
    PROVE  b \in Nat /\ b \div Sector \in 0..(NSectors - 1)
<1>1. Sector \in Nat \ {0} /\ NSectors \in Nat
    BY BlockAssumption
<1>2. PICK z : z = Sector * NSectors
    OBVIOUS
<1>3. z \in Nat /\ z = NSectors * Sector
    BY <1>1, <1>2
<1>4. b \in Nat /\ b <= z - 1
    BY <1>2, <1>3 DEF DiskBytes
<1>5. PICK p, t : p = b \div Sector /\ t = b % Sector
    OBVIOUS
<1>6. p \in Nat /\ t \in 0..(Sector - 1) /\ b = p * Sector + t
    BY <1>4, <1>5, SectorOf
<1>7. ~(NSectors <= p)
    <2>1. SUFFICES ASSUME NSectors <= p PROVE FALSE
        OBVIOUS
    <2>2. NSectors * Sector <= p * Sector /\ p * Sector \in Int
        BY <1>1, <1>6, <2>1, TimesLe
    <2>3. QED
        BY <1>3, <1>4, <1>6, <2>2
<1>8. QED
    BY <1>1, <1>4, <1>5, <1>6, <1>7

(* A place in a sector of the disk is a byte of the disk.                  *)
LEMMA ByteOfSector ==
    ASSUME NEW lba \in 0..(NSectors - 1), NEW k \in 0..(Sector - 1)
    PROVE  /\ lba * Sector + k \in DiskBytes /\ (lba * Sector + k) \div Sector = lba /\ (lba * Sector + k) % Sector = k
<1>1. Sector \in Nat \ {0} /\ NSectors \in Nat
    BY BlockAssumption
<1>2. PICK b : b = lba * Sector + k
    OBVIOUS
<1>3. lba * Sector \in Nat /\ (lba + 1) * Sector = lba * Sector + Sector
    BY <1>1
<1>4. (lba + 1) * Sector <= NSectors * Sector
    BY <1>1, TimesLe
<1>5. Sector * NSectors = NSectors * Sector /\ Sector * NSectors \in Nat
    BY <1>1
<1>6. b \in Nat /\ b <= Sector * NSectors - 1
    BY <1>1, <1>2, <1>3, <1>4, <1>5
<1>7. b \in DiskBytes
    BY <1>5, <1>6 DEF DiskBytes
<1>8. QED
    BY <1>2, <1>6, <1>7, SectorIs

(***************************************************************************)
(* The cached sector is the disk's, unless a write to /dev goes past it or *)
(* a failed read leaves part of another one behind.                        *)
(***************************************************************************)
CacheTrue(c, m) == c.lba = NoLba \/ (c.lba \in 0..(NSectors - 1) /\ c.data = SectorAt(m, c.lba))

(* What the driver's code needs of its callers: /dev is not written below a mounted
   file system and only at the start of a sector, and a read that fails fills nothing.  *)
DriversLimits == ~RawMounted /\ ~TornReads /\ \A at \in RawOffsets : at % Sector = 0

BlockInv ==
    /\ DOMAIN medium = DiskBytes /\ writes \in Nat
    /\ mountedPart => CacheTrue(cached, medium)
    /\ ReadIsTheDisk /\ WriteInRange

(* A sector holds the bytes of the medium.                                 *)
LEMMA SectorBytes ==
    ASSUME NEW m, NEW b \in DiskBytes
    PROVE  SectorAt(m, b \div Sector)[b % Sector] = m[b]
<1>1. b \in Nat
    BY SectorOnDisk
<1>2. PICK q, r : q = b \div Sector /\ r = b % Sector
    OBVIOUS
<1>3. r \in 0..(Sector - 1) /\ b = q * Sector + r
    BY <1>1, <1>2, SectorOf
<1>4. SectorAt(m, q)[r] = m[q * Sector + r]
    BY <1>3 DEF SectorAt
<1>5. QED
    BY <1>2, <1>3, <1>4

(* The bytes of a transfer are on the disk, in the sectors from its first to its last.  *)
LEMMA TransferBytes ==
    ASSUME NEW at \in DiskBytes, NEW len \in 1..MaxLen, at + len - 1 \in DiskBytes
    PROVE  /\ at \in Nat /\ FirstLba(at) \in 0..(NSectors - 1) /\ LastLba(at, len) \in 0..(NSectors - 1)
           /\ FirstLba(at) <= LastLba(at, len)
           /\ \A k \in 1..len : at + k - 1 \in DiskBytes /\ Lba(at, k - 1) = (at + k - 1) \div Sector
           /\ \A b \in at..(at + len - 1) : b \in DiskBytes /\ b \div Sector \in FirstLba(at)..LastLba(at, len)
<1>1. Sector \in Nat \ {0} /\ NSectors \in Nat /\ MaxLen \in Nat /\ len \in Nat /\ Sector * NSectors \in Nat
    BY BlockAssumption
<1>2. at \in Nat
    BY SectorOnDisk
<1>3. at + 0 = at /\ at + (len - 1) = at + len - 1 /\ at <= at + len - 1 /\ at + len - 1 \in Nat
    BY <1>1, <1>2
<1>4. FirstLba(at) = at \div Sector /\ LastLba(at, len) = (at + len - 1) \div Sector
    BY <1>3 DEF FirstLba, LastLba, Lba
<1>5. FirstLba(at) \in 0..(NSectors - 1) /\ LastLba(at, len) \in 0..(NSectors - 1)
    BY <1>4, SectorOnDisk
<1>6. FirstLba(at) <= LastLba(at, len)
    BY <1>2, <1>3, <1>4, SectorsInOrder
<1>7. ASSUME NEW b \in at..(at + len - 1) PROVE b \in DiskBytes /\ b \div Sector \in FirstLba(at)..LastLba(at, len)
    <2>1. b \in Nat /\ at <= b /\ b <= at + len - 1
        BY <1>2, <1>3
    <2>2. b \in DiskBytes
        BY <1>1, <1>3, <2>1 DEF DiskBytes
    <2>3. b \div Sector \in Nat
        BY <2>1, SectorOf
    <2>4. at \div Sector <= b \div Sector /\ b \div Sector <= (at + len - 1) \div Sector
        BY <1>2, <1>3, <2>1, SectorsInOrder
    <2>5. QED
        BY <1>4, <1>5, <2>2, <2>3, <2>4
<1>8. ASSUME NEW k \in 1..len PROVE at + k - 1 \in DiskBytes /\ Lba(at, k - 1) = (at + k - 1) \div Sector
    <2>1. at + (k - 1) = at + k - 1 /\ at + k - 1 \in at..(at + len - 1)
        BY <1>1, <1>2
    <2>2. QED
        BY <1>7, <2>1 DEF Lba
<1>9. QED
    BY <1>2, <1>5, <1>6, <1>7, <1>8

(* With a true cache a sector is seen as it is on the medium.              *)
LEMMA SeenIsDisk ==
    ASSUME CacheTrue(cached, medium), NEW at, NEW lba \in 0..(NSectors - 1)
    PROVE  Seen(at, lba) = SectorAt(medium, lba)
<1>1. lba # NoLba
    BY BlockAssumption DEF NoLba
<1>2. QED
    BY <1>1 DEF CacheTrue, Seen, Hit

(* A read of the file system returns the medium.                           *)
LEMMA BlockReads ==
    ASSUME BlockInv, ~TornReads, NEW at \in DiskBytes, NEW len \in 1..MaxLen, at + len - 1 \in DiskBytes, fat_read(at, len)
    PROVE  BlockInv'
<1>1. mountedPart /\ medium' = medium /\ mountedPart' = mountedPart /\ writes' = writes
    BY DEF fat_read
<1>2. CacheTrue(cached, medium) /\ DOMAIN medium = DiskBytes /\ writes \in Nat
    BY <1>1 DEF BlockInv
<1>3. PICK first, last : first = FirstLba(at) /\ last = LastLba(at, len)
    OBVIOUS
<1>4. first \in 0..(NSectors - 1) /\ last \in 0..(NSectors - 1) /\ first <= last
    BY <1>3, TransferBytes
<1>5. SUFFICES CacheTrue(cached', medium) /\ ReadIsTheDisk' /\ blkCall'.kind = "fatread"
    BY <1>1, <1>2, <1>5 DEF BlockInv, WriteInRange
<1>6. CASE /\ cached' = [lba |-> LastLba(at, len), data |-> Seen(at, LastLba(at, len))]
           /\ blkCall' = [kind |-> "fatread", at |-> at, len |-> len, ok |-> TRUE, before |-> medium,
                         got |-> [k \in 1..len |-> Seen(at, Lba(at, k - 1))[(at + k - 1) % Sector]]]
    <2>1. cached'.lba = last /\ cached'.data = Seen(at, last)
        BY <1>3, <1>6
    <2>2. CacheTrue(cached', medium)
        BY <1>2, <1>4, <2>1, SeenIsDisk DEF CacheTrue
    <2>3. ASSUME NEW k \in 1..len PROVE Seen(at, Lba(at, k - 1))[(at + k - 1) % Sector] = medium[at + k - 1]
        <3>1. PICK b : b = at + k - 1
            OBVIOUS
        <3>2. b \in DiskBytes /\ Lba(at, k - 1) = b \div Sector
            BY <3>1, TransferBytes
        <3>3. b \div Sector \in 0..(NSectors - 1)
            BY <3>2, SectorOnDisk
        <3>4. Seen(at, b \div Sector) = SectorAt(medium, b \div Sector)
            BY <1>2, <3>3, SeenIsDisk
        <3>5. QED
            BY <3>1, <3>2, <3>4, SectorBytes
    <2>4. blkCall'.kind = "fatread" /\ blkCall'.at = at /\ blkCall'.len = len
          /\ blkCall'.got = [k \in 1..len |-> Seen(at, Lba(at, k - 1))[(at + k - 1) % Sector]]
        BY <1>6
    <2>5. blkCall'.got = [k \in 1..len |-> medium[at + k - 1]]
        BY <2>3, <2>4
    <2>6. ReadIsTheDisk'
        BY <1>1, <2>4, <2>5 DEF ReadIsTheDisk
    <2>7. QED
        BY <2>2, <2>4, <2>6
<1>7. ASSUME NEW lba \in FirstLba(at)..LastLba(at, len), NEW torn \in {FALSE, TornReads}, NEW held,
             held = IF lba = FirstLba(at) THEN cached ELSE [lba |-> lba - 1, data |-> Seen(at, lba - 1)],
             cached' = IF torn THEN [held EXCEPT !.data = SectorAt(medium, lba)] ELSE held,
             blkCall' = [kind |-> "fatread", at |-> at, len |-> len, ok |-> FALSE, got |-> <<>>, before |-> medium]
      PROVE  CacheTrue(cached', medium) /\ ReadIsTheDisk' /\ blkCall'.kind = "fatread"
    <2>1. ~torn
        BY <1>7
    <2>2. cached' = held
        BY <1>7, <2>1
    <2>3. blkCall'.kind = "fatread" /\ blkCall'.ok = FALSE
        BY <1>7
    <2>4. ASSUME lba = first PROVE CacheTrue(cached', medium)
        BY <1>2, <1>3, <1>7, <2>2, <2>4
    <2>5. ASSUME lba # first PROVE CacheTrue(cached', medium)
        <3>1. held.lba = lba - 1 /\ held.data = Seen(at, lba - 1)
            BY <1>3, <1>7, <2>5
        <3>2. lba \in first..last
            BY <1>3, <1>7
        <3>3. lba - 1 \in 0..(NSectors - 1)
            BY <1>4, <2>5, <3>2, BlockAssumption
        <3>4. QED
            BY <1>2, <2>2, <3>1, <3>3, SeenIsDisk DEF CacheTrue
    <2>6. CacheTrue(cached', medium)
        BY <1>2, <1>3, <1>7, <2>2, <2>4, <2>5
    <2>7. QED
        BY <2>3, <2>6 DEF ReadIsTheDisk
<1>8. QED
    BY <1>6, <1>7 DEF fat_read

(* A write of the file system changes its own range only.                  *)
LEMMA BlockWrites ==
    ASSUME BlockInv, NEW at \in DiskBytes, NEW len \in 1..MaxLen, at + len - 1 \in DiskBytes, fat_write(at, len)
    PROVE  BlockInv'
<1>1. mountedPart /\ mountedPart' = mountedPart /\ writes' = writes + 1
    BY DEF fat_write
<1>2. CacheTrue(cached, medium) /\ DOMAIN medium = DiskBytes /\ writes \in Nat
    BY <1>1 DEF BlockInv
<1>3. PICK first, last, w : first = FirstLba(at) /\ last = LastLba(at, len) /\ w = writes + 1
    OBVIOUS
<1>4. first \in 0..(NSectors - 1) /\ last \in 0..(NSectors - 1) /\ first <= last /\ NSectors \in Nat /\ at \in Nat /\ len \in Nat
    BY <1>3, TransferBytes, BlockAssumption
<1>5. PICK upto \in first..(last + 1) :
         /\ medium' = [b \in DiskBytes |-> LET lba == b \div Sector IN
                IF lba \in first..(upto - 1) THEN Merged(at, len, lba, w)[b % Sector] ELSE medium[b]]
         /\ cached' = IF upto = first THEN cached ELSE Held(at, len, upto - 1, w)
         /\ blkCall' = [kind |-> "fatwrite", at |-> at, len |-> len, ok |-> upto > last, got |-> <<>>, before |-> medium]
    BY <1>3 DEF fat_write
<1>6. DOMAIN medium' = DiskBytes
    BY <1>5
<1>7. ASSUME NEW b \in DiskBytes
      PROVE  medium'[b] = IF b \div Sector \in first..(upto - 1) /\ b \in at..(at + len - 1) THEN w ELSE medium[b]
    <2>1. PICK q, r : q = b \div Sector /\ r = b % Sector
        OBVIOUS
    <2>2. q \in 0..(NSectors - 1) /\ r \in 0..(Sector - 1) /\ b = q * Sector + r
        BY <2>1, SectorOf, SectorOnDisk
    <2>3. medium'[b] = IF q \in first..(upto - 1) THEN Merged(at, len, q, w)[r] ELSE medium[b]
        BY <1>5, <2>1
    <2>4. Merged(at, len, q, w)[r] = IF b \in at..(at + len - 1) THEN w ELSE Seen(at, q)[r]
        BY <2>2 DEF Merged
    <2>5. Seen(at, q)[r] = medium[b]
        <3>1. Seen(at, q) = SectorAt(medium, q)
            BY <1>2, <2>2, SeenIsDisk
        <3>2. QED
            BY <2>1, <3>1, SectorBytes
    <2>6. QED
        BY <2>1, <2>3, <2>4, <2>5
<1>8. CacheTrue(cached', medium')
    <2>1. CASE upto = first
        <3>1. \A q \in 0..(NSectors - 1) : q \notin first..(upto - 1)
            BY <1>4, <2>1
        <3>2. \A b \in DiskBytes : medium'[b] = medium[b]
            BY <1>7, <3>1, SectorOnDisk
        <3>3. \A q \in 0..(NSectors - 1) : SectorAt(medium', q) = SectorAt(medium, q)
            BY <3>2, ByteOfSector DEF SectorAt
        <3>4. QED
            BY <1>2, <1>5, <2>1, <3>3 DEF CacheTrue
    <2>2. CASE upto # first
        <3>1. PICK q : q = upto - 1
            OBVIOUS
        <3>2. q \in 0..(NSectors - 1) /\ q \in first..(upto - 1)
            BY <1>4, <1>5, <2>2, <3>1
        <3>3. cached'.lba = q /\ cached'.data = Merged(at, len, q, w)
            BY <1>5, <2>2, <3>1 DEF Held
        <3>4. ASSUME NEW k \in 0..(Sector - 1) PROVE Merged(at, len, q, w)[k] = medium'[q * Sector + k]
            <4>1. PICK b : b = q * Sector + k
                OBVIOUS
            <4>2. b \in DiskBytes /\ b \div Sector = q /\ b % Sector = k
                BY <3>2, <4>1, ByteOfSector
            <4>3. medium'[b] = Merged(at, len, q, w)[k]
                BY <1>5, <3>2, <4>2
            <4>4. QED
                BY <4>1, <4>3
        <3>5. Merged(at, len, q, w) = SectorAt(medium', q)
            BY <3>4 DEF Merged, SectorAt
        <3>6. QED
            BY <3>2, <3>3, <3>5 DEF CacheTrue
    <2>3. QED
        BY <2>1, <2>2
<1>9. blkCall'.kind = "fatwrite" /\ blkCall'.at = at /\ blkCall'.len = len /\ blkCall'.ok = (upto > last) /\ blkCall'.before = medium
    BY <1>5
<1>10. WriteInRange'
    <2>1. \A b \in DiskBytes : medium'[b] # medium[b] => b \in at..(at + len - 1)
        BY <1>7
    <2>2. ASSUME upto > last, NEW b \in at..(at + len - 1) PROVE medium'[b] = w
        <3>1. b \in DiskBytes /\ b \div Sector \in first..last
            BY <1>3, <2>2, TransferBytes
        <3>2. b \div Sector \in first..(upto - 1)
            BY <1>4, <1>5, <2>2, <3>1
        <3>3. QED
            BY <1>7, <2>2, <3>1, <3>2
    <2>3. QED
        BY <1>1, <1>3, <1>9, <2>1, <2>2 DEF WriteInRange
<1>11. QED
    BY <1>1, <1>2, <1>6, <1>8, <1>9, <1>10 DEF BlockInv, ReadIsTheDisk

(* At the start of a sector the chunks of /dev are the sectors.            *)
LEMMA AlignedPlace ==
    ASSUME NEW at \in Nat, at % Sector = 0, NEW k \in Nat
    PROVE  ChunkOf(at, k) \in Nat /\ Place(at, k) = at + k
<1>1. Sector \in Nat \ {0}
    BY BlockAssumption
<1>2. PICK q : q = at \div Sector
    OBVIOUS
<1>3. q \in Nat /\ at = q * Sector
    <2>1. q \in Nat /\ at = q * Sector + (at % Sector) /\ q * Sector \in Nat
        BY <1>1, <1>2, SectorOf
    <2>2. QED
        BY <2>1
<1>4. ASSUME NEW j \in Nat PROVE Before(at, j) = j * Sector /\ j * Sector \in Nat
    <2>1. j * Sector \in Nat /\ (j = 0 => j * Sector = 0)
        BY <1>1
    <2>2. CASE j = 0
        BY <2>1, <2>2 DEF Before
    <2>3. CASE j # 0
        BY <2>1, <2>3 DEF Before
    <2>4. QED
        BY <2>1, <2>2, <2>3
<1>5. \E j \in 0..k : Before(at, j) <= k /\ k < Before(at, j + 1)
    <2>1. PICK j, r : j = k \div Sector /\ r = k % Sector
        OBVIOUS
    <2>2. j \in Nat /\ r \in 0..(Sector - 1) /\ k = j * Sector + r /\ j * Sector \in Nat
        BY <1>1, <2>1, SectorOf
    <2>3. (j + 1) * Sector = j * Sector + Sector
        BY <1>1, <2>2
    <2>4. j * Sector <= k /\ k < (j + 1) * Sector
        BY <1>1, <2>2, <2>3
    <2>5. j <= k
        <3>1. j * 1 <= j * Sector /\ j * 1 = j
            <4>1. 1 <= Sector
                BY <1>1
            <4>2. 1 * j <= Sector * j
                BY <1>1, <2>2, <4>1, TimesLe
            <4>3. 1 * j = j /\ j * 1 = j /\ Sector * j = j * Sector
                BY <1>1, <2>2
            <4>4. QED
                BY <4>2, <4>3
        <3>2. QED
            BY <2>2, <2>4, <3>1
    <2>6. Before(at, j) = j * Sector /\ Before(at, j + 1) = (j + 1) * Sector
        <3>1. j + 1 \in Nat
            BY <2>2
        <3>2. QED
            BY <1>4, <2>2, <3>1
    <2>7. j \in 0..k
        BY <2>2, <2>5
    <2>8. QED
        BY <2>4, <2>6, <2>7
<1>6. PICK j \in 0..k : j = ChunkOf(at, k)
    BY <1>5 DEF ChunkOf
<1>7. j \in Nat /\ Before(at, j) = j * Sector /\ j * Sector \in Nat
    BY <1>4, <1>6
<1>8. ChunkLba(at, j) = q + j
    <2>1. (j * Sector) \div Sector = j
        <3>1. j * Sector = j * Sector + 0 /\ 0 \in 0..(Sector - 1)
            BY <1>1, <1>7
        <3>2. QED
            BY <1>7, <3>1, SectorIs
    <2>2. QED
        BY <1>2, <1>7, <2>1 DEF ChunkLba
<1>9. ChunkOffset(at, j) = 0
    BY DEF ChunkOffset
<1>10. Place(at, k) = (q + j) * Sector + 0 + k - j * Sector
    BY <1>6, <1>7, <1>8, <1>9 DEF Place
<1>11. (q + j) * Sector = q * Sector + j * Sector /\ q * Sector \in Nat
    BY <1>1, <1>3, <1>7
<1>12. Place(at, k) = at + k
    BY <1>3, <1>7, <1>10, <1>11
<1>13. QED
    BY <1>6, <1>7, <1>12

(* Nothing is mounted at the start.                                        *)
LEMMA BlockStarts == BlockInit => BlockInv
<1> SUFFICES ASSUME BlockInit PROVE BlockInv
    OBVIOUS
<1>1. DOMAIN medium = DiskBytes /\ writes = 0 /\ ~mountedPart /\ blkCall.kind = "none"
    BY DEF BlockInit, NoBlockCall
<1>2. QED
    BY <1>1 DEF BlockInv, ReadIsTheDisk, WriteInRange

(* Every step of BlockIo.                                                  *)
LEMMA BlockSteps == DriversLimits /\ BlockInv /\ BlockNext => BlockInv'
<1> SUFFICES ASSUME DriversLimits, BlockInv, BlockNext PROVE BlockInv'
    OBVIOUS
<1>1. ~RawMounted /\ ~TornReads /\ \A at \in RawOffsets : at \in Nat /\ at % Sector = 0
    BY BlockAssumption DEF DriversLimits
<1>2. DOMAIN medium = DiskBytes /\ writes \in Nat
    BY DEF BlockInv
<1>3. CASE fat_mount
    <2>1. medium' = medium /\ writes' = writes /\ cached'.lba = NoLba /\ blkCall'.kind = "none"
        BY <1>3 DEF fat_mount, NoBlockCall
    <2>2. CacheTrue(cached', medium')
        BY <2>1 DEF CacheTrue
    <2>3. QED
        BY <1>2, <2>1, <2>2 DEF BlockInv, ReadIsTheDisk, WriteInRange
<1>4. ASSUME NEW at \in RawOffsets, NEW len \in 1..MaxLen, raw_read(at, len) PROVE BlockInv'
    <2>1. medium' = medium /\ mountedPart' = mountedPart /\ cached' = cached /\ writes' = writes
        BY <1>4 DEF raw_read
    <2>2. PICK n, done :
            /\ n \in 0..Chunks(at, len) /\ done = AtMost(len, Before(at, n))
            /\ blkCall' = [kind |-> "rawread", at |-> at, len |-> done, ok |-> n = Chunks(at, len), before |-> medium,
                           got |-> [k \in 1..done |-> medium[Place(at, k - 1)]]]
        BY <1>4 DEF raw_read
    <2>3. at \in Nat /\ at % Sector = 0 /\ len \in Nat /\ len - 1 \in Nat
        BY <1>1, <1>4, BlockAssumption
    <2>4. blkCall'.kind = "rawread" /\ blkCall'.at = at /\ blkCall'.len = done
          /\ blkCall'.got = [k \in 1..done |-> medium[Place(at, k - 1)]]
        BY <2>2
    <2>5. done \in Int
        <3>1. ChunkOf(at, len - 1) \in Nat
            BY <2>3, AlignedPlace
        <3>2. n \in Nat
            BY <2>2, <3>1 DEF Chunks
        <3>3. Before(at, n) \in Int
            <4>1. n * Sector \in Int /\ at % Sector \in Int
                BY <2>3, <3>2, BlockAssumption
            <4>2. QED
                BY <4>1 DEF Before
        <3>4. QED
            BY <2>2, <2>3, <3>3 DEF AtMost
    <2>6. ASSUME NEW k \in 1..done PROVE Place(at, k - 1) = at + k - 1
        <3>1. k - 1 \in Nat /\ at + (k - 1) = at + k - 1
            BY <2>3, <2>5
        <3>2. QED
            BY <2>3, <3>1, AlignedPlace
    <2>7. blkCall'.got = [k \in 1..done |-> medium[at + k - 1]]
        BY <2>4, <2>6
    <2>8. ReadIsTheDisk'
        BY <2>1, <2>4, <2>7 DEF ReadIsTheDisk
    <2>9. QED
        BY <2>1, <2>4, <2>8 DEF BlockInv, WriteInRange
<1>5. ASSUME NEW at \in RawOffsets, NEW len \in 1..MaxLen, raw_write(at, len) PROVE BlockInv'
    <2>1. ~mountedPart /\ mountedPart' = mountedPart /\ writes' = writes + 1
        BY <1>1, <1>5 DEF raw_write
    <2>2. PICK n, done :
            /\ medium' = [b \in DiskBytes |-> IF \E k \in 1..done : Place(at, k - 1) = b THEN writes + 1 ELSE medium[b]]
            /\ blkCall' = [kind |-> "rawwrite", at |-> at, len |-> done, ok |-> n = Chunks(at, len), got |-> <<>>,
                           before |-> medium]
        BY <1>5 DEF raw_write
    <2>3. DOMAIN medium' = DiskBytes /\ blkCall'.kind = "rawwrite" /\ writes' \in Nat
        BY <1>2, <2>1, <2>2
    <2>4. QED
        BY <2>1, <2>3 DEF BlockInv, ReadIsTheDisk, WriteInRange
<1>6. QED
    BY <1>1, <1>3, <1>4, <1>5, BlockReads, BlockWrites DEF BlockNext


InodeType == [mode : {"none", "file", "dir"}, direct : [1..NDirect -> 0..LastBlock], table : 0..LastBlock]

Positions == 0..(NDirect + NPtrs)

BlockOf(r, P, i) ==
    IF i = 0 THEN r.table ELSE IF i <= NDirect THEN r.direct[i] ELSE IF r.table = 0 THEN 0 ELSE P[r.table][i - NDirect]

InodesTyped(I, P) ==
    /\ I \in [Ext2Inodes -> InodeType] /\ \A t \in DOMAIN P : P[t] \in [1..NPtrs -> 0..LastBlock]
    /\ \A m \in Ext2Inodes : I[m].table # 0 => I[m].table \in DOMAIN P

BlocksOK(I, P, B) ==
    /\ InodesTyped(I, P)
    /\ \A m \in Ext2Inodes, i \in Positions : BlockOf(I[m], P, i) # 0 => BlockOf(I[m], P, i) \in B
    /\ \A m, n \in Ext2Inodes, i, j \in Positions :
         BlockOf(I[m], P, i) = BlockOf(I[n], P, j) /\ BlockOf(I[m], P, i) # 0 => m = n /\ i = j

(* From I and P to J and Q blocks go away, and b comes at one position.    *)
Moves(I, P, J, Q, C, n, p, b) ==
    \A m \in Ext2Inodes, i \in Positions :
        \/ BlockOf(J[m], Q, i) = 0
        \/ BlockOf(J[m], Q, i) = BlockOf(I[m], P, i) /\ BlockOf(I[m], P, i) \in C
        \/ m = n /\ i = p /\ BlockOf(J[m], Q, i) = b /\ b \in C

(* Exclusiveness survives when blocks go away and a fresh one comes at one position.  *)
LEMMA BlocksMove ==
    ASSUME NEW I, NEW P, NEW B, BlocksOK(I, P, B), NEW J, NEW Q, InodesTyped(J, Q), NEW C, NEW n, NEW p, NEW b, b \notin B,
           Moves(I, P, J, Q, C, n, p, b)
    PROVE  BlocksOK(J, Q, C)
<1>1. \A m \in Ext2Inodes, i \in Positions : BlockOf(J[m], Q, i) # 0 => BlockOf(J[m], Q, i) \in C
    BY DEF Moves
<1>2. ASSUME NEW m \in Ext2Inodes, NEW k \in Ext2Inodes, NEW i \in Positions, NEW j \in Positions,
             BlockOf(J[m], Q, i) = BlockOf(J[k], Q, j), BlockOf(J[m], Q, i) # 0
      PROVE  m = k /\ i = j
    <2>1. PICK x, y, u, v : x = BlockOf(J[m], Q, i) /\ y = BlockOf(J[k], Q, j) /\ u = BlockOf(I[m], P, i) /\ v = BlockOf(I[k], P, j)
        OBVIOUS
    <2>2. x = y /\ x # 0 /\ (x = u \/ (m = n /\ i = p /\ x = b)) /\ (y = v \/ (k = n /\ j = p /\ y = b))
        BY <1>2, <2>1 DEF Moves
    <2>3. (u # 0 => u \in B) /\ (v # 0 => v \in B) /\ (u = v /\ u # 0 => m = k /\ i = j)
        BY <2>1 DEF BlocksOK
    <2>4. QED
        BY <2>2, <2>3
<1>3. QED
    BY <1>1, <1>2 DEF BlocksOK

(* r has the blocks of inode o, or none, but for b at position p.          *)
Grows(o, r, P, p, b) ==
    \A i \in Positions : BlockOf(r, P, i) = 0 \/ BlockOf(r, P, i) = BlockOf(o, P, i) \/ (i = p /\ BlockOf(r, P, i) = b)

(* An inode is replaced, by one that has one fresh block more, or fewer blocks.  *)
LEMMA InodeReplaced ==
    ASSUME NEW I, NEW P, NEW B, BlocksOK(I, P, B), NEW n \in Ext2Inodes, NEW r \in InodeType, r.table # 0 => r.table \in DOMAIN P,
           NEW C, B \subseteq C, NEW p, NEW b, b \in C, b \notin B,
           Grows(I[n], r, P, p, b)
    PROVE  BlocksOK([I EXCEPT ![n] = r], P, C)
<1>1. PICK J : J = [I EXCEPT ![n] = r]
    OBVIOUS
<1>2. I \in [Ext2Inodes -> InodeType] /\ InodesTyped(I, P)
    BY DEF BlocksOK, InodesTyped
<1>3. J \in [Ext2Inodes -> InodeType] /\ J[n] = r /\ \A m \in Ext2Inodes : m # n => J[m] = I[m]
    BY <1>1, <1>2
<1>4. InodesTyped(J, P)
    BY <1>2, <1>3 DEF InodesTyped
<1>5. ASSUME NEW m \in Ext2Inodes, NEW i \in Positions
      PROVE  \/ BlockOf(J[m], P, i) = 0
             \/ BlockOf(J[m], P, i) = BlockOf(I[m], P, i) /\ BlockOf(I[m], P, i) \in C
             \/ m = n /\ i = p /\ BlockOf(J[m], P, i) = b /\ b \in C
    <2>1. BlockOf(I[m], P, i) = 0 \/ BlockOf(I[m], P, i) \in C
        BY DEF BlocksOK
    <2>2. CASE m = n
        BY <1>3, <2>1, <2>2 DEF Grows
    <2>3. CASE m # n
        BY <1>3, <2>1, <2>3
    <2>4. QED
        BY <2>2, <2>3
<1>6. b \notin B
    OBVIOUS
<1>7. Moves(I, P, J, P, C, n, p, b)
    BY <1>5 DEF Moves
<1>8. BlocksOK(J, P, C)
    BY <1>4, <1>6, <1>7, BlocksMove
<1>9. QED
    BY <1>1, <1>8

(* More bits may be set.                                                   *)
LEMMA MoreMarked ==
    ASSUME NEW I, NEW P, NEW B, BlocksOK(I, P, B), NEW C, B \subseteq C
    PROVE  BlocksOK(I, P, C)
    BY DEF BlocksOK

(* A table is made of a free block.                                        *)
LEMMA TableMade ==
    ASSUME NEW I, NEW P, NEW B, BlocksOK(I, P, B), NEW b \in 1..LastBlock, b \notin B, NEW C, B \subseteq C,
           NEW Q, Q = Put(P, b, [i \in 1..NPtrs |-> 0])
    PROVE  BlocksOK(I, Q, C)
<1>1. DOMAIN Q = DOMAIN P \cup {b} /\ Q[b] = [i \in 1..NPtrs |-> 0] /\ \A t \in DOMAIN P : t # b => Q[t] = P[t]
    BY DEF Put
<1>2. LastBlock \in Nat \ {0}
    BY Ext2Assumption
<1>3. Q[b] \in [1..NPtrs -> 0..LastBlock]
    <2>1. 0 \in 0..LastBlock
        BY <1>2
    <2>2. QED
        BY <1>1, <2>1, Zenon
<1>4. InodesTyped(I, P)
    BY DEF BlocksOK
<1>5. InodesTyped(I, Q)
    BY <1>1, <1>3, <1>4 DEF InodesTyped
<1>6. \A m \in Ext2Inodes : I[m].table = 0 \/ (I[m].table # b /\ I[m].table \in DOMAIN P)
    <2>1. 0 \in Positions
        BY Ext2Assumption DEF Positions
    <2>2. \A m \in Ext2Inodes : BlockOf(I[m], P, 0) = I[m].table
        BY DEF BlockOf
    <2>3. QED
        BY <1>4, <2>1, <2>2 DEF BlocksOK, InodesTyped
<1>7. \A m \in Ext2Inodes, i \in Positions : BlockOf(I[m], Q, i) = BlockOf(I[m], P, i)
    BY <1>1, <1>6 DEF BlockOf
<1>8. \A m \in Ext2Inodes, i \in Positions : BlockOf(I[m], P, i) = 0 \/ BlockOf(I[m], P, i) \in C
    BY DEF BlocksOK
<1>9. Moves(I, P, I, Q, C, b, b, b)
    BY <1>7, <1>8 DEF Moves
<1>10. QED
    BY <1>5, <1>9, BlocksMove

(* A pointer of a table becomes a free block; one inode at most has the table.  *)
LEMMA PointerSet ==
    ASSUME NEW I, NEW P, NEW B, BlocksOK(I, P, B), NEW b \in 1..LastBlock, b \notin B, NEW C, C = B \cup {b},
           NEW t \in DOMAIN P, t # 0, NEW j \in 1..NPtrs, NEW Q, Q = [P EXCEPT ![t] = [P[t] EXCEPT ![j] = b]]
    PROVE  BlocksOK(I, Q, C)
<1>1. InodesTyped(I, P) /\ LastBlock \in Nat \ {0} /\ NPtrs \in Nat /\ NDirect \in Nat \ {0}
    BY Ext2Assumption DEF BlocksOK
<1>2. P[t] \in [1..NPtrs -> 0..LastBlock]
    BY <1>1 DEF InodesTyped
<1>3. b \in 0..LastBlock
    BY <1>1
<1>4. DOMAIN Q = DOMAIN P /\ Q[t] = [P[t] EXCEPT ![j] = b] /\ \A x \in DOMAIN P : x # t => Q[x] = P[x]
    OBVIOUS
<1>5. Q[t] \in [1..NPtrs -> 0..LastBlock] /\ Q[t][j] = b /\ \A k \in 1..NPtrs : k # j => Q[t][k] = P[t][k]
    BY <1>2, <1>3, <1>4
<1>6. InodesTyped(I, Q)
    BY <1>1, <1>4, <1>5 DEF InodesTyped
<1>7. \A m, n \in Ext2Inodes : I[m].table = t /\ I[n].table = t => m = n
    <2>1. 0 \in Positions
        BY <1>1 DEF Positions
    <2>2. \A m \in Ext2Inodes : BlockOf(I[m], P, 0) = I[m].table
        BY DEF BlockOf
    <2>3. QED
        BY <2>1, <2>2 DEF BlocksOK
<1>8. \A m \in Ext2Inodes : I[m].table # 0 => I[m].table \in DOMAIN P
    BY <1>1 DEF InodesTyped
<1>9. ASSUME NEW m \in Ext2Inodes, NEW i \in Positions
      PROVE  BlockOf(I[m], Q, i) = BlockOf(I[m], P, i) \/ (I[m].table = t /\ i = NDirect + j /\ BlockOf(I[m], Q, i) = b)
    <2>1. CASE i = 0 \/ i <= NDirect \/ I[m].table = 0
        BY <2>1 DEF BlockOf
    <2>2. CASE ~(i = 0 \/ i <= NDirect \/ I[m].table = 0)
        <3>1. i - NDirect \in 1..NPtrs /\ (i - NDirect = j => i = NDirect + j)
            BY <1>1, <2>2 DEF Positions
        <3>2. BlockOf(I[m], Q, i) = Q[I[m].table][i - NDirect] /\ BlockOf(I[m], P, i) = P[I[m].table][i - NDirect]
            BY <2>2 DEF BlockOf
        <3>3. QED
            BY <1>4, <1>5, <1>8, <2>2, <3>1, <3>2
    <2>3. QED
        BY <2>1, <2>2
<1>10. \A m \in Ext2Inodes, i \in Positions : BlockOf(I[m], P, i) = 0 \/ BlockOf(I[m], P, i) \in C
    BY DEF BlocksOK
<1>11. b \in C
    OBVIOUS
<1>12. PICK n : \A m \in Ext2Inodes : I[m].table = t => m = n
    BY <1>7
<1>13. Moves(I, P, I, Q, C, n, NDirect + j, b)
    BY <1>9, <1>10, <1>11, <1>12 DEF Moves
<1>14. QED
    BY <1>6, <1>13, BlocksMove

(* The direct blocks of an inode that is cleared are free.                 *)
LEMMA BlocksFreed ==
    ASSUME NEW I, NEW P, NEW B, BlocksOK(I, P, B), NEW n \in Ext2Inodes, NEW C,
           C = B \ {I[n].direct[i] : i \in {k \in 1..NDirect : I[n].direct[k] # 0}}
    PROVE  BlocksOK([I EXCEPT ![n] = FreeInode], P, C)
<1>1. PICK J : J = [I EXCEPT ![n] = FreeInode]
    OBVIOUS
<1>2. /\ I \in [Ext2Inodes -> InodeType] /\ InodesTyped(I, P) /\ LastBlock \in Nat \ {0}
      /\ NDirect \in Nat \ {0} /\ NPtrs \in Nat
    BY Ext2Assumption DEF BlocksOK, InodesTyped
<1>3. /\ FreeInode \in InodeType /\ FreeInode.table = 0 /\ \A i \in 1..NDirect : FreeInode.direct[i] = 0
    <2>1. 0 \in 0..LastBlock
        BY <1>2
    <2>2. QED
        BY <2>1 DEF FreeInode, InodeType
<1>4. J \in [Ext2Inodes -> InodeType] /\ J[n] = FreeInode /\ \A m \in Ext2Inodes : m # n => J[m] = I[m]
    BY <1>1, <1>2, <1>3
<1>5. InodesTyped(J, P)
    BY <1>2, <1>3, <1>4 DEF InodesTyped
<1>6. \A i \in Positions : BlockOf(FreeInode, P, i) = 0
    <2>1. \A i \in Positions : i = 0 \/ i \in 1..NDirect \/ ~(i <= NDirect)
        BY <1>2 DEF Positions
    <2>2. QED
        BY <1>3, <2>1 DEF BlockOf
<1>7. ASSUME NEW m \in Ext2Inodes, m # n, NEW i \in Positions, BlockOf(I[m], P, i) # 0 PROVE BlockOf(I[m], P, i) \in C
    <2>1. BlockOf(I[m], P, i) \in B
        BY <1>7 DEF BlocksOK
    <2>2. \A k \in 1..NDirect : k \in Positions /\ BlockOf(I[n], P, k) = I[n].direct[k]
        BY <1>2 DEF Positions, BlockOf
    <2>3. \A k \in 1..NDirect : BlockOf(I[m], P, i) # I[n].direct[k]
        BY <1>7, <2>2 DEF BlocksOK
    <2>4. QED
        BY <2>1, <2>3
<1>8. PICK b : b \notin B
    <2>1. PICK R : R = {x \in B : x \notin x}
        OBVIOUS
    <2>2. R \notin B
        BY <2>1
    <2>3. QED
        BY <2>2
<1>9. Moves(I, P, J, P, C, b, b, b)
    BY <1>4, <1>6, <1>7 DEF Moves
<1>10. BlocksOK(J, P, C)
    BY <1>5, <1>8, <1>9, BlocksMove
<1>11. QED
    BY <1>1, <1>10

(***************************************************************************)
(* The disk.                                                               *)
(***************************************************************************)
IsDisk(d) == DOMAIN d = {"imap", "bmap", "nfree", "inode", "dirents", "ptrs"}

CountOK(d) == d.bmap \in SUBSET (1..LastBlock) /\ d.nfree = Cardinality(FreeBlocks(d))

EntriesOK(D) ==
    \A b \in DOMAIN D : /\ DOMAIN D[b] \subseteq Nat
                        /\ \A k \in DOMAIN D[b] : DOMAIN D[b][k] = {"name", "inode"} /\ D[b][k].inode \in {0} \cup Ext2Inodes

DiskOK(d) == IsDisk(d) /\ CountOK(d) /\ EntriesOK(d.dirents) /\ BlocksOK(d.inode, d.ptrs, d.bmap)

(* The free blocks are finitely many.                                      *)
LEMMA FreeBlocksFinite ==
    ASSUME NEW d
    PROVE  IsFiniteSet(FreeBlocks(d)) /\ Cardinality(FreeBlocks(d)) \in Nat /\ FreeBlocks(d) \in SUBSET (1..LastBlock)
<1>1. IsFiniteSet(1..LastBlock)
    BY FS_Interval, Ext2Assumption
<1>2. FreeBlocks(d) \subseteq 1..LastBlock
    BY DEF FreeBlocks
<1>3. IsFiniteSet(FreeBlocks(d))
    BY <1>1, <1>2, FS_Subset
<1>4. QED
    BY <1>2, <1>3, FS_CardinalityType

(* alloc_block marks a free block and counts it.                           *)
LEMMA AllocBlock ==
    ASSUME NEW d, IsDisk(d), CountOK(d), FreeBlocks(d) # {}, NEW b, b = Least(FreeBlocks(d)), NEW e, e = alloc_block(d)
    PROVE  /\ b \in 1..LastBlock /\ b \notin d.bmap /\ IsDisk(e) /\ CountOK(e) /\ e.bmap = d.bmap \cup {b}
           /\ e.imap = d.imap /\ e.inode = d.inode /\ e.dirents = d.dirents /\ e.ptrs = d.ptrs
<1>1. FreeBlocks(d) \in SUBSET Nat
    BY FreeBlocksFinite, Ext2Assumption
<1>2. b \in FreeBlocks(d)
    BY <1>1, LeastFacts
<1>3. b \in 1..LastBlock /\ b \notin d.bmap
    BY <1>2 DEF FreeBlocks
<1>4. e = [d EXCEPT !.bmap = d.bmap \cup {b}, !.nfree = IF d.nfree > 0 THEN d.nfree - 1 ELSE 0]
    BY DEF alloc_block
<1>5. /\ IsDisk(e) /\ e.bmap = d.bmap \cup {b} /\ e.nfree = (IF d.nfree > 0 THEN d.nfree - 1 ELSE 0)
      /\ e.imap = d.imap /\ e.inode = d.inode /\ e.dirents = d.dirents /\ e.ptrs = d.ptrs
    BY <1>4 DEF IsDisk
<1>6. FreeBlocks(e) = FreeBlocks(d) \ {b}
    BY <1>5 DEF FreeBlocks
<1>7. Cardinality(FreeBlocks(e)) = Cardinality(FreeBlocks(d)) - 1
    BY <1>2, <1>6, FreeBlocksFinite, FS_RemoveElement
<1>8. Cardinality(FreeBlocks(d)) > 0
    BY <1>7, FreeBlocksFinite
<1>9. e.nfree = Cardinality(FreeBlocks(e))
    BY <1>5, <1>7, <1>8, FreeBlocksFinite DEF CountOK
<1>10. QED
    BY <1>3, <1>5, <1>9 DEF CountOK

(***************************************************************************)
(* Blocks of a file.  The inode in memory is good for inode n of the disk, *)
(* whatever is there.                                                      *)
(***************************************************************************)
LoopOK(s, n) ==
    /\ DOMAIN s = {"d", "ino", "ok"} /\ DiskOK(s.d) /\ s.ino \in InodeType
    /\ BlocksOK([s.d.inode EXCEPT ![n] = s.ino], s.d.ptrs, s.d.bmap)

(* A loop that finds no room leaves what it had.                           *)
LEMMA LoopNoRoom ==
    ASSUME NEW s, NEW n, LoopOK(s, n)
    PROVE  LoopOK(NoRoom(s), n) /\ NoRoom(s).ok = FALSE
<1>1. NoRoom(s).d = s.d /\ NoRoom(s).ino = s.ino /\ NoRoom(s).ok = FALSE /\ DOMAIN NoRoom(s) = {"d", "ino", "ok"}
    BY DEF NoRoom, LoopOK
<1>2. QED
    BY <1>1 DEF LoopOK

(* ensure_table keeps the loop sound, and leaves a table.                  *)
LEMMA LoopTable ==
    ASSUME NEW s, NEW n \in Ext2Inodes, LoopOK(s, n)
    PROVE  LoopOK(ensure_table(s), n) /\ (ensure_table(s).ok => ensure_table(s).ino.table # 0)
<1>1. CASE s.ino.table # 0
    BY <1>1 DEF ensure_table
<1>2. CASE s.ino.table = 0 /\ FreeBlocks(s.d) = {}
    BY <1>2, LoopNoRoom DEF ensure_table
<1>3. CASE s.ino.table = 0 /\ FreeBlocks(s.d) # {}
    <2>1. PICK b, e, z : b = Least(FreeBlocks(s.d)) /\ e = alloc_block(s.d) /\ z = [i \in 1..NPtrs |-> 0]
        OBVIOUS
    <2>2. PICK f, r, t : f = [e EXCEPT !.ptrs = Put(e.ptrs, b, z)] /\ r = [s.ino EXCEPT !.table = b] /\ t = ensure_table(s)
        OBVIOUS
    <2>3. t = [s EXCEPT !.d = f, !.ino = r]
        BY <1>3, <2>1, <2>2 DEF ensure_table
    <2>4. /\ DOMAIN s = {"d", "ino", "ok"} /\ DiskOK(s.d) /\ s.ino \in InodeType
          /\ BlocksOK([s.d.inode EXCEPT ![n] = s.ino], s.d.ptrs, s.d.bmap)
        BY DEF LoopOK
    <2>5. DOMAIN t = {"d", "ino", "ok"} /\ t.d = f /\ t.ino = r
        BY <2>3, <2>4
    <2>6. PICK I, P, B, C, Q, J : /\ I = s.d.inode /\ P = s.d.ptrs /\ B = s.d.bmap /\ C = B \cup {b} /\ Q = Put(P, b, z)
                                  /\ J = [I EXCEPT ![n] = s.ino]
        OBVIOUS
    <2>7. IsDisk(s.d) /\ CountOK(s.d) /\ EntriesOK(s.d.dirents) /\ BlocksOK(I, P, B) /\ BlocksOK(J, P, B)
        BY <2>4, <2>6 DEF DiskOK
    <2>8. /\ b \in 1..LastBlock /\ b \notin B /\ IsDisk(e) /\ CountOK(e) /\ e.bmap = C
          /\ e.inode = I /\ e.dirents = s.d.dirents /\ e.ptrs = P
        BY <1>3, <2>1, <2>6, <2>7, AllocBlock
    <2>9. IsDisk(f) /\ f.ptrs = Q /\ f.bmap = C /\ f.inode = I /\ f.dirents = s.d.dirents /\ f.nfree = e.nfree
        BY <2>2, <2>6, <2>8 DEF IsDisk
    <2>10. CountOK(f)
        BY <2>8, <2>9 DEF CountOK, FreeBlocks
    <2>11. BlocksOK(I, Q, C) /\ BlocksOK(J, Q, B)
        BY <2>1, <2>6, <2>7, <2>8, TableMade
    <2>12. r \in InodeType /\ r.table = b /\ r.direct = s.ino.direct
        <3>1. b \in 0..LastBlock
            BY <2>8
        <3>2. QED
            BY <2>2, <2>4, <3>1 DEF InodeType
    <2>13. b \in DOMAIN Q /\ Q[b] = z
        BY <2>6 DEF Put
    <2>14. J[n] = s.ino /\ [J EXCEPT ![n] = r] = [I EXCEPT ![n] = r]
        BY <2>6, <2>7 DEF BlocksOK, InodesTyped
    <2>15. Grows(J[n], r, Q, 0, b)
        <3>1. ASSUME NEW i \in Positions, ~(i <= NDirect) PROVE z[i - NDirect] = 0
            <4>1. i - NDirect \in 1..NPtrs
                BY <3>1, Ext2Assumption DEF Positions
            <4>2. QED
                BY <2>1, <4>1
        <3>2. QED
            BY <2>12, <2>13, <2>14, <3>1 DEF BlockOf, Grows
    <2>16. BlocksOK([J EXCEPT ![n] = r], Q, C)
        <3>1. b \in C /\ b \notin B /\ B \subseteq C
            BY <2>6, <2>8
        <3>2. r.table # 0 => r.table \in DOMAIN Q
            BY <2>12, <2>13
        <3>3. QED
            BY <2>11, <2>12, <2>15, <3>1, <3>2, InodeReplaced
    <2>17. DiskOK(f)
        BY <2>7, <2>9, <2>10, <2>11 DEF DiskOK
    <2>18. LoopOK(t, n)
        BY <2>5, <2>9, <2>12, <2>14, <2>16, <2>17 DEF LoopOK
    <2>19. r.table # 0
        BY <2>8, <2>12
    <2>20. QED
        BY <2>2, <2>5, <2>18, <2>19
<1>4. QED
    BY <1>1, <1>2, <1>3

(* ensure_pointer keeps the loop sound.                                    *)
LEMMA LoopPointer ==
    ASSUME NEW s, NEW n \in Ext2Inodes, LoopOK(s, n), NEW i \in 1..(NDirect + NPtrs), i > NDirect => s.ino.table # 0
    PROVE  LoopOK(ensure_pointer(s, i), n)
<1>0. NDirect \in Nat \ {0} /\ NPtrs \in Nat /\ LastBlock \in Nat \ {0}
    BY Ext2Assumption
<1>1. CASE resolve_block(s.d, s.ino, i) # 0
    BY <1>1 DEF ensure_pointer
<1>2. CASE resolve_block(s.d, s.ino, i) = 0 /\ FreeBlocks(s.d) = {}
    BY <1>2, LoopNoRoom DEF ensure_pointer
<1>3. CASE resolve_block(s.d, s.ino, i) = 0 /\ FreeBlocks(s.d) # {}
    <2>1. PICK b, e, t : b = Least(FreeBlocks(s.d)) /\ e = alloc_block(s.d) /\ t = ensure_pointer(s, i)
        OBVIOUS
    <2>2. /\ DOMAIN s = {"d", "ino", "ok"} /\ DiskOK(s.d) /\ s.ino \in InodeType
          /\ BlocksOK([s.d.inode EXCEPT ![n] = s.ino], s.d.ptrs, s.d.bmap)
        BY DEF LoopOK
    <2>3. PICK I, P, B, C, J : /\ I = s.d.inode /\ P = s.d.ptrs /\ B = s.d.bmap /\ C = B \cup {b} /\ J = [I EXCEPT ![n] = s.ino]
        OBVIOUS
    <2>4. IsDisk(s.d) /\ CountOK(s.d) /\ EntriesOK(s.d.dirents) /\ BlocksOK(I, P, B) /\ BlocksOK(J, P, B)
        BY <2>2, <2>3 DEF DiskOK
    <2>5. /\ b \in 1..LastBlock /\ b \notin B /\ IsDisk(e) /\ CountOK(e) /\ e.bmap = C
          /\ e.inode = I /\ e.dirents = s.d.dirents /\ e.ptrs = P
        BY <1>3, <2>1, <2>3, <2>4, AllocBlock
    <2>6. J[n] = s.ino /\ \A r : [J EXCEPT ![n] = r] = [I EXCEPT ![n] = r]
        BY <2>3, <2>4 DEF BlocksOK, InodesTyped
    <2>7. CASE i <= NDirect
        <3>1. PICK g, r : g = [s.ino.direct EXCEPT ![i] = b] /\ r = [s.ino EXCEPT !.direct = g]
            OBVIOUS
        <3>2. t = [s EXCEPT !.d = e, !.ino = r]
            BY <1>3, <2>1, <2>7, <3>1 DEF ensure_pointer
        <3>3. DOMAIN t = {"d", "ino", "ok"} /\ t.d = e /\ t.ino = r
            BY <2>2, <3>2
        <3>4. b \in 0..LastBlock /\ s.ino.direct \in [1..NDirect -> 0..LastBlock] /\ i \in 1..NDirect
            BY <1>0, <2>2, <2>5, <2>7 DEF InodeType
        <3>5. g \in [1..NDirect -> 0..LastBlock] /\ g[i] = b /\ \A k \in 1..NDirect : k # i => g[k] = s.ino.direct[k]
            BY <3>1, <3>4
        <3>6. r \in InodeType /\ r.table = s.ino.table /\ r.direct = g
            BY <2>2, <3>1, <3>5 DEF InodeType
        <3>7. Grows(J[n], r, P, i, b)
            <4>1. \A k \in Positions : k = 0 \/ k \in 1..NDirect \/ ~(k <= NDirect)
                BY <1>0 DEF Positions
            <4>2. QED
                BY <2>6, <3>5, <3>6, <4>1 DEF BlockOf, Grows
        <3>8. r.table # 0 => r.table \in DOMAIN P
            BY <2>4, <2>6, <3>6 DEF BlocksOK, InodesTyped
        <3>9. BlocksOK([J EXCEPT ![n] = r], P, C)
            <4>1. b \in C /\ b \notin B /\ B \subseteq C
                BY <2>3, <2>5
            <4>2. QED
                BY <2>4, <3>6, <3>7, <3>8, <4>1, InodeReplaced
        <3>10. BlocksOK(I, P, C)
            BY <2>3, <2>4, MoreMarked
        <3>11. DiskOK(e)
            BY <2>4, <2>5, <3>10 DEF DiskOK
        <3>12. QED
            BY <2>1, <2>5, <2>6, <3>3, <3>6, <3>9, <3>11 DEF LoopOK
    <2>8. CASE ~(i <= NDirect)
        <3>1. PICK x, j : x = s.ino.table /\ j = i - NDirect
            OBVIOUS
        <3>2. PICK Q, f : Q = [P EXCEPT ![x] = [P[x] EXCEPT ![j] = b]] /\ f = [e EXCEPT !.ptrs = Q]
            OBVIOUS
        <3>3. t = [s EXCEPT !.d = f]
            BY <1>3, <2>1, <2>5, <2>8, <3>1, <3>2 DEF ensure_pointer
        <3>4. DOMAIN t = {"d", "ino", "ok"} /\ t.d = f /\ t.ino = s.ino
            BY <2>2, <3>3
        <3>5. x # 0 /\ j \in 1..NPtrs /\ x \in DOMAIN P
            <4>1. x # 0 /\ j \in 1..NPtrs
                BY <1>0, <2>8, <3>1
            <4>2. QED
                BY <2>4, <2>6, <3>1, <4>1 DEF BlocksOK, InodesTyped
        <3>6. BlocksOK(I, Q, C) /\ BlocksOK(J, Q, C)
            BY <2>3, <2>4, <2>5, <3>2, <3>5, PointerSet
        <3>7. IsDisk(f) /\ f.ptrs = Q /\ f.bmap = C /\ f.inode = I /\ f.dirents = s.d.dirents /\ f.nfree = e.nfree
            BY <2>5, <3>2 DEF IsDisk
        <3>8. CountOK(f)
            BY <2>5, <3>7 DEF CountOK, FreeBlocks
        <3>9. DiskOK(f)
            BY <2>4, <3>6, <3>7, <3>8 DEF DiskOK
        <3>10. QED
            BY <2>1, <2>2, <2>3, <3>4, <3>6, <3>7, <3>9 DEF LoopOK
    <2>9. QED
        BY <2>7, <2>8
<1>4. QED
    BY <1>1, <1>2, <1>3

(* So does ensure_file_block.                                              *)
LEMMA LoopStep ==
    ASSUME NEW s, NEW n \in Ext2Inodes, LoopOK(s, n), NEW i \in 1..(NDirect + NPtrs)
    PROVE  LoopOK(ensure_file_block(s, i), n)
<1>1. CASE ~s.ok
    BY <1>1 DEF ensure_file_block
<1>2. CASE s.ok /\ i <= NDirect
    <2>1. ~(i > NDirect)
        BY <1>2, Ext2Assumption
    <2>2. QED
        BY <1>2, <2>1, LoopPointer DEF ensure_file_block
<1>3. CASE s.ok /\ ~(i <= NDirect)
    <2>1. PICK t : t = ensure_table(s)
        OBVIOUS
    <2>2. LoopOK(t, n) /\ (t.ok => t.ino.table # 0)
        BY <2>1, LoopTable
    <2>3. ensure_file_block(s, i) = IF t.ok THEN ensure_pointer(t, i) ELSE t
        BY <1>3, <2>1 DEF ensure_file_block
    <2>4. CASE t.ok
        BY <2>2, <2>3, <2>4, LoopPointer
    <2>5. QED
        BY <2>2, <2>3, <2>4
<1>4. QED
    BY <1>1, <1>2, <1>3

(* r[i] is the loop of EnsureBlocks after i blocks.                        *)
EnsuredTo(r, d, ino, m) ==
    /\ r = [i \in 0..m |-> r[i]] /\ r[0] = [d |-> d, ino |-> ino, ok |-> TRUE]
    /\ \A i \in 1..m : r[i] = ensure_file_block(r[i - 1], i)

(* The loop runs for any number of blocks.                                 *)
LEMMA EnsuredExists ==
    ASSUME NEW d, NEW ino, NEW l \in Nat
    PROVE  \E r : EnsuredTo(r, d, ino, l)
<1>1. PICK Bad : Bad = {m \in 0..l : ~\E r : EnsuredTo(r, d, ino, m)}
    OBVIOUS
<1>2. SUFFICES ASSUME Bad # {} PROVE FALSE
    BY <1>1
<1>3. Bad \in SUBSET Nat
    BY <1>1
<1>4. PICK m \in Bad : \A x \in Bad : m <= x
    BY <1>2, <1>3, LeastIsMember
<1>5. m # 0
    <2>1. PICK r : r = [i \in 0..0 |-> [d |-> d, ino |-> ino, ok |-> TRUE]]
        OBVIOUS
    <2>2. EnsuredTo(r, d, ino, 0)
        BY <2>1 DEF EnsuredTo
    <2>3. QED
        BY <1>1, <1>4, <2>2
<1>6. m - 1 \in 0..l /\ m \in 1..l /\ m - 1 \notin Bad
    BY <1>1, <1>3, <1>4, <1>5
<1>7. PICK r : EnsuredTo(r, d, ino, m - 1)
    BY <1>1, <1>6
<1>8. PICK g : g = [i \in 0..m |-> IF i < m THEN r[i] ELSE ensure_file_block(r[m - 1], m)]
    OBVIOUS
<1>9. g = [i \in 0..m |-> g[i]] /\ g[0] = [d |-> d, ino |-> ino, ok |-> TRUE]
    <2>1. 0 \in 0..m /\ 0 < m
        BY <1>6
    <2>2. g[0] = r[0] /\ g = [i \in 0..m |-> g[i]]
        BY <1>8, <2>1
    <2>3. r[0] = [d |-> d, ino |-> ino, ok |-> TRUE]
        BY <1>7, Zenon DEF EnsuredTo
    <2>4. QED
        BY <2>2, <2>3, Zenon
<1>10. ASSUME NEW i \in 1..m PROVE g[i] = ensure_file_block(g[i - 1], i)
    <2>1. i \in 0..m /\ i - 1 \in 0..m /\ i - 1 < m /\ m \in Nat
        BY <1>6
    <2>2. g[i - 1] = r[i - 1]
        BY <1>8, <2>1
    <2>3. CASE i = m
        BY <1>8, <2>1, <2>2, <2>3
    <2>4. CASE i # m
        <3>1. i < m /\ i \in 1..(m - 1)
            BY <2>1, <2>4
        <3>2. g[i] = r[i]
            BY <1>8, <2>1, <3>1
        <3>3. QED
            BY <1>7, <2>2, <3>1, <3>2 DEF EnsuredTo
    <2>5. QED
        BY <2>3, <2>4
<1>11. EnsuredTo(g, d, ino, m)
    BY <1>9, <1>10 DEF EnsuredTo
<1>12. QED
    BY <1>1, <1>4, <1>11

Ensured(d, ino, k) ==
    CHOOSE r : r = [i \in 0..k |-> IF i = 0 THEN [d |-> d, ino |-> ino, ok |-> TRUE] ELSE ensure_file_block(r[i - 1], i)]

(* EnsureBlocks ends in a sound state, with room or without.               *)
LEMMA EnsureBlocksOK ==
    ASSUME NEW d, NEW ino, NEW n \in Ext2Inodes, LoopOK([d |-> d, ino |-> ino, ok |-> TRUE], n),
           NEW k \in 0..(NDirect + NPtrs)
    PROVE  LoopOK(EnsureBlocks(d, ino, k), n)
<1>0. NDirect + NPtrs \in Nat /\ k \in Nat
    BY Ext2Assumption
<1>1. PICK f : EnsuredTo(f, d, ino, k)
    BY <1>0, EnsuredExists
<1>2. f = [i \in 0..k |-> IF i = 0 THEN [d |-> d, ino |-> ino, ok |-> TRUE] ELSE ensure_file_block(f[i - 1], i)]
    <2>1. \A i \in 0..k : i = 0 \/ i \in 1..k
        BY <1>0
    <2>2. \A i \in 0..k : f[i] = IF i = 0 THEN [d |-> d, ino |-> ino, ok |-> TRUE] ELSE ensure_file_block(f[i - 1], i)
        BY <1>1, <2>1, Zenon DEF EnsuredTo
    <2>3. f = [i \in 0..k |-> f[i]]
        BY <1>1 DEF EnsuredTo
    <2>4. QED
        BY <2>2, <2>3, Zenon
<1>3. PICK g : g = Ensured(d, ino, k)
    OBVIOUS
<1>4. g = [i \in 0..k |-> IF i = 0 THEN [d |-> d, ino |-> ino, ok |-> TRUE] ELSE ensure_file_block(g[i - 1], i)]
    BY <1>2, <1>3, Zenon DEF Ensured
<1>5. EnsureBlocks(d, ino, k) = Ensured(d, ino, k)[k]
    BY DEF EnsureBlocks, Ensured
<1>6. \A i \in 0..k : g[i] = IF i = 0 THEN [d |-> d, ino |-> ino, ok |-> TRUE] ELSE ensure_file_block(g[i - 1], i)
    BY <1>4, Zenon
<1>7. PICK Bad : Bad = {i \in 0..k : ~LoopOK(g[i], n)}
    OBVIOUS
<1>8. Bad = {}
    <2>1. SUFFICES ASSUME Bad # {} PROVE FALSE
        OBVIOUS
    <2>2. Bad \in SUBSET Nat
        BY <1>7
    <2>3. PICK m \in Bad : \A x \in Bad : m <= x
        BY <2>1, <2>2, LeastIsMember
    <2>4. m # 0
        <3>1. g[0] = [d |-> d, ino |-> ino, ok |-> TRUE]
            <4>1. 0 \in 0..k
                BY <1>0
            <4>2. QED
                BY <1>6, <4>1, Zenon
        <3>2. LoopOK(g[0], n)
            BY <3>1, Zenon
        <3>3. QED
            BY <1>7, <2>3, <3>2
    <2>5. m \in 0..k /\ m \in 1..(NDirect + NPtrs) /\ m - 1 \in 0..k /\ ~(m <= m - 1)
        BY <1>0, <1>7, <2>2, <2>3, <2>4
    <2>6. LoopOK(g[m - 1], n)
        BY <1>7, <2>3, <2>5
    <2>7. g[m] = ensure_file_block(g[m - 1], m)
        BY <1>6, <2>4, <2>5
    <2>8. LoopOK(g[m], n)
        BY <2>5, <2>6, <2>7, LoopStep
    <2>9. QED
        BY <1>7, <2>3, <2>8
<1>9. k \in 0..k
    BY <1>0
<1>10. LoopOK(g[k], n)
    BY <1>7, <1>8, <1>9
<1>11. QED
    BY <1>3, <1>5, <1>10

(***************************************************************************)
(* Directory entries.                                                      *)
(***************************************************************************)
LEMMA FirstSlotIn ==
    ASSUME NEW S, S # {}, \A x \in S : x[1] \in Nat /\ x[2] \in Nat
    PROVE  FirstSlot(S) \in S
<1>1. PICK A : A = {x[1] : x \in S}
    OBVIOUS
<1>2. A \in SUBSET Nat /\ A # {}
    BY <1>1
<1>3. PICK i \in A : \A a \in A : i <= a
    BY <1>2, LeastIsMember
<1>4. PICK K : K = {x[2] : x \in {y \in S : y[1] = i}}
    OBVIOUS
<1>5. K \in SUBSET Nat /\ K # {}
    BY <1>1, <1>3, <1>4
<1>6. PICK k \in K : \A a \in K : k <= a
    BY <1>5, LeastIsMember
<1>7. PICK x \in S : x[1] = i /\ x[2] = k
    BY <1>4, <1>6
<1>8. ASSUME NEW y \in S PROVE x[1] < y[1] \/ (x[1] = y[1] /\ x[2] <= y[2])
    <2>1. y[1] \in A /\ i <= y[1] /\ y[1] \in Nat /\ i \in Nat
        BY <1>1, <1>2, <1>3
    <2>2. y[1] = i => k <= y[2]
        BY <1>4, <1>6
    <2>3. QED
        BY <1>7, <2>1, <2>2
<1>9. QED
    BY <1>7, <1>8 DEF FirstSlot

(* What is at a directory slot.                                            *)
LEMMA SlotsTyped ==
    ASSUME NEW d, DiskOK(d), NEW n, NEW e \in DirSlots(d, n)
    PROVE  /\ e[1] \in Nat /\ e[2] \in Nat /\ d.inode[n].direct[e[1]] \in DOMAIN d.dirents
           /\ e[2] \in DOMAIN d.dirents[d.inode[n].direct[e[1]]] /\ EntryAt(d, n, e).inode \in {0} \cup Ext2Inodes
<1>1. PICK ptrs : ptrs = d.inode[n].direct
    OBVIOUS
<1>2. PICK i \in {j \in 1..NDirect : ptrs[j] \in DOMAIN d.dirents} : e \in {i} \X DOMAIN d.dirents[ptrs[i]]
    BY <1>1 DEF DirSlots
<1>3. e[1] = i /\ e[2] \in DOMAIN d.dirents[ptrs[i]]
    BY <1>2
<1>4. i \in Nat /\ ptrs[i] \in DOMAIN d.dirents
    BY <1>2
<1>5. EntriesOK(d.dirents)
    BY DEF DiskOK
<1>6. e[2] \in Nat /\ d.dirents[ptrs[i]][e[2]].inode \in {0} \cup Ext2Inodes
    BY <1>3, <1>4, <1>5 DEF EntriesOK
<1>7. QED
    BY <1>1, <1>3, <1>4, <1>6 DEF EntryAt

(* find_dir_entry returns an inode of the disk, or 0.                      *)
LEMMA FoundInode ==
    ASSUME NEW d, DiskOK(d), NEW n, NEW name
    PROVE  find_dir_entry(d, n, name) \in {0} \cup Ext2Inodes
<1>1. PICK hit : hit = {e \in DirSlots(d, n) : EntryAt(d, n, e).name = name /\ EntryAt(d, n, e).inode # 0}
    OBVIOUS
<1>2. find_dir_entry(d, n, name) = IF d.inode[n].mode # "dir" \/ hit = {} THEN 0 ELSE EntryAt(d, n, FirstSlot(hit)).inode
    BY <1>1 DEF find_dir_entry
<1>3. hit # {} => FirstSlot(hit) \in hit
    <2>1. \A e \in hit : e[1] \in Nat /\ e[2] \in Nat
        BY <1>1, SlotsTyped
    <2>2. QED
        BY <2>1, FirstSlotIn
<1>4. hit # {} => EntryAt(d, n, FirstSlot(hit)).inode \in {0} \cup Ext2Inodes
    BY <1>1, <1>3, SlotsTyped
<1>5. QED
    BY <1>2, <1>4

(* r[i] is the inode of the path's first i names.                          *)
ResolvedTo(r, d, path, m) ==
    /\ r = [i \in 0..m |-> r[i]] /\ r[0] = RootInode
    /\ \A i \in 1..m : r[i] = IF r[i - 1] = 0 THEN 0 ELSE find_dir_entry(d, r[i - 1], path[i])

(* Resolution runs for a path of any length.                               *)
LEMMA ResolvedExists ==
    ASSUME NEW d, NEW path, NEW l \in Nat
    PROVE  \E r : ResolvedTo(r, d, path, l)
<1>1. PICK Bad : Bad = {m \in 0..l : ~\E r : ResolvedTo(r, d, path, m)}
    OBVIOUS
<1>2. SUFFICES ASSUME Bad # {} PROVE FALSE
    BY <1>1
<1>3. Bad \in SUBSET Nat
    BY <1>1
<1>4. PICK m \in Bad : \A x \in Bad : m <= x
    BY <1>2, <1>3, LeastIsMember
<1>5. m # 0
    <2>1. PICK r : r = [i \in 0..0 |-> RootInode]
        OBVIOUS
    <2>2. ResolvedTo(r, d, path, 0)
        BY <2>1 DEF ResolvedTo
    <2>3. QED
        BY <1>1, <1>4, <2>2
<1>6. m - 1 \in 0..l /\ m \in 1..l /\ m - 1 \notin Bad
    BY <1>1, <1>3, <1>4, <1>5
<1>7. PICK r : ResolvedTo(r, d, path, m - 1)
    BY <1>1, <1>6
<1>8. PICK g : g = [i \in 0..m |-> IF i < m THEN r[i] ELSE IF r[m - 1] = 0 THEN 0 ELSE find_dir_entry(d, r[m - 1], path[m])]
    OBVIOUS
<1>9. g = [i \in 0..m |-> g[i]] /\ g[0] = RootInode
    BY <1>6, <1>7, <1>8 DEF ResolvedTo
<1>10. ASSUME NEW i \in 1..m PROVE g[i] = IF g[i - 1] = 0 THEN 0 ELSE find_dir_entry(d, g[i - 1], path[i])
    <2>1. i \in 0..m /\ i - 1 \in 0..m /\ i - 1 < m /\ m \in Nat
        BY <1>6
    <2>2. g[i - 1] = r[i - 1]
        BY <1>8, <2>1
    <2>3. CASE i = m
        BY <1>8, <2>1, <2>2, <2>3
    <2>4. CASE i # m
        <3>1. i < m /\ i \in 1..(m - 1)
            BY <2>1, <2>4
        <3>2. g[i] = r[i]
            BY <1>8, <2>1, <3>1
        <3>3. QED
            BY <1>7, <2>2, <3>1, <3>2 DEF ResolvedTo
    <2>5. QED
        BY <2>3, <2>4
<1>11. ResolvedTo(g, d, path, m)
    BY <1>9, <1>10 DEF ResolvedTo
<1>12. QED
    BY <1>1, <1>4, <1>11

Resolved(d, path) ==
    CHOOSE r : r = [i \in 0..Len(path) |->
        IF i = 0 THEN RootInode ELSE IF r[i - 1] = 0 THEN 0 ELSE find_dir_entry(d, r[i - 1], path[i])]

(* resolve_path returns an inode of the disk, or 0.                        *)
LEMMA ResolvedInode ==
    ASSUME NEW d, DiskOK(d), NEW path, Len(path) \in Nat
    PROVE  resolve_path(d, path) \in {0} \cup Ext2Inodes
<1>1. PICK f : ResolvedTo(f, d, path, Len(path))
    BY ResolvedExists
<1>2. f = [i \in 0..Len(path) |-> IF i = 0 THEN RootInode ELSE IF f[i - 1] = 0 THEN 0 ELSE find_dir_entry(d, f[i - 1], path[i])]
    <2>1. \A i \in 0..Len(path) : i = 0 \/ i \in 1..Len(path)
        OBVIOUS
    <2>2. \A i \in 0..Len(path) : f[i] = IF i = 0 THEN RootInode ELSE IF f[i - 1] = 0 THEN 0 ELSE find_dir_entry(d, f[i - 1], path[i])
        BY <1>1, <2>1, Zenon DEF ResolvedTo
    <2>3. f = [i \in 0..Len(path) |-> f[i]]
        BY <1>1 DEF ResolvedTo
    <2>4. QED
        BY <2>2, <2>3, Zenon
<1>3. PICK g : g = Resolved(d, path)
    OBVIOUS
<1>4. g = [i \in 0..Len(path) |-> IF i = 0 THEN RootInode ELSE IF g[i - 1] = 0 THEN 0 ELSE find_dir_entry(d, g[i - 1], path[i])]
    BY <1>2, <1>3, Zenon DEF Resolved
<1>5. resolve_path(d, path) = g[Len(path)]
    BY <1>3 DEF resolve_path, Resolved
<1>6. Len(path) \in 0..Len(path) /\ RootInode \in Ext2Inodes
    BY Ext2Assumption DEF RootInode, Ext2Inodes
<1>7. g[Len(path)] = IF Len(path) = 0 THEN RootInode
                     ELSE IF g[Len(path) - 1] = 0 THEN 0 ELSE find_dir_entry(d, g[Len(path) - 1], path[Len(path)])
    BY <1>4, <1>6, Zenon
<1>8. QED
    BY <1>5, <1>6, <1>7, FoundInode, Zenon


(* No set has everything.                                                  *)
LEMMA NotMember ==
    ASSUME NEW S
    PROVE  \E b : b \notin S
<1>1. PICK R : R = {x \in S : x \notin x}
    OBVIOUS
<1>2. R \notin S
    BY <1>1
<1>3. QED
    BY <1>2

(* An inode without blocks.                                                *)
EmptyOf(r) ==
    r \in InodeType /\ r.table = 0 /\ r.direct = [i \in 1..NDirect |-> 0] /\ \A P : \A i \in Positions : BlockOf(r, P, i) = 0

(* FreeInode has no block, whatever its mode.                              *)
LEMMA EmptyInode ==
    ASSUME NEW m \in {"none", "file", "dir"}
    PROVE  EmptyOf([FreeInode EXCEPT !.mode = m])
<1>0. PICK r : r = [FreeInode EXCEPT !.mode = m]
    OBVIOUS
<1>1. LastBlock \in Nat \ {0} /\ NDirect \in Nat \ {0} /\ NPtrs \in Nat
    BY Ext2Assumption
<1>2. 0 \in 0..LastBlock
    BY <1>1
<1>3. r \in InodeType /\ r.table = 0 /\ r.direct = [i \in 1..NDirect |-> 0]
    BY <1>0, <1>2 DEF FreeInode, InodeType
<1>4. \A i \in Positions : i = 0 \/ i \in 1..NDirect \/ ~(i <= NDirect)
    BY <1>1 DEF Positions
<1>5. \A P : \A i \in Positions : BlockOf(r, P, i) = 0
    BY <1>3, <1>4 DEF BlockOf
<1>6. QED
    BY <1>0, <1>3, <1>5 DEF EmptyOf

(* alloc_inode sets a bit and touches nothing else.                        *)
LEMMA AllocInode ==
    ASSUME NEW d, DiskOK(d), FreeBits(d) # {}, NEW n, n = Least(FreeBits(d)), NEW e, e = alloc_inode(d)
    PROVE  /\ n \in Ext2Inodes /\ DiskOK(e)
           /\ e.inode = d.inode /\ e.dirents = d.dirents /\ e.ptrs = d.ptrs /\ e.bmap = d.bmap
<1>1. LastInode \in Nat
    BY Ext2Assumption
<1>2. FreeBits(d) \in SUBSET Nat /\ FreeBits(d) \subseteq Ext2Inodes
    BY <1>1 DEF FreeBits, FirstInode, Ext2Inodes, RootInode
<1>3. n \in Ext2Inodes
    BY <1>2, LeastFacts
<1>4. e = [d EXCEPT !.imap = d.imap \cup {n}]
    BY DEF alloc_inode
<1>5. /\ IsDisk(e) /\ e.inode = d.inode /\ e.dirents = d.dirents /\ e.ptrs = d.ptrs /\ e.bmap = d.bmap /\ e.nfree = d.nfree
    BY <1>4 DEF IsDisk, DiskOK
<1>6. DiskOK(e)
    BY <1>5 DEF DiskOK, CountOK, FreeBlocks
<1>7. QED
    BY <1>3, <1>5, <1>6

(* The inode of the loop is written back.                                  *)
LEMMA LoopWritten ==
    ASSUME NEW s, NEW n \in Ext2Inodes, LoopOK(s, n), NEW e, e = [s.d EXCEPT !.inode[n] = s.ino]
    PROVE  DiskOK(e)
<1>1. DiskOK(s.d) /\ BlocksOK([s.d.inode EXCEPT ![n] = s.ino], s.d.ptrs, s.d.bmap)
    BY DEF LoopOK
<1>2. PICK J : J = [s.d.inode EXCEPT ![n] = s.ino]
    OBVIOUS
<1>3. e = [s.d EXCEPT !.inode = J]
    BY <1>2
<1>4. /\ IsDisk(e) /\ e.inode = J /\ e.dirents = s.d.dirents /\ e.ptrs = s.d.ptrs /\ e.bmap = s.d.bmap /\ e.nfree = s.d.nfree
    BY <1>1, <1>3 DEF IsDisk, DiskOK
<1>5. QED
    BY <1>1, <1>2, <1>4 DEF DiskOK, CountOK, FreeBlocks

(* The loop may start from an inode of the disk.                           *)
LEMMA LoopExisting ==
    ASSUME NEW d, DiskOK(d), NEW n \in Ext2Inodes
    PROVE  LoopOK([d |-> d, ino |-> d.inode[n], ok |-> TRUE], n)
<1>1. PICK s : s = [d |-> d, ino |-> d.inode[n], ok |-> TRUE]
    OBVIOUS
<1>2. DOMAIN s = {"d", "ino", "ok"} /\ s.d = d /\ s.ino = d.inode[n]
    BY <1>1
<1>3. d.inode \in [Ext2Inodes -> InodeType] /\ BlocksOK(d.inode, d.ptrs, d.bmap)
    BY DEF DiskOK, BlocksOK, InodesTyped
<1>4. [d.inode EXCEPT ![n] = d.inode[n]] = d.inode /\ d.inode[n] \in InodeType
    BY <1>3
<1>5. LoopOK(s, n)
    BY <1>2, <1>3, <1>4 DEF LoopOK
<1>6. QED
    BY <1>1, <1>5

(* Or from an empty one that takes the place of whatever is there.         *)
LEMMA LoopFresh ==
    ASSUME NEW d, DiskOK(d), NEW n \in Ext2Inodes, NEW r, r = [FreeInode EXCEPT !.mode = "file"]
    PROVE  LoopOK([d |-> d, ino |-> r, ok |-> TRUE], n)
<1>1. PICK s : s = [d |-> d, ino |-> r, ok |-> TRUE]
    OBVIOUS
<1>2. DOMAIN s = {"d", "ino", "ok"} /\ s.d = d /\ s.ino = r
    BY <1>1
<1>3. PICK I, P, B, J : I = d.inode /\ P = d.ptrs /\ B = d.bmap /\ J = [I EXCEPT ![n] = r]
    OBVIOUS
<1>4. BlocksOK(I, P, B) /\ InodesTyped(I, P)
    BY <1>3 DEF DiskOK, BlocksOK
<1>5. r \in InodeType /\ r.table = 0 /\ \A i \in Positions : BlockOf(r, P, i) = 0
    <2>1. EmptyOf(r)
        BY EmptyInode
    <2>2. QED
        BY <2>1 DEF EmptyOf
<1>6. J \in [Ext2Inodes -> InodeType] /\ J[n] = r /\ \A m \in Ext2Inodes : m # n => J[m] = I[m]
    <2>1. I \in [Ext2Inodes -> InodeType]
        BY <1>4 DEF InodesTyped
    <2>2. QED
        BY <1>3, <1>5, <2>1
<1>7. InodesTyped(J, P)
    BY <1>4, <1>5, <1>6 DEF InodesTyped
<1>8. PICK b : b \notin B
    BY NotMember
<1>9. \A m \in Ext2Inodes, i \in Positions : BlockOf(I[m], P, i) = 0 \/ BlockOf(I[m], P, i) \in B
    BY <1>4 DEF BlocksOK
<1>10. Moves(I, P, J, P, B, b, b, b)
    BY <1>5, <1>6, <1>9 DEF Moves
<1>11. BlocksOK(J, P, B)
    BY <1>4, <1>7, <1>8, <1>10, BlocksMove
<1>12. LoopOK(s, n)
    BY <1>2, <1>3, <1>5, <1>11 DEF LoopOK
<1>13. QED
    BY <1>1, <1>12

(* A directory gets a free block with entries of its own.                  *)
LEMMA EntriesPut ==
    ASSUME NEW D, EntriesOK(D), NEW b, NEW E, E = Put(D, b, <<>>)
    PROVE  EntriesOK(E)
<1>1. DOMAIN E = DOMAIN D \cup {b} /\ E[b] = <<>> /\ \A x \in DOMAIN D : x # b => E[x] = D[x]
    BY DEF Put
<1>2. DOMAIN <<>> = {}
    OBVIOUS
<1>3. QED
    BY <1>1, <1>2 DEF EntriesOK

(* A block with one entry is added to the directory blocks.                *)
LEMMA EntryPut ==
    ASSUME NEW D, EntriesOK(D), NEW b, NEW name, NEW n \in {0} \cup Ext2Inodes, NEW E, E = Put(D, b, <<Entry(name, n)>>)
    PROVE  EntriesOK(E)
<1>1. PICK x, q : x = Entry(name, n) /\ q = <<x>>
    OBVIOUS
<1>2. DOMAIN x = {"name", "inode"} /\ x.inode = n
    BY <1>1 DEF Entry
<1>3. DOMAIN q = {1} /\ q[1] = x
    BY <1>1
<1>4. DOMAIN E = DOMAIN D \cup {b} /\ E[b] = q /\ \A y \in DOMAIN D : y # b => E[y] = D[y]
    BY <1>1 DEF Put
<1>5. QED
    BY <1>2, <1>3, <1>4 DEF EntriesOK

(* add_dir_entry keeps the disk sound.                                     *)
LEMMA AddedEntry ==
    ASSUME NEW d, DiskOK(d), NEW dir \in Ext2Inodes, NEW name, NEW n \in {0} \cup Ext2Inodes
    PROVE  DiskOK(add_dir_entry(d, dir, name, n).d)
<1>1. PICK unused : unused = {i \in 1..NDirect : d.inode[dir].direct[i] = 0}
    OBVIOUS
<1>2. CASE d.inode[dir].mode # "dir" \/ unused = {} \/ FreeBlocks(d) = {}
    BY <1>1, <1>2 DEF add_dir_entry, EditDone
<1>3. CASE ~(d.inode[dir].mode # "dir" \/ unused = {} \/ FreeBlocks(d) = {})
    <2>1. PICK b, e, u, I : b = Least(FreeBlocks(d)) /\ e = alloc_block(d) /\ u = Least(unused) /\ I = d.inode
        OBVIOUS
    <2>2. PICK P, B, C, D : P = d.ptrs /\ B = d.bmap /\ C = B \cup {b} /\ D = Put(d.dirents, b, <<Entry(name, n)>>)
        OBVIOUS
    <2>3. IsDisk(d) /\ CountOK(d) /\ EntriesOK(d.dirents) /\ BlocksOK(I, P, B)
        BY <2>1, <2>2 DEF DiskOK
    <2>4. /\ b \in 1..LastBlock /\ b \notin B /\ IsDisk(e) /\ CountOK(e) /\ e.bmap = C
          /\ e.inode = I /\ e.dirents = d.dirents /\ e.ptrs = P
        BY <1>3, <2>1, <2>2, <2>3, AllocBlock
    <2>5. unused \in SUBSET Nat
        BY <1>1
    <2>6. u \in unused
        BY <1>3, <2>1, <2>5, LeastFacts
    <2>7. u \in 1..NDirect
        BY <1>1, <2>6
    <2>8. PICK o, g : o = I[dir] /\ g = [o.direct EXCEPT ![u] = b]
        OBVIOUS
    <2>9. PICK r : r = [o EXCEPT !.direct = g]
        OBVIOUS
    <2>10. PICK J, f : J = [I EXCEPT ![dir] = r] /\ f = [e EXCEPT !.inode = J, !.dirents = D]
        OBVIOUS
    <2>11. f = [e EXCEPT !.inode[dir].direct[u] = b, !.dirents = Put(@, b, <<Entry(name, n)>>)]
        BY <2>2, <2>4, <2>8, <2>9, <2>10
    <2>12. add_dir_entry(d, dir, name, n).d = f
        BY <1>1, <1>3, <2>1, <2>11 DEF add_dir_entry, EditDone
    <2>13. IsDisk(f) /\ f.inode = J /\ f.dirents = D /\ f.ptrs = P /\ f.bmap = C /\ f.nfree = e.nfree
        BY <2>4, <2>10 DEF IsDisk
    <2>14. CountOK(f)
        BY <2>4, <2>13 DEF CountOK, FreeBlocks
    <2>15. EntriesOK(D)
        BY <2>2, <2>3, EntryPut
    <2>16. NDirect \in Nat \ {0} /\ LastBlock \in Nat \ {0}
        BY Ext2Assumption
    <2>17. o \in InodeType /\ (o.table # 0 => o.table \in DOMAIN P)
        BY <2>3, <2>8 DEF BlocksOK, InodesTyped
    <2>18. b \in 0..LastBlock /\ o.direct \in [1..NDirect -> 0..LastBlock]
        BY <2>4, <2>16, <2>17 DEF InodeType
    <2>19. g \in [1..NDirect -> 0..LastBlock] /\ g[u] = b /\ \A k \in 1..NDirect : k # u => g[k] = o.direct[k]
        BY <2>7, <2>8, <2>18
    <2>20. r \in InodeType /\ r.table = o.table /\ r.direct = g
        BY <2>9, <2>17, <2>19 DEF InodeType
    <2>21. Grows(I[dir], r, P, u, b)
        <3>1. \A k \in Positions : k = 0 \/ k \in 1..NDirect \/ ~(k <= NDirect)
            BY <2>16, Ext2Assumption DEF Positions
        <3>2. QED
            BY <2>8, <2>19, <2>20, <3>1 DEF BlockOf, Grows
    <2>22. BlocksOK([I EXCEPT ![dir] = r], P, C)
        <3>1. b \in C /\ b \notin B /\ B \subseteq C
            BY <2>2, <2>4
        <3>2. r.table # 0 => r.table \in DOMAIN P
            BY <2>17, <2>20
        <3>3. QED
            BY <2>3, <2>20, <2>21, <3>1, <3>2, InodeReplaced
    <2>23. QED
        BY <2>10, <2>12, <2>13, <2>14, <2>15, <2>22 DEF DiskOK
<1>4. QED
    BY <1>2, <1>3

(* So does remove_dir_entry.                                               *)
LEMMA RemovedEntry ==
    ASSUME NEW d, DiskOK(d), NEW dir, NEW name
    PROVE  DiskOK(remove_dir_entry(d, dir, name).d)
<1>1. PICK hit, h : hit = {e \in DirSlots(d, dir) : EntryAt(d, dir, e).name = name} /\ h = FirstSlot(hit)
    OBVIOUS
<1>2. CASE d.inode[dir].mode # "dir" \/ hit = {}
    BY <1>1, <1>2 DEF remove_dir_entry, EditDone
<1>3. CASE ~(d.inode[dir].mode # "dir" \/ hit = {})
    <2>1. \A e \in hit : e[1] \in Nat /\ e[2] \in Nat
        BY <1>1, SlotsTyped
    <2>2. h \in hit
        BY <1>1, <1>3, <2>1, FirstSlotIn
    <2>3. h \in DirSlots(d, dir)
        BY <1>1, <2>2
    <2>4. PICK D, b, k : D = d.dirents /\ b = d.inode[dir].direct[h[1]] /\ k = h[2]
        OBVIOUS
    <2>5. b \in DOMAIN D /\ k \in DOMAIN D[b]
        BY <2>3, <2>4, SlotsTyped
    <2>6. PICK x, y : x = D[b][k] /\ y = [x EXCEPT !.inode = 0]
        OBVIOUS
    <2>7. PICK q : q = [D[b] EXCEPT ![k] = y]
        OBVIOUS
    <2>8. PICK E, f : E = [D EXCEPT ![b] = q] /\ f = [d EXCEPT !.dirents = E]
        OBVIOUS
    <2>9. f = [d EXCEPT !.dirents[b][k].inode = 0]
        BY <2>4, <2>6, <2>7, <2>8
    <2>10. remove_dir_entry(d, dir, name).d = f
        BY <1>1, <1>3, <2>4, <2>9 DEF remove_dir_entry, EditDone
    <2>11. IsDisk(d) /\ CountOK(d) /\ EntriesOK(D) /\ BlocksOK(d.inode, d.ptrs, d.bmap)
        BY <2>4 DEF DiskOK
    <2>12. IsDisk(f) /\ f.inode = d.inode /\ f.dirents = E /\ f.ptrs = d.ptrs /\ f.bmap = d.bmap /\ f.nfree = d.nfree
        BY <2>8, <2>11 DEF IsDisk
    <2>13. DOMAIN y = {"name", "inode"} /\ y.inode = 0
        BY <2>5, <2>6, <2>11 DEF EntriesOK
    <2>14. DOMAIN q = DOMAIN D[b] /\ q[k] = y /\ \A j \in DOMAIN q : j # k => q[j] = D[b][j]
        BY <2>5, <2>7
    <2>15. DOMAIN E = DOMAIN D /\ E[b] = q /\ \A c \in DOMAIN D : c # b => E[c] = D[c]
        BY <2>5, <2>8
    <2>16. EntriesOK(E)
        BY <2>5, <2>11, <2>13, <2>14, <2>15 DEF EntriesOK
    <2>17. CountOK(f)
        BY <2>11, <2>12 DEF CountOK, FreeBlocks
    <2>18. QED
        BY <2>10, <2>11, <2>12, <2>16, <2>17 DEF DiskOK
<1>4. QED
    BY <1>2, <1>3

(* The blocks an inode gives back are as many as its pointers in use.      *)
LEMMA FreedFile ==
    ASSUME NEW d, DiskOK(d), NEW n \in Ext2Inodes
    PROVE  DiskOK(free_inode(free_blocks_of_inode(d, n), n))
<1>1. PICK I, P, B, g, used : /\ I = d.inode /\ P = d.ptrs /\ B = d.bmap /\ g = I[n].direct
                              /\ used = {i \in 1..NDirect : g[i] # 0}
    OBVIOUS
<1>2. PICK X, c : X = {g[i] : i \in used} /\ c = d.nfree + Cardinality(used)
    OBVIOUS
<1>3. PICK e, f, J, C : /\ e = free_blocks_of_inode(d, n) /\ f = free_inode(e, n) /\ J = [I EXCEPT ![n] = FreeInode]
                        /\ C = B \ X
    OBVIOUS
<1>4. IsDisk(d) /\ CountOK(d) /\ EntriesOK(d.dirents) /\ BlocksOK(I, P, B)
    BY <1>1 DEF DiskOK
<1>5. e = [d EXCEPT !.bmap = C, !.nfree = c]
    BY <1>1, <1>2, <1>3 DEF free_blocks_of_inode
<1>6. e.bmap = C /\ e.nfree = c /\ e.inode = I /\ e.ptrs = P /\ e.dirents = d.dirents /\ IsDisk(e)
    BY <1>1, <1>4, <1>5 DEF IsDisk
<1>7. f = [e EXCEPT !.imap = e.imap \ {n - 1}, !.inode = J]
    BY <1>3, <1>6 DEF free_inode
<1>8. f.bmap = C /\ f.nfree = c /\ f.inode = J /\ f.ptrs = P /\ f.dirents = d.dirents /\ IsDisk(f)
    BY <1>6, <1>7 DEF IsDisk
<1>9. BlocksOK(J, P, C)
    BY <1>1, <1>2, <1>3, <1>4, BlocksFreed
<1>10. \A i \in 1..NDirect : i \in Positions /\ BlockOf(I[n], P, i) = g[i]
    BY <1>1, Ext2Assumption DEF Positions, BlockOf
<1>11. \A i \in used : g[i] \in B
    BY <1>1, <1>4, <1>10 DEF BlocksOK
<1>12. \A i, j \in used : g[i] = g[j] => i = j
    BY <1>1, <1>4, <1>10 DEF BlocksOK
<1>13. IsFiniteSet(used)
    <2>1. IsFiniteSet(1..NDirect)
        BY FS_Interval, Ext2Assumption
    <2>2. used \subseteq 1..NDirect
        BY <1>1
    <2>3. QED
        BY <2>1, <2>2, FS_Subset
<1>14. IsFiniteSet(X) /\ Cardinality(X) = Cardinality(used)
    <2>1. PICK h : h = [i \in used |-> g[i]]
        OBVIOUS
    <2>2. h \in [used -> X] /\ (\A i \in used : h[i] = g[i])
        BY <1>2, <2>1
    <2>3. \A x \in X : \E i \in used : h[i] = x
        BY <1>2, <2>2
    <2>4. \A i, j \in used : h[i] = h[j] => i = j
        BY <1>12, <2>2
    <2>5. h \in Bijection(used, X)
        BY <2>2, <2>3, <2>4, Fun_IsBij
    <2>6. ExistsBijection(used, X)
        BY <2>5 DEF ExistsBijection
    <2>7. QED
        BY <1>13, <2>6, FS_Bijection
<1>15. B \in SUBSET (1..LastBlock) /\ d.nfree = Cardinality(FreeBlocks(d))
    BY <1>1, <1>4 DEF CountOK
<1>16. X \subseteq B /\ C \in SUBSET (1..LastBlock)
    BY <1>2, <1>3, <1>11, <1>15
<1>17. FreeBlocks(f) = FreeBlocks(d) \cup X /\ FreeBlocks(d) \cap X = {}
    BY <1>1, <1>3, <1>8, <1>15, <1>16 DEF FreeBlocks
<1>18. Cardinality(FreeBlocks(f)) = Cardinality(FreeBlocks(d)) + Cardinality(X) - Cardinality(FreeBlocks(d) \cap X)
    BY <1>14, <1>17, FreeBlocksFinite, FS_Union
<1>19. Cardinality(FreeBlocks(d) \cap X) = 0
    BY <1>17, FS_EmptySet
<1>20. Cardinality(FreeBlocks(d)) \in Nat /\ Cardinality(X) \in Nat
    BY <1>14, FreeBlocksFinite, FS_CardinalityType
<1>21. f.nfree = Cardinality(FreeBlocks(f))
    BY <1>2, <1>8, <1>14, <1>15, <1>18, <1>19, <1>20
<1>22. CountOK(f)
    BY <1>8, <1>16, <1>21 DEF CountOK
<1>23. QED
    BY <1>3, <1>4, <1>8, <1>9, <1>22 DEF DiskOK


(* Paths and their parents have lengths.                                   *)
LEMMA FsPathLengths ==
    ASSUME NEW p \in FsPaths
    PROVE  Len(p) \in Nat /\ Len(Front(p)) \in Nat
<1>1. CASE \E a \in FsNames : p = <<a>>
    <2>1. PICK a : p = <<a>>
        BY <1>1
    <2>2. Len(p) = 1
        BY <2>1
    <2>3. Front(p) = SubSeq(p, 1, 0)
        BY <2>2 DEF Front
    <2>4. Front(p) = <<>>
        BY <2>1, <2>3, SubSeqsOf
    <2>5. QED
        BY <2>2, <2>4
<1>2. CASE p \in FsNames \X FsNames
    <2>1. PICK a, b : p = <<a, b>>
        BY <1>2
    <2>2. Len(p) = 2
        BY <2>1
    <2>3. Front(p) = SubSeq(p, 1, 1)
        BY <2>2 DEF Front
    <2>4. Front(p) = <<a>>
        BY <2>1, <2>3, SubSeqsOf
    <2>5. Len(Front(p)) = 1
        BY <2>4
    <2>6. QED
        BY <2>2, <2>5
<1>3. QED
    BY <1>1, <1>2 DEF FsPaths

(* What the paths of the operations resolve to.                            *)
LEMMA PathInode ==
    ASSUME NEW d, DiskOK(d), NEW p \in FsPaths
    PROVE  resolve_path(d, p) \in {0} \cup Ext2Inodes /\ resolve_path(d, Front(p)) \in {0} \cup Ext2Inodes
    BY FsPathLengths, ResolvedInode

(* write_file_by_inode keeps the disk sound.                               *)
LEMMA WrittenFile ==
    ASSUME NEW d, DiskOK(d), NEW n \in Ext2Inodes, NEW k \in Nat
    PROVE  DiskOK(write_file_by_inode(d, n, k))
<1>1. PICK s : s = EnsureBlocks(d, d.inode[n], k)
    OBVIOUS
<1>2. CASE d.inode[n].mode # "file" \/ k > NDirect + NPtrs
    BY <1>2 DEF write_file_by_inode
<1>3. CASE ~(d.inode[n].mode # "file" \/ k > NDirect + NPtrs)
    <2>1. k \in 0..(NDirect + NPtrs)
        BY <1>3, Ext2Assumption
    <2>2. LoopOK([d |-> d, ino |-> d.inode[n], ok |-> TRUE], n)
        BY LoopExisting
    <2>3. LoopOK(s, n)
        BY <1>1, <2>1, <2>2, EnsureBlocksOK
    <2>4. DiskOK(s.d) /\ DiskOK([s.d EXCEPT !.inode[n] = s.ino])
        BY <2>3, LoopWritten DEF LoopOK
    <2>5. write_file_by_inode(d, n, k) = IF s.ok THEN [s.d EXCEPT !.inode[n] = s.ino] ELSE s.d
        BY <1>1, <1>3 DEF write_file_by_inode
    <2>6. QED
        BY <2>4, <2>5
<1>4. QED
    BY <1>2, <1>3

(* The loop of a new file, with the table before the blocks.               *)
LEMMA CreatedBlocks ==
    ASSUME NEW d, DiskOK(d), NEW n \in Ext2Inodes, NEW k \in 0..(NDirect + NPtrs), NEW r, r = [FreeInode EXCEPT !.mode = "file"],
           NEW t, t = (IF k > NDirect THEN ensure_table([d |-> d, ino |-> r, ok |-> TRUE]) ELSE [d |-> d, ino |-> r, ok |-> TRUE]),
           NEW s, s = (IF t.ok THEN EnsureBlocks(t.d, t.ino, k) ELSE t)
    PROVE  LoopOK(s, n)
<1>1. PICK z : z = [d |-> d, ino |-> r, ok |-> TRUE]
    OBVIOUS
<1>2. LoopOK(z, n)
    BY <1>1, LoopFresh
<1>3. LoopOK(t, n)
    BY <1>1, <1>2, LoopTable
<1>4. CASE ~t.ok
    BY <1>3, <1>4
<1>5. CASE t.ok
    <2>1. PICK u : u = [d |-> t.d, ino |-> t.ino, ok |-> TRUE]
        OBVIOUS
    <2>2. DOMAIN u = {"d", "ino", "ok"} /\ u.d = t.d /\ u.ino = t.ino
        BY <2>1
    <2>3. LoopOK(u, n)
        BY <1>3, <2>2 DEF LoopOK
    <2>4. LoopOK([d |-> t.d, ino |-> t.ino, ok |-> TRUE], n)
        BY <2>1, <2>3
    <2>5. LoopOK(EnsureBlocks(t.d, t.ino, k), n)
        BY <2>4, EnsureBlocksOK
    <2>6. QED
        BY <1>5, <2>5
<1>6. QED
    BY <1>4, <1>5

(* create_new_file keeps the disk sound, wherever it stops.                *)
LEMMA CreatedFile ==
    ASSUME NEW d, DiskOK(d), NEW p \in FsPaths, NEW k \in Nat
    PROVE  DiskOK(create_new_file(d, p, k))
<1>1. PICK parent, n, e, r : /\ parent = resolve_path(d, Front(p)) /\ n = Least(FreeBits(d)) /\ e = alloc_inode(d)
                             /\ r = [FreeInode EXCEPT !.mode = "file"]
    OBVIOUS
<1>2. PICK t : t = (IF k > NDirect THEN ensure_table([d |-> e, ino |-> r, ok |-> TRUE]) ELSE [d |-> e, ino |-> r, ok |-> TRUE])
    OBVIOUS
<1>3. PICK s : s = (IF t.ok THEN EnsureBlocks(t.d, t.ino, k) ELSE t)
    OBVIOUS
<1>4. PICK c, w : c = create_new_file(d, p, k) /\ w = [s.d EXCEPT !.inode[n] = s.ino]
    OBVIOUS
<1>5. c = IF parent = 0 \/ FreeBits(d) = {} THEN d
          ELSE IF d.inode[parent].mode # "dir" THEN d
          ELSE IF k > NDirect + NPtrs THEN e
          ELSE IF ~s.ok THEN s.d
          ELSE add_dir_entry(w, parent, Last(p), n).d
    BY <1>1, <1>2, <1>3, <1>4, Zenon DEF create_new_file
<1>6. CASE parent = 0 \/ FreeBits(d) = {}
    BY <1>4, <1>5, <1>6
<1>7. CASE ~(parent = 0 \/ FreeBits(d) = {})
    <2>1. parent \in Ext2Inodes
        BY <1>1, <1>7, PathInode
    <2>2. n \in Ext2Inodes /\ DiskOK(e)
        BY <1>1, <1>7, AllocInode
    <2>3. k > NDirect + NPtrs \/ k \in 0..(NDirect + NPtrs)
        BY Ext2Assumption
    <2>4. CASE k > NDirect + NPtrs
        BY <1>4, <1>5, <2>2, <2>4
    <2>5. CASE ~(k > NDirect + NPtrs)
        <3>1. LoopOK(s, n)
            BY <1>1, <1>2, <1>3, <2>2, <2>3, <2>5, CreatedBlocks
        <3>2. DiskOK(s.d) /\ DiskOK(w)
            BY <1>4, <2>2, <3>1, LoopWritten DEF LoopOK
        <3>3. DiskOK(add_dir_entry(w, parent, Last(p), n).d)
            BY <2>1, <2>2, <3>2, AddedEntry
        <3>4. c \in {d, s.d, add_dir_entry(w, parent, Last(p), n).d}
            BY <1>5, <2>5, Zenon
        <3>5. QED
            BY <1>4, <3>2, <3>3, <3>4
    <2>6. QED
        BY <2>4, <2>5
<1>8. QED
    BY <1>6, <1>7

(* link_then_unlink keeps the disk sound, the rollback included.           *)
LEMMA LinkedUnlinked ==
    ASSUME NEW d, DiskOK(d), NEW old, NEW oldDir, NEW new, NEW newDir \in Ext2Inodes, NEW n \in Ext2Inodes
    PROVE  DiskOK(link_then_unlink(d, old, oldDir, new, newDir, n))
<1>1. PICK a : a = add_dir_entry(d, newDir, Last(new), n)
    OBVIOUS
<1>2. PICK r : r = remove_dir_entry(a.d, oldDir, Last(old))
    OBVIOUS
<1>3. DiskOK(a.d)
    BY <1>1, AddedEntry
<1>4. DiskOK(r.d) /\ DiskOK(remove_dir_entry(a.d, newDir, Last(new)).d)
    BY <1>2, <1>3, RemovedEntry
<1>5. link_then_unlink(d, old, oldDir, new, newDir, n) \in {d, r.d, remove_dir_entry(a.d, newDir, Last(new)).d}
    BY <1>1, <1>2 DEF link_then_unlink
<1>6. QED
    BY <1>3, <1>4, <1>5

IsNewDir(r, b) ==
    r \in InodeType /\ r.table = 0 /\ r.direct[1] = b /\ \A k \in 1..NDirect : k # 1 => r.direct[k] = 0

(* The inode mkdir writes.                                                 *)
LEMMA NewDir ==
    ASSUME NEW b \in 1..LastBlock
    PROVE  IsNewDir([FreeInode EXCEPT !.mode = "dir", !.direct[1] = b], b)
<1>1. NDirect \in Nat \ {0} /\ LastBlock \in Nat \ {0}
    BY Ext2Assumption
<1>2. PICK z, g, r : /\ z = [i \in 1..NDirect |-> 0] /\ g = [z EXCEPT ![1] = b]
                     /\ r = [FreeInode EXCEPT !.mode = "dir", !.direct[1] = b]
    OBVIOUS
<1>3. b \in 0..LastBlock /\ 0 \in 0..LastBlock /\ 1 \in 1..NDirect
    BY <1>1
<1>4. g \in [1..NDirect -> 0..LastBlock] /\ g[1] = b /\ \A k \in 1..NDirect : k # 1 => g[k] = 0
    BY <1>2, <1>3
<1>5. r = [mode |-> "dir", direct |-> g, table |-> 0]
    BY <1>2 DEF FreeInode
<1>6. r \in InodeType /\ r.table = 0 /\ r.direct = g
    BY <1>3, <1>4, <1>5 DEF InodeType
<1>7. IsNewDir(r, b)
    BY <1>4, <1>6 DEF IsNewDir
<1>8. QED
    BY <1>2, <1>7

(* A directory is made with a block of its own.                            *)
LEMMA DirectoryMade ==
    ASSUME NEW d, DiskOK(d), FreeBlocks(d) # {}, NEW n \in Ext2Inodes, NEW b, b = Least(FreeBlocks(d)),
           NEW r, IsNewDir(r, b),
           NEW f, f = [alloc_block(d) EXCEPT !.inode[n] = r, !.dirents = Put(@, b, <<>>)]
    PROVE  DiskOK(f)
<1>1. PICK I, P, B, C, D, e : /\ I = d.inode /\ P = d.ptrs /\ B = d.bmap /\ C = B \cup {b} /\ D = Put(d.dirents, b, <<>>)
                              /\ e = alloc_block(d)
    OBVIOUS
<1>2. IsDisk(d) /\ CountOK(d) /\ EntriesOK(d.dirents) /\ BlocksOK(I, P, B)
    BY <1>1 DEF DiskOK
<1>3. /\ b \in 1..LastBlock /\ b \notin B /\ IsDisk(e) /\ CountOK(e) /\ e.bmap = C
      /\ e.inode = I /\ e.dirents = d.dirents /\ e.ptrs = P
    BY <1>1, <1>2, AllocBlock
<1>4. PICK J : J = [I EXCEPT ![n] = r]
    OBVIOUS
<1>5. f = [e EXCEPT !.inode = J, !.dirents = D]
    BY <1>1, <1>3, <1>4
<1>6. IsDisk(f) /\ f.inode = J /\ f.dirents = D /\ f.ptrs = P /\ f.bmap = C /\ f.nfree = e.nfree
    BY <1>3, <1>5 DEF IsDisk
<1>7. CountOK(f)
    BY <1>3, <1>6 DEF CountOK, FreeBlocks
<1>8. EntriesOK(D)
    BY <1>1, <1>2, EntriesPut
<1>9. NDirect \in Nat \ {0} /\ LastBlock \in Nat \ {0} /\ NPtrs \in Nat
    BY Ext2Assumption
<1>10. r \in InodeType /\ r.table = 0 /\ r.direct[1] = b /\ \A k \in 1..NDirect : k # 1 => r.direct[k] = 0
    BY DEF IsNewDir
<1>16. Grows(I[n], r, P, 1, b)
    <2>1. \A k \in Positions : k = 0 \/ k \in 1..NDirect \/ ~(k <= NDirect)
        BY <1>9 DEF Positions
    <2>2. QED
        BY <1>10, <2>1 DEF BlockOf, Grows
<1>17. BlocksOK([I EXCEPT ![n] = r], P, C)
    <2>1. b \in C /\ b \notin B /\ B \subseteq C
        BY <1>1, <1>3
    <2>2. r.table # 0 => r.table \in DOMAIN P
        BY <1>10
    <2>3. QED
        BY <1>2, <1>10, <1>16, <2>1, <2>2, InodeReplaced
<1>18. QED
    BY <1>4, <1>6, <1>7, <1>8, <1>17 DEF DiskOK

\* The inode table Ext2Init has.
InodesMade ==
    [n \in Ext2Inodes |-> CASE n = RootInode  -> [FreeInode EXCEPT !.mode = "dir", !.direct[1] = 1]
                            [] n = FirstInode -> [FreeInode EXCEPT !.mode = "file"]
                            [] OTHER          -> FreeInode]

Ext2Inv == DiskOK(disk)

(* The image mke2fs made.                                                  *)
LEMMA Ext2Starts == Ext2Init => Ext2Inv
<1>1. SUFFICES ASSUME Ext2Init PROVE DiskOK(disk)
    BY DEF Ext2Inv
<1>2. PICK r, o, I : /\ r = [FreeInode EXCEPT !.mode = "dir", !.direct[1] = 1] /\ o = [FreeInode EXCEPT !.mode = "file"]
                     /\ I = InodesMade
    OBVIOUS
<1>3. PICK name : disk = [ imap |-> {RootInode - 1, FirstInode - 1}, bmap |-> {1}, nfree |-> LastBlock - 1, inode |-> InodesMade,
                           dirents |-> Put(NoEntries, 1, <<Entry(name, FirstInode)>>), ptrs |-> NoEntries ]
    BY <1>1, Zenon DEF Ext2Init, InodesMade
<1>4. /\ IsDisk(disk) /\ disk.bmap = {1} /\ disk.nfree = LastBlock - 1 /\ disk.ptrs = NoEntries /\ disk.inode = I
      /\ disk.dirents = Put(NoEntries, 1, <<Entry(name, FirstInode)>>)
    BY <1>2, <1>3 DEF IsDisk
<1>5. /\ DOMAIN InodesMade = Ext2Inodes /\ InodesMade = [n \in DOMAIN InodesMade |-> InodesMade[n]]
      /\ \A n \in Ext2Inodes : InodesMade[n] = CASE n = RootInode  -> [FreeInode EXCEPT !.mode = "dir", !.direct[1] = 1]
                                                [] n = FirstInode -> [FreeInode EXCEPT !.mode = "file"]
                                                [] OTHER          -> FreeInode
    <2>1. \A n \in Ext2Inodes : InodesMade[n] = CASE n = RootInode  -> [FreeInode EXCEPT !.mode = "dir", !.direct[1] = 1]
                                                [] n = FirstInode -> [FreeInode EXCEPT !.mode = "file"]
                                                [] OTHER          -> FreeInode
        BY Zenon DEF InodesMade
    <2>2. DOMAIN InodesMade = Ext2Inodes
        BY Zenon DEF InodesMade
    <2>3. InodesMade = [n \in DOMAIN InodesMade |-> InodesMade[n]]
        BY DEF InodesMade
    <2>4. QED
        BY <2>1, <2>2, <2>3, Zenon
<1>6. NDirect \in Nat \ {0} /\ LastBlock \in Nat \ {0} /\ NPtrs \in Nat /\ LastInode \in Nat /\ LastInode >= 2
    BY Ext2Assumption
<1>7. CountOK(disk)
    <2>1. FreeBlocks(disk) = (1..LastBlock) \ {1} /\ 1 \in 1..LastBlock
        BY <1>4, <1>6 DEF FreeBlocks
    <2>2. IsFiniteSet(1..LastBlock) /\ Cardinality(1..LastBlock) = LastBlock
        <3>1. IsFiniteSet(1..LastBlock) /\ Cardinality(1..LastBlock) = IF 1 > LastBlock THEN 0 ELSE LastBlock - 1 + 1
            BY <1>6, FS_Interval
        <3>2. QED
            BY <1>6, <3>1
    <2>3. Cardinality(FreeBlocks(disk)) = LastBlock - 1
        BY <2>1, <2>2, FS_RemoveElement
    <2>4. QED
        BY <1>4, <1>6, <2>1, <2>3 DEF CountOK
<1>8. EntriesOK(disk.dirents)
    <2>1. EntriesOK(NoEntries)
        BY DEF EntriesOK, NoEntries
    <2>2. FirstInode \in {0} \cup Ext2Inodes
        BY <1>6 DEF FirstInode, Ext2Inodes, RootInode
    <2>3. QED
        BY <1>4, <2>1, <2>2, EntryPut
<1>9. EmptyOf(FreeInode) /\ EmptyOf(o)
    <2>1. EmptyOf(FreeInode)
        <3>1. 0 \in 0..LastBlock
            BY <1>6
        <3>2. FreeInode \in InodeType /\ FreeInode.table = 0 /\ FreeInode.direct = [i \in 1..NDirect |-> 0]
            BY <3>1 DEF FreeInode, InodeType
        <3>3. \A i \in Positions : i = 0 \/ i \in 1..NDirect \/ ~(i <= NDirect)
            BY <1>6 DEF Positions
        <3>4. \A P : \A i \in Positions : BlockOf(FreeInode, P, i) = 0
            BY <3>2, <3>3 DEF BlockOf
        <3>5. QED
            BY <3>2, <3>4 DEF EmptyOf
    <2>2. QED
        BY <1>2, <2>1, EmptyInode
<1>10. /\ r \in InodeType /\ r.table = 0 /\ \A i \in Positions : BlockOf(r, NoEntries, i) = IF i = 1 THEN 1 ELSE 0
    <2>1. 1 \in 1..LastBlock
        BY <1>6
    <2>2. IsNewDir(r, 1)
        BY <1>2, <2>1, NewDir
    <2>6. \A k \in Positions : (k = 0 \/ k \in 1..NDirect \/ ~(k <= NDirect)) /\ (k = 1 => k # 0 /\ k <= NDirect)
        BY <1>6 DEF Positions
    <2>7. QED
        BY <2>2, <2>6 DEF BlockOf, IsNewDir
<1>11. /\ I = [n \in Ext2Inodes |-> I[n]] /\ I[RootInode] = r /\ RootInode \in Ext2Inodes
       /\ \A n \in Ext2Inodes : n # RootInode => EmptyOf(I[n])
    <2>1. RootInode \in Ext2Inodes /\ I = [n \in Ext2Inodes |-> I[n]]
        BY <1>2, <1>5, <1>6 DEF RootInode, Ext2Inodes
    <2>3. RootInode # FirstInode
        BY DEF RootInode, FirstInode
    <2>4. I[RootInode] = r
        BY <1>2, <1>5, <2>1, <2>3
    <2>5. \A n \in Ext2Inodes : n # RootInode => I[n] \in {o, FreeInode}
        BY <1>2, <1>5
    <2>6. QED
        BY <1>9, <2>1, <2>4, <2>5
<1>12. InodesTyped(I, NoEntries)
    <2>1. \A n \in Ext2Inodes : I[n] \in InodeType /\ I[n].table = 0
        BY <1>10, <1>11 DEF EmptyOf
    <2>2. I \in [Ext2Inodes -> InodeType]
        BY <1>11, <2>1
    <2>3. DOMAIN NoEntries = {}
        BY DEF NoEntries
    <2>4. QED
        BY <2>1, <2>2, <2>3 DEF InodesTyped
<1>13. \A m \in Ext2Inodes, i \in Positions :
          BlockOf(I[m], NoEntries, i) = 0 \/ (m = RootInode /\ i = 1 /\ BlockOf(I[m], NoEntries, i) = 1)
    BY <1>10, <1>11 DEF EmptyOf
<1>14. BlocksOK(I, NoEntries, {1})
    BY <1>12, <1>13 DEF BlocksOK
<1>15. QED
    BY <1>4, <1>7, <1>8, <1>14 DEF DiskOK

(* Every step of Ext2.                                                     *)
LEMMA Ext2Steps == Ext2Inv /\ Ext2Next => Ext2Inv'
<1>1. SUFFICES ASSUME DiskOK(disk), Ext2Next PROVE DiskOK(disk')
    BY DEF Ext2Inv
<1>2. Ext2Op
    BY <1>1 DEF Ext2Next
<1>3. ASSUME NEW p \in FsPaths, NEW k \in {0, 1, NDirect + 1, NDirect + NPtrs + 1}, create_file(p, k) PROVE DiskOK(disk')
    <2>1. k \in Nat
        BY <1>3, Ext2Assumption
    <2>2. PICK n : n = resolve_path(disk, p)
        OBVIOUS
    <2>3. n \in {0} \cup Ext2Inodes
        BY <1>1, <2>2, PathInode
    <2>4. disk' = IF n # 0 THEN write_file_by_inode(disk, n, k) ELSE create_new_file(disk, p, k)
        BY <1>3, <2>2 DEF create_file
    <2>5. n # 0 => DiskOK(write_file_by_inode(disk, n, k))
        BY <1>1, <2>1, <2>3, WrittenFile
    <2>6. DiskOK(create_new_file(disk, p, k))
        BY <1>1, <2>1, CreatedFile
    <2>7. QED
        BY <2>4, <2>5, <2>6
<1>4. ASSUME NEW p, open_path(p) \/ rmdir(p) PROVE DiskOK(disk')
    BY <1>1, <1>4 DEF open_path, rmdir
<1>5. ASSUME NEW p \in FsPaths, remove_file(p) PROVE DiskOK(disk')
    <2>1. PICK n, r : n = resolve_path(disk, p) /\ r = remove_dir_entry(disk, RootInode, p[1])
        OBVIOUS
    <2>2. n # 0 /\ disk' = IF r.ok THEN free_inode(free_blocks_of_inode(r.d, n), n) ELSE disk
        BY <1>5, <2>1 DEF remove_file
    <2>3. n \in Ext2Inodes
        BY <1>1, <2>1, <2>2, PathInode
    <2>4. DiskOK(r.d)
        BY <1>1, <2>1, RemovedEntry
    <2>5. DiskOK(free_inode(free_blocks_of_inode(r.d, n), n))
        BY <2>3, <2>4, FreedFile
    <2>6. QED
        BY <1>1, <2>2, <2>5
<1>6. ASSUME NEW p \in FsPaths, NEW q \in FsPaths, rename(p, q) PROVE DiskOK(disk')
    <2>1. PICK n, x, y : n = resolve_path(disk, p) /\ x = resolve_path(disk, Front(p)) /\ y = resolve_path(disk, Front(q))
        OBVIOUS
    <2>2. n # 0 /\ y # 0 /\ disk' = link_then_unlink(disk, p, x, q, y, n)
        BY <1>6, <2>1 DEF rename
    <2>3. n \in Ext2Inodes /\ y \in Ext2Inodes
        BY <1>1, <2>1, <2>2, PathInode
    <2>4. QED
        BY <1>1, <2>2, <2>3, LinkedUnlinked
<1>7. ASSUME NEW n, close_inode(n) PROVE DiskOK(disk')
    BY <1>1, <1>7 DEF close_inode
<1>8. ASSUME NEW n \in Ext2Inodes, NEW i \in 1..NDirect + NPtrs, write_at(n, i) PROVE DiskOK(disk')
    <2>1. PICK z, s : z = [d |-> disk, ino |-> disk.inode[n], ok |-> TRUE] /\ s = ensure_file_block(z, i)
        OBVIOUS
    <2>2. disk' = [s.d EXCEPT !.inode[n] = s.ino]
        BY <1>8, <2>1 DEF write_at
    <2>3. LoopOK(z, n)
        BY <1>1, <2>1, LoopExisting
    <2>4. LoopOK(s, n)
        BY <2>1, <2>3, LoopStep
    <2>5. QED
        BY <2>2, <2>4, LoopWritten
<1>9. ASSUME NEW name, mkdir(name) PROVE DiskOK(disk')
    <2>1. PICK e, n, b : e = alloc_inode(disk) /\ n = Least(FreeBits(disk)) /\ b = Least(FreeBlocks(disk))
        OBVIOUS
    <2>2. PICK r : r = [FreeInode EXCEPT !.mode = "dir", !.direct[1] = b]
        OBVIOUS
    <2>3. PICK f : f = [alloc_block(e) EXCEPT !.inode[n] = r, !.dirents = Put(@, b, <<>>)]
        OBVIOUS
    <2>4. /\ FreeBits(disk) # {}
          /\ disk' = IF FreeBlocks(disk) = {} THEN e ELSE add_dir_entry(f, RootInode, name, n).d
        BY <1>9, <2>1, <2>2, <2>3 DEF mkdir
    <2>5. n \in Ext2Inodes /\ DiskOK(e) /\ e.bmap = disk.bmap
        BY <1>1, <2>1, <2>4, AllocInode
    <2>6. CASE FreeBlocks(disk) = {}
        BY <2>4, <2>5, <2>6
    <2>7. CASE FreeBlocks(disk) # {}
        <3>1. FreeBlocks(e) = FreeBlocks(disk)
            BY <2>5 DEF FreeBlocks
        <3>2. FreeBlocks(e) # {} /\ b = Least(FreeBlocks(e))
            BY <2>1, <2>7, <3>1
        <3>3. DiskOK(f)
            <4>1. b \in 1..LastBlock
                BY <2>5, <3>2, AllocBlock DEF DiskOK
            <4>2. IsNewDir(r, b)
                BY <2>2, <4>1, NewDir
            <4>3. QED
                BY <2>3, <2>5, <3>2, <4>2, DirectoryMade
        <3>4. RootInode \in Ext2Inodes
            BY Ext2Assumption DEF RootInode, Ext2Inodes
        <3>5. DiskOK(add_dir_entry(f, RootInode, name, n).d)
            BY <2>5, <3>3, <3>4, AddedEntry
        <3>6. QED
            BY <2>4, <2>7, <3>5
    <2>8. QED
        BY <2>6, <2>7
<1>10. QED
    BY <1>2, <1>3, <1>4, <1>5, <1>6, <1>7, <1>8, <1>9 DEF Ext2Op

BlockAt(I, P, m, i, b) == b # 0 /\ BlockOf(I[m], P, i) = b

(* A block is at one inode only.                                           *)
LEMMA BlocksApart ==
    ASSUME NEW I, NEW P, NEW B, BlocksOK(I, P, B), NEW m \in Ext2Inodes, NEW n \in Ext2Inodes,
           NEW i \in Positions, NEW j \in Positions, NEW b, BlockAt(I, P, m, i, b), BlockAt(I, P, n, j, b)
    PROVE  m = n
<1>1. BlockOf(I[m], P, i) = BlockOf(I[n], P, j) /\ BlockOf(I[m], P, i) # 0
    BY DEF BlockAt
<1>2. QED
    BY <1>1 DEF BlocksOK

(* The invariant gives what the run checks of ext2.                        *)
LEMMA Ext2Holds == Ext2Inv => BlocksExclusive /\ FreeCountExact
<1>1. SUFFICES ASSUME DiskOK(disk) PROVE BlocksExclusive /\ FreeCountExact
    BY DEF Ext2Inv
<1>2. FreeCountExact
    BY <1>1 DEF DiskOK, CountOK, FreeCountExact
<1>3. BlocksOK(disk.inode, disk.ptrs, disk.bmap)
    BY <1>1 DEF DiskOK
<1>4. NDirect \in Nat \ {0} /\ NPtrs \in Nat
    BY Ext2Assumption
<1>5. 0 \in Positions /\ \A i \in 1..NDirect + NPtrs : i \in Positions /\ i # 0
    BY <1>4 DEF Positions
<1>6. ASSUME NEW m \in Ext2Inodes, NEW b PROVE b \in InodeBlocks(disk, m) => \E i \in Positions : b = BlockOf(disk.inode[m], disk.ptrs, i)
    <2>1. BlockOf(disk.inode[m], disk.ptrs, 0) = disk.inode[m].table
        BY DEF BlockOf
    <2>2. \A i \in 1..NDirect + NPtrs : resolve_block(disk, disk.inode[m], i) = BlockOf(disk.inode[m], disk.ptrs, i)
        BY <1>5 DEF BlockOf, resolve_block
    <2>3. QED
        BY <1>5, <2>1, <2>2 DEF InodeBlocks
<1>7. ASSUME NEW m \in Ext2Inodes, NEW b \in InodeBlocks(disk, m), b # 0
      PROVE  b \in disk.bmap /\ \A n \in Ext2Inodes \ {m} : b \notin InodeBlocks(disk, n)
    <2>1. PICK i \in Positions : b = BlockOf(disk.inode[m], disk.ptrs, i)
        BY <1>6, <1>7
    <2>2. b \in disk.bmap
        BY <1>3, <1>7, <2>1 DEF BlocksOK
    <2>3. ASSUME NEW n \in Ext2Inodes \ {m}, b \in InodeBlocks(disk, n) PROVE FALSE
        <3>1. PICK j \in Positions : b = BlockOf(disk.inode[n], disk.ptrs, j)
            BY <1>6, <2>3
        <3>2. m = n
            <4>1. n \in Ext2Inodes
                OBVIOUS
            <4>2. BlockAt(disk.inode, disk.ptrs, m, i, b) /\ BlockAt(disk.inode, disk.ptrs, n, j, b)
                BY <1>7, <2>1, <3>1 DEF BlockAt
            <4>3. QED
                BY <1>3, <4>1, <4>2, BlocksApart
        <3>3. QED
            BY <2>3, <3>2
    <2>4. QED
        BY <2>2, <2>3
<1>8. BlocksExclusive
    BY <1>7 DEF BlocksExclusive
<1>9. QED
    BY <1>2, <1>8

(***************************************************************************)
(* The file systems together.                                              *)
(***************************************************************************)
FsInv == BlockInv /\ Ext2Inv /\ FatInv /\ VfsInv

(* A partition's bytes are read as they are on the disk and written only   *)
(* inside their range; no ext2 block is at two places or at one and free,  *)
(* and the count of free blocks is exact; a FAT descriptor follows its     *)
(* file; the registry, the mounts and the record of each disk agree: for   *)
(* any number of sectors, inodes, blocks, names, disks and mount points,   *)
(* where drivers keep to DriversLimits.                                    *)
THEOREM FilesystemsAreSound == DriversLimits => (MCSpec => []FilesystemsSound)
<1> SUFFICES ASSUME DriversLimits PROVE MCSpec => []FilesystemsSound
    OBVIOUS
<1>1. MCInit => FsInv
    BY BlockStarts, Ext2Starts, FatStarts, VfsStarts DEF MCInit, FsInv
<1>2. FsInv /\ [MCNext]_mcVars => FsInv'
    <2>1. BlockInv /\ UNCHANGED blkVars => BlockInv'
        BY DEF BlockInv, blkVars, ReadIsTheDisk, WriteInRange
    <2>2. Ext2Inv /\ UNCHANGED ext2Vars => Ext2Inv'
        BY DEF Ext2Inv, ext2Vars
    <2>3. FatInv /\ UNCHANGED fatVars => FatInv'
        BY DEF FatInv, fatVars
    <2>4. VfsInv /\ UNCHANGED vfsVars => VfsInv'
        BY DEF VfsInv, vfsVars
    <2>5. MCNext => /\ BlockNext \/ UNCHANGED blkVars
                    /\ Ext2Next \/ UNCHANGED ext2Vars
                    /\ FatNext \/ UNCHANGED fatVars
                    /\ VfsNext \/ UNCHANGED vfsVars
        BY DEF MCNext
    <2>6. UNCHANGED mcVars => UNCHANGED blkVars /\ UNCHANGED ext2Vars /\ UNCHANGED fatVars /\ UNCHANGED vfsVars
        BY DEF mcVars
    <2>7. QED
        BY <2>1, <2>2, <2>3, <2>4, <2>5, <2>6, BlockSteps, Ext2Steps, FatSteps, VfsSteps DEF FsInv
<1>3. FsInv => FilesystemsSound
    BY Ext2Holds, FatHolds, VfsHolds DEF FsInv, BlockInv, FilesystemsSound
<1>4. QED
    BY <1>1, <1>2, <1>3, PTL DEF MCSpec
=============================================================================
