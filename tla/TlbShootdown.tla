---------------------------- MODULE TlbShootdown ----------------------------
(***************************************************************************)
(* Page-table changes on an SMP machine (kernel/src/smp.rs shootdown_tlb   *)
(* and tlb_ipi_ack, with their callers sys_mmap, sys_munmap, release_memory*)
(* and the window manager's shared surfaces).                              *)
(*                                                                         *)
(* The processor that changes a mapping holds the kernel lock.  It clears  *)
(* the entry, publishes directory, page and a new epoch, interrupts every  *)
(* processor whose CURRENT_CR3 is that directory and waits, for a bounded  *)
(* time, until each has acknowledged the epoch.  The interrupt handler of  *)
(* the other side reads the same words without any lock, possibly long     *)
(* after the transaction that caused it.  Every load and store of the      *)
(* protocol is a step of its own; whatever else runs under the kernel lock *)
(* is one step.                                                            *)
(***************************************************************************)
EXTENDS Integers, FiniteSets

CONSTANTS
    Cpus,        \* processors online
    Dirs,        \* page directories of processes
    KernelDir,   \* KERNEL_PD_PHYS
    Pages,       \* user pages
    Frames,      \* physical frames
    None,        \* no frame, no page, no CPU
    Ops,         \* kinds of page-table change that happen: see below
    Unreliable,  \* whether interrupts may be lost or come after the time-out
    MaxEpoch     \* bound: transactions

ASSUME TlbAssumption ==
    /\ KernelDir \notin Dirs
    /\ None \notin Frames \cup Cpus \cup Pages
    /\ Ops \subseteq {"munmap", "stack", "surface", "fixed", "rollback", "execve"}
    /\ Unreliable \in BOOLEAN
    /\ MaxEpoch \in Nat

VARIABLES
    pt,          \* page tables: directory, page -> frame
    free,        \* frames the allocator may hand out
    retired,     \* <<directory, page>> that munmap kept out of mmap_free
    cr3,         \* directory each processor really has loaded
    current_cr3, \* CURRENT_CR3
    tlb,         \* translations each processor caches for its directory
    lock,        \* SMP_KERNEL_LOCK
    spinning,    \* processors inside lock_kernel
    job,         \* what the lock holder is doing
    target_cr3,  \* TLB_TARGET_CR3
    target_page, \* TLB_TARGET_PAGE
    epoch,       \* TLB_EPOCH
    ack,         \* TLB_ACK_EPOCH
    ipi,         \* processors with a TLB interrupt pending
    isr          \* progress of tlb_ipi_ack on each processor

protocol == <<target_cr3, target_page, epoch, ack, ipi, isr>>
memory == <<pt, free, retired>>
loaded == <<cr3, current_cr3, tlb>>
vars == <<pt, free, retired, cr3, current_cr3, tlb, lock, spinning, job,
          target_cr3, target_page, epoch, ack, ipi, isr>>

NoTlb == [p \in Pages |-> None]
NoJob == [pc |-> "none", op |-> "none", dir |-> KernelDir, page |-> None,
          frame |-> None, to |-> {}, left |-> {}]
NoIsr == [pc |-> "none", epoch |-> 0]

Init ==
    /\ pt = [d \in Dirs |-> NoTlb]
    /\ free = Frames
    /\ retired = {}
    /\ cr3 = [c \in Cpus |-> KernelDir]
    /\ current_cr3 = cr3
    /\ tlb = [c \in Cpus |-> NoTlb]
    /\ lock = None
    /\ spinning = {}
    /\ job = NoJob
    /\ target_cr3 = KernelDir
    /\ target_page = None
    /\ epoch = 0
    /\ ack = [c \in Cpus |-> 0]
    /\ ipi = {}
    /\ isr = [c \in Cpus |-> NoIsr]

(***************************************************************************)
(* The hardware may cache any present translation of the loaded directory. *)
(***************************************************************************)
Fill(c, p) ==
    /\ cr3[c] # KernelDir
    /\ pt[cr3[c]][p] # None
    /\ tlb' = [tlb EXCEPT ![c][p] = pt[cr3[c]][p]]
    /\ UNCHANGED <<memory, cr3, current_cr3, lock, spinning, job, protocol>>

(* invlpg on processor c, at the end of map and unmap.                     *)
Flushed(c, p) == [tlb EXCEPT ![c][p] = None]

(***************************************************************************)
(* lock_kernel waits with interrupts enabled and disables them after it    *)
(* has got the lock; the body runs with interrupts off.                    *)
(***************************************************************************)
Trap(c) ==
    /\ c \notin spinning /\ lock # c
    /\ isr[c].pc = "none"
    /\ spinning' = spinning \cup {c}
    /\ UNCHANGED <<memory, loaded, lock, job, protocol>>

Acquire(c) ==
    /\ c \in spinning /\ lock = None
    /\ isr[c].pc = "none"
    /\ lock' = c
    /\ spinning' = spinning \ {c}
    /\ job' = [NoJob EXCEPT !.pc = "entered"]
    /\ UNCHANGED <<memory, loaded, protocol>>

Enters(c) == lock = c /\ job.pc = "entered" /\ isr[c].pc = "none"

Done == lock' = None /\ job' = NoJob /\ UNCHANGED spinning

(***************************************************************************)
(* A context switch, at a system call or a timer tick.                     *)
(***************************************************************************)
Switch(c, d) ==
    /\ Enters(c)
    /\ cr3' = [cr3 EXCEPT ![c] = d]
    /\ current_cr3' = [current_cr3 EXCEPT ![c] = d]
    /\ tlb' = [tlb EXCEPT ![c] = NoTlb]
    /\ Done
    /\ UNCHANGED <<memory, protocol>>

(***************************************************************************)
(* execve loads the new image's directory, one no other processor has yet, *)
(* without recording it in CURRENT_CR3.                                    *)
(***************************************************************************)
Execve(c, d) ==
    /\ "execve" \in Ops
    /\ Enters(c)
    /\ cr3[c] # KernelDir
    /\ \A x \in Cpus : cr3[x] # d
    /\ cr3' = [cr3 EXCEPT ![c] = d]
    /\ tlb' = [tlb EXCEPT ![c] = NoTlb]
    /\ Done
    /\ UNCHANGED <<memory, current_cr3, protocol>>

(***************************************************************************)
(* mmap, a thread stack or a shared surface gets a free frame.  mmap picks *)
(* a hole of mmap_free or a fresh address, so never a retired one; the     *)
(* caller of mmap may also name the address ("fixed"), and the stack of a  *)
(* thread has the address of its task slot ("stack").                      *)
(***************************************************************************)
Available(d, p) ==
    /\ d # KernelDir
    /\ pt[d][p] = None
    /\ <<d, p>> \notin retired \/ "fixed" \in Ops

Mmap(c, p, f) ==
    /\ Enters(c)
    /\ Available(cr3[c], p)
    /\ f \in free
    /\ pt' = [pt EXCEPT ![cr3[c]][p] = f]
    /\ free' = free \ {f}
    /\ tlb' = Flushed(c, p)
    /\ Done
    /\ UNCHANGED <<retired, cr3, current_cr3, protocol>>

(***************************************************************************)
(* A shared file mapping that fails after its first page: the page is      *)
(* unmapped and its frame freed without a shootdown.                       *)
(***************************************************************************)
MmapShared(c, p, f) ==
    /\ "rollback" \in Ops
    /\ Enters(c)
    /\ Available(cr3[c], p)
    /\ f \in free
    /\ pt' = [pt EXCEPT ![cr3[c]][p] = f]
    /\ free' = free \ {f}
    /\ tlb' = Flushed(c, p)
    /\ job' = [NoJob EXCEPT !.pc = "rollback", !.dir = cr3[c], !.page = p, !.frame = f]
    /\ UNCHANGED <<retired, cr3, current_cr3, lock, spinning, protocol>>

Rollback(c) ==
    /\ lock = c /\ job.pc = "rollback"
    /\ pt' = [pt EXCEPT ![job.dir][job.page] = None]
    /\ free' = free \cup {job.frame}
    /\ tlb' = Flushed(c, job.page)
    /\ Done
    /\ UNCHANGED <<retired, cr3, current_cr3, protocol>>

(***************************************************************************)
(* What a caller does with the verdict of shootdown_tlb: munmap and the    *)
(* reaper of a thread ("stack") free the frame only if every processor has *)
(* dropped the page, and munmap also withholds the address otherwise; the  *)
(* window manager ("surface") ignores the verdict.                         *)
(***************************************************************************)
(* Mutant: an address that may still be cached elsewhere goes back to the  *)
(* free list.                                                              *)
RetireNever(op, flushed) == FALSE

FrameReleased(op, flushed) == flushed \/ op = "surface"

AddressWithheld(op, flushed) == ~flushed /\ op = "munmap"

Finish(op, d, p, f, flushed) ==
    /\ free' = IF FrameReleased(op, flushed) THEN free \cup {f} ELSE free
    /\ retired' = IF AddressWithheld(op, flushed) THEN retired \cup {<<d, p>>} ELSE retired
    /\ Done

(***************************************************************************)
(* A page of the caller, or of a thread stack or surface of any process:   *)
(* the entry is cleared, flushed here and the processors to interrupt are  *)
(* chosen.                                                                 *)
(***************************************************************************)
Unmap(c, op, d, p) ==
    LET to == {x \in Cpus \ {c} : current_cr3[x] = d}
    IN  /\ op \in Ops \cap {"munmap", "stack", "surface"}
        /\ op = "munmap" => d = cr3[c]
        /\ Enters(c)
        /\ epoch < MaxEpoch
        /\ pt[d][p] # None
        /\ pt' = [pt EXCEPT ![d][p] = None]
        /\ tlb' = Flushed(c, p)
        /\ \/ to = {} /\ Finish(op, d, p, pt[d][p], TRUE)
           \/ /\ to # {}
              /\ job' = [pc |-> "cr3", op |-> op, dir |-> d, page |-> p,
                         frame |-> pt[d][p], to |-> to, left |-> to]
              /\ UNCHANGED <<free, retired, lock, spinning>>
        /\ UNCHANGED <<cr3, current_cr3, protocol>>

StoreCr3(c) ==
    /\ lock = c /\ job.pc = "cr3"
    /\ target_cr3' = job.dir
    /\ job' = [job EXCEPT !.pc = "page"]
    /\ UNCHANGED <<memory, loaded, lock, spinning, target_page, epoch, ack, ipi, isr>>

StorePage(c) ==
    /\ lock = c /\ job.pc = "page"
    /\ target_page' = job.page
    /\ job' = [job EXCEPT !.pc = "epoch"]
    /\ UNCHANGED <<memory, loaded, lock, spinning, target_cr3, epoch, ack, ipi, isr>>

(* Mutant: one epoch for all transactions.                                 *)
SameEpoch(e) == IF e = 0 THEN 1 ELSE e

NextEpoch(e) == e + 1

AdvanceEpoch(c) ==
    /\ lock = c /\ job.pc = "epoch"
    /\ epoch' = NextEpoch(epoch)
    /\ job' = [job EXCEPT !.pc = "send"]
    /\ UNCHANGED <<memory, loaded, lock, spinning, target_cr3, target_page, ack, ipi, isr>>

SendIpi(c, x) ==
    /\ lock = c /\ job.pc = "send"
    /\ x \in job.left
    /\ job' = [job EXCEPT !.left = @ \ {x}]
    /\ \/ ipi' = ipi \cup {x}
       \/ Unreliable /\ UNCHANGED ipi
    /\ UNCHANGED <<memory, loaded, lock, spinning, target_cr3, target_page, epoch, ack, isr>>

Acknowledged == \A x \in job.to : current_cr3[x] # job.dir \/ ack[x] = epoch

WaitEnds(c) ==
    /\ lock = c /\ job.pc = "send" /\ job.left = {}
    /\ Acknowledged \/ Unreliable
    /\ Finish(job.op, job.dir, job.page, job.frame, Acknowledged)
    /\ UNCHANGED <<pt, loaded, protocol>>

(***************************************************************************)
(* tlb_ipi_ack: load the epoch, compare directories, flush the published   *)
(* page, store the epoch that was loaded.                                  *)
(***************************************************************************)
(* Mutant: lock_kernel spins with interrupts disabled.                     *)
InterruptsOffWhileSpinning(c) ==
    c \notin spinning /\ (lock # c \/ job.pc = "entered")

InterruptsOn(c) == lock # c \/ job.pc = "entered"

TakeIpi(c) ==
    /\ c \in ipi /\ isr[c].pc = "none" /\ InterruptsOn(c)
    /\ ipi' = ipi \ {c}
    /\ isr' = [isr EXCEPT ![c] = [pc |-> "cr3", epoch |-> epoch]]
    /\ UNCHANGED <<memory, loaded, lock, spinning, job, target_cr3, target_page, epoch, ack>>

CompareCr3(c) ==
    /\ isr[c].pc = "cr3"
    /\ isr' = [isr EXCEPT ![c].pc = IF cr3[c] = target_cr3 THEN "page" ELSE "ack"]
    /\ UNCHANGED <<memory, loaded, lock, spinning, job, target_cr3, target_page, epoch, ack, ipi>>

FlushPage(c) ==
    /\ isr[c].pc = "page"
    /\ tlb' = [tlb EXCEPT ![c] = [p \in Pages |-> IF p = target_page THEN None ELSE @[p]]]
    /\ isr' = [isr EXCEPT ![c].pc = "ack"]
    /\ UNCHANGED <<memory, cr3, current_cr3, lock, spinning, job,
                   target_cr3, target_page, epoch, ack, ipi>>

(* Mutant: an off-by-one against fetch_add, which returns the old epoch.   *)
AckNext(c) == isr[c].epoch + 1

LoadedEpoch(c) == isr[c].epoch

StoreAck(c) ==
    /\ isr[c].pc = "ack"
    /\ ack' = [ack EXCEPT ![c] = LoadedEpoch(c)]
    /\ isr' = [isr EXCEPT ![c] = NoIsr]
    /\ UNCHANGED <<memory, loaded, lock, spinning, job, target_cr3, target_page, epoch, ipi>>

Sender(c) ==
    \/ StoreCr3(c)
    \/ StorePage(c)
    \/ AdvanceEpoch(c)
    \/ \E x \in Cpus : SendIpi(c, x)
    \/ WaitEnds(c)
    \/ Rollback(c)

Handler(c) == TakeIpi(c) \/ CompareCr3(c) \/ FlushPage(c) \/ StoreAck(c)

Next ==
    \E c \in Cpus :
        \/ \E p \in Pages : Fill(c, p)
        \/ Trap(c)
        \/ Acquire(c)
        \/ \E d \in Dirs \cup {KernelDir} : Switch(c, d)
        \/ \E d \in Dirs : Execve(c, d)
        \/ \E p \in Pages, f \in Frames : Mmap(c, p, f) \/ MmapShared(c, p, f)
        \/ \E d \in Dirs, p \in Pages, op \in Ops : Unmap(c, op, d, p)
        \/ Sender(c)
        \/ Handler(c)

Spec == Init /\ [][Next]_vars

(***************************************************************************)
(* Fairness: the lock holder and an interrupt handler keep executing, and  *)
(* a pending interrupt is taken while interrupts stay enabled.             *)
(***************************************************************************)
FairSpec ==
    /\ Spec
    /\ \A c \in Cpus : WF_vars(Sender(c)) /\ WF_vars(Handler(c))
-----------------------------------------------------------------------------
(* Every word of the protocol stays in its type.                           *)
TypeOK ==
    /\ pt \in [Dirs -> [Pages -> Frames \cup {None}]]
    /\ free \subseteq Frames
    /\ retired \subseteq Dirs \X Pages
    /\ cr3 \in [Cpus -> Dirs \cup {KernelDir}]
    /\ current_cr3 \in [Cpus -> Dirs \cup {KernelDir}]
    /\ tlb \in [Cpus -> [Pages -> Frames \cup {None}]]
    /\ lock \in Cpus \cup {None}
    /\ spinning \subseteq Cpus
    /\ job \in [pc : {"none", "entered", "rollback", "cr3", "page", "epoch", "send"},
                op : {"none", "munmap", "stack", "surface"}, dir : Dirs \cup {KernelDir},
                page : Pages \cup {None}, frame : Frames \cup {None},
                to : SUBSET Cpus, left : SUBSET Cpus]
    /\ target_cr3 \in Dirs \cup {KernelDir}
    /\ target_page \in Pages \cup {None}
    /\ epoch \in 0..MaxEpoch
    /\ ack \in [Cpus -> 0..MaxEpoch]
    /\ ipi \subseteq Cpus
    /\ isr \in [Cpus -> [pc : {"none", "cr3", "page", "ack"}, epoch : 0..MaxEpoch]]

(* smp.rs:966: "The caller must retain the physical frame if this returns  *)
(* false."  A frame some processor can still reach through its TLB is not  *)
(* free and is not mapped at any other page of any process, however late   *)
(* or lost the interrupts of this and of earlier transactions are.         *)
NoStaleFrame ==
    \A c \in Cpus, p \in Pages :
        LET f == tlb[c][p]
        IN  f # None =>
                /\ f \notin free
                /\ \A d \in Dirs, q \in Pages : pt[d][q] = f => d = cr3[c] /\ q = p

(* smp.rs:908: "Per-CPU epochs make delayed IPIs harmless".  An address    *)
(* that is mapped again means the same frame on every processor: munmap    *)
(* keeps an address out of mmap_free unless all processors have dropped    *)
(* the old translation.                                                    *)
TlbCoherent ==
    \A c \in Cpus, p \in Pages :
        cr3[c] # KernelDir /\ tlb[c][p] # None /\ pt[cr3[c]][p] # None =>
            tlb[c][p] = pt[cr3[c]][p]

(* A shootdown whose interrupts arrive ends with every acknowledgement: no *)
(* target waits for the kernel lock with its interrupts disabled while the *)
(* holder waits for that target (the comment in lock_kernel).              *)
ShootdownCompletes == []<>(job.pc # "send")
=============================================================================
