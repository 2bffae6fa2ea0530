-------------------------------- MODULE Ranges ------------------------------
(***************************************************************************)
(* Three allocators of address ranges in the kernel: the heap's free list  *)
(* (kernel/src/memory/allocator.rs), the register of physical ranges, and  *)
(* the window of virtual addresses in which device registers are mapped    *)
(* (resources.rs).  Addresses and sizes are in units: a heap unit is a free *)
(* block's header, a window unit is a page.  Drivers map a device at probe *)
(* and drop the mapping when the probe fails or the device goes.           *)
(***************************************************************************)
EXTENDS Tables, FiniteSetsExt

CONSTANTS
    HeapUnits, HeapSizes,    \* the heap and the sizes asked for
    Drivers, Device,         \* drivers that may probe a device: [phys, size] of each
    WindowUnits              \* the window

ASSUME RangesAssumption ==
    /\ HeapUnits \in Nat /\ HeapSizes \subseteq Nat \ {0} /\ WindowUnits \in Nat
    /\ \A d \in Drivers : Device[d].size \in Nat \ {0}

VARIABLES
    heapBump, heapFree,      \* first unit never used; free blocks: start -> size
    heapUsed,                \* blocks in use: start -> size asked for
    ranges,                  \* the register: [start, size, owner]
    vranges,                 \* ranges of the window in use: start -> size
    ioMaps                   \* driver -> [virt, size]: mappings it holds

rgVars == <<heapBump, heapFree, heapUsed, ranges, vranges, ioMaps>>

RgInit ==
    /\ heapBump = 0 /\ heapFree = NoEntries /\ heapUsed = NoEntries
    /\ ranges = {} /\ vranges = NoEntries /\ ioMaps = NoEntries

Overlap(a, n, b, m) == a < b + m /\ b < a + n

(***************************************************************************)
(* The heap                                                                *)
(***************************************************************************)
\* Mutant: a block is joined with the one after it only.
add_free_block_next(free, p, n) ==
    LET next == {q \in DOMAIN free : q = p + n}
    IN  Put(Drop(free, next), p, n + IF next = {} THEN 0 ELSE free[p + n])

\* A block is put in by address and joined with the blocks that touch it.
add_free_block(free, p, n) ==
    LET next == {q \in DOMAIN free : q = p + n}
        prev == {q \in DOMAIN free : q + free[q] = p}
        len == n + IF next = {} THEN 0 ELSE free[p + n]
    IN  IF prev = {} THEN Put(Drop(free, next), p, len)
        ELSE LET q == CHOOSE q \in prev : TRUE IN Put(Drop(free, next), q, free[q] + len)

\* What is left of a block is kept if it is longer than two headers.
Rest(free, p, n) ==
    IF free[p] - n > 2 THEN add_free_block(Drop(free, {p}), p + n, free[p] - n) ELSE Drop(free, {p})

\* alloc_inner: the first block that is long enough, or new units.
heap_alloc(n) ==
    LET fits == {p \in DOMAIN heapFree : heapFree[p] >= n} IN
    /\ IF fits # {}
       THEN LET p == Min(fits) IN
            /\ heapFree' = Rest(heapFree, p, n) /\ heapUsed' = Put(heapUsed, p, n) /\ UNCHANGED heapBump
       ELSE /\ heapBump + n <= HeapUnits /\ heapBump' = heapBump + n
            /\ heapUsed' = Put(heapUsed, heapBump, n) /\ UNCHANGED heapFree
    /\ UNCHANGED <<ranges, vranges, ioMaps>>

heap_dealloc(p) ==
    /\ p \in DOMAIN heapUsed
    /\ heapFree' = add_free_block(heapFree, p, heapUsed[p]) /\ heapUsed' = Drop(heapUsed, {p})
    /\ UNCHANGED <<heapBump, ranges, vranges, ioMaps>>

(***************************************************************************)
(* Device registers                                                        *)
(***************************************************************************)
\* Mutant: a gap is looked at where it starts, not whether the range fits in.
FirstGap_end(n) ==
    LET ends == {0} \cup {v + vranges[v] : v \in DOMAIN vranges}
        gaps == {e \in ends : e + n <= WindowUnits /\ \A v \in DOMAIN vranges : ~Overlap(e, 1, v, vranges[v])}
    IN  IF gaps = {} THEN -1 ELSE Min(gaps)

\* alloc_kernel_virtual: the first gap from the window's start.
FirstGap(n) ==
    LET ends == {0} \cup {v + vranges[v] : v \in DOMAIN vranges}
        gaps == {e \in ends : e + n <= WindowUnits /\ \A v \in DOMAIN vranges : ~Overlap(e, n, v, vranges[v])}
    IN  IF gaps = {} THEN -1 ELSE Min(gaps)

\* reserve_range: refused on overlap with any other range; the very same range again is fine.
MayReserve(r) ==
    \A q \in ranges : Overlap(r.start, r.size, q.start, q.size) => q = r

DeviceRange(d) == [start |-> Device[d].phys, size |-> Device[d].size, owner |-> Device[d].owner]

\* Mutant: the reservation stays when there is no room in the window.
Undo_none(before, r) == before \cup {r}

\* reserve_and_ioremap undoes the reservation when the mapping fails.
Undo(before, r) == before \ {r}

\* map_resource by a driver's probe.
map_resource(d) ==
    LET r == DeviceRange(d)
        v == FirstGap(r.size)
    IN  /\ d \notin DOMAIN ioMaps /\ MayReserve(r)
        /\ IF v = -1 THEN /\ ranges' = Undo(ranges, r) /\ UNCHANGED <<vranges, ioMaps>>
           ELSE /\ ranges' = ranges \cup {r}
                /\ vranges' = Put(vranges, v, r.size)
                /\ ioMaps' = Put(ioMaps, d, [virt |-> v, size |-> r.size])
        /\ UNCHANGED <<heapBump, heapFree, heapUsed>>

\* MmioMapping is dropped: iounmap, then the range is released.
release_owned(d) ==
    /\ d \in DOMAIN ioMaps
    /\ vranges' = Drop(vranges, {ioMaps[d].virt}) /\ ioMaps' = Drop(ioMaps, {d})
    /\ ranges' = ranges \ {DeviceRange(d)}
    /\ UNCHANGED <<heapBump, heapFree, heapUsed>>

RgNext ==
    \/ \E n \in HeapSizes : heap_alloc(n)
    \/ \E p \in DOMAIN heapUsed : heap_dealloc(p)
    \/ \E d \in Drivers : map_resource(d) \/ release_owned(d)

RgSpec == RgInit /\ [][RgNext]_rgVars

(***************************************************************************)
(* Properties.                                                             *)
(***************************************************************************)
\* Blocks in use and free blocks never overlap, and no two free blocks touch: a large
\* block can be had again once the blocks it was cut into are freed.
HeapSound ==
    /\ \A p, q \in DOMAIN heapUsed : p # q => ~Overlap(p, heapUsed[p], q, heapUsed[q])
    /\ \A p \in DOMAIN heapUsed, q \in DOMAIN heapFree : ~Overlap(p, heapUsed[p], q, heapFree[q])
    /\ \A p, q \in DOMAIN heapFree : p # q => ~Overlap(p, heapFree[p] + 1, q, heapFree[q])

\* A mapping a driver holds occupies its own part of the window, and the window holds
\* nothing else.
WindowExact ==
    /\ \A d, e \in DOMAIN ioMaps : d # e => ~Overlap(ioMaps[d].virt, ioMaps[d].size, ioMaps[e].virt, ioMaps[e].size)
    /\ DOMAIN vranges = {ioMaps[d].virt : d \in DOMAIN ioMaps}

\* A range stays reserved only while some driver has it mapped, also after a probe that
\* failed halfway.
NoOrphanRange == \A r \in ranges : \E d \in DOMAIN ioMaps : DeviceRange(d) = r
=============================================================================
