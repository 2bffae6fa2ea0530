-------------------------------- MODULE Frames ------------------------------
(***************************************************************************)
(* Physical memory: the frame allocator (kernel/src/memory/paging.rs), the *)
(* cache of file pages mapped MAP_SHARED (shared.rs), contiguous memory for *)
(* devices (resources.rs) and what a task owns (task.rs): a page directory, *)
(* a kernel stack of consecutive frames, and its pages (page tables, which *)
(* are allocated and freed with them, are left out).                       *)
(* Frames are numbers; a frame below `bump` has been handed out once.      *)
(***************************************************************************)
EXTENDS Tables, FiniteSets, FiniteSetsExt

CONSTANTS
    FrTasks, FrPages,    \* tasks and the virtual pages they map
    FilePages,           \* pages of files
    StackFrames,         \* frames of a kernel stack
    DmaAlign,            \* alignment of a device's memory, in frames
    TotalFrames          \* detected RAM

ASSUME FramesAssumption ==
    /\ IsFiniteSet(FrTasks) /\ IsFiniteSet(FrPages)
    /\ StackFrames \in Nat \ {0} /\ DmaAlign \in Nat \ {0} /\ TotalFrames \in Nat

VARIABLES
    bump,                \* next_free_page
    freeFrames,
    mem,                 \* task -> [pd, stack, pages: page -> frame]
    sharedCache,         \* file page -> [frame, refs]
    acquiring,           \* task -> [page, of, frame]: acquire_file_page during its read
    dmaRange             \* frames of the device's buffer

frVars == <<bump, freeFrames, mem, sharedCache, acquiring, dmaRange>>

FrInit ==
    /\ bump = 0 /\ freeFrames = {} /\ mem = NoEntries /\ sharedCache = NoEntries
    /\ acquiring = NoEntries /\ dmaRange = {}

(***************************************************************************)
(* The allocator works on a = [bump, free].                                *)
(***************************************************************************)
Alloc == [bump |-> bump, free |-> freeFrames]
HasFrame(a) == a.free # {} \/ a.bump < TotalFrames

\* alloc_frame: a freed frame (the last one freed, which may be any), or the next new one.
alloc_frames(a) == IF a.free # {} THEN a.free ELSE {a.bump}
Took(a, f) == IF a.free # {} THEN [a EXCEPT !.free = @ \ {f}] ELSE [a EXCEPT !.bump = @ + 1]

\* free_phys_frame: frames outside the pool are ignored, a duplicate is not added.
Freed(a, fs) == [a EXCEPT !.free = @ \cup {f \in fs : f < a.bump}]

FrameRun(first, n) == first..first + n - 1
AlignUp(f, al) == ((f + al - 1) \div al) * al

\* The first frame of a run of freed frames, searched from below: the run is
\* maximal and only its first aligned frame is tried.
ReusableRun(a, n, al) ==
    LET starts == {s \in a.free : s - 1 \notin a.free}
        fits == {s \in starts : FrameRun(AlignUp(s, al), n) \subseteq a.free
                                /\ FrameRun(s, AlignUp(s, al) - s) \subseteq a.free}
    IN  IF fits = {} THEN -1 ELSE AlignUp(Min(fits), al)

\* alloc_contiguous_frames_aligned_below: -1 when there is no room.
contiguous(a, n, al) ==
    LET r == ReusableRun(a, n, al)
        b == AlignUp(a.bump, al)
    IN  IF r # -1 THEN r ELSE IF b + n <= TotalFrames THEN b ELSE -1

\* Mutant: frames skipped for the alignment are forgotten.
TookRun_lost(a, first, n) ==
    IF first < a.bump THEN [a EXCEPT !.free = @ \ FrameRun(first, n)]
    ELSE [a EXCEPT !.bump = first + n]

\* Frames skipped for the alignment remain usable.
TookRun(a, first, n) ==
    IF first < a.bump THEN [a EXCEPT !.free = @ \ FrameRun(first, n)]
    ELSE [bump |-> first + n, free |-> a.free \cup (a.bump..first - 1)]

SetAlloc(a) == bump' = a.bump /\ freeFrames' = a.free

(***************************************************************************)
(* Tasks                                                                   *)
(***************************************************************************)
\* Task::new: a directory, then a stack.
new_task(t) ==
    /\ t \notin DOMAIN mem /\ HasFrame(Alloc)
    /\ \E pd \in alloc_frames(Alloc) :
         LET a == Took(Alloc, pd)
             s == contiguous(a, StackFrames, 1)
         IN  /\ s # -1
             /\ SetAlloc(TookRun(a, s, StackFrames))
             /\ mem' = Put(mem, t, [pd |-> pd, stack |-> s, pages |-> NoEntries])
    /\ UNCHANGED <<sharedCache, acquiring, dmaRange>>

alloc_and_map_user_page(t, v) ==
    /\ t \in DOMAIN mem /\ v \notin DOMAIN mem[t].pages /\ t \notin DOMAIN acquiring /\ HasFrame(Alloc)
    /\ \E f \in alloc_frames(Alloc) :
         SetAlloc(Took(Alloc, f)) /\ mem' = [mem EXCEPT ![t].pages = Put(@, v, f)]
    /\ UNCHANGED <<sharedCache, acquiring, dmaRange>>

(***************************************************************************)
(* shared.rs                                                               *)
(***************************************************************************)
MapShared(t, v, f) == mem' = [mem EXCEPT ![t].pages = Put(@, v, f)]

\* acquire_file_page: a cached page is used at once; otherwise a frame is read in.
acquire_file_page(t, v, k) ==
    /\ t \in DOMAIN mem /\ v \notin DOMAIN mem[t].pages /\ t \notin DOMAIN acquiring
    /\ IF k \in DOMAIN sharedCache
       THEN /\ sharedCache' = [sharedCache EXCEPT ![k].refs = @ + 1] /\ MapShared(t, v, sharedCache[k].frame)
            /\ UNCHANGED <<acquiring, bump, freeFrames>>
       ELSE /\ HasFrame(Alloc)
            /\ \E f \in alloc_frames(Alloc) :
                 SetAlloc(Took(Alloc, f)) /\ acquiring' = Put(acquiring, t, [page |-> v, of |-> k, frame |-> f])
            /\ UNCHANGED <<sharedCache, mem>>
    /\ UNCHANGED dmaRange

\* Mutant: the cache is not looked at again after the read.
acquire_finish_blind(t) ==
    LET q == acquiring[t] IN
    /\ sharedCache' = Put(sharedCache, q.of, [frame |-> q.frame, refs |-> 1])
    /\ MapShared(t, q.page, q.frame) /\ UNCHANGED <<bump, freeFrames>>

\* The read is done: someone else may have filled the cache meanwhile.
acquire_finish(t) ==
    LET q == acquiring[t] IN
    IF q.of \in DOMAIN sharedCache
    THEN /\ sharedCache' = [sharedCache EXCEPT ![q.of].refs = @ + 1]
         /\ MapShared(t, q.page, sharedCache[q.of].frame) /\ SetAlloc(Freed(Alloc, {q.frame}))
    ELSE /\ sharedCache' = Put(sharedCache, q.of, [frame |-> q.frame, refs |-> 1])
         /\ MapShared(t, q.page, q.frame) /\ UNCHANGED <<bump, freeFrames>>

acquire_done(t) ==
    /\ t \in DOMAIN acquiring /\ acquire_finish(t)
    /\ acquiring' = Drop(acquiring, {t}) /\ UNCHANGED dmaRange

\* release_shared_frame, for each of the pages vs of a task: a reference goes with each
\* mapping, and the entry with the last one.
Lost(c, k, pages, vs) == Cardinality({v \in vs : pages[v] = c[k].frame})
Released(c, pages, vs) ==
    [k \in {j \in DOMAIN c : c[j].refs > Lost(c, j, pages, vs)} |->
        [c[k] EXCEPT !.refs = @ - Lost(c, k, pages, vs)]]

\* release_user_frame: freed unless it stays in the cache.
ToFree(c, pages, vs) == {f \in {pages[v] : v \in vs} : \A k \in DOMAIN c : c[k].frame # f}

unmap_page(t, v) ==
    /\ t \in DOMAIN mem /\ v \in DOMAIN mem[t].pages /\ t \notin DOMAIN acquiring
    /\ sharedCache' = Released(sharedCache, mem[t].pages, {v})
    /\ SetAlloc(Freed(Alloc, ToFree(sharedCache', mem[t].pages, {v})))
    /\ mem' = [mem EXCEPT ![t].pages = Drop(@, {v})]
    /\ UNCHANGED <<acquiring, dmaRange>>

\* release_memory: every page, the directory and the stack.
release_memory(t) ==
    /\ t \in DOMAIN mem /\ t \notin DOMAIN acquiring
    /\ LET m == mem[t]
           vs == DOMAIN m.pages
       IN  /\ sharedCache' = Released(sharedCache, m.pages, vs)
           /\ SetAlloc(Freed(Alloc, ToFree(sharedCache', m.pages, vs) \cup {m.pd} \cup FrameRun(m.stack, StackFrames)))
    /\ mem' = Drop(mem, {t})
    /\ UNCHANGED <<acquiring, dmaRange>>

(***************************************************************************)
(* Device memory                                                           *)
(***************************************************************************)
dma_alloc_for ==
    LET s == contiguous(Alloc, 2, DmaAlign) IN
    /\ dmaRange = {} /\ s # -1
    /\ dmaRange' = FrameRun(s, 2) /\ SetAlloc(TookRun(Alloc, s, 2))
    /\ UNCHANGED <<mem, sharedCache, acquiring>>

dma_free ==
    /\ dmaRange # {} /\ dmaRange' = {} /\ SetAlloc(Freed(Alloc, dmaRange))
    /\ UNCHANGED <<mem, sharedCache, acquiring>>

FrNext ==
    \/ \E t \in FrTasks :
         \/ new_task(t) \/ release_memory(t) \/ acquire_done(t)
         \/ \E v \in FrPages : alloc_and_map_user_page(t, v) \/ unmap_page(t, v)
                               \/ \E k \in FilePages : acquire_file_page(t, v, k)
    \/ dma_alloc_for \/ dma_free

FrSpec == FrInit /\ [][FrNext]_frVars

(***************************************************************************)
(* Properties.                                                             *)
(***************************************************************************)
\* Who holds a frame: an entry per use.  A shared page is held by the cache alone.
Holders(f) ==
    {<<"cache", k>> : k \in {j \in DOMAIN sharedCache : sharedCache[j].frame = f}}
    \cup {<<"reading", t>> : t \in {u \in DOMAIN acquiring : acquiring[u].frame = f}}
    \cup {<<"pd", t>> : t \in {u \in DOMAIN mem : mem[u].pd = f}}
    \cup {<<"stack", t>> : t \in {u \in DOMAIN mem : f \in FrameRun(mem[u].stack, StackFrames)}}
    \cup {<<"dma", 0>> : x \in {y \in {f} : y \in dmaRange}}
    \cup UNION {{<<"page", t, v>> : v \in {p \in DOMAIN mem[t].pages :
                    mem[t].pages[p] = f /\ \A k \in DOMAIN sharedCache : sharedCache[k].frame # f}} : t \in DOMAIN mem}

\* Every frame ever handed out is free or has exactly one holder: none is lost, none is
\* used twice, whatever the order of exits, unmappings, shared mappings and device memory.
FramesAccounted ==
    \A f \in 0..bump - 1 : Cardinality(Holders(f)) = IF f \in freeFrames THEN 0 ELSE 1

\* The cache counts the mappings of a page, and a page of a file is in one frame.
SharedRefsExact ==
    \A k \in DOMAIN sharedCache :
        sharedCache[k].refs =
            Cardinality({tv \in (DOMAIN mem) \X FrPages :
                tv[2] \in DOMAIN mem[tv[1]].pages /\ mem[tv[1]].pages[tv[2]] = sharedCache[k].frame})
=============================================================================
