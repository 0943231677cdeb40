--------------------------------- MODULE Pac ---------------------------------
(***************************************************************************)
(* The page allocator classic of one arena: extent.c, pac.c, eset.c, and   *)
(* emap.c with the extent side of pa.c.  An extent is a run of pages,      *)
(* named by its first page, as in the code an edata_t never changes its    *)
(* base.  Active extents belong to a caller.  Free ones sit in one of      *)
(* three caches (dirty, muzzy, retained) and move towards retained as they *)
(* are purged, being split and coalesced on the way.  The emap gives the   *)
(* owner of the first and the last page of every extent.                   *)
(*                                                                         *)
(* A step is a critical section of one ecache mutex, or what a thread does *)
(* to an extent only it can see.  Every extent enters and leaves a cache   *)
(* under the mutex of that cache, so sections of different caches commute. *)
(* Sizes and addresses are in pages; page size classes below LargeMin * 4  *)
(* are all the page counts.  Guarded extents, dss, the batch calls and     *)
(* custom hooks are out; commit never fails, as on a system that           *)
(* overcommits.                                                            *)
(***************************************************************************)
EXTENDS Integers, Sequences, FiniteSets, FiniteSetsExt, SequencesExt

CONSTANTS
    Mutators, Purgers,  \* threads that allocate and free, that purge
    NoThread,
    NPages,         \* pages of address space the system can give out
    Requests,       \* requests: pages n, alignment align, zero, slab
    Expansions,     \* numbers of pages to expand by
    LargeMin,       \* SC_LARGE_MINCLASS: coalesced eagerly when freed
    Options,        \* values of the options retain and muzzy
    Limits,         \* npages_limit of an epoch
    Oversize,       \* oversize_threshold: purged as soon as freed
    GrowSizes,      \* sizes exp_grow goes through
    MaxMaps,        \* mappings asked from the system
    MayFail         \* allocations of edata_t and system calls may fail

VARIABLES
    opts,       \* opt_retain, and whether muzzy_decay_ms is not 0
    heap,       \* extents, emap and the lru lists of the dirty and muzzy caches
    mapped,     \* pages mapped from the system
    zero,       \* mapped pages that read as zero
    leaked,     \* pages given up after a failed split
    held,       \* extents the program holds
    call,       \* thread -> call in progress
    growMtx,    \* owner of pac->grow_mtx
    purging,    \* decay->purging of the dirty and muzzy caches
    grow,       \* exp_grow.next
    sn          \* extent_sn_next

vars == <<opts, heap, mapped, zero, leaked, held, call, growMtx, purging, grow, sn>>

Users == Mutators \cup Purgers
Pages == 0..NPages - 1
Null == -1
NoExt == [size |-> 0, state |-> "none", head |-> FALSE, zeroed |-> FALSE, sn |-> 0,
          slab |-> FALSE]
NoElm == [e |-> Null, state |-> "none", head |-> FALSE]
NoCall == [step |-> "idle", e |-> Null, expand |-> Null, n |-> 0, align |-> 1,
           zero |-> FALSE, slab |-> FALSE,
           decay |-> FALSE, cache |-> "dirty", fully |-> FALSE, limit |-> 0, max |-> 0, stash |-> <<>>]

Extents(h) == {b \in Pages : h.ext[b].size > 0}
In(h, st) == {b \in Extents(h) : h.ext[b].state = st}
Span(h, b) == b..b + h.ext[b].size - 1
LastPage(h, b) == b + h.ext[b].size - 1
NPagesOf(h, st) == MapThenSumSet(LAMBDA b : h.ext[b].size, In(h, st))

Init ==
    /\ opts \in Options
    /\ heap = [ext |-> [p \in Pages |-> NoExt], emap |-> [p \in Pages |-> NoElm],
               lru |-> [dirty |-> <<>>, muzzy |-> <<>>]]
    /\ mapped = {} /\ zero = {} /\ leaked = {} /\ held = {}
    /\ call = [t \in Users |-> NoCall]
    /\ growMtx = NoThread
    /\ purging = [dirty |-> FALSE, muzzy |-> FALSE]
    /\ grow = 1 /\ sn = 0

-----------------------------------------------------------------------------
(* The emap.                                                               *)

Elm(h, b) == [e |-> b, state |-> h.ext[b].state, head |-> h.ext[b].head]
Write(h, pages, elm) == [h EXCEPT !.emap = [p \in Pages |-> IF p \in pages THEN elm ELSE @[p]]]

emap_update_edata_state(h, b, st) ==
    LET x == [h EXCEPT !.ext[b].state = st]
    IN  [x EXCEPT !.emap[b].state = st, !.emap[LastPage(x, b)].state = st]

emap_register_boundary(h, b) == Write(h, {b, LastPage(h, b)}, Elm(h, b))
emap_deregister_boundary(h, b) == Write(h, {b, LastPage(h, b)}, NoElm)
emap_register_interior(h, b) ==
    Write(h, b + 1..LastPage(h, b) - 1, [Elm(h, b) EXCEPT !.head = FALSE])
emap_deregister_interior(h, b) == Write(h, b + 1..LastPage(h, b) - 1, NoElm)

\* emap_split_commit: lead b, trail c.
emap_split_commit(h, b, c) ==
    Write(Write(h, {b, LastPage(h, b)}, Elm(h, b)), {c, LastPage(h, c)}, Elm(h, c))

\* emap_merge_commit; h has the merged lead a, b is where the trail began and
\* mid the last page of the lead before.
\* Defect: the pages where the two extents met keep their entries.
emap_merge_commit_Stale(h, a, mid, b) == Write(h, {a, LastPage(h, a)}, Elm(h, a))
emap_merge_commit(h, a, mid, b) == Write(Write(h, {mid, b}, NoElm), {a, LastPage(h, a)}, Elm(h, a))

extent_can_acquire_neighbor(h, b, elm, st, forward) ==
    /\ elm.e # Null
    /\ ~(IF forward THEN elm.head ELSE h.ext[b].head)
    /\ elm.state = st

\* emap_try_acquire_edata_neighbor: the neighbour of b, or Null.
emap_try_acquire_edata_neighbor(h, b, st, forward) ==
    LET p == IF forward THEN LastPage(h, b) + 1 ELSE b - 1
    IN  IF p \in Pages /\ extent_can_acquire_neighbor(h, b, h.emap[p], st, forward)
        THEN h.emap[p].e ELSE Null

-----------------------------------------------------------------------------
(* eset: the lru lists and the search for a fit.                           *)

eset_insert(h, st, b) ==
    IF st = "retained" THEN h ELSE [h EXCEPT !.lru[st] = Append(@, b)]
\* Defect: the extent stays on the list.
eset_remove_Keep(h, st, b) == h
eset_remove(h, st, b) ==
    IF st = "retained" THEN h ELSE [h EXCEPT !.lru[st] = SelectSeq(@, LAMBDA x : x # b)]

Snad(h, b, c) == h.ext[b].sn < h.ext[c].sn \/ (h.ext[b].sn = h.ext[c].sn /\ b <= c)
Oldest(h, S) == {b \in S : \A c \in S : Snad(h, b, c)}
Ceiling(p, align) == ((p + align - 1) \div align) * align

\* The candidates of eset_fit in state st, a set of at most one.
eset_fit(h, st, n, align) ==
    LET max == n + align - 1
        fits == {b \in In(h, st) : h.ext[b].size >= max}
        heapFirst == UNION {Oldest(h, {b \in In(h, st) : h.ext[b].size = k}) : k \in n..max - 1}
        aligned == {b \in heapFirst : Ceiling(b, align) + n <= b + h.ext[b].size}
    IN  IF fits # {} THEN Oldest(h, fits)
        ELSE {b \in aligned : \A c \in aligned : h.ext[b].size <= h.ext[c].size}

-----------------------------------------------------------------------------
(* Splitting and merging.                                                  *)

\* extent_split_impl when it succeeds: b keeps n pages, the rest is a new extent.
extent_split(h, b, n) ==
    LET x == [h EXCEPT !.ext[b].size = n,
                       !.ext[b + n] = [h.ext[b] EXCEPT !.size = @ - n, !.head = FALSE,
                                                       !.slab = FALSE]]
    IN  emap_split_commit(x, b, b + n)

\* Whether a merge of x and y is known to be zero.
\* Defect: one of them is enough.
MergedZero_Any(x, y) == x.zeroed \/ y.zeroed
MergedZero(x, y) == x.zeroed /\ y.zeroed

extent_merge(h, a, b) ==
    LET x == [h EXCEPT !.ext[a].size = @ + h.ext[b].size, !.ext[a].state = "active",
                       !.ext[a].sn = Min({@, h.ext[b].sn}),
                       !.ext[a].zeroed = MergedZero(h.ext[a], h.ext[b]),
                       !.ext[b] = NoExt]
    IN  emap_merge_commit(x, a, LastPage(h, a), b)

extent_deactivate_locked(h, st, b) ==
    eset_insert(emap_update_edata_state(h, b, st), st, b)

extent_activate_locked(h, st, b) ==
    emap_update_edata_state(eset_remove(h, st, b), b, "active")

\* extent_coalesce of r.b with its neighbour in the cache st, if it may have one;
\* the neighbour leaves the cache.  r is the heap h and the extent b.
Coalesce(r, st, forward) ==
    LET c == emap_try_acquire_edata_neighbor(r.h, r.b, st, forward)
        lo == Min({r.b, c})
        hi == Max({r.b, c})
    IN  IF c = Null THEN r ELSE [h |-> extent_merge(eset_remove(r.h, st, c), lo, hi), b |-> lo]

\* extent_try_coalesce_impl for the dirty cache: one merge is all.
CoalesceOnce(r) ==
    LET next == Coalesce(r, "dirty", TRUE)
    IN  IF next # r THEN next ELSE Coalesce(r, "dirty", FALSE)

\* extent_try_coalesce_impl for the others, and the eager loop of extent_record
\* for large dirty extents: until there is no neighbour to merge with.
\* Defect: the neighbour before is forgotten.
extent_coalesce_Forward(r, st) == Coalesce(r, st, TRUE)
RECURSIVE extent_coalesce(_, _)
extent_coalesce(r, st) ==
    LET x == Coalesce(Coalesce(r, st, TRUE), st, FALSE)
    IN  IF x = r THEN r ELSE extent_coalesce(x, st)

\* extent_record up to the oversize check: the extent is coalesced, still active.
extent_record_coalesce(h, st, b) ==
    LET r == [h |-> h, b |-> b]
    IN  IF st = "dirty" /\ h.ext[b].size < LargeMin THEN r ELSE extent_coalesce(r, st)

Deactivated(r, st) == extent_deactivate_locked(r.h, st, r.b)
extent_record(h, st, b) == Deactivated(extent_record_coalesce(h, st, b), st)

\* The extent ecache_evict takes from cache st, or Null, and the heap after: in
\* the dirty cache the oldest extent goes back as long as it has a neighbour to
\* merge with.
RECURSIVE ecache_evict(_, _, _)
ecache_evict(h, st, limit) ==
    IF h.lru[st] = <<>> \/ NPagesOf(h, st) <= limit THEN [h |-> h, b |-> Null]
    ELSE LET b == Head(h.lru[st])
             out == [h |-> extent_activate_locked(h, st, b), b |-> b]
             back == CoalesceOnce(out)
         IN  IF st # "dirty" \/ back = out THEN out
             ELSE ecache_evict(Deactivated(back, st), st, limit)

-----------------------------------------------------------------------------
(* The calls of a thread.                                                  *)

At(t, step) == call[t].step = step
Do(t, c) == call' = [call EXCEPT ![t] = c]
Step(t, step) == Do(t, [call[t] EXCEPT !.step = step])
Return(t) == Do(t, NoCall)
Visible == <<opts, mapped, purging, grow, sn>>

\* extent_recycle_extract: what the cache st offers to this call.
extent_recycle_extract(c, st) ==
    IF c.expand = Null THEN eset_fit(heap, st, c.n, c.align)
    ELSE {b \in {emap_try_acquire_edata_neighbor(heap, c.expand, st, TRUE)} \ {Null} :
            heap.ext[b].size >= c.n}

\* extent_split_interior: lead, the extent, trail.
extent_split_interior(h, b, n, align) ==
    LET lead == Ceiling(b, align) - b
        x == IF lead = 0 THEN h ELSE extent_split(h, b, lead)
        e == b + lead
        y == IF x.ext[e].size = n THEN x ELSE extent_split(x, e, n)
    IN  [h |-> y, e |-> e, lead |-> IF lead = 0 THEN {} ELSE {b},
         trail |-> IF x.ext[e].size = n THEN {} ELSE {e + n}]

\* Which step follows when the cache of this step has nothing.
Miss(st) == CASE st = "dirty" /\ opts.muzzy -> "muzzy"
              [] st = "retained" -> "grow"
              [] OTHER -> "retained"

\* The call c has got extent e of heap h, zeroed if it must be (extent_commit_zero).
Got(t, c, h, e, clean) ==
    /\ heap' = h
    /\ zero' = IF c.zero /\ ~h.ext[e].zeroed THEN clean \cup Span(h, e) ELSE clean
    /\ Do(t, [c EXCEPT !.step = "done", !.e = e, !.align = 1])

\* extent_recycle in the dirty, muzzy or retained cache for the call c of t.
extent_recycle(t, c, st) ==
    LET found == extent_recycle_extract(c, st)
        miss == [c EXCEPT !.step = IF st = "dirty" /\ c.expand # Null THEN "muzzy" ELSE Miss(st)]
    IN  /\ \/ /\ found = {}
              /\ growMtx' = IF st = "retained" THEN t ELSE growMtx
              /\ Do(t, miss)
              /\ UNCHANGED <<heap, zero, leaked>>
           \/ \E b \in found :
                LET r == extent_split_interior(extent_activate_locked(heap, st, b), b, c.n, c.align)
                    put == SetToSeq(r.lead) \o SetToSeq(r.trail)
                IN  /\ Got(t, c, FoldLeft(LAMBDA h, x : extent_deactivate_locked(h, st, x), r.h, put),
                           r.e, zero)
                    /\ UNCHANGED <<leaked, growMtx>>
           \/ \* A split failed: the extent is dropped from the emap and leaked.
              \E b \in found :
                /\ MayFail /\ heap.ext[b].size # c.n
                /\ heap' = [emap_deregister_boundary(eset_remove(heap, st, b), b)
                               EXCEPT !.ext[b] = NoExt]
                /\ leaked' = leaked \cup Span(heap, b)
                /\ growMtx' = IF st = "retained" THEN t ELSE growMtx
                /\ Do(t, miss)
                /\ UNCHANGED zero
        /\ UNCHANGED Visible

\* pa_alloc down to the dirty cache.
pac_alloc(t) ==
    /\ At(t, "idle")
    /\ \E r \in Requests :
        extent_recycle(t, [NoCall EXCEPT !.n = r.n, !.align = r.align, !.zero = r.zero,
                                         !.slab = r.slab], "dirty")
    /\ UNCHANGED held

\* pac_expand_impl, of an extent the program holds, down to the dirty cache.
pac_expand(t) ==
    /\ At(t, "idle")
    /\ \E b \in held, n \in Expansions :
        /\ ~heap.ext[b].slab
        /\ extent_recycle(t, [NoCall EXCEPT !.expand = b, !.n = n, !.zero = TRUE], "dirty")
        /\ held' = held \ {b}

\* ... in the muzzy cache, and in the retained one under grow_mtx.
extent_recycle_next(t) ==
    /\ \/ At(t, "muzzy")
       \/ At(t, "retained") /\ growMtx = NoThread
    /\ extent_recycle(t, call[t], call[t].step)
    /\ UNCHANGED held

\* A range of n pages the system can map.
FreeRanges(n) == {p \in Pages : p + n <= NPages /\ (p..p + n - 1) \cap mapped = {}}

\* A new mapping of n pages at p, as an active extent.
Mapping(p, n) ==
    emap_register_boundary([heap EXCEPT !.ext[p] = [NoExt EXCEPT
        !.size = n, !.state = "active", !.head = opts.retain, !.zeroed = TRUE, !.sn = sn]], p)

\* exp_grow_size_prepare: the first size of the series that is large enough.
GrowFit(n) == {k \in grow..Len(GrowSizes) : GrowSizes[k] >= n
                    /\ \A j \in grow..k - 1 : GrowSizes[j] < n}

\* extent_grow_retained, under grow_mtx; the rest of the mapping is retained.
extent_grow_retained(t) ==
    LET c == call[t]
    IN  /\ At(t, "grow") /\ opts.retain /\ c.expand = Null /\ sn < MaxMaps
        /\ \E k \in GrowFit(c.n + c.align - 1) : \E p \in FreeRanges(GrowSizes[k]) :
            LET n == GrowSizes[k]
                r == extent_split_interior(Mapping(p, n), p, c.n, c.align)
                put == SetToSeq(r.lead) \o SetToSeq(r.trail)
                fresh == zero \cup (p..p + n - 1)
            IN  /\ mapped' = mapped \cup (p..p + n - 1)
                /\ \/ /\ Got(t, c, FoldLeft(LAMBDA h, x : extent_record(h, "retained", x), r.h, put),
                             r.e, fresh)
                      /\ grow' = Min({k + 1, Len(GrowSizes)})
                      /\ UNCHANGED leaked
                   \/ \* The first split failed, and the call with it.
                      /\ MayFail /\ n # c.n
                      /\ zero' = fresh
                      /\ leaked' = leaked \cup (p..p + n - 1)
                      /\ Step(t, "map")
                      /\ UNCHANGED <<heap, grow>>
                   \/ \* The second split failed: the lead is salvaged.
                      /\ MayFail /\ r.lead # {} /\ r.trail # {}
                      /\ LET x == extent_split(Mapping(p, n), p, r.e - p)
                             y == [emap_deregister_boundary(x, r.e) EXCEPT !.ext[r.e] = NoExt]
                         IN  heap' = extent_record(y, "retained", p)
                      /\ zero' = fresh
                      /\ leaked' = leaked \cup (r.e..p + n - 1)
                      /\ Step(t, "map")
                      /\ UNCHANGED grow
        /\ sn' = sn + 1
        /\ growMtx' = NoThread
        /\ UNCHANGED <<opts, held, purging>>

\* Nothing could be grown: without a mapping, or because it was not tried.
extent_grow_failed(t) ==
    LET c == call[t]
    IN  /\ At(t, "grow")
        /\ opts.retain /\ c.expand = Null =>
            \/ MayFail \/ sn = MaxMaps
            \/ \A k \in GrowFit(c.n + c.align - 1) : FreeRanges(GrowSizes[k]) = {}
        /\ growMtx' = NoThread
        /\ IF opts.retain /\ c.expand # Null
           THEN held' = held \cup {c.expand} /\ Return(t)
           ELSE Step(t, "map") /\ UNCHANGED held
        /\ UNCHANGED <<Visible, heap, zero, leaked>>

\* ecache_alloc_grow: extent_alloc_wrapper asks for a mapping of its own; to
\* expand it must be right behind the extent.
extent_alloc_wrapper(t) ==
    LET c == call[t]
        at == {p \in FreeRanges(c.n) : p % c.align = 0
                 /\ (c.expand # Null => p = LastPage(heap, c.expand) + 1)}
    IN  /\ At(t, "map")
        /\ \/ /\ sn < MaxMaps
              /\ \E p \in at :
                  /\ Got(t, c, Mapping(p, c.n), p, zero \cup (p..p + c.n - 1))
                  /\ mapped' = mapped \cup (p..p + c.n - 1)
              /\ sn' = sn + 1
              /\ UNCHANGED held
           \/ /\ MayFail \/ sn = MaxMaps \/ at = {}
              /\ held' = IF c.expand = Null THEN held ELSE held \cup {c.expand}
              /\ Return(t)
              /\ UNCHANGED <<heap, mapped, zero, sn>>
        /\ UNCHANGED <<opts, leaked, growMtx, purging, grow>>

\* The rest of pa_alloc or of pac_expand_impl; the program writes to what it gets.
pa_alloc_done(t) ==
    LET c == call[t]
        b == IF c.expand = Null THEN c.e ELSE c.expand
    IN  /\ At(t, "done")
        /\ LET h == CASE c.expand # Null -> extent_merge(heap, c.expand, c.e)
                       [] c.slab -> emap_register_interior([heap EXCEPT !.ext[c.e].slab = TRUE], c.e)
                       [] OTHER -> heap
           IN  heap' = [h EXCEPT !.ext[b].zeroed = FALSE]   \* not read while active
        /\ zero' = zero \ Span(heap', b)
        /\ held' = held \cup {b}
        /\ Return(t)
        /\ UNCHANGED <<Visible, leaked, growMtx>>

\* pa_dalloc of b, and pac_shrink_impl of b to n pages: the heap h, the extent b
\* that is given back, and what the program still holds.
pac_dalloc(b) ==
    [h |-> IF heap.ext[b].slab
           THEN [emap_deregister_interior(heap, b) EXCEPT !.ext[b].slab = FALSE] ELSE heap,
     b |-> b, held |-> held \ {b}]
pac_shrink(b, n) == [h |-> extent_split(heap, b, n), b |-> b + n, held |-> held]

\* ecache_dalloc to the dirty cache; an oversize extent is purged at once.
ecache_dalloc(t) ==
    \E d \in {pac_dalloc(b) : b \in held} \cup
            UNION {{pac_shrink(b, n) : n \in 1..heap.ext[b].size - 1} :
                        b \in {c \in held : ~heap.ext[c].slab}} :
        LET r == extent_record_coalesce([d.h EXCEPT !.ext[d.b].zeroed = FALSE], "dirty", d.b)
        IN  /\ At(t, "idle")
            /\ IF r.h.ext[r.b].size >= Oversize
               THEN heap' = r.h /\ Do(t, [NoCall EXCEPT !.step = "release", !.e = r.b])
               ELSE heap' = Deactivated(r, "dirty") /\ UNCHANGED call
            /\ held' = d.held
            /\ UNCHANGED <<Visible, zero, leaked, growMtx>>

\* What a thread does once it has let go of an extent: next of its stash, or done.
AfterRelease(t) ==
    IF call[t].decay THEN Do(t, [call[t] EXCEPT !.step = "purge", !.e = Null])
    ELSE Return(t)

\* extent_dalloc_wrapper with retained memory: purged, then kept mapped.
extent_dalloc_retain(t) ==
    LET b == call[t].e
    IN  /\ At(t, "release") /\ opts.retain
        /\ \E purged \in IF MayFail THEN BOOLEAN ELSE {TRUE} :
            /\ heap' = extent_record([heap EXCEPT !.ext[b].zeroed = purged], "retained", b)
            /\ zero' = IF purged THEN zero \cup Span(heap, b) ELSE zero
        /\ AfterRelease(t)
        /\ UNCHANGED <<Visible, leaked, held, growMtx>>

\* Without: out of the emap first, so that nobody who gets the pages again finds
\* a stale owner, then unmapped.
extent_deregister(t) ==
    /\ At(t, "release") /\ ~opts.retain
    /\ heap' = emap_deregister_boundary(heap, call[t].e)
    /\ Step(t, "unmap")
    /\ UNCHANGED <<Visible, zero, leaked, held, growMtx>>

extent_dalloc_unmap(t) ==
    LET b == call[t].e
    IN  /\ At(t, "unmap")
        /\ mapped' = mapped \ Span(heap, b)
        /\ zero' = zero \ Span(heap, b)
        /\ heap' = [heap EXCEPT !.ext[b] = NoExt]
        /\ AfterRelease(t)
        /\ UNCHANGED <<opts, leaked, held, growMtx, purging, grow, sn>>

-----------------------------------------------------------------------------
(* Decay of the dirty and muzzy caches.                                    *)

\* pac_decay_to_limit as called by pac_decay_all (fully, to 0) and by
\* pac_maybe_decay_purge (to the limit of the epoch).
pac_decay_to_limit(t) ==
    /\ At(t, "idle")
    /\ \E st \in {"dirty", "muzzy"}, fully \in BOOLEAN :
        LET npages == NPagesOf(heap, st)
        IN  \E limit \in IF fully THEN {0} ELSE Limits :
            /\ ~purging[st] /\ npages > limit
            /\ purging' = [purging EXCEPT ![st] = TRUE]
            /\ Do(t, [NoCall EXCEPT !.step = "stash", !.decay = TRUE, !.cache = st, !.fully = fully,
                                    !.limit = limit, !.max = npages - limit])
    /\ UNCHANGED <<opts, heap, mapped, zero, leaked, held, growMtx, grow, sn>>

Stashed(t) == FoldLeft(LAMBDA n, b : n + heap.ext[b].size, 0, call[t].stash)

\* One turn of pac_stash_decayed.  More(t): there is still something to stash.
\* Defect: what is stashed is not bounded by what was there at the start.
More_Unbounded(t) == TRUE
More(t) == Stashed(t) < call[t].max
pac_stash_decayed(t) ==
    LET c == call[t]
        r == IF More(t) THEN ecache_evict(heap, c.cache, c.limit) ELSE [h |-> heap, b |-> Null]
    IN  /\ At(t, "stash")
        /\ heap' = r.h
        /\ Do(t, IF r.b = Null THEN [c EXCEPT !.step = "purge", !.limit = 0, !.max = 0]
                 ELSE [c EXCEPT !.stash = Append(@, r.b)])
        /\ UNCHANGED <<Visible, zero, leaked, held, growMtx>>

\* One turn of pac_decay_stashed: to the muzzy cache, or all the way.
pac_decay_stashed(t) ==
    LET c == call[t]
        b == Head(c.stash)
        rest == [c EXCEPT !.stash = Tail(@)]
    IN  /\ At(t, "purge") /\ c.stash # <<>>
        /\ \/ /\ c.cache = "dirty" /\ ~c.fully /\ opts.muzzy
              /\ heap' = extent_record([heap EXCEPT !.ext[b].zeroed = FALSE], "muzzy", b)
              /\ Do(t, rest)
           \/ /\ c.cache = "dirty" /\ ~c.fully /\ opts.muzzy => MayFail
              /\ Do(t, [rest EXCEPT !.step = "release", !.e = b])
              /\ UNCHANGED heap
        /\ UNCHANGED <<Visible, zero, leaked, held, growMtx>>

pac_decay_end(t) ==
    /\ At(t, "purge") /\ call[t].stash = <<>>
    /\ purging' = [purging EXCEPT ![call[t].cache] = FALSE]
    /\ Return(t)
    /\ UNCHANGED <<opts, heap, mapped, zero, leaked, held, growMtx, grow, sn>>

\* pac_destroy, of an arena nobody uses: retained extents are unmapped.
pac_destroy ==
    /\ \A t \in Users : At(t, "idle")
    /\ In(heap, "active") = {} /\ In(heap, "dirty") = {} /\ In(heap, "muzzy") = {}
    /\ In(heap, "retained") # {}
    /\ mapped' = mapped \ UNION {Span(heap, b) : b \in In(heap, "retained")}
    /\ zero' = zero \cap mapped'
    /\ heap' = FoldSet(LAMBDA b, h : [emap_deregister_boundary(h, b) EXCEPT !.ext[b] = NoExt],
                       heap, In(heap, "retained"))
    /\ UNCHANGED <<opts, leaked, held, call, growMtx, purging, grow, sn>>

-----------------------------------------------------------------------------
Decay(t) ==
    \/ pac_stash_decayed(t) \/ pac_decay_stashed(t) \/ pac_decay_end(t)
    \/ extent_dalloc_retain(t) \/ extent_deregister(t) \/ extent_dalloc_unmap(t)

Next ==
    \/ \E t \in Mutators :
        \/ pac_alloc(t) \/ pac_expand(t) \/ extent_recycle_next(t)
        \/ extent_grow_retained(t) \/ extent_grow_failed(t) \/ extent_alloc_wrapper(t)
        \/ pa_alloc_done(t) \/ ecache_dalloc(t)
    \/ \E t \in Purgers : pac_decay_to_limit(t)
    \/ \E t \in Users : Decay(t)
    \/ pac_destroy

Spec == Init /\ [][Next]_vars

-----------------------------------------------------------------------------
Deregistered == {call[t].e : t \in {u \in Users : At(u, "unmap")}}
InCall(b) == \E t \in Users : b \in {call[t].e, call[t].expand} \cup Range(call[t].stash)

\* Every page the arena has mapped is in exactly one extent (or was leaked by a
\* failed split), an active extent has exactly one owner, and the lru lists hold
\* the dirty and muzzy extents once each: splitting, coalescing, purging and
\* reuse by several threads neither lose nor duplicate a page.
PagesPartitioned ==
    /\ UNION {Span(heap, b) : b \in Extents(heap)} \cup leaked = mapped
    /\ \A b \in Extents(heap) : Span(heap, b) \cap leaked = {}
    /\ \A b, c \in Extents(heap) : b # c => Span(heap, b) \cap Span(heap, c) = {}
    /\ \A b \in In(heap, "active") : (b \in held) # InCall(b)
    /\ \A st \in {"dirty", "muzzy"} :
        Range(heap.lru[st]) = In(heap, st) /\ Len(heap.lru[st]) = Cardinality(In(heap, st))
    /\ Extents(heap) = UNION {In(heap, st) : st \in {"active", "dirty", "muzzy", "retained"}}

\* What a lookup by address relies on: the first and the last page of every
\* extent lead to it with its state and head flag, the pages between lead nowhere
\* unless it is a slab, and no entry outlives its extent.
EmapExact ==
    \A p \in Pages :
        LET elm == heap.emap[p]
            b == elm.e
        IN  /\ elm # NoElm <=> \E c \in Extents(heap) \ Deregistered :
                /\ p \in Span(heap, c)
                /\ p \in {c, LastPage(heap, c)} \/ heap.ext[c].slab
            /\ b # Null => /\ p \in Span(heap, b)
                           /\ elm.state = heap.ext[b].state
                           /\ p \in {b, LastPage(heap, b)} => elm.head = heap.ext[b].head

\* Coalescing is complete where it is not delayed: two retained (or muzzy) neighbours are never both left in the cache unless the
\* second begins a mapping of its own.
Coalesced ==
    \A st \in {"muzzy", "retained"} : \A b, c \in In(heap, st) :
        c = LastPage(heap, b) + 1 => heap.ext[c].head

\* A zeroed request gets pages that are zero, whichever cache served it, and
\* the zeroed flag of a retained extent is never a lie.
ZeroedTrue ==
    /\ \A t \in Users : At(t, "done") /\ call[t].zero => Span(heap, call[t].e) \subseteq zero
    /\ \A b \in In(heap, "retained") : heap.ext[b].zeroed => Span(heap, b) \subseteq zero

\* A purge takes no more than there was above the limit when it began, up to the
\* last extent, although other threads keep freeing pages into the cache
\* (npages_decay_max): it ends, and the next epoch can purge again.
PurgeBounded ==
    \A t \in Users : At(t, "stash") /\ call[t].stash # <<>> =>
        Stashed(t) - heap.ext[Last(call[t].stash)].size < call[t].max
=============================================================================
