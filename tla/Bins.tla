-------------------------------- MODULE Bins --------------------------------
(***************************************************************************)
(* Small allocations of one size class: the bins and slabs of arena.c and  *)
(* the thread caches of tcache.c.  A bin (one per arena, or per shard of   *)
(* it) hands out the regions of its slabs: from slabcur, then from the     *)
(* non-full slabs, then from a fresh slab, which is allocated with the bin *)
(* lock dropped.  A thread keeps regions in a cache, filled from its own   *)
(* bin and flushed to whichever bins the regions belong to.                *)
(*                                                                         *)
(* A step is a critical section of one bin lock, or a slab taken from or   *)
(* given back to the page allocator (module Pac).  What is private to a    *)
(* thread is folded into its next such step.  The stack of a cache bin is  *)
(* a sequence here, without its address arithmetic.  Slabs are ordered by  *)
(* age and address, as edata_snad_comp does.                               *)
(***************************************************************************)
EXTENDS Integers, Sequences, FiniteSets, FiniteSetsExt, SequencesExt

CONSTANTS
    Threads,
    NBins,          \* bins of the size class
    Home,           \* thread -> the bin it allocates from
    Caching,        \* threads that may have a cache
    Manual,         \* bins of arenas that are not automatic
    NSlabs,         \* slabs the page allocator can give out
    NRegs,          \* bin_info->nregs
    CachedMaxes,    \* what cache_bin_info_ncached_max may be
    Nonfast,        \* regions of a slab whose alignment makes them be stashed
    DelayItems,     \* tcache_gc_item_delay_compute
    BatchSize       \* regions asked for by arena_fill_small_fresh

VARIABLES
    slab,       \* the slabs: bin they belong to (or 0) and free regions
    bin,        \* the bins
    cache,      \* thread -> cache bin and its part of tcache_slow
    held,       \* regions the program holds
    call        \* thread -> call in progress

vars == <<slab, bin, cache, held, call>>

Null == 0
Slabs == 1..NSlabs
Regions == Slabs \X (1..NRegs)
NoSlab == [bin |-> Null, free |-> {}]
NoBin == [cur |-> Null, nonfull |-> {}, full |-> {}, curregs |-> 0, curslabs |-> 0]
\* low is the low-water mark, a number of cached regions.
NoCache(m) == [enabled |-> FALSE, max |-> m, cached |-> <<>>, stash |-> <<>>, low |-> 0, div |-> 1,
               refilled |-> FALSE, delay |-> 0]
NewCache(m) == [NoCache(m) EXCEPT !.enabled = TRUE, !.delay = DelayItems]
NoCall == [steps |-> <<>>, ptrs |-> <<>>, fresh |-> Null, progress |-> TRUE, n |-> 0,
           dead |-> {}, put |-> <<>>]

Init ==
    /\ slab = [s \in Slabs |-> NoSlab]
    /\ bin = [b \in 1..NBins |-> NoBin]
    /\ \E m \in CachedMaxes :
            cache = [t \in Threads |-> IF t \in Caching THEN NewCache(m) ELSE NoCache(m)]
    /\ held = {}
    /\ call = [t \in Threads |-> NoCall]

Idle(t) == call[t].steps = <<>>
At(t, step) == ~Idle(t) /\ Head(call[t].steps) = step
\* The call of t goes on with these steps and locals.
Do(t, steps, c) == call' = [call EXCEPT ![t] = IF steps = <<>> THEN NoCall
                                               ELSE [c EXCEPT !.steps = steps]]
Rest(t) == Tail(call[t].steps)

NFree(sl, s) == Cardinality(sl[s].free)

-----------------------------------------------------------------------------
(* Slabs of a bin, under its lock.  h has the slabs sl and the bin bn.      *)

\* arena_bin_slabs_full_insert: not for automatic arenas.
\* Defect: a slab that is full is tracked nowhere.
arena_bin_slabs_full_insert_None(b, bn, s) == bn
arena_bin_slabs_full_insert(b, bn, s) ==
    IF b \in Manual THEN [bn EXCEPT !.full = @ \cup {s}] ELSE bn

\* arena_slab_reg_alloc_batch: the lowest n free regions of s.
arena_slab_reg_alloc_batch(sl, s, n) ==
    {i \in sl[s].free : Cardinality({j \in sl[s].free : j < i}) < n}
AsPtrs(s, regs) == [k \in 1..Cardinality(regs) |-> <<s, SetToSortSeq(regs, <)[k]>>]

\* arena_bin_refill_slabcur_no_fresh_slab.
arena_bin_refill_slabcur_no_fresh_slab(b, bn) ==
    LET x == IF bn.cur = Null THEN bn ELSE arena_bin_slabs_full_insert(b, bn, bn.cur)
    IN  IF bn.nonfull = {} THEN [x EXCEPT !.cur = Null]
        ELSE [x EXCEPT !.cur = Min(bn.nonfull), !.nonfull = @ \ {Min(bn.nonfull)}]

arena_bin_refill_slabcur_with_fresh_slab(bn, s) ==
    [bn EXCEPT !.cur = s, !.curslabs = @ + 1]

\* arena_bin_lower_slab.
\* Defect: the new slab is never compared with slabcur.
arena_bin_lower_slab_Append(b, sl, bn, s) == [bn EXCEPT !.nonfull = @ \cup {s}]
arena_bin_lower_slab(b, sl, bn, s) ==
    IF bn.cur # Null /\ bn.cur > s
    THEN IF NFree(sl, bn.cur) > 0 THEN [bn EXCEPT !.nonfull = @ \cup {bn.cur}, !.cur = s]
         ELSE [arena_bin_slabs_full_insert(b, bn, bn.cur) EXCEPT !.cur = s]
    ELSE [bn EXCEPT !.nonfull = @ \cup {s}]

\* arena_dissociate_bin_slab and arena_dalloc_bin_slab_prepare, of an empty slab.
arena_dissociate_bin_slab(bn, s) ==
    LET x == [bn EXCEPT !.curslabs = @ - 1]
    IN  CASE bn.cur = s -> [x EXCEPT !.cur = Null]
          [] bn.cur # s /\ NRegs = 1 -> [x EXCEPT !.full = @ \ {s}]
          [] OTHER -> [x EXCEPT !.nonfull = @ \ {s}]

\* arena_dalloc_bin_locked_step: region <<s, i>> back to bin b; h.dead collects the
\* slabs to deallocate.
arena_dalloc_bin_locked_step(b, h, ptr) ==
    LET s == ptr[1]
        sl == [h.sl EXCEPT ![s].free = @ \cup {ptr[2]}]
        bn == [h.bn EXCEPT !.curregs = @ - 1]
    IN  CASE NFree(sl, s) = NRegs ->
                [sl |-> sl, bn |-> arena_dissociate_bin_slab(bn, s), dead |-> h.dead \cup {s}]
          [] NFree(sl, s) = 1 /\ NRegs # 1 /\ s # bn.cur ->
                [sl |-> sl, dead |-> h.dead,
                 bn |-> arena_bin_lower_slab(b, sl, [bn EXCEPT !.full = @ \ {s}], s)]
          [] OTHER -> [sl |-> sl, bn |-> bn, dead |-> h.dead]

\* One critical section of arena_cache_bin_fill_small or arena_malloc_small: n more
\* regions from slabcur, the non-full slabs and the fresh slab.
RECURSIVE Take(_, _, _)
Take(b, h, n) ==
    CASE n = 0 -> h
      [] n > 0 /\ h.bn.cur # Null /\ NFree(h.sl, h.bn.cur) > 0 ->
            LET regs == arena_slab_reg_alloc_batch(h.sl, h.bn.cur, n)
            IN  Take(b, [h EXCEPT !.sl[h.bn.cur].free = @ \ regs, !.progress = TRUE,
                                  !.ptrs = @ \o AsPtrs(h.bn.cur, regs)],
                     n - Cardinality(regs))
      [] OTHER ->
            LET x == [h EXCEPT !.bn = arena_bin_refill_slabcur_no_fresh_slab(b, @)]
            IN  CASE x.bn.cur # Null -> Take(b, x, n)
                  [] x.bn.cur = Null /\ h.fresh # Null ->
                        Take(b, [x EXCEPT !.fresh = Null,
                                !.bn = arena_bin_refill_slabcur_with_fresh_slab(@, h.fresh)], n)
                  [] OTHER -> x

-----------------------------------------------------------------------------
(* Filling a cache and allocating without one.                             *)

\* tcache_alloc_small: from the cache, else stashed regions are flushed and the
\* cache is filled.
cache_bin_alloc(c) == [c EXCEPT !.cached = Tail(@), !.low = Min({@, Len(c.cached) - 1})]

tcache_alloc_small(t) ==
    LET c == cache[t]
    IN  /\ Idle(t) /\ c.enabled
        /\ IF c.cached # <<>>
           THEN /\ cache' = [cache EXCEPT ![t] = cache_bin_alloc(c)]
                /\ held' = held \cup {Head(c.cached)}
                /\ UNCHANGED call
           ELSE /\ cache' = [cache EXCEPT ![t].stash = <<>>]
                /\ Do(t, (IF c.stash = <<>> THEN <<>> ELSE <<"flush">>) \o <<"fill">>,
                      [NoCall EXCEPT !.ptrs = c.stash,
                                     !.n = c.max \div (2 ^ c.div)])
                /\ UNCHANGED held
        /\ UNCHANGED <<slab, bin>>

\* arena_malloc_small, of a thread without a cache.
arena_malloc_small(t) ==
    /\ Idle(t) /\ ~cache[t].enabled
    /\ Do(t, <<"fill">>, [NoCall EXCEPT !.n = 1])
    /\ UNCHANGED <<slab, bin, cache, held>>

\* The regions a fill got: the cache keeps all but the one it was for.
Filled(t, ptrs) ==
    /\ held' = IF ptrs = <<>> THEN held ELSE held \cup {Head(ptrs)}
    /\ cache' = IF ~cache[t].enabled THEN cache
                ELSE [cache EXCEPT ![t].refilled = TRUE, ![t].low = 0,
                         ![t].cached = IF ptrs = <<>> THEN <<>> ELSE Tail(ptrs)]

\* The statistics are updated once, when the fill is over.
\* Defect: they are updated before the lock is dropped for a fresh slab, too.
Counted_Twice(bn, retry, n) == [bn EXCEPT !.curregs = @ + n]
Counted(bn, retry, n) == IF retry THEN bn ELSE [bn EXCEPT !.curregs = @ + n]

\* The fill loop up to the release of the bin lock.
arena_cache_bin_fill_small(t) ==
    LET b == Home[t]
        c == call[t]
        h == Take(b, [sl |-> slab, bn |-> bin[b], ptrs |-> c.ptrs, fresh |-> c.fresh,
                      progress |-> c.progress], c.n - Len(c.ptrs))
        retry == Len(h.ptrs) < c.n /\ h.progress
    IN  /\ At(t, "fill")
        /\ slab' = h.sl
        /\ bin' = [bin EXCEPT ![b] = Counted(h.bn, retry, Len(h.ptrs))]
        /\ IF retry
           THEN /\ Do(t, <<"slab_alloc">>, [c EXCEPT !.ptrs = h.ptrs, !.progress = FALSE])
                /\ UNCHANGED <<cache, held>>
           ELSE /\ Filled(t, h.ptrs)
                /\ Do(t, IF h.fresh = Null THEN <<>> ELSE <<"dalloc">>,
                      [NoCall EXCEPT !.dead = {h.fresh}])

\* arena_slab_alloc, without a lock; it may fail.
arena_slab_alloc(t) ==
    LET unused == {s \in Slabs : slab[s].bin = Null}
    IN  /\ At(t, "slab_alloc")
        /\ \/ /\ unused # {}
              /\ slab' = [slab EXCEPT ![Min(unused)] = [bin |-> Home[t], free |-> 1..NRegs]]
              /\ Do(t, <<"fill">>, [call[t] EXCEPT !.fresh = Min(unused)])
           \/ Do(t, <<"fill">>, call[t]) /\ UNCHANGED slab
        /\ UNCHANGED <<bin, cache, held>>

\* arena_fill_small_fresh: regions of fresh slabs only; the last of them goes to
\* the bin, and to the list of full slabs of a manual arena those that are full.
arena_fill_small_fresh(t) ==
    LET b == Home[t]
        unused == {s \in Slabs : slab[s].bin = Null}
    IN  /\ Idle(t)
        /\ \E n \in 1..Cardinality(unused) :
            LET new == {s \in unused : Cardinality({u \in unused : u < s}) < n}
                last == Max(new)
                odd == BatchSize % NRegs
                partial == n * NRegs > BatchSize
                left == IF partial THEN odd + 1..NRegs ELSE {}
                sl == [s \in Slabs |-> IF s \notin new THEN slab[s]
                           ELSE [bin |-> b, free |-> IF s = last THEN left ELSE {}]]
                took == IF partial THEN BatchSize ELSE n * NRegs
                bn == IF partial THEN arena_bin_lower_slab(b, sl, bin[b], last) ELSE bin[b]
                fulls == IF partial THEN new \ {last} ELSE new
            IN  /\ n * NRegs < BatchSize + NRegs
                /\ slab' = sl
                /\ bin' = [bin EXCEPT ![b] = [bn EXCEPT !.curslabs = @ + n,
                        !.curregs = @ + took,
                        !.full = IF b \in Manual THEN @ \cup fulls ELSE @]]
                /\ held' = held \cup {r \in new \X (1..NRegs) : r[2] \notin sl[r[1]].free}
    /\ UNCHANGED <<cache, call>>

-----------------------------------------------------------------------------
(* Freeing and flushing.                                                   *)

Full(c) == Len(c.cached) + Len(c.stash) = c.max

\* tcache_bin_flush_bottom: stashed regions and the oldest cached ones are flushed
\* until rem are left, then put is cached.  The first conjunct is its assertion.
FlushTo(t, c, rem, put) ==
    LET kept == SubSeq(c.cached, 1, rem)
        gone == c.stash \o SubSeq(c.cached, rem + 1, Len(c.cached))
    IN  /\ rem <= Len(c.cached)
        /\ cache' = [cache EXCEPT ![t] = [c EXCEPT !.stash = <<>>, !.cached = put \o kept,
                                                   !.low = Min({@, rem})]]
        /\ Do(t, IF gone = <<>> THEN <<>> ELSE <<"flush">>, [NoCall EXCEPT !.ptrs = gone])

\* tcache_dalloc_small, and arena_dalloc_small of a thread without a cache.
\* Remain is what a full cache keeps (lg_tcache_flush_small_div = 1).
\* Defect: nothing is flushed to make room.
Remain_All(c) == Len(c.cached)
Remain(c) == c.max \div 2
tcache_dalloc_small(t) ==
    LET c == cache[t]
    IN  /\ Idle(t)
        /\ \E r \in held :
            /\ held' = held \ {r}
            /\ CASE ~c.enabled ->
                        /\ Do(t, <<"flush">>, [NoCall EXCEPT !.ptrs = <<r>>])
                        /\ UNCHANGED cache
                 [] c.enabled /\ ~Full(c) /\ r[2] \in Nonfast ->
                        cache' = [cache EXCEPT ![t].stash = Append(@, r)] /\ UNCHANGED call
                 [] c.enabled /\ ~Full(c) /\ r[2] \notin Nonfast ->
                        cache' = [cache EXCEPT ![t].cached = <<r>> \o @] /\ UNCHANGED call
                 [] OTHER -> FlushTo(t, c, Remain(c), <<r>>)
        /\ UNCHANGED <<slab, bin>>

\* tcache_bin_flush_impl: one pass, under the lock of the bin of the first region;
\* the others wait for the next pass.
tcache_bin_flush_match(r, b) == slab[r[1]].bin = b
\* Defect: only the regions of the first bin are flushed.
Deferred_None(ptrs, b) == <<>>
Deferred(ptrs, b) == SelectSeq(ptrs, LAMBDA r : ~tcache_bin_flush_match(r, b))
tcache_bin_flush_impl(t) ==
    LET c == call[t]
        b == slab[Head(c.ptrs)[1]].bin
        now == SelectSeq(c.ptrs, LAMBDA r : tcache_bin_flush_match(r, b))
        later == Deferred(c.ptrs, b)
        h == FoldLeft(LAMBDA x, r : arena_dalloc_bin_locked_step(b, x, r),
                      [sl |-> slab, bn |-> bin[b], dead |-> c.dead], now)
    IN  /\ At(t, "flush")
        /\ slab' = h.sl
        /\ bin' = [bin EXCEPT ![b] = h.bn]
        /\ Do(t, CASE later # <<>> -> call[t].steps
                   [] later = <<>> /\ h.dead # {} -> <<"dalloc">> \o Rest(t)
                   [] OTHER -> Rest(t), [c EXCEPT !.ptrs = later, !.dead = h.dead])
        /\ UNCHANGED <<cache, held>>

\* arena_slab_dalloc of the slabs that became empty, and of an unused fresh slab.
arena_slab_dalloc(t) ==
    /\ At(t, "dalloc")
    /\ \E s \in call[t].dead :
        /\ slab' = [slab EXCEPT ![s] = NoSlab]
        /\ Do(t, IF call[t].dead = {s} THEN Rest(t) ELSE call[t].steps,
              [call[t] EXCEPT !.dead = @ \ {s}])
    /\ UNCHANGED <<bin, cache, held>>

\* tcache_event with tcache_gc_small.
tcache_event(t) ==
    LET c == cache[t]
        nflush == c.low - (c.low \div 4)
        n == Len(c.cached)
        div == IF c.max \div (2 ^ (c.div + 1)) >= 1 THEN c.div + 1 ELSE c.div
    IN  /\ Idle(t) /\ c.enabled
        /\ CASE c.low > 0 /\ nflush < c.delay ->
                    FlushTo(t, [c EXCEPT !.delay = @ - nflush, !.low = n], n, <<>>)
             [] c.low > 0 /\ nflush >= c.delay ->
                    FlushTo(t, [c EXCEPT !.delay = DelayItems, !.div = div, !.low = n - nflush],
                            n - nflush, <<>>)
             [] OTHER ->
                    FlushTo(t, [c EXCEPT !.low = n, !.refilled = FALSE,
                                    !.div = IF c.refilled /\ @ > 1 THEN @ - 1 ELSE @], n, <<>>)
        /\ UNCHANGED <<slab, bin, held>>

\* thread.tcache.flush, and tcache_destroy at thread exit or when the cache is
\* switched off; thread.tcache.enabled switches it on again.
tcache_flush(t, off) ==
    /\ Idle(t) /\ cache[t].enabled
    /\ FlushTo(t, IF off THEN [NoCache(cache[t].max) EXCEPT !.cached = cache[t].cached, !.stash = cache[t].stash]
                  ELSE cache[t], 0, <<>>)
    /\ UNCHANGED <<slab, bin, held>>

tcache_init(t) ==
    /\ Idle(t) /\ ~cache[t].enabled /\ t \in Caching
    /\ cache' = [cache EXCEPT ![t] = NewCache(@.max)]
    /\ UNCHANGED <<slab, bin, held, call>>

\* arena_bin_reset, of a manual arena nobody uses and no cache has regions of.
arena_bin_reset(b) ==
    LET own == {bin[b].cur} \cup bin[b].nonfull \cup bin[b].full
    IN  /\ b \in Manual /\ \A t \in Threads : Idle(t)
        /\ \A t \in Threads : \A r \in Range(cache[t].cached \o cache[t].stash) :
                slab[r[1]].bin # b
        /\ slab' = [s \in Slabs |-> IF s \in own THEN NoSlab ELSE slab[s]]
        /\ bin' = [bin EXCEPT ![b] = NoBin]
        /\ held' = {r \in held : slab[r[1]].bin # b}
        /\ UNCHANGED <<cache, call>>

-----------------------------------------------------------------------------
Next ==
    \/ \E t \in Threads :
        \/ tcache_alloc_small(t) \/ arena_malloc_small(t) \/ arena_cache_bin_fill_small(t)
        \/ arena_slab_alloc(t) \/ arena_fill_small_fresh(t)
        \/ tcache_dalloc_small(t) \/ tcache_bin_flush_impl(t) \/ arena_slab_dalloc(t)
        \/ tcache_event(t) \/ tcache_init(t)
        \/ \E off \in BOOLEAN : tcache_flush(t, off)
    \/ \E b \in 1..NBins : arena_bin_reset(b)

Spec == Init /\ [][Next]_vars

-----------------------------------------------------------------------------
Live == {s \in Slabs : slab[s].bin # Null}
Taken == {r \in Live \X (1..NRegs) : r[2] \notin slab[r[1]].free}
InHand(t) == cache[t].cached \o cache[t].stash \o call[t].ptrs

\* No region is handed out twice and none is lost: what the bitmaps say is
\* allocated is in exactly one place, the program, a cache or a call in progress.
RegionsOnce ==
    LET count(r) == (IF r \in held THEN 1 ELSE 0)
            + MapThenSumSet(LAMBDA t : Cardinality({i \in DOMAIN InHand(t) : InHand(t)[i] = r}),
                            Threads)
    IN  \A r \in Regions : count(r) = IF r \in Taken THEN 1 ELSE 0

\* A slab is always where its number of free regions says: an empty one is with the
\* call that will use it or give it back, a full one is slabcur or, in a manual
\* arena, on the list that a reset goes through, any other is slabcur or among the
\* non-full.  The bin whose lock protects it is the one it was made for.
SlabsPlaced ==
    \A s \in Live :
        LET b == slab[s].bin
            n == NFree(slab, s)
            other == {t \in Threads : s = call[t].fresh \/ s \in call[t].dead}
        IN  /\ (n = NRegs) = (Cardinality(other) = 1) /\ Cardinality(other) <= 1
            /\ (s \in bin[b].nonfull) = (n \in 1..NRegs - 1 /\ bin[b].cur # s)
            /\ (s \in bin[b].full) = (n = 0 /\ bin[b].cur # s /\ b \in Manual)
            /\ bin[b].cur = s => n < NRegs
            /\ \A a \in 1..NBins \ {b} : s \notin {bin[a].cur} \cup bin[a].nonfull \cup bin[a].full

\* "if bin->slabcur is non-NULL, it refers to the oldest/lowest non-full slab":
\* no slab among the non-full is older.
SlabcurLowest == \A b \in 1..NBins : \A s \in bin[b].nonfull : bin[b].cur < s

\* The statistics of a bin agree with the bitmaps, up to the fills that have not
\* yet been counted.
StatsExact ==
    \A b \in 1..NBins :
        LET mine == {s \in Live : slab[s].bin = b}
            filling == {t \in Threads : Home[t] = b /\ (At(t, "slab_alloc") \/ At(t, "fill"))}
        IN  /\ bin[b].curregs + MapThenSumSet(LAMBDA t : Len(call[t].ptrs), filling)
                = Cardinality({r \in Taken : slab[r[1]].bin = b})
            /\ bin[b].curslabs = Cardinality({s \in mine : NFree(slab, s) < NRegs})

\* "assert((cache_bin_sz_t)rem <= ncached)": a full cache that is about to be flushed
\* has at least the regions it is to keep.
FlushWithin ==
    \A t \in Threads :
        cache[t].enabled /\ Full(cache[t]) => Remain(cache[t]) <= Len(cache[t].cached)

\* A cache never outgrows its array, its low-water mark is a number of regions it
\* has, and a fill asks for at least one region however often gc halved it.
CacheBounds ==
    \A t \in Threads :
        /\ Len(cache[t].cached) + Len(cache[t].stash) <= cache[t].max
        /\ cache[t].low <= Len(cache[t].cached)
        /\ cache[t].enabled => cache[t].max \div (2 ^ cache[t].div) >= 1
=============================================================================
