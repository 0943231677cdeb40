------------------------------- MODULE MCHeap ------------------------------
(***************************************************************************)
(* How memory is kept track of: the plugins' region index (Regions), and   *)
(* jemalloc's hugepage allocator (Hpa), the cache before it (Sec), the     *)
(* page allocator (Pac) and the bins and thread caches (Bins), each on its *)
(* own.  A behaviour is one of one component, named by which; the          *)
(* variables of the others keep their initial values.                      *)
(***************************************************************************)
EXTENDS Regions, TLC

CONSTANTS t1, t2, p1, p2, w1, w2, w3, b1, b2

VARIABLES which, x1, x2, x3, x4, x5, x6, x7, x8, x9, x10, x11, x12, x13

Rest12 == <<x12, x13>>
Rest10 == <<x10, x11, Rest12>>
Rest6 == <<x6, x7, x8, x9, Rest10>>
xs == <<x1, x2, x3, x4, x5, Rest6>>
allVars == <<which, vars, xs>>

\* Aligned blocks and realloc leave stale regions behind; one thread.
Stale == INSTANCE Regions
    WITH AppThreads <- {p1}, Regs <- {b1, b2}, REGION_SIZE <- 2, LeafSlots <- 2, Fan <- 3,
         Depth <- 1, Space <- 9, MaxSize <- 4, AlignedStarts <- TRUE, MayMove <- TRUE,
         region <- x1, highAddr <- x2, highReg <- x3, lowAddr <- x4, lowReg <- x5, refcount <- x6,
         present <- x7, live <- x8, tpc <- x9, mine <- x10, level <- x11, held <- x12, found <- x13

\* Two hugepages of four pages, extents of two pages, mappings that may fail.
Two == INSTANCE Hpa
    WITH Threads <- {t1, t2}, P <- 4, NSlabs <- 2, Sizes <- {2}, Batch <- 1, HugifyAt <- 2,
         DirtyNum <- 1, DirtyDen <- 2, MaxAge <- 2, MaxOps <- 1, Oom <- TRUE,
         hp <- x1, grown <- x2, age <- x3, pending <- x4, deferral <- x5, mtx <- x6, grow <- x7,
         ext <- x8, call <- x9, up <- x10

\* One hugepage of four pages, extents of one and of two pages.
One == INSTANCE Hpa
    WITH Threads <- {t1, t2}, P <- 4, NSlabs <- 1, Sizes <- {1, 2}, Batch <- 1, HugifyAt <- 2,
         DirtyNum <- 1, DirtyDen <- 2, MaxAge <- 2, MaxOps <- 1, Oom <- FALSE,
         hp <- x1, grown <- x2, age <- x3, pending <- x4, deferral <- x5, mtx <- x6, grow <- x7,
         ext <- x8, call <- x9, up <- x10

Cache == INSTANCE Sec
    WITH Threads <- {t1, t2}, NShards <- 1, NPsizes <- 2, PerSize <- 2, MaxBytes <- 3, AfterFlush <- 1, Extra <- 1,
         shard <- x1, back <- x2, out <- x3, pick <- x4, call <- x5

\* Four pages from at most two mappings; one thread allocates, one purges.
Request(n, align, zero, slab) == [n |-> n, align |-> align, zero |-> zero, slab |-> slab]
PageHeap == INSTANCE Pac
    WITH Mutators <- {p1}, Purgers <- {p2}, NoThread <- None, NPages <- 4, Expansions <- {1},
         Requests <- {Request(1, 2, TRUE, FALSE), Request(3, 1, FALSE, TRUE)},
         LargeMin <- 2, Oversize <- 3, GrowSizes <- <<3>>, MaxMaps <- 2, MayFail <- TRUE, Limits <- {1},
         Options <- {[retain |-> TRUE, muzzy |-> TRUE], [retain |-> FALSE, muzzy |-> FALSE]},
         opts <- x1, heap <- x2, mapped <- x3, zero <- x4, leaked <- x5, held <- x6, call <- x7,
         growMtx <- x8, purging <- x9, grow <- x10, sn <- x11

\* A thread with a cache and one without, an automatic arena's bin and another.
Small == INSTANCE Bins
    WITH Threads <- {p1, p2}, Caching <- {p1}, NBins <- 2, Home <- p1 :> 1 @@ p2 :> 2, Manual <- {2},
         NSlabs <- 2, NRegs <- 2, CachedMaxes <- {2}, Nonfast <- {1}, DelayItems <- 2, BatchSize <- 3,
         slab <- x1, bin <- x2, cache <- x3, held <- x4, call <- x5

-----------------------------------------------------------------------------
NoRest12 == x12 = None /\ x13 = None
NoRest11 == x11 = None /\ NoRest12
NoRest10 == x10 = None /\ NoRest11
NoRest6 == x6 = None /\ x7 = None /\ x8 = None /\ x9 = None /\ NoRest10
NoRest1 == x1 = None /\ x2 = None /\ x3 = None /\ x4 = None /\ x5 = None /\ NoRest6

AllInit ==
    /\ Init
    /\ \/ which = "index" /\ NoRest1
       \/ which = "stale" /\ Stale!Init
       \/ which = "hpa" /\ Two!Init /\ NoRest11
       \/ which = "hpa_one" /\ One!Init /\ NoRest11
       \/ which = "sec" /\ Cache!Init /\ NoRest6
       \/ which = "pac" /\ PageHeap!Init /\ NoRest12
       \/ which = "bins" /\ Small!Init /\ NoRest6

IndexNext == which = "index" /\ Next /\ UNCHANGED <<which, xs>>
StaleNext == which = "stale" /\ Stale!Next /\ UNCHANGED <<which, vars>>
HpaNext == which = "hpa" /\ Two!Next /\ UNCHANGED <<which, vars, x11, Rest12>>
HpaOneNext == which = "hpa_one" /\ One!Next /\ UNCHANGED <<which, vars, x11, Rest12>>
SecNext == which = "sec" /\ Cache!Next /\ UNCHANGED <<which, vars, Rest6>>
PacNext == which = "pac" /\ PageHeap!Next /\ UNCHANGED <<which, vars, Rest12>>
BinsNext == which = "bins" /\ Small!Next /\ UNCHANGED <<which, vars, Rest6>>

\* A thread that read garbage in the index stops; the hugepage allocator and
\* its cache are driven by a bounded number of calls.
Stops == which \in {"index", "hpa", "hpa_one", "sec"} /\ UNCHANGED allVars

AllNext == IndexNext \/ StaleNext \/ HpaNext \/ HpaOneNext \/ SecNext \/ PacNext \/ BinsNext \/ Stops

AllSpec == AllInit /\ [][AllNext]_allVars

\* Interchangeable: the threads; the regions of Stale; those of the index.
Even == {q \in Permutations({w1, w2, w3}) : Cardinality({w \in {w1, w2, w3} : q[w] = w}) # 1}
SwapIf(odd) == IF odd THEN b1 :> b2 @@ b2 :> b1 ELSE b1 :> b1 @@ b2 :> b2
Symmetry ==
    {p @@ q @@ SwapIf(q \notin Even) : p \in Permutations({t1, t2}), q \in Permutations({w1, w2, w3})}

-----------------------------------------------------------------------------
(* Properties: those of Regions by their own names, and the others.        *)

\* structures.c, where frees are missed and blocks move: refcounts stay exact
\* and nothing points to a freed region.
StaleKept == which = "stale" => Stale!RefcountExact /\ Stale!NoDangling

\* hpa.c, hpdata.c and psset.c: the metadata of the hugepages, the containers
\* that hold them, the totals and the ages agree with each other.
Consistent ==
    /\ which = "hpa" => Two!Consistent
    /\ which = "hpa_one" => One!Consistent

\* hpa.c: a purge, which the kernel does while the mtx is free, takes no page
\* that somebody was given meanwhile, and no two operations share a slab.
PurgeSafe ==
    /\ which = "hpa" => Two!PurgeSafe
    /\ which = "hpa_one" => One!PurgeSafe

\* sec.c: what is cached is counted, is nobody's, and is bounded.
SecExact == which = "sec" => Cache!CacheExact /\ Cache!FillsBounded

\* pac.c, extent.c, ecache.c, emap.c: every mapped page is in one extent, the
\* page map finds it, neighbours that may be merged are merged, pages that are
\* said to be zero are, and an epoch purges no more than its limit.
PacExact ==
    which = "pac" =>
        PageHeap!PagesPartitioned /\ PageHeap!EmapExact /\ PageHeap!Coalesced /\ PageHeap!ZeroedTrue /\ PageHeap!PurgeBounded

\* bin.c, arena.c, cache_bin.h, tcache.c: a region is free, cached or held and
\* only one of these, every slab is where its free regions say, allocation takes
\* the lowest slab, the statistics add up, and a cache keeps its bounds.
BinsExact ==
    which = "bins" =>
        Small!RegionsOnce /\ Small!SlabsPlaced /\ Small!SlabcurLowest /\ Small!StatsExact /\ Small!CacheBounds
=============================================================================
