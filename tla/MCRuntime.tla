------------------------------ MODULE MCRuntime ----------------------------
(***************************************************************************)
(* What runs around an allocation: the hooks that load and call the plugin *)
(* (Hooks), the calls of the program (Alloc), the size classes (Classes),  *)
(* fork (Fork), the background threads (Background), the statistics report *)
(* (Stats) and the plugins' logs (Logs), each on its own.  A behaviour is  *)
(* one of one component, named by which; the variables of the others keep  *)
(* their initial values.                                                   *)
(***************************************************************************)
EXTENDS Hooks, TLC

CONSTANTS h1, h2

VARIABLES which, x1, x2, x3, x4, x5, x6, x7, x8, x9, x10, x11, x12, x13

Rest8 == <<x8, x9, x10, x11, x12, x13>>
Rest7 == <<x7, Rest8>>
Rest6 == <<x6, Rest7>>
xs == <<x1, x2, x3, x4, x5, Rest6>>
allVars == <<which, vars, xs>>

Plain == [zero |-> FALSE, junk_alloc |-> FALSE, junk_free |-> FALSE, prof |-> FALSE,
          xmalloc |-> FALSE, zero_realloc |-> "alloc"]
Entry == INSTANCE Alloc
    WITH W <- 6, PAGE <- 2, CACHELINE <- 1, Small <- {1, 2, 3, 4, 6}, Large <- {8, 12, 16}, NRegs <- 2,
         sizeThresshold <- 8, Powers <- {1, 2, 4}, Sizes <- {0, 1, 3, 5, 8, 9, 17}, Counts <- {2, 7, 31},
         Extras <- {0, 4}, Aligns <- {0, 1, 2, 3, 4}, EmptyAligned <- FALSE, PartialExpand <- FALSE, MaxBatch <- 3,
         Opts <- {Plain, [Plain EXCEPT !.prof = TRUE, !.zero_realloc = "free"],
                  [Plain EXCEPT !.zero = TRUE, !.zero_realloc = "abort"],
                  [Plain EXCEPT !.junk_alloc = TRUE, !.junk_free = TRUE, !.prof = TRUE],
                  [Plain EXCEPT !.xmalloc = TRUE]},
         opt <- x1, heap <- x2, net <- x3, batch <- x4, last <- x5

\* Three builds that differ in the quantum, the tiny classes and the page.
Build(quantum, tiny, lookup, page, ngroup, bits, pad) ==
    [lg_quantum |-> quantum, lg_tiny_min |-> tiny, lg_max_lookup |-> lookup, lg_page |-> page,
     lg_ngroup |-> ngroup, ptr_bits |-> bits, pad |-> pad]
Table == INSTANCE Classes
    WITH Builds <- {Build(4, 3, 6, 6, 2, 11, TRUE), Build(3, 3, 7, 6, 2, 11, FALSE), Build(4, 2, 5, 5, 1, 10, TRUE)},
         Guesses <- {1, 2, 40},
         build <- x1, stage <- x2, sc <- x3, lg_base <- x4, lg_delta <- x5, ndelta <- x6, size <- x7

Forking == INSTANCE Fork
    WITH Features <- {"stats", "prof", "hpa", "background"}, NAuto <- 1, MaxArenas <- 2, Untaken <- {},
         LateArena <- FALSE,
         held <- x1, want <- x2, made <- x3, total <- x4, forker <- x5, threads <- x6, background <- x7

\* One thread switches the background threads, the other resets arenas and frees.
Purging == INSTANCE Background
    WITH Nobody <- None, Apps <- {h1, h2}, MaxThreads <- 2, NArenas <- 3, Resets <- {1}, Failing <- {0, 1},
         Retry <- FALSE, Calls <- h1 :> {"switch", "max", "create"} @@ h2 :> {"reset", "free"},
         lock <- x1, enabled <- x2, max <- x3, n <- x4, state <- x5, indefinite <- x6, bg <- x7,
         created <- x8, arenas <- x9, deferral <- x10, dirty <- x11, app <- x12, failed <- x13

\* All options; the circumstances vary together.
Reporting == INSTANCE Stats
    WITH NSizes <- 2, NMutexes <- 2, BufSizes <- {0, 3},
         Settings <- UNION {[json : BOOLEAN, general : BOOLEAN, merged : BOOLEAN, destroyed : BOOLEAN,
                             unmerged : BOOLEAN, bins : BOOLEAN, large : BOOLEAN, mutex : BOOLEAN,
                             extents : BOOLEAN, hpa : BOOLEAN, prof : {b}, config_stats : {TRUE},
                             anyDestroyed : {b}, named : {b}, released : {b}, records : {IF b THEN 2 ELSE 0},
                             initialized : {IF b THEN {1, 2} ELSE {}}, gap : {IF b THEN {1} ELSE {2}}]
                            : b \in BOOLEAN},
         o <- x1, todo <- x2, em <- x3, bw <- x4, json <- x5

Logging == INSTANCE Logs
    WITH Program <- {"p", "q"}, Sampler <- {"s"}, Slots <- [alloc |-> 2, sample |-> 2, mig |-> 3],
         MaxRecords <- 4, NSec <- 2, MaxClock <- 5,
         up <- x1, clock <- x2, log <- x3, holder <- x4, call <- x5, print <- x6

-----------------------------------------------------------------------------
NoRest8 == x8 = None /\ x9 = None /\ x10 = None /\ x11 = None /\ x12 = None /\ x13 = None
NoRest7 == x7 = None /\ NoRest8
NoRest6 == x6 = None /\ NoRest7
NoRest1 == x1 = None /\ x2 = None /\ x3 = None /\ x4 = None /\ x5 = None /\ NoRest6

AllInit ==
    /\ Init
    /\ \/ which = "hooks" /\ NoRest1
       \/ which = "alloc" /\ Entry!Init /\ NoRest6
       \/ which = "classes" /\ Table!Init /\ NoRest8
       \/ which = "fork" /\ Forking!Init /\ NoRest8
       \/ which = "background" /\ Purging!Init
       \/ which = "stats" /\ Reporting!Init /\ NoRest6
       \/ which = "logs" /\ Logging!Init /\ NoRest7

HooksNext == which = "hooks" /\ Next /\ UNCHANGED <<which, xs>>
AllocNext == which = "alloc" /\ Entry!Next /\ UNCHANGED <<which, vars, Rest6>>
ClassesNext == which = "classes" /\ Table!Next /\ UNCHANGED <<which, vars, Rest8>>
ForkNext == which = "fork" /\ Forking!Next /\ UNCHANGED <<which, vars, Rest8>>
BackgroundNext == which = "background" /\ Purging!Next /\ UNCHANGED <<which, vars>>
StatsNext == which = "stats" /\ Reporting!Next /\ UNCHANGED <<which, vars, Rest6>>
LogsNext == which = "logs" /\ Logging!Next /\ UNCHANGED <<which, vars, Rest7>>

\* The process may abort in a call of the allocator; a report and a run of the
\* program with its logs come to an end; threads may wait for ever (MCBackgroundLive).
Stops == which \in {"alloc", "stats", "logs", "background"} /\ UNCHANGED allVars

AllNext ==
    \/ HooksNext \/ AllocNext \/ ClassesNext \/ ForkNext \/ BackgroundNext \/ StatsNext \/ LogsNext
    \/ Stops

AllSpec == AllInit /\ [][AllNext]_allVars

-----------------------------------------------------------------------------
(* Properties: those of Hooks by their own names, and the others.          *)

\* jemalloc.c: every call returns memory of the size and alignment asked for, the
\* thread's counters are exact, a block is freed as it was allocated, and what
\* is reported to the plugin is on a page boundary.
AllocRight ==
    which = "alloc" => Entry!ResultRight /\ Entry!AccountExact /\ Entry!FreedAsAllocated /\ Entry!ReportsAligned

\* sc.c, sz.h, sc.h: the tables agree with the macros, a size gets the smallest
\* class that holds it, and slabs hold whole regions.
ClassesRight ==
    which = "classes" => Table!MacrosAgree /\ Table!ClassRight /\ Table!PageClassRight /\ Table!SlabsDivide

\* jemalloc.c _malloc_prefork and _malloc_postfork_*: fork deadlocks with no
\* other thread, releases exactly what it took, and leaves the child consistent.
ForkRight == which = "fork" => Forking!NoDeadlock /\ Forking!ReleasedExactly /\ Forking!ChildAlone

\* background_thread.c: every slot is served, a stopped slot has no thread, an
\* arena is reset by one thread, the assertions hold, deferral is agreed on.
BackgroundRight ==
    which = "background" =>
        Purging!SlotsServe /\ Purging!StoppedMeansGone /\ Purging!ResetAlone /\ Purging!Asserts /\ Purging!DeferralAgrees

\* stats.c, emitter.h: with every option the report is one JSON value, or has
\* no JSON in it.
StatsRight == which = "stats" => Reporting!ReportIsJson /\ Reporting!TableIsPlain

\* logger.c and the printers: a log can be read whenever the process ended, and
\* the records of the logs are printed in the order of their times.
LogsRight == which = "logs" => Logging!FilesReadable /\ Logging!MergedInOrder
=============================================================================
