----------------------------- MODULE MCPolicies ----------------------------
(***************************************************************************)
(* The plugins, Lru, Window and Placement, and the profiler, Prof, each on *)
(* its own.  A behaviour is one of one component, named by which; the      *)
(* variables of the others keep their initial values.                      *)
(***************************************************************************)
EXTENDS Lru, TLC

CONSTANTS t1, t2, b1, b2, b3, b4, w1, w2, w3

VARIABLES which, x1, x2, x3, x4, x5, x6, x7, x8, x9, x10, x11, x12

xs == <<x1, x2, x3, x4, x5, x6, x7, x8, x9, x10, x11, x12>>
allVars == <<which, vars, xs>>

\* Blocks of two chunks, no free: no list ever has one element.
Win == INSTANCE Window
    WITH Blocks <- {w1, w2, w3}, BlockSizes <- {2}, FastChunks <- 2, windowSize <- 4,
         WholeBlocks <- FALSE, Follows <- {}, MayFree <- FALSE,
         q <- x1, samples <- x2, currentLoc <- x3, freeFastChunks <- x4, nChunks <- x5, crashed <- x6

\* Blocks of one chunk, allocated and freed.
WinFree == INSTANCE Window
    WITH Blocks <- {w1, w2, w3}, BlockSizes <- {1}, FastChunks <- 2, windowSize <- 2,
         WholeBlocks <- FALSE, Follows <- {}, MayFree <- TRUE,
         q <- x1, samples <- x2, currentLoc <- x3, freeFastChunks <- x4, nChunks <- x5, crashed <- x6

Unset == -1
DefaultEnv ==
    [name \in {"FAST_NODEMASK", "SLOW_NODEMASK", "SIZE_THRESHOLD", "SHMBLES_SIZE_THRESHOLD",
               "CHUNK_SIZE", "FAST_MEM_SIZE", "FAST_MEM_CHUNKS", "SLOW_BITMASK"} |-> Unset]
    @@ [FRACTIONS |-> <<>>, INVERT |-> FALSE, PLUGIN |-> "static"]
TwoNodes == [FAST_NODEMASK |-> 1, SLOW_NODEMASK |-> 2]

\* Environments that differ in the sizes, in the masks, and in what is placed where.
Environments ==
    {[CHUNK_SIZE |-> c, FAST_MEM_SIZE |-> s, FAST_MEM_CHUNKS |-> n, SIZE_THRESHOLD |-> 12] @@ DefaultEnv
        : c \in {Unset, 0, 4, 7}, s \in {Unset, 0, 8, 21}, n \in {Unset, 0, 3, 5}}
    \cup {[FAST_NODEMASK |-> f, SLOW_NODEMASK |-> s, SLOW_BITMASK |-> 6] @@ DefaultEnv
        : f \in {0, 1, 64}, s \in {Unset, 1, 3}}
    \cup {TwoNodes @@ [SLOW_BITMASK |-> b, SIZE_THRESHOLD |-> s] @@ DefaultEnv : b \in {0, 6}, s \in {Unset, 4}}
    \cup {TwoNodes @@ [FRACTIONS |-> f, INVERT |-> i, PLUGIN |-> "static-fractional"] @@ DefaultEnv
        : f \in {<<>>, <<0, 16>>, <<13, 40>>, <<16, 7>>, <<11, 32, 1>>}, i \in BOOLEAN}

Static == INSTANCE Placement
    WITH PAGE_SHIFT <- 2, FRACTION_SHIFT <- 3, W <- 10, IntBits <- 4, DefaultThreshold <- 8,
         Envs <- Environments, MaxNodes <- {1}, Threads <- {t1, t2}, NPages <- 4, Sizes <- {5, 8, 11},
         Offsets <- {0, 1}, MaxOrder <- 3,
         env <- x1, node <- x2, threshold <- x3, config <- x4, current <- x5, call <- x6,
         blocks <- x7, policy <- x8, order <- x9

-----------------------------------------------------------------------------
\* Lru with a block that starts on a slot boundary, which its free does not find.
Aligning == INSTANCE Lru
    WITH Blocks <- {b3, b4}, Aligned <- {b3}, MaxChunks <- 2, FastChunks <- 2,
         lruLock <- x1, freeFastChunks <- x2, mru <- x3, lru <- x4, loc <- x5, bound <- x6, nChunks <- x7,
         mem <- x8, tpc <- x9, reg <- x10, idx <- x11, swapping <- x12

\* The profiler's records, of two threads and one backtrace.
Records == INSTANCE Prof
    WITH Threads <- {t1, t2}, NoThread <- None, Bts <- {b3}, NGctx <- 2, NTctx <- 2, NTdata <- 2,
         MaxObjs <- 1, QuietReset <- TRUE,
         bt2gctx <- x1, gctx <- x2, tctx <- x3, tdata <- x4, tsd <- x5, call <- x6, mtx <- x7,
         dump <- x8, lost <- x9

Rest10 == <<x10, x11, x12>>
Rest7 == <<x7, x8, x9, Rest10>>
NoRest10 == x10 = None /\ x11 = None /\ x12 = None
NoRest7 == x7 = None /\ x8 = None /\ x9 = None /\ NoRest10
NoRest1 == x1 = None /\ x2 = None /\ x3 = None /\ x4 = None /\ x5 = None /\ x6 = None /\ NoRest7

AllInit ==
    /\ Init
    /\ \/ which = "lru" /\ NoRest1
       \/ which = "lru_aligned" /\ Aligning!Init
       \/ which = "window" /\ Win!Init /\ NoRest7
       \/ which = "window_free" /\ WinFree!Init /\ NoRest7
       \/ which = "static" /\ Static!Init /\ NoRest10
       \/ which = "prof" /\ Records!Init /\ NoRest10

LruNext == which = "lru" /\ Next /\ UNCHANGED <<which, xs>>
LruAlignedNext == which = "lru_aligned" /\ Aligning!Next /\ UNCHANGED <<which, vars>>
WindowNext == which = "window" /\ Win!Next /\ UNCHANGED <<which, vars, Rest7>>
WindowFreeNext == which = "window_free" /\ WinFree!Next /\ UNCHANGED <<which, vars, Rest7>>
StaticNext == which = "static" /\ Static!Next /\ UNCHANGED <<which, vars, Rest10>>
ProfNext == which = "prof" /\ Records!Next /\ UNCHANGED <<which, vars, Rest10>>

\* The process may crash in window.c, and the static plugins are driven by a
\* bounded number of reports.
Stops == which \in {"window", "window_free", "static"} /\ UNCHANGED allVars

AllNext == LruNext \/ LruAlignedNext \/ WindowNext \/ WindowFreeNext \/ StaticNext \/ ProfNext \/ Stops

AllSpec == AllInit /\ [][AllNext]_allVars

\* Interchangeable: the threads, the blocks of Lru, the blocks of Window.
Even == {q \in Permutations({w1, w2, w3}) : Cardinality({w \in {w1, w2, w3} : q[w] = w}) # 1}
SwapIf(odd) == IF odd THEN b1 :> b2 @@ b2 :> b1 ELSE b1 :> b1 @@ b2 :> b2
Symmetry ==
    {p @@ q @@ SwapIf(q \notin Even) : p \in Permutations({t1, t2}), q \in Permutations({w1, w2, w3})}

-----------------------------------------------------------------------------
(* Properties: those of Lru by their own names, and the others.            *)

\* lru.c, the same with a block whose free is not recognised.
LruAligned == which = "lru_aligned" => Aligning!FastUse /\ Aligning!ListUse

\* window.c: each chunk's count is the number of its samples in the window, no
\* sample of a freed region is left there, and the free fast chunks and those
\* marked FAST add up to config.fastChunks.
WindowCounts ==
    /\ which = "window" => Win!CountsMatch /\ Win!Accounting
    /\ which = "window_free" => WinFree!CountsMatch /\ WinFree!SamplesLive

\* window.c: the two lists hold the chunks with their mark, the tails end the
\* runs of equal counts, and no slow chunk has more samples than a fast one.
WindowLists == which = "window" => Win!ListsMatch /\ Win!TailsMatch /\ Win!Policy

\* static.c, static-fractional.c and config.c: the parts of a block add up to
\* it and are bound where its variable asks for, and the configuration is what
\* the variables imply.
Placed == which = "static" => Static!FractionKept /\ Static!PlacedAsAsked /\ Static!ConfigDeduced

\* prof.c, prof_data.c: what a thread refers to exists, what nobody refers to is
\* destroyed, and a dump's sums are those of one moment.
ProfRight == which = "prof" => Records!HeldAlive /\ Records!NoLeak /\ Records!DumpAddsUp
=============================================================================
