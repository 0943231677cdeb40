-------------------------------- MODULE Lru --------------------------------
(***************************************************************************)
(* plugins/lru.c: the LRU migration policy.  Application threads report    *)
(* allocations and frees (allocCallback), the sampler thread reports       *)
(* sampled addresses (handleSample); all share the lists mru (chunks in    *)
(* fast memory) and lru (chunks in slow memory) under lruLock.             *)
(*                                                                         *)
(* The circular lists are sequences here, head first: mru->prev is the     *)
(* last element.  A chunk is a pair <<region, index>>.  The index of       *)
(* structures.c is what the policy sees of it: getRegion(start) finds a    *)
(* registered region unless its start is REGION_SIZE aligned (Regions).    *)
(***************************************************************************)
EXTENDS Integers, Sequences, FiniteSets

CONSTANTS
    AppThreads,   \* threads of the program
    Sampler,      \* the sampler thread, as an owner of lruLock
    None,
    Blocks,       \* memory blocks the program may allocate
    Aligned,      \* those that start on a REGION_SIZE boundary
    MaxChunks,    \* bound on the chunks of a block
    FastChunks    \* config.fastChunks; -1: no limit

Chunks == Blocks \X (0 .. MaxChunks - 1)

ASSUME LruAssumption ==
    /\ None \notin AppThreads /\ Sampler \notin AppThreads /\ None # Sampler
    /\ None \notin Chunks \X Chunks
    /\ Aligned \subseteq Blocks
    /\ MaxChunks \in Nat \ {0}
    /\ FastChunks \in Nat \cup {-1}

VARIABLES
    lruLock,         \* its owner
    freeFastChunks,
    mru, lru,        \* lists of chunks, head first
    loc,             \* loc[c]: nodes[i].loc
    bound,           \* bound[c]: the NUMA policy mbind gave the chunk's memory
    nChunks,         \* nChunks[b]: chunks of the region of block b, 0: none registered
    mem,             \* mem[b]: "none", "live", "freeing", or "stale" (tracked, but gone)
    tpc, reg, idx,   \* per thread: control, the block and the chunk at hand
    swapping         \* handleSample between the two mbinds of swap(): <<chunk, victim>>

policyVars == <<freeFastChunks, mru, lru, loc>>
indexVars  == <<nChunks, mem>>
appVars    == <<tpc, reg, idx>>
vars == <<lruLock, policyVars, bound, indexVars, appVars, swapping>>

Tracked(c) == c[2] < nChunks[c[1]]

-----------------------------------------------------------------------------
(* The lists.                                                              *)
\* Defect: a node behind the head is not unlinked.
dq_HeadOnly(q, node) == IF Head(q) = node THEN Tail(q) ELSE q

dq(q, node) ==
    LET k == CHOOSE j \in 1..Len(q) : q[j] = node
    IN  [j \in 1 .. Len(q) - 1 |-> IF j < k THEN q[j] ELSE q[j + 1]]

InList(q, node) == \E j \in 1..Len(q) : q[j] = node
Distinct(q) == \A i, j \in 1..Len(q) : q[i] = q[j] => i = j

\* Defect: the head pointer is not moved to the new node.
push_NoHead(q, node) == Append(q, node)

push(q, node) == <<node>> \o q

\* Defect: an empty list stays empty.
enq_Lost(q, node) == IF q = <<>> THEN q ELSE Append(q, node)

enq(q, node) == Append(q, node)

\* Defect: the loops over region->chunks run one too far.
HasChunk_OffByOne(t) == idx[t] <= nChunks[reg[t]]

\* i < region->nChunks, in the loops of allocCallback.
HasChunk(t) == idx[t] < nChunks[reg[t]]

\* Defect: the last fast chunk is never handed out.
FastLeft_KeepsOne == freeFastChunks \notin {0, 1}

\* while(freeFastChunks && ...): -1 and below never run out.
FastLeft == freeFastChunks # 0

\* Defect: swap() does not move the victim out.
SwapOut_Skipped(victim) == bound

\* The first mbind of swap().
SwapOut(victim) == [bound EXCEPT ![victim] = "slow"]

\* Thread t leaves the callback.
Return(t) ==
    /\ tpc' = [tpc EXCEPT ![t] = "idle"]
    /\ reg' = [reg EXCEPT ![t] = None]
    /\ idx' = [idx EXCEPT ![t] = 0]

Init ==
    /\ lruLock = None
    /\ freeFastChunks = FastChunks
    /\ mru = <<>>
    /\ lru = <<>>
    /\ loc = [c \in Chunks |-> "SLOW"]
    /\ bound = [c \in Chunks |-> "default"]
    /\ nChunks = [b \in Blocks |-> 0]
    /\ mem = [b \in Blocks |-> "none"]
    /\ tpc = [t \in AppThreads |-> "idle"]
    /\ reg = [t \in AppThreads |-> None]
    /\ idx = [t \in AppThreads |-> 0]
    /\ swapping = None

-----------------------------------------------------------------------------
(* ALLOC_EVENT_ALLOC of a block of at least sizeThresshold bytes.          *)

\* Lock, addRegion, the nodes.
AllocRegion(t, b) ==
    /\ tpc[t] = "idle"
    /\ mem[b] = "none"
    /\ lruLock = None
    /\ \E n \in 1..MaxChunks : nChunks' = [nChunks EXCEPT ![b] = n]
    /\ lruLock' = t
    /\ mem' = [mem EXCEPT ![b] = "live"]
    /\ tpc' = [tpc EXCEPT ![t] = "alloc"]
    /\ reg' = [reg EXCEPT ![t] = b]
    /\ idx' = [idx EXCEPT ![t] = 0]
    /\ UNCHANGED <<policyVars, bound, swapping>>

\* One round of the first loop.
AllocFast(t) ==
    LET c == <<reg[t], idx[t]>> IN
    /\ tpc[t] = "alloc"
    /\ HasChunk(t)
    /\ FastLeft
    /\ loc' = [loc EXCEPT ![c] = "FAST"]
    /\ mru' = enq(mru, c)
    /\ bound' = [bound EXCEPT ![c] = "fast"]
    /\ freeFastChunks' = freeFastChunks - 1
    /\ idx' = [idx EXCEPT ![t] = @ + 1]
    /\ UNCHANGED <<lruLock, lru, indexVars, tpc, reg, swapping>>

\* One round of the second loop.
AllocSlow(t) ==
    LET c == <<reg[t], idx[t]>> IN
    /\ tpc[t] = "alloc"
    /\ HasChunk(t)
    /\ ~FastLeft
    /\ loc' = [loc EXCEPT ![c] = "SLOW"]
    /\ lru' = enq(lru, c)
    /\ bound' = [bound EXCEPT ![c] = "slow"]
    /\ idx' = [idx EXCEPT ![t] = @ + 1]
    /\ UNCHANGED <<lruLock, freeFastChunks, mru, indexVars, tpc, reg, swapping>>

AllocUnlock(t) ==
    /\ tpc[t] = "alloc"
    /\ ~HasChunk(t)
    /\ lruLock' = None
    /\ Return(t)
    /\ UNCHANGED <<policyVars, bound, indexVars, swapping>>

-----------------------------------------------------------------------------
(* ALLOC_EVENT_REALLOC is ignored ("todo"): when realloc moved the block,  *)
(* its old region stays registered.                                        *)
Realloc(t, b) ==
    /\ tpc[t] = "idle"
    /\ mem[b] = "live"
    /\ \A u \in AppThreads : tpc[u] = "alloc" => reg[u] # b
    /\ mem' = [mem EXCEPT ![b] = "stale"]
    /\ UNCHANGED <<lruLock, policyVars, bound, nChunks, appVars, swapping>>

(* ALLOC_EVENT_FREE, reported before the memory goes back to the heap.     *)

\* Defect: a block that getRegion does not find may be allocated again while its
\* region is registered.
NotFound_Reusable(b) == mem' = [mem EXCEPT ![b] = "none"]

\* getRegion of a block that starts on a slot boundary returns NULL.
NotFound(b) == mem' = [mem EXCEPT ![b] = "stale"]

\* Without the lock: getRegion and unbind, which covers the first chunk only.
FreeLookup(t, b) ==
    /\ tpc[t] = "idle"
    /\ mem[b] = "live"
    /\ \A u \in AppThreads : tpc[u] = "alloc" => reg[u] # b
    /\ IF b \in Aligned
       THEN /\ NotFound(b)
            /\ UNCHANGED <<bound, appVars>>
       ELSE /\ mem' = [mem EXCEPT ![b] = "freeing"]
            /\ bound' = [bound EXCEPT ![<<b, 0>>] = "default"]
            /\ tpc' = [tpc EXCEPT ![t] = "found"]
            /\ reg' = [reg EXCEPT ![t] = b]
            /\ idx' = [idx EXCEPT ![t] = 0]
    /\ UNCHANGED <<lruLock, policyVars, nChunks, swapping>>

FreeLock(t) ==
    /\ tpc[t] = "found"
    /\ lruLock = None
    /\ lruLock' = t
    /\ tpc' = [tpc EXCEPT ![t] = "free"]
    /\ UNCHANGED <<policyVars, bound, indexVars, reg, idx, swapping>>

FreeSlow(t) ==
    LET c == <<reg[t], idx[t]>> IN
    /\ tpc[t] = "free"
    /\ HasChunk(t)
    /\ loc[c] = "SLOW"
    /\ lru' = dq(lru, c)
    /\ idx' = [idx EXCEPT ![t] = @ + 1]
    /\ UNCHANGED <<lruLock, freeFastChunks, mru, loc, bound, indexVars, tpc, reg, swapping>>

\* A fast chunk is freed and no slow one waits for its place.
FreeFast(t) ==
    LET c == <<reg[t], idx[t]>> IN
    /\ tpc[t] = "free"
    /\ HasChunk(t)
    /\ loc[c] = "FAST"
    /\ lru = <<>>
    /\ mru' = dq(mru, c)
    /\ freeFastChunks' = freeFastChunks + 1
    /\ idx' = [idx EXCEPT ![t] = @ + 1]
    /\ UNCHANGED <<lruLock, lru, loc, bound, indexVars, tpc, reg, swapping>>

\* promoted->chunk > region->chunks + region->nChunks: false for a chunk of
\* the dying region itself; for a chunk of another region the order of two
\* unrelated heap blocks decides, so either outcome is possible.
BehindRegion(promoted, b) == IF promoted[1] = b THEN {FALSE} ELSE BOOLEAN

\* A fast chunk is freed and the head of lru takes its place.
FreePromote(t) ==
    LET b == reg[t]
        c == <<b, idx[t]>>
        promoted == Head(lru)
    IN
    /\ tpc[t] = "free"
    /\ HasChunk(t)
    /\ loc[c] = "FAST"
    /\ lru # <<>>
    /\ lru' = Tail(lru)
    /\ loc' = [loc EXCEPT ![promoted] = "FAST"]
    /\ \E behind \in BehindRegion(promoted, b) :
          bound' = IF behind THEN [bound EXCEPT ![promoted] = "fast"] ELSE bound
    /\ mru' = enq(dq(mru, c), promoted)
    /\ idx' = [idx EXCEPT ![t] = @ + 1]
    /\ UNCHANGED <<lruLock, freeFastChunks, indexVars, tpc, reg, swapping>>

\* deleteRegion, unlock, plugin_free of the nodes (their loc is forgotten).
FreeDelete(t) ==
    /\ tpc[t] = "free"
    /\ ~HasChunk(t)
    /\ nChunks' = [nChunks EXCEPT ![reg[t]] = 0]
    /\ mem' = [mem EXCEPT ![reg[t]] = "none"]
    /\ loc' = [c \in Chunks |-> IF c[1] = reg[t] THEN "SLOW" ELSE loc[c]]
    /\ lruLock' = None
    /\ Return(t)
    /\ UNCHANGED <<freeFastChunks, mru, lru, bound, swapping>>

-----------------------------------------------------------------------------
(* handleSample, in the sampler thread.  An address that getChunkInfo does *)
(* not know changes nothing.                                               *)

SampleFast(c) ==
    /\ lruLock = None
    /\ Tracked(c)
    /\ loc[c] = "FAST"
    /\ mru' = push(dq(mru, c), c)
    /\ UNCHANGED <<lruLock, freeFastChunks, lru, loc, bound, indexVars, appVars, swapping>>

\* Up to the first mbind of swap(), which moves the victim out.
SampleSlow(c) ==
    LET victim == mru[Len(mru)] IN
    /\ lruLock = None
    /\ Tracked(c)
    /\ loc[c] = "SLOW"
    /\ mru # <<>>
    /\ lruLock' = Sampler
    /\ mru' = dq(mru, victim)
    /\ lru' = push(dq(lru, c), victim)
    /\ bound' = SwapOut(victim)
    /\ swapping' = <<c, victim>>
    /\ UNCHANGED <<freeFastChunks, loc, indexVars, appVars>>

\* From the second mbind on.
SampleSwapped ==
    /\ swapping # None
    /\ bound' = [bound EXCEPT ![swapping[1]] = "fast"]
    /\ loc' = [loc EXCEPT ![swapping[1]] = "FAST", ![swapping[2]] = "SLOW"]
    /\ mru' = push(mru, swapping[1])
    /\ lruLock' = None
    /\ swapping' = None
    /\ UNCHANGED <<freeFastChunks, lru, indexVars, appVars>>

-----------------------------------------------------------------------------
AllocStep(t) ==
    \/ \E b \in Blocks : AllocRegion(t, b)
    \/ AllocFast(t) \/ AllocSlow(t) \/ AllocUnlock(t)

FreeStep(t) ==
    \/ \E b \in Blocks : FreeLookup(t, b)
    \/ FreeLock(t) \/ FreeSlow(t) \/ FreeFast(t) \/ FreePromote(t) \/ FreeDelete(t)

SampleStep == SampleSwapped \/ \E c \in Chunks : SampleFast(c) \/ SampleSlow(c)

Next ==
    \/ \E t \in AppThreads : AllocStep(t) \/ FreeStep(t) \/ \E b \in Blocks : Realloc(t, b)
    \/ SampleStep

Spec == Init /\ [][Next]_vars

-----------------------------------------------------------------------------
(* Properties.                                                             *)

\* The chunk handleSample holds in its hands, in neither list.
InHand == IF swapping = None THEN <<>> ELSE <<swapping[1]>>

\* The chunks that are in a list: all of the registered regions but, in a
\* region being added or removed, only those the loop has or has not passed.
Linked(c) ==
    /\ Tracked(c)
    /\ \A t \in AppThreads :
          /\ tpc[t] = "alloc" /\ reg[t] = c[1] => c[2] < idx[t]
          /\ tpc[t] = "free" /\ reg[t] = c[1] => idx[t] <= c[2]

\* Every variable has its type.
TypeOK ==
    /\ lruLock \in AppThreads \cup {Sampler, None}
    /\ freeFastChunks \in Int
    /\ mru \in Seq(Chunks)
    /\ lru \in Seq(Chunks)
    /\ loc \in [Chunks -> {"FAST", "SLOW"}]
    /\ bound \in [Chunks -> {"default", "fast", "slow"}]
    /\ nChunks \in [Blocks -> 0..MaxChunks]
    /\ mem \in [Blocks -> {"none", "live", "freeing", "stale"}]
    /\ tpc \in [AppThreads -> {"idle", "alloc", "found", "free"}]
    /\ reg \in [AppThreads -> Blocks \cup {None}]
    /\ idx \in [AppThreads -> 0..MaxChunks]
    /\ swapping \in (Chunks \X Chunks) \cup {None}

\* No fast chunk is ever lost or counted twice: the free ones and the ones in
\* the mru list (or in the hands of handleSample) add up to config.fastChunks.
Accounting == freeFastChunks + Len(mru) + Len(InHand) = FastChunks

\* No chunk stays in slow memory while fast chunks are free.
NoIdleFast == lru # <<>> => freeFastChunks = 0

\* mru holds exactly the chunks marked FAST, lru those marked SLOW, each once;
\* this is what lets dq trust the list a node's loc names.  (While swap() runs,
\* its chunk is in neither list and its victim already in lru.)
ListsMatch ==
    /\ Distinct(mru)
    /\ Distinct(lru)
    /\ \A c \in Chunks :
          /\ InList(mru, c) <=>
                Linked(c) /\ loc[c] = "FAST" /\ (swapping # None => c # swapping[2])
          /\ InList(lru, c) <=>
                \/ Linked(c) /\ loc[c] = "SLOW" /\ (swapping # None => c # swapping[1])
                \/ swapping # None /\ c = swapping[2]

\* handleSample takes mru->prev as its victim without a test: when a slow
\* chunk can be sampled, mru is not empty (with at least one fast chunk).
VictimThere ==
    FastChunks # 0 /\ lruLock = None /\ (\E c \in Chunks : Tracked(c) /\ loc[c] = "SLOW") => mru # <<>>

\* At no moment, not even between the two mbinds of swap(), are more of the
\* chunks in the lists bound to the fast nodes than config.fastChunks allows.
FastBudget ==
    FastChunks # -1 =>
        Cardinality({c \in Chunks : Linked(c) /\ bound[c] = "fast"}) <= FastChunks

\* A chunk marked SLOW is bound to the slow nodes (unless its block is being
\* freed, when unbind has come first).
SlowIsSlow ==
    \A c \in Chunks :
        Linked(c) /\ mem[c[1]] # "freeing" /\ loc[c] = "SLOW" /\ swapping = None => bound[c] = "slow"

\* A chunk marked FAST is not bound to the slow nodes: when FreePromote skips
\* bindFast, the chunk "has been unbound anyway".
FastIsFast ==
    \A c \in Chunks :
        lruLock = None /\ Tracked(c) /\ loc[c] = "FAST" => bound[c] # "slow"

\* SHAMBLES_FAST_MEM_CHUNKS bounds the fast memory the plugin hands out: the
\* memory bound to the fast nodes, freed blocks included.
FastMemory ==
    FastChunks # -1 => Cardinality({c \in Chunks : bound[c] = "fast"}) <= FastChunks

\* Fast memory is used up and never overspent: the four properties above.
FastUse == Accounting /\ NoIdleFast /\ FastBudget /\ SlowIsSlow

\* The lists are what handleSample and allocCallback take them for.
ListUse == ListsMatch /\ VictimThere

\* The policy implements LRU: mru followed by lru is the order of last
\* samples and the fast chunks are its first FastChunks elements.
Recency == INSTANCE RecencyList
              WITH order <- InHand \o mru \o lru,
                   fast  <- {(InHand \o mru)[i] : i \in DOMAIN (InHand \o mru)}
RecencySpec == Recency!Spec

=============================================================================
