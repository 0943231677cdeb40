------------------------------- MODULE Window ------------------------------
(***************************************************************************)
(* plugins/window.c: chunks are ordered by how many of the last windowSize *)
(* samples hit them.  fastList followed by slowList is meant to be that    *)
(* order, and tails[k] the last chunk with k hits.  Every handler runs     *)
(* under winLock from beginning to end and is one step.                    *)
(*                                                                         *)
(* The lists are circular and doubly linked, as in the code: their order   *)
(* is what the pointer operations make of it.  A chunk stands for its      *)
(* struct List too.                                                        *)
(***************************************************************************)
EXTENDS Integers, Sequences, SequencesExt, FiniteSets

CONSTANTS
    None,
    Blocks,        \* memory blocks the program may allocate
    BlockSizes,    \* the sizes a block may have, in chunks
    FastChunks,    \* config.fastChunks
    windowSize,
    WholeBlocks,   \* chunkSize is (size_t)-1: a block is one chunk, BlockSizes = {1}
    Follows,       \* pairs <<b, d>>: d starts at the end of b's last, whole chunk
    MayFree

VARIABLES
    q,            \* the lists: a record, see ListType
    samples,      \* the ring of sampled chunks
    currentLoc,
    freeFastChunks,
    nChunks,      \* nChunks[b]: chunks of the region of block b, 0: none registered
    crashed       \* "no", or why the process died

vars == <<q, samples, currentLoc, freeFastChunks, nChunks, crashed>>

Chunks == Blocks \X (0 .. Max(BlockSizes) - 1)
Tracked(c) == c[2] < nChunks[c[1]]

ListType ==
    [fastList : Chunks \cup {None}, slowList : Chunks \cup {None},
     next : [Chunks -> Chunks], prev : [Chunks -> Chunks],
     loc : [Chunks -> {"FAST", "SLOW"}], count : [Chunks -> Int],
     tails : [0 .. windowSize -> Chunks \cup {None}],
     fault : {"no", "null", "slack"}]

-----------------------------------------------------------------------------
(* The list operations.  A NULL pointer that is followed is recorded in    *)
(* fault.                                                                  *)
Fault(s, why) == [s EXCEPT !.fault = why]

Unlink(s, n) == [s EXCEPT !.next[s.prev[n]] = s.next[n], !.prev[s.next[n]] = s.prev[n]]

insert(s, n, after) ==
    IF after = None THEN Fault(s, "null")
    ELSE [s EXCEPT !.prev[n] = after, !.next[n] = s.next[after],
                   !.prev[s.next[after]] = n, !.next[after] = n]

move(s, n, after) ==
    IF after = None THEN Fault(s, "null")
    ELSE IF n = after THEN s ELSE insert(Unlink(s, n), n, after)

\* Defect: the head is not moved on.
dq_KeepsHead(s, list, n) ==
    IF s[list] = n /\ s.next[n] = n THEN [s EXCEPT ![list] = None] ELSE Unlink(s, n)
dq(s, list, n) ==
    IF s[list] # n THEN Unlink(s, n)
    ELSE IF s.next[n] = n THEN [s EXCEPT ![list] = None]
    ELSE [Unlink(s, n) EXCEPT ![list] = s.next[n]]

enq(s, list, n) ==
    LET head == s[list] IN
    IF head = None THEN [s EXCEPT ![list] = n, !.prev[n] = n, !.next[n] = n]
    ELSE [s EXCEPT !.next[n] = head, !.prev[n] = s.prev[head],
                   !.next[s.prev[head]] = n, !.prev[head] = n]

push(s, list, n) == [enq(s, list, n) EXCEPT ![list] = n]

SetTail(s, k, n) == [s EXCEPT !.tails[k] = n]
SetLoc(s, n, l) == [s EXCEPT !.loc[n] = l]

\* dq of a node that may be the head of its list, and insert behind another.
Relink(s, n, after) ==
    IF n = s.slowList THEN insert(dq(s, "slowList", n), n, after)
    ELSE IF n = s.fastList THEN insert(dq(s, "fastList", n), n, after)
    ELSE move(s, n, after)

FastLast(s) == s.prev[s.fastList]

-----------------------------------------------------------------------------
(* handleSample, first half: the chunk n that leaves the window.           *)

\* n, the tail of its count, drops out of it.
LeaveTail(s, n) ==
    LET k == s.count[n] IN
    IF s.prev[n] # n /\ s.count[s.prev[n]] = k THEN SetTail(s, k, s.prev[n])
    ELSE IF s.loc[n] = "FAST" THEN SetTail(s, k, None)
    ELSE IF s.fastList = None THEN Fault(s, "null")
    ELSE SetTail(s, k, IF s.count[FastLast(s)] = k THEN FastLast(s) ELSE None)

DemoteStay(s, n) ==
    LET k == s.count[n]
        tail == s.tails[k]
        s1 == IF n = tail THEN LeaveTail(s, n) ELSE s
        s2 == IF s.tails[k - 1] # None THEN Relink(s1, n, s.tails[k - 1])
              ELSE IF n = tail THEN s1
              ELSE Relink(s1, n, tail)
    IN  SetTail(s2, k - 1, n)

\* Migration: n changes places with the head of slowList.
DemoteSwap(s, n) ==
    LET k == s.count[n]
        tmp == s.slowList
        s1 == SetLoc(enq(dq(s, "slowList", tmp), "fastList", tmp), tmp, "FAST")
        s2 == SetLoc(dq(s1, "fastList", n), n, "SLOW")
        s3 == IF s2.tails[k] # n THEN s2
              ELSE SetTail(s2, k, IF s2.count[s2.prev[n]] = k THEN s2.prev[n] ELSE None)
        after == IF s3.tails[k - 1] = None THEN s3.tails[k] ELSE s3.tails[k - 1]
        s4 == IF after = None THEN Fault(s3, "null")
              ELSE IF s3.loc[after] = "SLOW" THEN insert(s3, n, after)
              ELSE push(s3, "slowList", n)
    IN  SetTail(s4, k - 1, n)

\* No chunk has to take n's place.
Keeps(s, n) == s.loc[n] = "SLOW" \/ s.slowList = None \/ s.count[s.slowList] < s.count[n] - 1

\* Defect: the hit that left the window is still counted.
Uncount_Skipped(s, n) == s
Uncount(s, n) == [s EXCEPT !.count[n] = @ - 1]

Demote(s, n) == Uncount(IF Keeps(s, n) THEN DemoteStay(s, n) ELSE DemoteSwap(s, n), n)

(* Second half: the sampled chunk n.                                       *)

\* tails[i] for the first i >= from with a tail, or tails[windowSize].  Beyond
\* windowSize the read leaves the array: NULL, or what is there (wild).
TailAbove(s, from, wild) ==
    LET up == {i \in from .. windowSize : s.tails[i] # None} IN
    IF up # {} THEN [tail |-> s.tails[CHOOSE i \in up : \A j \in up : i <= j], bad |-> FALSE]
    ELSE [tail |-> None, bad |-> from > windowSize /\ wild]

\* The tail of n's count when n goes up.
\* Defect: n was taken for the only one with its count.
TailBelow_None(s, n, single) == None
TailBelow(s, n, single) ==
    IF single /\ s.prev[n] = n THEN None
    ELSE IF s.count[s.prev[n]] = s.count[n] THEN s.prev[n]
    ELSE None

PromoteStay(s, n, wild) ==
    LET k == s.count[n]
        first == s.tails[k + 1] = None
        s1 == IF n = s.tails[k] THEN SetTail(s, k, TailBelow(s, n, first)) ELSE s
        above == IF first THEN TailAbove(s1, k + 2, wild)
                 ELSE [tail |-> s1.tails[k + 1], bad |-> FALSE]
        s2 == IF above.bad THEN Fault(s1, "slack")
              ELSE IF above.tail = None THEN push(dq(s1, "fastList", n), "fastList", n)
              ELSE IF s1.loc[above.tail] = s1.loc[n] THEN move(s1, n, above.tail)
              ELSE push(dq(s1, "slowList", n), "slowList", n)
    IN  SetTail(s2, k + 1, n)

\* Migration: n changes places with the last of fastList.
PromoteSwap(s, n) ==
    LET k == s.count[n]
        tmp == FastLast(s)
        s1 == SetLoc(push(dq(s, "fastList", tmp), "slowList", tmp), tmp, "SLOW")
        s2 == SetLoc(dq(s1, "slowList", n), n, "FAST")
        s3 == IF s2.tails[k] = n THEN SetTail(s2, k, TailBelow(s2, n, FALSE)) ELSE s2
        above == TailAbove(s3, k + 1, FALSE).tail
        s4 == IF above # None THEN insert(s3, n, above) ELSE push(s3, "fastList", n)
    IN  SetTail(s4, k + 1, n)

\* Defect: a slow chunk with as many hits as a fast one does not replace it.
Outranked_OrEqual(s, n) == s.loc[n] = "FAST" \/ s.count[FastLast(s)] >= s.count[n]
Outranked(s, n) == s.loc[n] = "FAST" \/ s.count[FastLast(s)] > s.count[n]

Count(s, n) == [s EXCEPT !.count[n] = @ + 1]

Promote(s, n, wild) ==
    IF s.loc[n] = "SLOW" /\ s.fastList = None THEN Fault(s, "null")
    ELSE Count(IF Outranked(s, n) THEN PromoteStay(s, n, wild) ELSE PromoteSwap(s, n), n)

-----------------------------------------------------------------------------
Init ==
    /\ q = [fastList |-> None, slowList |-> None,
            next |-> [c \in Chunks |-> c], prev |-> [c \in Chunks |-> c],
            loc |-> [c \in Chunks |-> "SLOW"], count |-> [c \in Chunks |-> 0],
            tails |-> [k \in 0 .. windowSize |-> None], fault |-> "no"]
    /\ samples = [i \in 0 .. windowSize - 1 |-> None]
    /\ currentLoc = 0
    /\ freeFastChunks = FastChunks
    /\ nChunks = [b \in Blocks |-> 0]
    /\ crashed = "no"

\* The lists or tails lead into freed memory: what the code does from here on
\* is not modelled.
Corrupt ==
    LET used == {c \in Chunks : Tracked(c)}
        seen == {q.fastList, q.slowList} \cup {q.tails[k] : k \in 0 .. windowSize}
                \cup {q.next[c] : c \in used} \cup {q.prev[c] : c \in used}
    IN  ~(seen \subseteq used \cup {None})

ChunksOf(b, n) == [i \in 1..n |-> <<b, i - 1>>]

\* Defect: the fast chunks given to a block stay free.
Spend_Nothing(n) == freeFastChunks
Spend(n) == freeFastChunks - n

\* ALLOC_EVENT_ALLOC: as many chunks as fit go to fast memory.
Alloc(b) ==
    \E n \in BlockSizes :
        LET fast == IF n <= freeFastChunks THEN n ELSE freeFastChunks
            Place(s, c) ==
                LET l == IF c[2] < fast THEN "FAST" ELSE "SLOW"
                    list == IF l = "FAST" THEN "fastList" ELSE "slowList"
                IN  [SetLoc(enq(s, list, c), c, l) EXCEPT !.count[c] = 0]
        IN
        /\ ~Corrupt /\ crashed = "no"
        /\ nChunks[b] = 0
        /\ nChunks' = [nChunks EXCEPT ![b] = n]
        /\ q' = SetTail(FoldLeft(Place, q, ChunksOf(b, n)), 0, <<b, n - 1>>)
        /\ freeFastChunks' = Spend(fast)
        /\ UNCHANGED <<samples, currentLoc, crashed>>

\* The samples whose chunk starts in [start, start + chunkSize * nChunks].  With
\* chunkSize = (size_t)-1 the upper end is start - 1 and there are none.
InRegion(c, b) == ~WholeBlocks /\ (c[1] = b \/ (<<b, c[1]>> \in Follows /\ c[2] = 0))

\* Defect: samples of the region stay in the window.
Forget_Skipped(b) == samples
Forget(b) == [i \in DOMAIN samples |->
                IF samples[i] # None /\ InRegion(samples[i], b) THEN None ELSE samples[i]]

\* ALLOC_EVENT_FREE.  "if(nodes[i].loc = SLOW)" assigns: every node is taken for
\* a slow one and its fast chunk is not given back.
Free(b) ==
    LET Drop(s, c) ==
            LET s1 == dq(SetLoc(s, c, "SLOW"), "slowList", c)
                k == s1.count[c]
            IN  IF s1.tails[k] # c THEN s1
                ELSE SetTail(s1, k, IF s1.count[s1.prev[c]] = k THEN s1.prev[c] ELSE None)
        Gone(s, c) == [s EXCEPT !.next[c] = c, !.prev[c] = c, !.count[c] = 0]
        cs == ChunksOf(b, nChunks[b])
    IN
    /\ MayFree
    /\ ~Corrupt /\ crashed = "no"
    /\ nChunks[b] > 0
    /\ q' = FoldLeft(Gone, FoldLeft(Drop, q, cs), cs)
    /\ samples' = Forget(b)
    /\ nChunks' = [nChunks EXCEPT ![b] = 0]
    /\ UNCHANGED <<currentLoc, freeFastChunks, crashed>>

\* Defect: the ring does not wrap around.
Advance_NoWrap == currentLoc' = currentLoc + 1
Advance == currentLoc' = (currentLoc + 1) % windowSize

\* The chunk leaving the window is the sampled one.
SampleSame(c) ==
    /\ ~Corrupt /\ crashed = "no"
    /\ Tracked(c)
    /\ samples[currentLoc] = c
    /\ Advance
    /\ UNCHANGED <<q, samples, freeFastChunks, nChunks, crashed>>

\* "if(node->count <= 0)" kills the process; so does a fault.
SampleOther(c) ==
    LET old == samples[currentLoc] IN
    /\ ~Corrupt /\ crashed = "no"
    /\ Tracked(c)
    /\ old # c
    /\ IF old # None /\ ~Tracked(old)
       THEN crashed' = "stale" /\ UNCHANGED <<q, samples, currentLoc>>
       ELSE IF old # None /\ q.count[old] <= 0
       THEN crashed' = "assert" /\ UNCHANGED <<q, samples, currentLoc>>
       ELSE \E wild \in BOOLEAN :
            LET s0 == IF old = None THEN q ELSE Demote(q, old)
                s == IF s0.fault = "no" THEN Promote(s0, c, wild) ELSE s0
            IN
            /\ crashed' = s.fault
            /\ q' = s
            /\ samples' = [samples EXCEPT ![currentLoc] = c]
            /\ Advance
    /\ UNCHANGED <<freeFastChunks, nChunks>>

Next ==
    \/ \E b \in Blocks : Alloc(b) \/ Free(b)
    \/ \E c \in Chunks : SampleSame(c) \/ SampleOther(c)

Spec == Init /\ [][Next]_vars

-----------------------------------------------------------------------------
(* Properties.                                                             *)

Hits(c) == Cardinality({i \in DOMAIN samples : samples[i] = c})
AllTracked == {c \in Chunks : Tracked(c)}
Marked(l) == {c \in AllTracked : q.loc[c] = l}
Reach(list) ==
    LET R[k \in Nat] ==
            IF k = 0 THEN {q[list]} \ {None}
            ELSE R[k - 1] \cup {q.next[c] : c \in R[k - 1]}
    IN  R[Cardinality(Chunks)]

\* Every variable has its type; currentLoc in particular indexes samples.
TypeOK ==
    /\ q \in ListType
    /\ samples \in [0 .. windowSize - 1 -> Chunks \cup {None}]
    /\ currentLoc \in 0 .. windowSize - 1
    /\ freeFastChunks \in 0 .. FastChunks
    /\ nChunks \in [Blocks -> BlockSizes \cup {0}]
    /\ crashed \in {"no", "null", "slack", "assert", "stale"}

\* The count that handleSample moves up and down is, for every chunk, the
\* number of its samples in the window.
CountsMatch == crashed = "no" => \A c \in AllTracked : q.count[c] = Hits(c)

\* No fast chunk is lost or given out twice: the free ones and the chunks
\* marked FAST add up to config.fastChunks, however often chunks swapped.
Accounting == freeFastChunks + Cardinality(Marked("FAST")) = FastChunks

\* Following next from the head of a list meets exactly the chunks with its
\* mark: no migration, dq, insert or push loses a chunk or leaves it in the
\* other list.
ListsMatch ==
    crashed = "no" => Reach("fastList") = Marked("FAST") /\ Reach("slowList") = Marked("SLOW")

\* What the two migrations of handleSample are for: no slow chunk has more
\* samples in the window than a fast one.
Policy ==
    crashed = "no" =>
        \A c \in Marked("FAST"), d \in Marked("SLOW") : q.count[d] <= q.count[c]

\* tails[k], behind which handleSample inserts, has k samples; it is NULL only
\* if no chunk has k samples.
TailsMatch ==
    crashed = "no" => \A k \in DOMAIN q.tails :
        IF q.tails[k] = None THEN \A c \in AllTracked : q.count[c] # k
        ELSE q.count[q.tails[k]] = k

\* handleSample follows no NULL tail and no NULL list.
NoNull == crashed # "null"

\* ALLOC_EVENT_FREE leaves no sample of the freed region in the window, whose
\* privData handleSample would read.
SamplesLive == \A i \in DOMAIN samples : samples[i] = None \/ Tracked(samples[i])

\* The check "node->count <= 0" of handleSample never fires: a chunk that
\* leaves the window has been counted.
AssertHolds == crashed # "assert"
=============================================================================
