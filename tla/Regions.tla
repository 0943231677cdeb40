------------------------------ MODULE Regions ------------------------------
(***************************************************************************)
(* plugins/structures.c: the index from addresses to regions, a tree of    *)
(* reference-counted arrays over slots of REGION_SIZE bytes.  Its callers  *)
(* hold the plugin's lock in addRegion and deleteRegion (one step each     *)
(* here) but not for the getRegion of ALLOC_EVENT_FREE, which is walked    *)
(* array by array.                                                         *)
(*                                                                         *)
(* NULL is address 0, as in the comparisons of getRegion.                  *)
(***************************************************************************)
EXTENDS Integers, FiniteSets

CONSTANTS
    AppThreads,
    Regs,          \* struct ShamblesRegion objects, reused after plugin_free
    None,
    REGION_SIZE,   \* in units of address
    LeafSlots,     \* LEAF_NODES_ARRAY_SIZE
    Fan,           \* NON_LEAF_NODES_ARRAY_SIZE
    Depth,         \* NON_LEAF_NODES_DEPTH
    Space,         \* bound: addresses are below Space
    MaxSize,       \* bound on the size of a block
    AlignedStarts, \* blocks may start on a REGION_SIZE boundary
    MayMove        \* realloc may move a block (the plugins ignore it)

VARIABLES
    region,              \* region[r]: the extent <<start, end>> of an allocated one, or None
    highAddr, highReg,   \* struct RegionNode, per cell of a leaf array
    lowAddr, lowReg,
    refcount,            \* struct NonLeafNode, per node
    present,             \* node's nln or regions pointer is not NULL
    live,                \* the program's blocks of at least the threshold, <<start, end>>
    tpc, mine, level, held, found   \* per thread: an ALLOC_EVENT_FREE in progress

cellVars == <<highAddr, highReg, lowAddr, lowReg>>
treeVars == <<cellVars, refcount, present>>
walkVars == <<tpc, mine, level, held, found>>
vars == <<region, treeVars, live, walkVars>>

Slot(a) == a \div REGION_SIZE

\* The entry for slot s in level d of the tree.  The root index is masked with
\* the NUMBER of relevant bits, which leaves entry 0 for every address.
Node(s, d) == <<d, (s \div (LeafSlots * Fan ^ (Depth - d))) % (Fan ^ d)>>
Path(s) == {Node(s, d) : d \in 0..Depth}
Cell(s) == <<Node(s, Depth), s % LeafSlots>>

Slots == 0 .. Slot(Space - 1)
Nodes == UNION {Path(s) : s \in Slots}
Cells == {Cell(s) : s \in Slots}
Extents == {<<s, s + n>> : s \in REGION_SIZE .. Space, n \in 1 .. MaxSize}

Overlap(x, y) == x[1] < y[2] /\ y[1] < x[2]

-----------------------------------------------------------------------------
(* Where a region [x[1], x[2]) of at least REGION_SIZE is registered.       *)
HeadSlots(x) == IF x[1] % REGION_SIZE # 0 THEN {Slot(x[1])} ELSE {}
\* Defect: the loop stops one slot early.
FullSlots_Short(x) == Slot(x[1]) + 1 .. Slot(x[2]) - 2
FullSlots(x) == Slot(x[1]) + 1 .. Slot(x[2]) - 1
TailSlots(x) == IF x[2] % REGION_SIZE # 0 THEN {Slot(x[2])} ELSE {}
AllSlots(x) == HeadSlots(x) \cup FullSlots(x) \cup TailSlots(x)

\* Defect: only the last registration of an array is counted.
Uses_Once(x, n) == IF \E s \in AllSlots(x) : n \in Path(s) THEN 1 ELSE 0

\* Each slot registered below node n counts once in its refcount.
Uses(x, n) == Cardinality({s \in AllSlots(x) : n \in Path(s)})

\* Defect: the test on lowAddr comes first.
Lookup_LowFirst(a) ==
    LET c == Cell(Slot(a)) IN
    IF a < lowAddr[c] THEN lowReg[c] ELSE highReg[c]

\* The end of getRegion, in the cell of address a.
Lookup(a) ==
    LET c == Cell(Slot(a)) IN
    IF a >= highAddr[c] THEN highReg[c]
    ELSE IF a < lowAddr[c] THEN lowReg[c]
    ELSE None

\* getRegion(a) with nobody else at work, as under the plugin's lock.
getRegion(a) == IF \A n \in Path(Slot(a)) : present[n] THEN Lookup(a) ELSE None

Init ==
    /\ region = [r \in Regs |-> None]
    /\ highAddr = [c \in Cells |-> 0] /\ highReg = [c \in Cells |-> None]
    /\ lowAddr = [c \in Cells |-> 0] /\ lowReg = [c \in Cells |-> None]
    /\ refcount = [n \in Nodes |-> 0]
    /\ present = [n \in Nodes |-> FALSE]
    /\ live = {}
    /\ tpc = [t \in AppThreads |-> "idle"]
    /\ mine = [t \in AppThreads |-> None]
    /\ level = [t \in AppThreads |-> 0]
    /\ held = [t \in AppThreads |-> None]
    /\ found = [t \in AppThreads |-> None]

-----------------------------------------------------------------------------
\* Memory the heap may hand out: blocks are disjoint, and a block stays
\* allocated until its ALLOC_EVENT_FREE has been handled.
Busy == live \cup {mine[t] : t \in {u \in AppThreads : mine[u] # None}}

\* malloc of a block of at least the threshold, reported to addRegion.
addRegion(r, x) ==
    LET high == {Cell(s) : s \in HeadSlots(x) \cup FullSlots(x)}
        low == {Cell(s) : s \in FullSlots(x) \cup TailSlots(x)}
    IN
    /\ region[r] = None
    /\ x[2] - x[1] >= REGION_SIZE /\ x[2] <= Space
    /\ AlignedStarts \/ x[1] % REGION_SIZE # 0
    /\ \A y \in Busy : ~Overlap(x, y)
    /\ region' = [region EXCEPT ![r] = x]
    /\ highAddr' = [c \in Cells |-> IF c \in high THEN x[1] ELSE highAddr[c]]
    /\ highReg' = [c \in Cells |-> IF c \in high THEN r ELSE highReg[c]]
    /\ lowAddr' = [c \in Cells |-> IF c \in low THEN x[2] ELSE lowAddr[c]]
    /\ lowReg' = [c \in Cells |-> IF c \in low THEN r ELSE lowReg[c]]
    /\ refcount' = [n \in Nodes |-> refcount[n] + Uses(x, n)]
    /\ present' = [n \in Nodes |-> present[n] \/ Uses(x, n) > 0]
    /\ live' = live \cup {x}
    /\ UNCHANGED walkVars

\* realloc moves a block out of its region, which stays registered.
Realloc(x) ==
    /\ MayMove
    /\ live' = live \ {x}
    /\ UNCHANGED <<region, treeVars, walkVars>>

\* free of a registered block, or of some small one.
FreeBegin(t, x) ==
    /\ tpc[t] = "idle"
    /\ x \in live \/ (x[2] = x[1] + 1 /\ x[2] <= Space /\ \A y \in Busy : ~Overlap(x, y))
    /\ live' = live \ {x}
    /\ mine' = [mine EXCEPT ![t] = x]
    /\ tpc' = [tpc EXCEPT ![t] = "walk"]
    /\ level' = [level EXCEPT ![t] = 0]
    /\ UNCHANGED <<region, treeVars, held, found>>

\* The handler is done with block mine[t], which goes back to the heap.
Return(t) ==
    /\ tpc' = [tpc EXCEPT ![t] = "idle"]
    /\ mine' = [mine EXCEPT ![t] = None]
    /\ level' = [level EXCEPT ![t] = 0]
    /\ held' = [held EXCEPT ![t] = None]
    /\ found' = [found EXCEPT ![t] = None]

\* One level of getRegion without the lock: the pointer in the entry of this
\* level is read; held is the entry whose array the thread points into.
WalkDown(t) ==
    LET n == Node(Slot(mine[t][1]), level[t]) IN
    /\ tpc[t] = "walk"
    /\ level[t] <= Depth
    /\ IF present[n]
       THEN /\ held' = [held EXCEPT ![t] = n]
            /\ level' = [level EXCEPT ![t] = @ + 1]
            /\ UNCHANGED <<tpc, mine, found>>
       ELSE Return(t)
    /\ UNCHANGED <<region, treeVars, live>>

\* The cell is read.
WalkLeaf(t) ==
    LET r == Lookup(mine[t][1]) IN
    /\ tpc[t] = "walk"
    /\ level[t] = Depth + 1
    /\ IF r # None
       THEN /\ tpc' = [tpc EXCEPT ![t] = "found"]
            /\ found' = [found EXCEPT ![t] = r]
            /\ held' = [held EXCEPT ![t] = None]
            /\ UNCHANGED <<mine, level>>
       ELSE Return(t)
    /\ UNCHANGED <<region, treeVars, live>>

\* Defect: the tail slot is not cleared.
Cleared_NoTail(x) == {Cell(s) : s \in FullSlots(x)}

\* The cells whose low half recursiveDelete clears (flag 2).
Cleared(x) == {Cell(s) : s \in FullSlots(x) \cup TailSlots(x)}

\* Defect: the slot a block starts in is released though an aligned block has
\* no entry there.
Released_First(x, n) == Cardinality({s \in AllSlots(x) \cup {Slot(x[1])} : n \in Path(s)})

\* How often deleteRegion decrements the refcount of n.
Released(x, n) == Uses(x, n)

\* Defect: an array is freed whatever its refcount.
LastUse_Any(x, n) == Uses(x, n) > 0

\* The refcount of n reaches 0 and its array is freed.
LastUse(x, n) == Uses(x, n) > 0 /\ refcount[n] = Uses(x, n)

\* deleteRegion: recursiveDelete for each slot, then the region is freed.  A
\* leaf array that goes away takes its cells with it; a walker that points into
\* a freed array reads garbage next, and what it does then is not modelled.
deleteRegion(t) ==
    LET r == found[t]
        x == region[r]
        high == {Cell(s) : s \in HeadSlots(x) \cup FullSlots(x)}
        freed == {n \in Nodes : LastUse(x, n)}
        torn == {u \in AppThreads : held[u] \in freed}
        gone(c) == c[1] \in freed
    IN
    /\ tpc[t] = "found"
    /\ region' = [region EXCEPT ![r] = None]
    /\ highAddr' = [c \in Cells |-> IF c \in high \/ gone(c) THEN 0 ELSE highAddr[c]]
    /\ highReg' = [c \in Cells |-> IF c \in high \/ gone(c) THEN None ELSE highReg[c]]
    /\ lowAddr' = [c \in Cells |-> IF c \in Cleared(x) \/ gone(c) THEN 0 ELSE lowAddr[c]]
    /\ lowReg' = [c \in Cells |-> IF c \in Cleared(x) \/ gone(c) THEN None ELSE lowReg[c]]
    /\ refcount' = [n \in Nodes |-> refcount[n] - Released(x, n)]
    /\ present' = [n \in Nodes |-> present[n] /\ n \notin freed]
    /\ tpc' = [u \in AppThreads |->
                  IF u = t THEN "idle" ELSE IF u \in torn THEN "garbage" ELSE tpc[u]]
    /\ mine' = [mine EXCEPT ![t] = None]
    /\ level' = [level EXCEPT ![t] = 0]
    /\ found' = [found EXCEPT ![t] = None]
    /\ UNCHANGED <<live, held>>

-----------------------------------------------------------------------------
Next ==
    \/ \E r \in Regs, x \in Extents : addRegion(r, x)
    \/ \E x \in live : Realloc(x)
    \/ \E t \in AppThreads :
          \/ \E x \in Extents : FreeBegin(t, x)
          \/ WalkDown(t) \/ WalkLeaf(t) \/ deleteRegion(t)

Spec == Init /\ [][Next]_vars

-----------------------------------------------------------------------------
(* Properties.                                                             *)

Within(a, x) == x[1] <= a /\ a < x[2]
Addresses == REGION_SIZE .. Space - 1

\* Every variable has its type.
TypeOK ==
    /\ region \in [Regs -> Extents \cup {None}]
    /\ highAddr \in [Cells -> 0..Space] /\ lowAddr \in [Cells -> 0..Space]
    /\ highReg \in [Cells -> Regs \cup {None}] /\ lowReg \in [Cells -> Regs \cup {None}]
    /\ refcount \in [Nodes -> Nat]
    /\ present \in [Nodes -> BOOLEAN]
    /\ live \subseteq Extents
    /\ tpc \in [AppThreads -> {"idle", "walk", "found", "garbage"}]
    /\ mine \in [AppThreads -> Extents \cup {None}]
    /\ level \in [AppThreads -> 0 .. Depth + 1]
    /\ held \in [AppThreads -> Nodes \cup {None}]
    /\ found \in [AppThreads -> Regs \cup {None}]

\* The index never points to a region that was freed: deleteRegion clears all
\* that addRegion wrote, also where stale regions overlap newer ones.
NoDangling ==
    \A c \in Cells :
        /\ highReg[c] # None => region[highReg[c]] # None
        /\ lowReg[c] # None => region[lowReg[c]] # None

\* The slots of all regions that are registered below node n.
Registered(n) ==
    {p \in Regs \X Slots :
        region[p[1]] # None /\ p[2] \in AllSlots(region[p[1]]) /\ n \in Path(p[2])}

\* A refcount is the number of slots registered below its node, and an array
\* exists exactly as long as there are some.
RefcountExact ==
    \A n \in Nodes :
        /\ refcount[n] = Cardinality(Registered(n))
        /\ present[n] <=> refcount[n] > 0

\* getRegion returns a region only for the addresses inside it.
FindsOwner ==
    \A a \in Addresses : getRegion(a) # None => Within(a, region[getRegion(a)])

\* getRegion finds every address of a region except those in its tail slot.
BodyFound ==
    \A r \in Regs : region[r] # None =>
        \A a \in region[r][1] .. region[r][2] - 1 :
            Slot(a) \notin TailSlots(region[r]) => getRegion(a) = r

\* A free deletes the region of the block that is freed and no other,
\* although getRegion ran without the lock.
FreeExact == \A t \in AppThreads : tpc[t] = "found" => region[found[t]] = mine[t]

\* The unlocked walk for a registered block never meets a freed array: the
\* block's own registrations hold its path.  (That of a small block may.)
OwnWalkSafe ==
    \A t \in AppThreads : tpc[t] = "garbage" => mine[t][2] - mine[t][1] < REGION_SIZE

\* All of it for the state: the counts, the pointers, and what a free relies on.
IndexExact == RefcountExact /\ NoDangling /\ FreeExact /\ OwnWalkSafe

\* All of it for the answers of getRegion.
IndexFinds == FindsOwner /\ BodyFound

\* "Allocations of this size (in bytes) and above, are handled by SHAMBLES":
\* the index knows the region of such a block by its start address.
Handled == \A x \in live : \E r \in Regs : getRegion(x[1]) = r /\ region[r] = x

=============================================================================
