---------------------------- MODULE RegionsIndex ----------------------------
(***************************************************************************)
(* Proofs about Regions, for any threads, regions and tree, where blocks   *)
(* start inside a slot and are not moved.                                  *)
(*                                                                         *)
(* The inductive invariant: blocks are disjoint and the large ones have    *)
(* exactly one region each (BlockInv, RegionInv); a cell names the region  *)
(* that covers the end, or the start, of its slot (HighInv, LowInv); the   *)
(* refcounts count registrations; and a thread in the unlocked walk        *)
(* points into the path of its own block (WalkInv).  The last needs the    *)
(* others: the array it points into is not freed because its block's own   *)
(* slots are counted in the refcount.                                      *)
(***************************************************************************)
EXTENDS Regions, FiniteSetTheorems, TLAPS

\* The program's addresses fit in the tree, that is, no two of its slots share a
\* cell: the span of the leaf slots (2^39 bytes in the code, ADDR_RELEVANT_BITS)
\* is at least Space.  Blocks start inside a slot and are not moved.
Layout ==
    /\ IsFiniteSet(Regs)
    /\ None \notin Regs /\ None \notin Extents /\ None \notin Nodes
    /\ REGION_SIZE \in Nat /\ REGION_SIZE > 1
    /\ Depth \in Nat /\ Space \in Nat \ {0} /\ MaxSize \in Nat
    /\ \A s, u \in Slots : Cell(s) = Cell(u) => s = u
    /\ ~AlignedStarts /\ ~MayMove

HighSlots(x) == HeadSlots(x) \cup FullSlots(x)
LowSlots(x) == FullSlots(x) \cup TailSlots(x)

\* A block the plugin handles, and one below the threshold.
Big(x) == x[2] - x[1] >= REGION_SIZE /\ x[1] % REGION_SIZE # 0
Small(x) == x[2] = x[1] + 1

\* The heap's blocks, in use or in the handler of free, do not overlap.
BlockInv ==
    /\ \A x \in live : x[2] <= Space /\ Big(x)
    /\ \A x, y \in live : Overlap(x, y) => x = y
    /\ \A t \in AppThreads : mine[t] # None =>
          /\ mine[t][2] <= Space /\ (Big(mine[t]) \/ Small(mine[t]))
          /\ \A y \in live : ~Overlap(mine[t], y)
    /\ \A t, u \in AppThreads :
          mine[t] # None /\ mine[u] # None /\ Overlap(mine[t], mine[u]) => t = u

\* Exactly the large ones have a region, and only one.
RegionInv ==
    /\ \A r \in Regs : region[r] # None => region[r] \in Busy /\ Big(region[r])
    /\ \A q, r \in Regs : region[q] # None /\ region[q] = region[r] => q = r
    /\ \A y \in Busy : Big(y) => \E r \in Regs : region[r] = y

\* The two halves of a cell.
HighInv ==
    \A s \in Slots :
        /\ highReg[Cell(s)] = None => highAddr[Cell(s)] = 0
        /\ highReg[Cell(s)] # None =>
              /\ region[highReg[Cell(s)]] # None
              /\ s \in HighSlots(region[highReg[Cell(s)]])
              /\ highAddr[Cell(s)] = region[highReg[Cell(s)]][1]
        /\ \A r \in Regs : region[r] # None /\ s \in HighSlots(region[r]) => highReg[Cell(s)] = r
LowInv ==
    \A s \in Slots :
        /\ lowReg[Cell(s)] = None => lowAddr[Cell(s)] = 0
        /\ lowReg[Cell(s)] # None =>
              /\ region[lowReg[Cell(s)]] # None
              /\ s \in LowSlots(region[lowReg[Cell(s)]])
              /\ lowAddr[Cell(s)] = region[lowReg[Cell(s)]][2]
        /\ \A r \in Regs : region[r] # None /\ s \in LowSlots(region[r]) => lowReg[Cell(s)] = r

\* A walk holds the entry above its level on the path of its block.
Walk(t) ==
    /\ tpc[t] = "idle" <=> mine[t] = None
    /\ tpc[t] \in {"idle", "found"} => held[t] = None
    /\ tpc[t] = "walk" =>
          IF level[t] = 0 THEN held[t] = None
          ELSE held[t] = Node(Slot(mine[t][1]), level[t] - 1)
    /\ tpc[t] = "found" => found[t] \in Regs /\ region[found[t]] = mine[t]
    /\ tpc[t] = "garbage" => Small(mine[t])
WalkInv == \A t \in AppThreads : Walk(t)

IInv == TypeOK /\ BlockInv /\ RegionInv /\ HighInv /\ LowInv /\ RefcountExact /\ WalkInv

-----------------------------------------------------------------------------
(* Slots and cells.                                                        *)

\* A slot is REGION_SIZE bytes: where it starts and ends, for an address in it,
LEMMA SlotRange ==
  ASSUME NEW R \in Nat \ {0}, NEW a \in Nat
  PROVE  /\ a \div R \in Nat
         /\ R * (a \div R) \in Nat
         /\ R * (a \div R) <= a /\ a < R * (a \div R) + R
         /\ a % R # 0 <=> R * (a \div R) < a
  OBVIOUS

\* for a block that has the whole slot but perhaps its start,
LEMMA HighRange ==
  ASSUME NEW R \in Nat \ {0}, NEW a \in Nat, NEW b \in Nat, NEW s \in Nat,
         a \div R <= s, s < b \div R
  PROVE  a < R * s + R /\ R * s + R <= b
  OBVIOUS

\* for one that has the whole slot but perhaps its end,
LEMMA LowRange ==
  ASSUME NEW R \in Nat \ {0}, NEW a \in Nat, NEW b \in Nat, NEW s \in Nat,
         a \div R < s, s < b \div R \/ (s = b \div R /\ b % R # 0)
  PROVE  a <= R * s /\ R * s < b
  OBVIOUS

\* and for one of at least REGION_SIZE bytes, which reaches into the next slot.
LEMMA NextSlot ==
  ASSUME NEW R \in Nat \ {0}, NEW a \in Nat, NEW b \in Nat, b - a >= R
  PROVE  a \div R < b \div R
  OBVIOUS

\* Below an address there are the slots up to its predecessor's.
LEMMA SlotBelow ==
  ASSUME NEW R \in Nat \ {0}, NEW a \in Nat \ {0}, NEW s \in Nat, R * s < a
  PROVE  s <= (a - 1) \div R
  OBVIOUS

\* An address of a block is in a slot between those of its two ends.
LEMMA SlotOrder ==
  ASSUME NEW R \in Nat \ {0}, NEW a \in Nat, NEW b \in Nat, NEW c \in Nat, a <= c, c < b
  PROVE  /\ c \div R \in Nat
         /\ a \div R <= c \div R /\ c \div R <= b \div R
         /\ c \div R = b \div R => b % R # 0
  OBVIOUS

\* Levels count from 0 to Depth.
LEMMA LevelAbove ==
  ASSUME NEW d \in Nat, NEW n \in 1 .. d + 1
  PROVE  n - 1 \in 0 .. d
  OBVIOUS

\* Where a large block is registered, as intervals of slots.
LEMMA SlotsOf ==
  ASSUME Layout, NEW x \in Extents, Big(x), x[2] <= Space
  PROVE  /\ x[1] \in Nat /\ x[2] \in Nat /\ x[1] < x[2]
         /\ Slot(x[1]) \in Nat /\ Slot(x[2]) \in Nat /\ Slot(x[1]) < Slot(x[2])
         /\ HighSlots(x) = Slot(x[1]) .. Slot(x[2]) - 1
         /\ LowSlots(x) = (Slot(x[1]) + 1 .. Slot(x[2]) - 1) \cup TailSlots(x)
         /\ AllSlots(x) = HighSlots(x) \cup LowSlots(x)
  <1>1. x[1] \in Nat /\ x[2] \in Nat /\ x[1] < x[2] /\ REGION_SIZE \in Nat \ {0}
    BY DEF Extents, Layout
  <1> DEFINE j == Slot(x[1])
             k == Slot(x[2])
  <1>2. j \in Nat /\ k \in Nat
    BY <1>1, SlotRange DEF Slot
  <1>3. j < k
    BY <1>1, NextSlot DEF Slot, Big
  <1>4. HeadSlots(x) = {j}
    BY DEF HeadSlots, Big
  <1>5. FullSlots(x) = j + 1 .. k - 1
    BY DEF FullSlots
  <1>6. HighSlots(x) = j .. k - 1
    <2> HIDE DEF j, k
    <2> QED
      BY <1>2, <1>3, <1>4, <1>5 DEF HighSlots
  <1>7. AllSlots(x) = HighSlots(x) \cup LowSlots(x)
    BY DEF AllSlots, HighSlots, LowSlots
  <1>8. QED
    BY <1>1, <1>2, <1>3, <1>5, <1>6, <1>7 DEF LowSlots

\* A block is in the high half of the slots whose last byte it has, and in the
\* low half of those whose first byte it has.
LEMMA Covers ==
  ASSUME Layout, NEW x \in Extents, Big(x), x[2] <= Space, NEW s
  PROVE  /\ s \in HighSlots(x) =>
               /\ s \in Nat /\ REGION_SIZE * s \in Nat
               /\ x[1] < REGION_SIZE * s + REGION_SIZE /\ REGION_SIZE * s + REGION_SIZE <= x[2]
         /\ s \in LowSlots(x) =>
               /\ s \in Nat /\ REGION_SIZE * s \in Nat
               /\ x[1] <= REGION_SIZE * s /\ REGION_SIZE * s < x[2]
  <1> DEFINE j == Slot(x[1])
             k == Slot(x[2])
  <1>1. /\ x[1] \in Nat /\ x[2] \in Nat /\ j \in Nat /\ k \in Nat /\ j < k
        /\ HighSlots(x) = j .. k - 1
        /\ LowSlots(x) = (j + 1 .. k - 1) \cup TailSlots(x)
    BY SlotsOf
  <1>2. REGION_SIZE \in Nat \ {0}
    BY DEF Layout
  <1>3. ASSUME s \in HighSlots(x)
        PROVE  /\ s \in Nat /\ REGION_SIZE * s \in Nat
               /\ x[1] < REGION_SIZE * s + REGION_SIZE /\ REGION_SIZE * s + REGION_SIZE <= x[2]
    <2>1. s \in Nat /\ j <= s /\ s < k
      <3> HIDE DEF j, k
      <3> QED
        BY <1>1, <1>3
    <2>2. REGION_SIZE * s \in Nat
      BY <1>2, <2>1
    <2>3. QED
      BY <1>1, <1>2, <2>1, <2>2, HighRange DEF Slot
  <1>4. ASSUME s \in LowSlots(x)
        PROVE  /\ s \in Nat /\ REGION_SIZE * s \in Nat
               /\ x[1] <= REGION_SIZE * s /\ REGION_SIZE * s < x[2]
    <2>1. s \in TailSlots(x) => s = k /\ x[2] % REGION_SIZE # 0
      BY DEF TailSlots
    <2>2. s \in Nat /\ j < s /\ (s < k \/ (s = k /\ x[2] % REGION_SIZE # 0))
      <3> HIDE DEF j, k
      <3> QED
        BY <1>1, <1>4, <2>1
    <2>3. REGION_SIZE * s \in Nat
      BY <1>2, <2>2
    <2>4. QED
      BY <1>1, <1>2, <2>2, <2>3, LowRange DEF Slot
  <1>5. QED
    BY <1>3, <1>4

\* All those are slots of the tree.
LEMMA InTree ==
  ASSUME Layout, NEW x \in Extents, Big(x), x[2] <= Space
  PROVE  AllSlots(x) \subseteq Slots
  <1> SUFFICES ASSUME NEW s \in AllSlots(x) PROVE s \in Slots
    OBVIOUS
  <1>1. s \in HighSlots(x) \/ s \in LowSlots(x)
    BY SlotsOf
  <1>2. x[2] \in Nat /\ REGION_SIZE \in Nat \ {0} /\ Space \in Nat \ {0}
    BY SlotsOf DEF Layout
  <1>3. s \in Nat /\ REGION_SIZE * s \in Nat /\ REGION_SIZE * s < x[2]
    BY <1>1, <1>2, Covers
  <1>4. s <= Slot(Space - 1)
    BY <1>2, <1>3, SlotBelow DEF Slot
  <1>5. Slot(Space - 1) \in Nat
    BY <1>2, SlotRange DEF Slot
  <1>6. QED
    BY <1>3, <1>4, <1>5 DEF Slots

-----------------------------------------------------------------------------
(* Blocks and regions.                                                     *)

\* Two blocks of the heap that overlap are one.
LEMMA BusyOnce ==
  ASSUME BlockInv, NEW x \in Busy, NEW y \in Busy, Overlap(x, y)
  PROVE  x = y
  <1>1. Overlap(y, x)
    BY DEF Overlap
  <1>2. CASE x \in live
    BY <1>1, <1>2 DEF Busy, BlockInv
  <1>3. CASE x \notin live
    <2> PICK t \in AppThreads : mine[t] # None /\ x = mine[t]
      BY <1>3 DEF Busy
    <2>1. y \notin live
      BY DEF BlockInv
    <2>2. PICK u \in AppThreads : mine[u] # None /\ y = mine[u]
      BY <2>1 DEF Busy
    <2>3. QED
      BY <2>2 DEF BlockInv
  <1>4. QED
    BY <1>2, <1>3

\* The blocks of the heap are extents inside the address space.
LEMMA BusyType ==
  ASSUME TypeOK, BlockInv, NEW x \in Busy
  PROVE  x \in Extents /\ x[2] <= Space
  <1>1. CASE x \in live
    BY <1>1 DEF TypeOK, BlockInv
  <1>2. CASE x \notin live
    <2> PICK t \in AppThreads : mine[t] # None /\ x = mine[t]
      BY <1>2 DEF Busy
    <2> QED
      BY DEF TypeOK, BlockInv
  <1>3. QED
    BY <1>1, <1>2

\* The extent of a region is a large block, which is in use.
LEMMA RegionType ==
  ASSUME TypeOK, BlockInv, RegionInv, NEW r \in Regs, region[r] # None
  PROVE  region[r] \in Busy /\ region[r] \in Extents /\ Big(region[r]) /\ region[r][2] <= Space
  BY BusyType DEF RegionInv

\* Large blocks in the same half of a cell have a byte in common,
LEMMA HighMeets ==
  ASSUME Layout, NEW x \in Extents, Big(x), x[2] <= Space, NEW y \in Extents, Big(y), y[2] <= Space,
         NEW s, s \in HighSlots(x), s \in HighSlots(y)
  PROVE  Overlap(x, y)
  <1>1. x[1] \in Nat /\ x[2] \in Nat /\ y[1] \in Nat /\ y[2] \in Nat
    BY SlotsOf
  <1> DEFINE e == REGION_SIZE * s + REGION_SIZE
  <1>2. REGION_SIZE * s \in Nat /\ x[1] < e /\ e <= x[2] /\ y[1] < e /\ e <= y[2]
    BY Covers
  <1>3. e \in Nat
    BY <1>2 DEF Layout
  <1> HIDE DEF e
  <1>4. QED
    BY <1>1, <1>2, <1>3 DEF Overlap

\* Two blocks with the first byte of the same slot overlap.
LEMMA LowMeets ==
  ASSUME Layout, NEW x \in Extents, Big(x), x[2] <= Space, NEW y \in Extents, Big(y), y[2] <= Space,
         NEW s, s \in LowSlots(x), s \in LowSlots(y)
  PROVE  Overlap(x, y)
  <1>1. x[1] \in Nat /\ x[2] \in Nat /\ y[1] \in Nat /\ y[2] \in Nat
    BY SlotsOf
  <1> DEFINE e == REGION_SIZE * s
  <1>2. e \in Nat /\ x[1] <= e /\ e < x[2] /\ y[1] <= e /\ e < y[2]
    BY Covers
  <1> HIDE DEF e
  <1>3. QED
    BY <1>1, <1>2 DEF Overlap

\* so a half of a cell belongs to one region.
LEMMA CellOnce ==
  ASSUME Layout, TypeOK, BlockInv, RegionInv, NEW q \in Regs, NEW r \in Regs, NEW s,
         region[q] # None, region[r] # None,
         \/ s \in HighSlots(region[q]) /\ s \in HighSlots(region[r])
         \/ s \in LowSlots(region[q]) /\ s \in LowSlots(region[r])
  PROVE  q = r
  <1>1. /\ region[q] \in Busy /\ region[q] \in Extents /\ Big(region[q]) /\ region[q][2] <= Space
        /\ region[r] \in Busy /\ region[r] \in Extents /\ Big(region[r]) /\ region[r][2] <= Space
    BY RegionType
  <1>2. Overlap(region[q], region[r])
    BY <1>1, HighMeets, LowMeets
  <1>3. region[q] = region[r]
    BY <1>1, <1>2, BusyOnce
  <1>4. QED
    BY <1>3 DEF RegionInv

\* The cells written for some slots of the tree are the cells of those slots.
LEMMA CellsOf ==
  ASSUME Layout, NEW s \in Slots, NEW S, S \subseteq Slots
  PROVE  /\ Cell(s) \in Cells
         /\ Cell(s) \in {Cell(u) : u \in S} <=> s \in S
  <1>1. Cell(s) \in Cells
    BY DEF Cells
  <1>2. ASSUME NEW u \in S, Cell(s) = Cell(u) PROVE s \in S
    BY <1>2 DEF Layout
  <1>3. QED
    BY <1>1, <1>2

-----------------------------------------------------------------------------
(* Refcounts.                                                              *)

\* The slots of one region below a node, as pairs of Registered(n).
LEMMA OwnUses ==
  ASSUME Layout, NEW x \in Extents, Big(x), x[2] <= Space, NEW n, NEW r
  PROVE  LET own == {r} \X {s \in AllSlots(x) : n \in Path(s)}
         IN  IsFiniteSet(own) /\ Cardinality(own) = Uses(x, n) /\ Uses(x, n) \in Nat
  <1> DEFINE U == {s \in AllSlots(x) : n \in Path(s)}
  <1>1. Space - 1 \in Nat /\ Slot(Space - 1) \in Nat
    BY SlotRange DEF Layout, Slot
  <1>2. IsFiniteSet(Slots)
    BY <1>1, FS_Interval DEF Slots
  <1>3. IsFiniteSet(U) /\ Cardinality(U) \in Nat
    BY <1>2, InTree, FS_Subset, FS_CardinalityType
  <1>4. IsFiniteSet({r}) /\ Cardinality({r}) = 1
    BY FS_Singleton
  <1>5. IsFiniteSet({r} \X U) /\ Cardinality({r} \X U) = 1 * Cardinality(U)
    BY <1>3, <1>4, FS_Product
  <1>6. QED
    BY <1>3, <1>5 DEF Uses

\* The registrations below a node are finitely many.
LEMMA RegisteredFinite ==
  ASSUME Layout, NEW n
  PROVE  IsFiniteSet(Registered(n)) /\ Cardinality(Registered(n)) \in Nat
  <1>1. Space - 1 \in Nat /\ Slot(Space - 1) \in Nat
    BY SlotRange DEF Layout, Slot
  <1>2. IsFiniteSet(Slots)
    BY <1>1, FS_Interval DEF Slots
  <1>3. IsFiniteSet(Regs \X Slots)
    BY <1>2, FS_Product DEF Layout
  <1>4. Registered(n) \subseteq Regs \X Slots
    BY DEF Registered
  <1>5. QED
    BY <1>3, <1>4, FS_Subset, FS_CardinalityType

\* The arrays on the path of a registered slot exist.
LEMMA OnPath ==
  ASSUME Layout, TypeOK, BlockInv, RegionInv, RefcountExact,
         NEW r \in Regs, region[r] # None, NEW s \in AllSlots(region[r]), NEW n \in Path(s)
  PROVE  s \in Slots /\ n \in Nodes /\ <<r, s>> \in Registered(n) /\ present[n]
  <1>1. s \in Slots /\ n \in Nodes
    BY RegionType, InTree DEF Nodes
  <1>2. <<r, s>> \in Registered(n)
    BY <1>1 DEF Registered
  <1>3. Cardinality(Registered(n)) # 0 /\ Cardinality(Registered(n)) \in Nat
    BY <1>2, RegisteredFinite, FS_EmptySet
  <1>4. present[n]
    BY <1>1, <1>3 DEF RefcountExact
  <1>5. QED
    BY <1>1, <1>2, <1>4

\* An array is freed with the last region that has slots below it.
LEMMA LastUseAlone ==
  ASSUME Layout, TypeOK, BlockInv, RegionInv, RefcountExact,
         NEW r \in Regs, region[r] # None, NEW n \in Nodes, LastUse(region[r], n),
         NEW q \in Regs, region[q] # None, NEW s \in AllSlots(region[q]), n \in Path(s)
  PROVE  q = r
  <1> SUFFICES ASSUME q # r PROVE FALSE
    OBVIOUS
  <1> DEFINE own == {r} \X {u \in AllSlots(region[r]) : n \in Path(u)}
             all == Registered(n)
  <1>1. region[r] \in Extents /\ Big(region[r]) /\ region[r][2] <= Space
    BY RegionType
  <1>2. Cardinality(own) = Uses(region[r], n)
    BY <1>1, OwnUses
  <1>3. Cardinality(all) = Uses(region[r], n)
    BY DEF RefcountExact, LastUse
  <1>4. own \subseteq all
    <2>1. AllSlots(region[r]) \subseteq Slots
      BY <1>1, InTree
    <2>2. QED
      BY <2>1 DEF Registered
  <1>5. IsFiniteSet(all)
    BY RegisteredFinite
  <1>6. own = all
    BY <1>2, <1>3, <1>4, <1>5, FS_Subset
  <1>7. <<q, s>> \in all
    BY OnPath
  <1>8. <<q, s>> \notin own
    OBVIOUS
  <1>9. QED
    BY <1>6, <1>7, <1>8

-----------------------------------------------------------------------------
(* getRegion.                                                              *)

\* An address of the program is in a slot of the tree.
LEMMA AddressSlot ==
  ASSUME Layout, NEW a \in Nat, a < Space
  PROVE  Slot(a) \in Slots /\ Cell(Slot(a)) \in Cells
  <1>1. /\ REGION_SIZE \in Nat \ {0} /\ Space \in Nat \ {0}
        /\ Slot(a) \in Nat /\ REGION_SIZE * Slot(a) \in Nat /\ REGION_SIZE * Slot(a) <= a
    BY SlotRange DEF Layout, Slot
  <1>2. Slot(a) <= Slot(Space - 1)
    <2> DEFINE s == Slot(a)
    <2>1. REGION_SIZE * s < Space
      BY <1>1
    <2> HIDE DEF s
    <2>2. s \in Nat
      BY <1>1 DEF s
    <2>3. s <= (Space - 1) \div REGION_SIZE
      BY <1>1, <2>1, <2>2, SlotBelow
    <2>4. QED
      BY <2>3 DEF s, Slot
  <1>3. Slot(Space - 1) \in Nat
    BY <1>1, SlotRange DEF Slot
  <1>4. QED
    BY <1>1, <1>2, <1>3 DEF Slots, Cells

\* What the cell of an address names has that address.
LEMMA LookupOwner ==
  ASSUME Layout, IInv, NEW a \in Nat, a < Space, Lookup(a) # None
  PROVE  /\ Lookup(a) \in Regs /\ region[Lookup(a)] # None
         /\ Within(a, region[Lookup(a)])
  <1> DEFINE s == Slot(a)
             c == Cell(s)
             e == REGION_SIZE * s
  <1>1. s \in Slots /\ c \in Cells
    BY AddressSlot
  <1>2. /\ REGION_SIZE \in Nat /\ e \in Nat /\ e <= a /\ a < e + REGION_SIZE
    BY SlotRange DEF Layout, Slot
  <1>3. /\ highReg[c] \in Regs \cup {None} /\ lowReg[c] \in Regs \cup {None}
    BY <1>1 DEF IInv, TypeOK
  <1>4. CASE a >= highAddr[c]
    <2> DEFINE r == highReg[c]
               x == region[r]
    <2>1. Lookup(a) = r /\ r \in Regs
      BY <1>3, <1>4 DEF Lookup
    <2>2. x # None /\ s \in HighSlots(x) /\ highAddr[c] = x[1]
      BY <1>1, <2>1 DEF IInv, HighInv
    <2>3. x \in Extents /\ Big(x) /\ x[2] <= Space
      BY <2>1, <2>2, RegionType DEF IInv
    <2>4. x[1] \in Nat /\ x[2] \in Nat /\ e + REGION_SIZE <= x[2]
      BY <2>2, <2>3, SlotsOf, Covers
    <2>5. x[1] <= a /\ a < x[2]
      <3> HIDE DEF e, r, x
      <3> QED
        BY <1>2, <1>4, <2>2, <2>4
    <2>6. QED
      BY <2>1, <2>2, <2>5 DEF Within
  <1>5. CASE ~(a >= highAddr[c]) /\ a < lowAddr[c]
    <2> DEFINE r == lowReg[c]
               x == region[r]
    <2>1. Lookup(a) = r /\ r \in Regs
      BY <1>3, <1>5 DEF Lookup
    <2>2. x # None /\ s \in LowSlots(x) /\ lowAddr[c] = x[2]
      BY <1>1, <2>1 DEF IInv, LowInv
    <2>3. x \in Extents /\ Big(x) /\ x[2] <= Space
      BY <2>1, <2>2, RegionType DEF IInv
    <2>4. x[1] \in Nat /\ x[2] \in Nat /\ x[1] <= e
      BY <2>2, <2>3, SlotsOf, Covers
    <2>5. x[1] <= a /\ a < x[2]
      <3> HIDE DEF e, r, x
      <3> QED
        BY <1>2, <1>5, <2>2, <2>4
    <2>6. QED
      BY <2>1, <2>2, <2>5 DEF Within
  <1>6. QED
    BY <1>4, <1>5 DEF Lookup

\* The cell of an address of a region before its tail slot names that region.
LEMMA LookupBody ==
  ASSUME Layout, IInv, NEW r \in Regs, region[r] # None, NEW a \in Nat,
         Within(a, region[r]), Slot(a) \notin TailSlots(region[r])
  PROVE  a < Space /\ Slot(a) \in HighSlots(region[r]) /\ Lookup(a) = r
  <1> DEFINE x == region[r]
             j == Slot(x[1])
             k == Slot(x[2])
             s == Slot(a)
  <1>1. x \in Extents /\ Big(x) /\ x[2] <= Space
    BY RegionType DEF IInv
  <1>2. /\ x[1] \in Nat /\ x[2] \in Nat /\ j \in Nat /\ k \in Nat
        /\ HighSlots(x) = j .. k - 1
    BY <1>1, SlotsOf
  <1>3. REGION_SIZE \in Nat \ {0} /\ x[1] <= a /\ a < x[2]
    BY DEF Layout, Within
  <1>4. j <= s /\ s <= k /\ (s = k => x[2] % REGION_SIZE # 0) /\ s \in Nat
    BY <1>2, <1>3, SlotOrder DEF Slot
  <1>5. s # k
    BY <1>4 DEF TailSlots
  <1>6. s \in HighSlots(x)
    <2> HIDE DEF j, k, s
    <2> QED
      BY <1>2, <1>4, <1>5
  <1>7. a < Space /\ s \in Slots
    <2>1. a < Space
      BY <1>1, <1>2, <1>3 DEF Layout
    <2>2. QED
      BY <2>1, AddressSlot
  <1>8. highReg[Cell(s)] = r /\ highAddr[Cell(s)] = x[1]
    BY <1>6, <1>7 DEF IInv, HighInv, Layout
  <1>9. QED
    BY <1>3, <1>6, <1>7, <1>8 DEF Lookup

\* A small block has no region.
LEMMA SmallNotBig ==
  ASSUME Layout, NEW x \in Extents, Small(x)
  PROVE  ~Big(x)
  <1>1. x[1] \in Nat /\ x[2] \in Nat
    BY DEF Extents, Layout
  <1>2. QED
    BY <1>1 DEF Layout, Small, Big

\* The block that a free is about.
LEMMA MineType ==
  ASSUME Layout, IInv, NEW t \in AppThreads, mine[t] # None
  PROVE  /\ mine[t] \in Extents /\ mine[t] \in Busy /\ mine[t][2] <= Space
         /\ mine[t][1] \in Nat /\ mine[t][2] \in Nat /\ mine[t][1] < mine[t][2]
         /\ mine[t][1] < Space /\ Slot(mine[t][1]) \in Slots
  <1>1. mine[t] \in Extents /\ mine[t] \in Busy /\ mine[t][2] <= Space
    BY BusyType DEF IInv, TypeOK, BlockInv, Busy
  <1>2. mine[t][1] \in Nat /\ mine[t][2] \in Nat /\ mine[t][1] < mine[t][2]
    BY <1>1 DEF Extents, Layout
  <1>3. mine[t][1] < Space
    BY <1>1, <1>2 DEF Layout
  <1>4. QED
    BY <1>1, <1>2, <1>3, AddressSlot

-----------------------------------------------------------------------------
(* Steps that leave the index, or the blocks, alone.                       *)

\* The walk writes nothing.
LEMMA IndexSame ==
  ASSUME IInv, UNCHANGED <<region, treeVars>>
  PROVE  HighInv' /\ LowInv' /\ RefcountExact'
  <1>1. /\ region' = region /\ refcount' = refcount /\ present' = present
        /\ highReg' = highReg /\ highAddr' = highAddr /\ lowReg' = lowReg /\ lowAddr' = lowAddr
    BY DEF treeVars, cellVars
  <1>2. HighInv'
    BY <1>1 DEF IInv, HighInv
  <1>3. LowInv'
    BY <1>1 DEF IInv, LowInv
  <1>4. \A n \in Nodes : Registered(n)' = Registered(n)
    BY <1>1 DEF Registered
  <1>5. RefcountExact'
    BY <1>1, <1>4 DEF IInv, RefcountExact
  <1>6. QED
    BY <1>2, <1>3, <1>5

\* It frees and allocates no block.
LEMMA BlocksSame ==
  ASSUME IInv, UNCHANGED <<region, live, mine>>
  PROVE  BlockInv' /\ RegionInv'
  <1>1. Busy' = Busy
    BY DEF Busy
  <1>2. BlockInv'
    BY DEF IInv, BlockInv, Big, Small, Overlap
  <1>3. RegionInv'
    BY <1>1 DEF IInv, RegionInv, Big
  <1>4. QED
    BY <1>2, <1>3

\* Nor does it move another thread's walk.
LEMMA WalkSame ==
  ASSUME IInv, NEW u \in AppThreads, region' = region, tpc'[u] = tpc[u], mine'[u] = mine[u],
         level'[u] = level[u], held'[u] = held[u], found'[u] = found[u]
  PROVE  Walk(u)'
  <1>1. Walk(u)
    BY DEF IInv, WalkInv
  <1>2. QED
    BY <1>1 DEF Walk, Small

-----------------------------------------------------------------------------
(* addRegion.                                                              *)

\* What the callback knows of a new block.
LEMMA NewBlock ==
  ASSUME Layout, TypeOK, NEW r \in Regs, NEW x \in Extents, addRegion(r, x)
  PROVE  /\ Big(x) /\ x[2] <= Space /\ x # None /\ Overlap(x, x)
         /\ AllSlots(x) \subseteq Slots /\ HighSlots(x) \subseteq Slots /\ LowSlots(x) \subseteq Slots
         /\ Busy' = Busy \cup {x}
         /\ region'[r] = x /\ \A q \in Regs \ {r} : region'[q] = region[q]
         /\ region' \in [Regs -> Extents \cup {None}]
  <1>1. Big(x) /\ x[2] <= Space /\ x # None
    BY DEF Layout, addRegion, Big
  <1>2. AllSlots(x) \subseteq Slots /\ HighSlots(x) \subseteq Slots /\ LowSlots(x) \subseteq Slots
    BY <1>1, InTree, SlotsOf
  <1>3. Overlap(x, x)
    BY <1>1, SlotsOf DEF Overlap
  <1>4. Busy' = Busy \cup {x}
    BY DEF addRegion, Busy, walkVars
  <1>5. /\ region'[r] = x /\ \A q \in Regs \ {r} : region'[q] = region[q]
        /\ region' \in [Regs -> Extents \cup {None}]
    BY DEF addRegion, TypeOK
  <1>6. QED
    BY <1>1, <1>2, <1>3, <1>4, <1>5

\* addRegion counts its slots in every array above them.
LEMMA AddCounts ==
  ASSUME Layout, IInv, NEW r \in Regs, NEW x \in Extents, addRegion(r, x), NEW n \in Nodes
  PROVE  /\ refcount'[n] = Cardinality(Registered(n))' /\ refcount'[n] \in Nat
         /\ present'[n] \in BOOLEAN /\ (present'[n] <=> refcount'[n] > 0)
  <1> DEFINE own == {r} \X {u \in AllSlots(x) : n \in Path(u)}
  <1>1. /\ Big(x) /\ x[2] <= Space /\ x # None /\ AllSlots(x) \subseteq Slots
        /\ region'[r] = x /\ \A q \in Regs \ {r} : region'[q] = region[q]
    BY NewBlock DEF IInv
  <1>2. region[r] = None
    BY DEF addRegion
  <1>3. Registered(n)' = Registered(n) \cup own
    <2>1. ASSUME NEW p \in Registered(n)' PROVE p \in Registered(n) \cup own
      BY <1>1, <2>1 DEF Registered
    <2>2. ASSUME NEW p \in Registered(n) PROVE p \in Registered(n)'
      BY <1>1, <1>2, <2>2 DEF Registered
    <2>3. ASSUME NEW p \in own PROVE p \in Registered(n)'
      BY <1>1, <2>3 DEF Registered
    <2>4. QED
      BY <2>1, <2>2, <2>3
  <1>4. Registered(n) \cap own = {}
    BY <1>2 DEF Registered
  <1>5. IsFiniteSet(own) /\ Cardinality(own) = Uses(x, n) /\ Uses(x, n) \in Nat
    BY <1>1, OwnUses
  <1>6. IsFiniteSet(Registered(n)) /\ Cardinality(Registered(n)) \in Nat
    BY RegisteredFinite
  <1> HIDE DEF own
  <1>7. Cardinality(Registered(n) \cup own) = Cardinality(Registered(n)) + Uses(x, n)
    BY <1>4, <1>5, <1>6, FS_Union, FS_EmptySet
  <1>8. refcount'[n] = refcount[n] + Uses(x, n) /\ present'[n] = (present[n] \/ Uses(x, n) > 0)
    BY DEF addRegion
  <1>9. /\ refcount[n] = Cardinality(Registered(n)) /\ (present[n] <=> refcount[n] > 0)
        /\ present[n] \in BOOLEAN
    BY DEF IInv, RefcountExact, TypeOK
  <1>10. refcount'[n] = Cardinality(Registered(n))'
    BY <1>3, <1>7, <1>8, <1>9
  <1>11. refcount[n] \in Nat /\ refcount'[n] \in Nat
    BY <1>5, <1>6, <1>8, <1>9
  <1>12. refcount'[n] > 0 <=> (refcount[n] > 0 \/ Uses(x, n) > 0)
    BY <1>5, <1>8, <1>11
  <1>13. QED
    BY <1>8, <1>9, <1>10, <1>11, <1>12, Zenon

\* addRegion takes only halves that no other region has: the high ones,
LEMMA AddHigh ==
  ASSUME Layout, IInv, NEW r \in Regs, NEW x \in Extents, addRegion(r, x)
  PROVE  HighInv'
  <1>1. /\ Big(x) /\ x[2] <= Space /\ x # None /\ HighSlots(x) \subseteq Slots
        /\ region'[r] = x /\ \A q \in Regs \ {r} : region'[q] = region[q]
    BY NewBlock DEF IInv
  <1>2. region[r] = None
    BY DEF addRegion
  <1> SUFFICES ASSUME NEW s \in Slots
               PROVE  /\ highReg'[Cell(s)] = None => highAddr'[Cell(s)] = 0
                      /\ highReg'[Cell(s)] # None =>
                            /\ region'[highReg'[Cell(s)]] # None
                            /\ s \in HighSlots(region'[highReg'[Cell(s)]])
                            /\ highAddr'[Cell(s)] = region'[highReg'[Cell(s)]][1]
                      /\ \A q \in Regs : region'[q] # None /\ s \in HighSlots(region'[q])
                            => highReg'[Cell(s)] = q
    BY DEF HighInv, HighSlots, HeadSlots, FullSlots
  <1> DEFINE c == Cell(s)
  <1>3. c \in Cells /\ (c \in {Cell(u) : u \in HighSlots(x)} <=> s \in HighSlots(x))
    BY <1>1, CellsOf
  <1>4. /\ highReg'[c] = IF s \in HighSlots(x) THEN r ELSE highReg[c]
        /\ highAddr'[c] = IF s \in HighSlots(x) THEN x[1] ELSE highAddr[c]
    BY <1>3 DEF addRegion, HighSlots
  <1>5. /\ highReg[c] = None => highAddr[c] = 0
        /\ highReg[c] # None =>
              /\ region[highReg[c]] # None
              /\ s \in HighSlots(region[highReg[c]])
              /\ highAddr[c] = region[highReg[c]][1]
        /\ \A q \in Regs : region[q] # None /\ s \in HighSlots(region[q]) => highReg[c] = q
    BY DEF IInv, HighInv
  <1>6. highReg[c] \in Regs \cup {None}
    BY <1>3 DEF IInv, TypeOK
  <1>7. CASE s \in HighSlots(x)
    <2>1. ASSUME NEW q \in Regs, region'[q] # None, s \in HighSlots(region'[q]) PROVE q = r
      <3> SUFFICES ASSUME q # r PROVE FALSE
        OBVIOUS
      <3>1. region'[q] = region[q] /\ region[q] # None
        BY <1>1, <2>1
      <3>2. region[q] \in Busy /\ region[q] \in Extents /\ Big(region[q]) /\ region[q][2] <= Space
        BY <3>1, RegionType DEF IInv
      <3>3. Overlap(x, region[q])
        BY <1>1, <1>7, <2>1, <3>1, <3>2, HighMeets
      <3>4. QED
        BY <3>2, <3>3 DEF addRegion
    <2>2. highReg'[c] = r /\ highAddr'[c] = x[1] /\ r # None
      BY <1>4, <1>7 DEF Layout
    <2>3. QED
      BY <1>1, <1>7, <2>1, <2>2
  <1>8. CASE s \notin HighSlots(x)
    <2>1. highReg'[c] = highReg[c] /\ highAddr'[c] = highAddr[c]
      BY <1>4, <1>8
    <2>2. highReg[c] # None => region'[highReg[c]] = region[highReg[c]]
      BY <1>1, <1>2, <1>5, <1>6
    <2>3. ASSUME NEW q \in Regs, region'[q] # None, s \in HighSlots(region'[q]) PROVE highReg[c] = q
      BY <1>1, <1>5, <1>8, <2>3
    <2>4. QED
      BY <1>5, <2>1, <2>2, <2>3
  <1>9. QED
    BY <1>7, <1>8

\* and the low ones.
LEMMA AddLow ==
  ASSUME Layout, IInv, NEW r \in Regs, NEW x \in Extents, addRegion(r, x)
  PROVE  LowInv'
  <1>1. /\ Big(x) /\ x[2] <= Space /\ x # None /\ LowSlots(x) \subseteq Slots
        /\ region'[r] = x /\ \A q \in Regs \ {r} : region'[q] = region[q]
    BY NewBlock DEF IInv
  <1>2. region[r] = None
    BY DEF addRegion
  <1> SUFFICES ASSUME NEW s \in Slots
               PROVE  /\ lowReg'[Cell(s)] = None => lowAddr'[Cell(s)] = 0
                      /\ lowReg'[Cell(s)] # None =>
                            /\ region'[lowReg'[Cell(s)]] # None
                            /\ s \in LowSlots(region'[lowReg'[Cell(s)]])
                            /\ lowAddr'[Cell(s)] = region'[lowReg'[Cell(s)]][2]
                      /\ \A q \in Regs : region'[q] # None /\ s \in LowSlots(region'[q])
                            => lowReg'[Cell(s)] = q
    BY DEF LowInv, LowSlots, FullSlots, TailSlots
  <1> DEFINE c == Cell(s)
  <1>3. c \in Cells /\ (c \in {Cell(u) : u \in LowSlots(x)} <=> s \in LowSlots(x))
    BY <1>1, CellsOf
  <1>4. /\ lowReg'[c] = IF s \in LowSlots(x) THEN r ELSE lowReg[c]
        /\ lowAddr'[c] = IF s \in LowSlots(x) THEN x[2] ELSE lowAddr[c]
    BY <1>3 DEF addRegion, LowSlots
  <1>5. /\ lowReg[c] = None => lowAddr[c] = 0
        /\ lowReg[c] # None =>
              /\ region[lowReg[c]] # None
              /\ s \in LowSlots(region[lowReg[c]])
              /\ lowAddr[c] = region[lowReg[c]][2]
        /\ \A q \in Regs : region[q] # None /\ s \in LowSlots(region[q]) => lowReg[c] = q
    BY DEF IInv, LowInv
  <1>6. lowReg[c] \in Regs \cup {None}
    BY <1>3 DEF IInv, TypeOK
  <1>7. CASE s \in LowSlots(x)
    <2>1. ASSUME NEW q \in Regs, region'[q] # None, s \in LowSlots(region'[q]) PROVE q = r
      <3> SUFFICES ASSUME q # r PROVE FALSE
        OBVIOUS
      <3>1. region'[q] = region[q] /\ region[q] # None
        BY <1>1, <2>1
      <3>2. region[q] \in Busy /\ region[q] \in Extents /\ Big(region[q]) /\ region[q][2] <= Space
        BY <3>1, RegionType DEF IInv
      <3>3. Overlap(x, region[q])
        BY <1>1, <1>7, <2>1, <3>1, <3>2, LowMeets
      <3>4. QED
        BY <3>2, <3>3 DEF addRegion
    <2>2. lowReg'[c] = r /\ lowAddr'[c] = x[2] /\ r # None
      BY <1>4, <1>7 DEF Layout
    <2>3. QED
      BY <1>1, <1>7, <2>1, <2>2
  <1>8. CASE s \notin LowSlots(x)
    <2>1. lowReg'[c] = lowReg[c] /\ lowAddr'[c] = lowAddr[c]
      BY <1>4, <1>8
    <2>2. lowReg[c] # None => region'[lowReg[c]] = region[lowReg[c]]
      BY <1>1, <1>2, <1>5, <1>6
    <2>3. ASSUME NEW q \in Regs, region'[q] # None, s \in LowSlots(region'[q]) PROVE lowReg[c] = q
      BY <1>1, <1>5, <1>8, <2>3
    <2>4. QED
      BY <1>5, <2>1, <2>2, <2>3
  <1>9. QED
    BY <1>7, <1>8

\* addRegion gives a new block its only region.
LEMMA AddBlocks ==
  ASSUME Layout, IInv, NEW r \in Regs, NEW x \in Extents, addRegion(r, x)
  PROVE  BlockInv' /\ RegionInv'
  <1>1. /\ Big(x) /\ x[2] <= Space /\ x # None /\ Overlap(x, x)
        /\ Busy' = Busy \cup {x}
        /\ region'[r] = x /\ \A q \in Regs \ {r} : region'[q] = region[q]
    BY NewBlock DEF IInv
  <1>2. region[r] = None /\ live' = live \cup {x} /\ mine' = mine
    BY DEF addRegion, walkVars
  <1>3. \A y \in Busy : ~Overlap(x, y) /\ ~Overlap(y, x)
    BY DEF addRegion, Overlap
  <1>4. x \notin Busy
    BY <1>1, <1>3
  <1>5. BlockInv'
    <2>1. live \subseteq Busy /\ \A t \in AppThreads : mine[t] # None => mine[t] \in Busy
      BY DEF Busy
    <2>2. QED
      BY <1>1, <1>2, <1>3, <2>1 DEF IInv, BlockInv, Big, Small, Overlap
  <1>6. \A q \in Regs : region'[q] # None => region'[q] \in Busy' /\ Big(region'[q])
    BY <1>1 DEF IInv, RegionInv
  <1>7. ASSUME NEW p \in Regs, NEW q \in Regs, region'[p] # None, region'[p] = region'[q]
        PROVE  p = q
    <2>1. \A u \in Regs \ {r} : region'[u] # None => region'[u] \in Busy
      BY <1>1 DEF IInv, RegionInv
    <2>2. CASE p = r
      BY <1>1, <1>4, <1>7, <2>1, <2>2
    <2>3. CASE q = r
      BY <1>1, <1>4, <1>7, <2>1, <2>3
    <2>4. CASE p # r /\ q # r
      BY <1>1, <1>7, <2>4 DEF IInv, RegionInv
    <2>5. QED
      BY <2>2, <2>3, <2>4
  <1>8. ASSUME NEW y \in Busy', Big(y) PROVE \E q \in Regs : region'[q] = y
    <2>1. CASE y = x
      BY <1>1, <2>1
    <2>2. CASE y \in Busy
      <3>1. PICK q \in Regs : region[q] = y
        BY <1>8, <2>2 DEF IInv, RegionInv
      <3>2. y # None
        BY <2>2, BusyType DEF IInv, Layout
      <3>3. QED
        BY <1>1, <1>2, <3>1, <3>2
    <2>3. QED
      BY <1>1, <1>8, <2>1, <2>2
  <1>9. RegionInv'
    BY <1>6, <1>7, <1>8 DEF RegionInv, Big
  <1>10. QED
    BY <1>5, <1>9

\* addRegion preserves the invariant.
LEMMA AddStep ==
  ASSUME Layout, IInv, NEW r \in Regs, NEW x \in Extents, addRegion(r, x)
  PROVE  IInv'
  <1>1. /\ Big(x) /\ x[2] <= Space /\ x # None
        /\ region'[r] = x /\ \A q \in Regs \ {r} : region'[q] = region[q]
        /\ region' \in [Regs -> Extents \cup {None}]
    BY NewBlock DEF IInv
  <1>2. \A n \in Nodes :
           /\ refcount'[n] = Cardinality(Registered(n))' /\ refcount'[n] \in Nat
           /\ present'[n] \in BOOLEAN /\ (present'[n] <=> refcount'[n] > 0)
    BY AddCounts
  <1>3. TypeOK'
    <2>1. /\ live' \subseteq Extents
          /\ tpc' = tpc /\ mine' = mine /\ level' = level /\ held' = held /\ found' = found
      BY DEF IInv, TypeOK, addRegion, walkVars
    <2>2. x[1] \in 0 .. Space /\ x[2] \in 0 .. Space
      BY <1>1, SlotsOf DEF Layout
    <2>3. /\ highAddr' \in [Cells -> 0 .. Space] /\ lowAddr' \in [Cells -> 0 .. Space]
      BY <2>2 DEF IInv, TypeOK, addRegion
    <2>4. /\ highReg' \in [Cells -> Regs \cup {None}] /\ lowReg' \in [Cells -> Regs \cup {None}]
      BY DEF IInv, TypeOK, addRegion
    <2>5. refcount' = [n \in Nodes |-> refcount'[n]] /\ present' = [n \in Nodes |-> present'[n]]
      BY DEF addRegion
    <2>6. refcount' \in [Nodes -> Nat] /\ present' \in [Nodes -> BOOLEAN]
      BY <1>2, <2>5
    <2>7. QED
      BY <1>1, <2>1, <2>3, <2>4, <2>6 DEF IInv, TypeOK
  <1>4. RefcountExact'
    BY <1>2 DEF RefcountExact
  <1>5. WalkInv'
    <2>1. /\ region[r] = None
          /\ tpc' = tpc /\ mine' = mine /\ level' = level /\ held' = held /\ found' = found
      BY DEF addRegion, walkVars
    <2>2. \A t \in AppThreads : tpc[t] = "found" => region'[found[t]] = region[found[t]]
      BY <1>1, <2>1 DEF IInv, WalkInv, Walk
    <2>3. QED
      BY <2>1, <2>2 DEF IInv, WalkInv, Walk, Small
  <1>6. QED
    BY <1>3, <1>4, <1>5, AddBlocks, AddHigh, AddLow DEF IInv

-----------------------------------------------------------------------------
(* deleteRegion: the tree.                                                 *)

\* The region that is deleted is that of the freed block, and of no other.
LEMMA Deleted ==
  ASSUME Layout, IInv, NEW t \in AppThreads, deleteRegion(t)
  PROVE  LET r == found[t]
             x == region[r]
         IN  /\ r \in Regs /\ x # None /\ x = mine[t] /\ x \in Extents /\ Big(x) /\ x[2] <= Space
             /\ Overlap(x, x)
             /\ AllSlots(x) \subseteq Slots /\ HighSlots(x) \subseteq Slots /\ LowSlots(x) \subseteq Slots
             /\ region'[r] = None /\ \A q \in Regs \ {r} : region'[q] = region[q]
             /\ region' \in [Regs -> Extents \cup {None}]
             /\ \A u \in AppThreads \ {t} : mine[u] # x
  <1> DEFINE r == found[t]
             x == region[r]
  <1>1. r \in Regs /\ x = mine[t] /\ x # None
    BY DEF deleteRegion, IInv, WalkInv, Walk
  <1>2. x \in Extents /\ Big(x) /\ x[2] <= Space
    BY <1>1, RegionType DEF IInv
  <1>3. Overlap(x, x)
    BY <1>2, SlotsOf DEF Overlap
  <1>4. AllSlots(x) \subseteq Slots /\ HighSlots(x) \subseteq Slots /\ LowSlots(x) \subseteq Slots
    BY <1>2, InTree, SlotsOf
  <1>5. /\ region'[r] = None /\ \A q \in Regs \ {r} : region'[q] = region[q]
        /\ region' \in [Regs -> Extents \cup {None}]
    BY <1>1 DEF deleteRegion, IInv, TypeOK
  <1>6. \A u \in AppThreads \ {t} : mine[u] # x
    BY <1>1, <1>3 DEF IInv, BlockInv
  <1>7. QED
    BY <1>1, <1>2, <1>3, <1>4, <1>5, <1>6

\* deleteRegion takes its slots out of every count, and frees the arrays without any.
LEMMA DeleteCounts ==
  ASSUME Layout, IInv, NEW t \in AppThreads, deleteRegion(t), NEW n \in Nodes
  PROVE  /\ refcount'[n] = Cardinality(Registered(n))' /\ refcount'[n] \in Nat
         /\ present'[n] \in BOOLEAN /\ (present'[n] <=> refcount'[n] > 0)
  <1> DEFINE r == found[t]
             x == region[r]
             own == {r} \X {u \in AllSlots(x) : n \in Path(u)}
             rest == Registered(n)'
  <1>1. /\ r \in Regs /\ x # None /\ x \in Extents /\ Big(x) /\ x[2] <= Space
        /\ AllSlots(x) \subseteq Slots
        /\ region'[r] = None /\ \A q \in Regs \ {r} : region'[q] = region[q]
    BY Deleted
  <1>2. Registered(n) = rest \cup own
    <2>1. ASSUME NEW p \in Registered(n) PROVE p \in rest \cup own
      BY <1>1, <2>1 DEF Registered
    <2>2. ASSUME NEW p \in rest PROVE p \in Registered(n)
      BY <1>1, <2>2 DEF Registered
    <2>3. ASSUME NEW p \in own PROVE p \in Registered(n)
      BY <1>1, <2>3 DEF Registered
    <2>4. QED
      BY <2>1, <2>2, <2>3
  <1>3. rest \cap own = {}
    BY <1>1 DEF Registered
  <1>4. IsFiniteSet(own) /\ Cardinality(own) = Uses(x, n) /\ Uses(x, n) \in Nat
    BY <1>1, OwnUses
  <1>5. IsFiniteSet(Registered(n)) /\ Cardinality(Registered(n)) \in Nat
    BY RegisteredFinite
  <1>6. refcount'[n] = refcount[n] - Uses(x, n) /\ present'[n] = (present[n] /\ ~LastUse(x, n))
    BY DEF deleteRegion, Released
  <1> HIDE DEF own, rest, r, x
  <1>7. IsFiniteSet(rest) /\ Cardinality(rest) \in Nat
    BY <1>2, <1>5, FS_Subset, FS_CardinalityType
  <1>8. Cardinality(Registered(n)) = Cardinality(rest) + Uses(x, n)
    <2>1. Cardinality(rest \cup own) = Cardinality(rest) + Cardinality(own) - Cardinality(rest \cap own)
      BY <1>4, <1>7, FS_Union
    <2>2. Cardinality(rest \cap own) = 0
      BY <1>3, FS_EmptySet
    <2>3. QED
      BY <1>2, <1>4, <1>7, <2>1, <2>2
  <1>9. /\ refcount[n] = Cardinality(Registered(n)) /\ (present[n] <=> refcount[n] > 0)
        /\ present[n] \in BOOLEAN
    BY DEF IInv, RefcountExact, TypeOK
  <1>10. refcount'[n] = Cardinality(rest)
    BY <1>4, <1>6, <1>7, <1>8, <1>9
  <1>11. refcount[n] \in Nat /\ refcount'[n] \in Nat
    BY <1>5, <1>7, <1>9, <1>10
  <1>12. LastUse(x, n) <=> (Uses(x, n) > 0 /\ refcount[n] = Uses(x, n))
    BY DEF LastUse
  <1>13. refcount'[n] > 0 <=> (refcount[n] > 0 /\ ~LastUse(x, n))
    BY <1>4, <1>6, <1>11, <1>12
  <1>14. refcount'[n] = Cardinality(Registered(n))'
    BY <1>10 DEF rest
  <1>15. QED
    BY <1>6, <1>9, <1>11, <1>13, <1>14, Zenon

\* deleteRegion clears the halves of its region and no others: the high ones,
LEMMA DeleteHigh ==
  ASSUME Layout, IInv, NEW t \in AppThreads, deleteRegion(t)
  PROVE  HighInv'
  <1> DEFINE r == found[t]
             x == region[r]
  <1>1. /\ r \in Regs /\ x # None /\ x \in Extents /\ Big(x) /\ x[2] <= Space
        /\ HighSlots(x) \subseteq Slots
        /\ region'[r] = None /\ \A q \in Regs \ {r} : region'[q] = region[q]
    BY Deleted
  <1> SUFFICES ASSUME NEW s \in Slots
               PROVE  /\ highReg'[Cell(s)] = None => highAddr'[Cell(s)] = 0
                      /\ highReg'[Cell(s)] # None =>
                            /\ region'[highReg'[Cell(s)]] # None
                            /\ s \in HighSlots(region'[highReg'[Cell(s)]])
                            /\ highAddr'[Cell(s)] = region'[highReg'[Cell(s)]][1]
                      /\ \A q \in Regs : region'[q] # None /\ s \in HighSlots(region'[q])
                            => highReg'[Cell(s)] = q
    BY DEF HighInv, HighSlots, HeadSlots, FullSlots
  <1> DEFINE c == Cell(s)
             n == Node(s, Depth)
             off == s \in HighSlots(x) \/ LastUse(x, n)
  <1>2. c \in Cells /\ (c \in {Cell(u) : u \in HighSlots(x)} <=> s \in HighSlots(x))
    BY <1>1, CellsOf
  <1>3. c[1] = n /\ n \in Path(s) /\ n \in Nodes
    BY DEF Cell, Path, Nodes, Layout
  <1>4. /\ highReg'[c] = IF off THEN None ELSE highReg[c]
        /\ highAddr'[c] = IF off THEN 0 ELSE highAddr[c]
    BY <1>2, <1>3 DEF deleteRegion, HighSlots
  <1>5. /\ highReg[c] = None => highAddr[c] = 0
        /\ highReg[c] # None =>
              /\ region[highReg[c]] # None
              /\ s \in HighSlots(region[highReg[c]])
              /\ highAddr[c] = region[highReg[c]][1]
        /\ \A q \in Regs : region[q] # None /\ s \in HighSlots(region[q]) => highReg[c] = q
    BY DEF IInv, HighInv
  <1>6. highReg[c] \in Regs \cup {None}
    BY <1>2 DEF IInv, TypeOK
  \* A cell that goes is the deleted region's or nobody's.
  <1>7. ASSUME NEW q \in Regs, q # r, region[q] # None, s \in HighSlots(region[q])
        PROVE  ~off
    <2>1. s \notin HighSlots(x)
      BY <1>1, <1>7, CellOnce DEF IInv
    <2>2. s \in AllSlots(region[q])
      BY <1>7 DEF AllSlots, HighSlots
    <2>3. ~LastUse(x, n)
      BY <1>1, <1>3, <1>7, <2>2, LastUseAlone DEF IInv
    <2>4. QED
      BY <2>1, <2>3
  <1>8. CASE off
    <2>1. highReg'[c] = None /\ highAddr'[c] = 0
      BY <1>4, <1>8
    <2>2. ASSUME NEW q \in Regs, region'[q] # None, s \in HighSlots(region'[q]) PROVE FALSE
      BY <1>1, <1>7, <1>8, <2>2
    <2>3. QED
      BY <2>1, <2>2
  <1>9. CASE ~off
    <2>1. highReg'[c] = highReg[c] /\ highAddr'[c] = highAddr[c]
      BY <1>4, <1>9
    <2>2. highReg[c] # r
      BY <1>1, <1>5, <1>9 DEF Layout
    <2>3. highReg[c] # None => region'[highReg[c]] = region[highReg[c]]
      BY <1>1, <1>6, <2>2
    <2>4. ASSUME NEW q \in Regs, region'[q] # None, s \in HighSlots(region'[q]) PROVE highReg[c] = q
      BY <1>1, <1>5, <2>4
    <2>5. QED
      BY <1>5, <2>1, <2>3, <2>4
  <1>10. QED
    BY <1>8, <1>9

\* and the low ones.
LEMMA DeleteLow ==
  ASSUME Layout, IInv, NEW t \in AppThreads, deleteRegion(t)
  PROVE  LowInv'
  <1> DEFINE r == found[t]
             x == region[r]
  <1>1. /\ r \in Regs /\ x # None /\ x \in Extents /\ Big(x) /\ x[2] <= Space
        /\ LowSlots(x) \subseteq Slots
        /\ region'[r] = None /\ \A q \in Regs \ {r} : region'[q] = region[q]
    BY Deleted
  <1> SUFFICES ASSUME NEW s \in Slots
               PROVE  /\ lowReg'[Cell(s)] = None => lowAddr'[Cell(s)] = 0
                      /\ lowReg'[Cell(s)] # None =>
                            /\ region'[lowReg'[Cell(s)]] # None
                            /\ s \in LowSlots(region'[lowReg'[Cell(s)]])
                            /\ lowAddr'[Cell(s)] = region'[lowReg'[Cell(s)]][2]
                      /\ \A q \in Regs : region'[q] # None /\ s \in LowSlots(region'[q])
                            => lowReg'[Cell(s)] = q
    BY DEF LowInv, LowSlots, FullSlots, TailSlots
  <1> DEFINE c == Cell(s)
             n == Node(s, Depth)
             off == s \in LowSlots(x) \/ LastUse(x, n)
  <1>2. c \in Cells /\ (c \in {Cell(u) : u \in LowSlots(x)} <=> s \in LowSlots(x))
    BY <1>1, CellsOf
  <1>3. c[1] = n /\ n \in Path(s) /\ n \in Nodes
    BY DEF Cell, Path, Nodes, Layout
  <1>4. /\ lowReg'[c] = IF off THEN None ELSE lowReg[c]
        /\ lowAddr'[c] = IF off THEN 0 ELSE lowAddr[c]
    BY <1>2, <1>3 DEF deleteRegion, Cleared, LowSlots
  <1>5. /\ lowReg[c] = None => lowAddr[c] = 0
        /\ lowReg[c] # None =>
              /\ region[lowReg[c]] # None
              /\ s \in LowSlots(region[lowReg[c]])
              /\ lowAddr[c] = region[lowReg[c]][2]
        /\ \A q \in Regs : region[q] # None /\ s \in LowSlots(region[q]) => lowReg[c] = q
    BY DEF IInv, LowInv
  <1>6. lowReg[c] \in Regs \cup {None}
    BY <1>2 DEF IInv, TypeOK
  \* A cell that goes is the deleted region's or nobody's.
  <1>7. ASSUME NEW q \in Regs, q # r, region[q] # None, s \in LowSlots(region[q])
        PROVE  ~off
    <2>1. s \notin LowSlots(x)
      BY <1>1, <1>7, CellOnce DEF IInv
    <2>2. s \in AllSlots(region[q])
      BY <1>7 DEF AllSlots, LowSlots
    <2>3. ~LastUse(x, n)
      BY <1>1, <1>3, <1>7, <2>2, LastUseAlone DEF IInv
    <2>4. QED
      BY <2>1, <2>3
  <1>8. CASE off
    <2>1. lowReg'[c] = None /\ lowAddr'[c] = 0
      BY <1>4, <1>8
    <2>2. ASSUME NEW q \in Regs, region'[q] # None, s \in LowSlots(region'[q]) PROVE FALSE
      BY <1>1, <1>7, <1>8, <2>2
    <2>3. QED
      BY <2>1, <2>2
  <1>9. CASE ~off
    <2>1. lowReg'[c] = lowReg[c] /\ lowAddr'[c] = lowAddr[c]
      BY <1>4, <1>9
    <2>2. lowReg[c] # r
      BY <1>1, <1>5, <1>9 DEF Layout
    <2>3. lowReg[c] # None => region'[lowReg[c]] = region[lowReg[c]]
      BY <1>1, <1>6, <2>2
    <2>4. ASSUME NEW q \in Regs, region'[q] # None, s \in LowSlots(region'[q]) PROVE lowReg[c] = q
      BY <1>1, <1>5, <2>4
    <2>5. QED
      BY <1>5, <2>1, <2>3, <2>4
  <1>10. QED
    BY <1>8, <1>9

=============================================================================
