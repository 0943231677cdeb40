--------------------------- MODULE RegionsProofs ---------------------------
(***************************************************************************)
(* The steps of a free, with its unlocked walk and its locked deletion,    *)
(* preserve the invariant of RegionsIndex, and so does every step; what    *)
(* follows for the index and for the unlocked walk.                        *)
(***************************************************************************)
EXTENDS RegionsIndex

-----------------------------------------------------------------------------
(* ALLOC_EVENT_FREE without the lock.                                      *)

\* A free that begins preserves the invariant.
LEMMA FreeBeginStep ==
  ASSUME Layout, IInv, NEW t \in AppThreads, NEW x \in Extents, FreeBegin(t, x)
  PROVE  IInv'
  <1>1. /\ tpc[t] = "idle" /\ mine[t] = None /\ held[t] = None
        /\ live' = live \ {x} /\ mine' = [mine EXCEPT ![t] = x]
        /\ tpc' = [tpc EXCEPT ![t] = "walk"] /\ level' = [level EXCEPT ![t] = 0]
        /\ region' = region /\ held' = held /\ found' = found
        /\ UNCHANGED treeVars
    BY DEF FreeBegin, IInv, WalkInv, Walk
  <1>2. /\ x[1] \in Nat /\ x[2] \in Nat /\ x[1] < x[2] /\ x # None /\ Overlap(x, x)
    BY DEF Extents, Layout, Overlap
  <1>3. /\ x \in live \/ (Small(x) /\ x[2] <= Space /\ \A y \in Busy : ~Overlap(x, y))
    BY DEF FreeBegin, Small
  <1>4. /\ x[2] <= Space /\ (Big(x) \/ Small(x))
    BY <1>3 DEF IInv, BlockInv
  <1>5. \A y \in live \ {x} : ~Overlap(x, y)
    BY <1>3 DEF IInv, BlockInv, Busy
  <1>6. \A u \in AppThreads : mine[u] # None => ~Overlap(mine[u], x) /\ ~Overlap(x, mine[u])
    BY <1>3 DEF IInv, BlockInv, Busy, Overlap
  <1>7. mine \in [AppThreads -> Extents \cup {None}]
    BY DEF IInv, TypeOK
  <1>8. mine'[t] = x /\ \A u \in AppThreads \ {t} : mine'[u] = mine[u]
    BY <1>1, <1>7
  <1>9. Busy' = Busy \cup {x}
    <2>1. ASSUME NEW y \in Busy' PROVE y \in Busy \cup {x}
      BY <1>1, <1>8, <2>1 DEF Busy
    <2>2. ASSUME NEW y \in Busy, y # x PROVE y \in Busy'
      BY <1>1, <1>8, <2>2 DEF Busy
    <2>3. x \in Busy'
      BY <1>2, <1>8 DEF Busy
    <2>4. QED
      BY <2>1, <2>2, <2>3
  <1>10. TypeOK'
    BY <1>1 DEF IInv, TypeOK, treeVars, cellVars, Layout
  <1>11. BlockInv'
    <2>1. /\ \A y \in live' : y[2] <= Space /\ Big(y)
          /\ \A y, z \in live' : Overlap(y, z) => y = z
      BY <1>1 DEF IInv, BlockInv
    <2>2. ASSUME NEW u \in AppThreads, mine'[u] # None
          PROVE  /\ mine'[u][2] <= Space /\ (Big(mine'[u]) \/ Small(mine'[u]))
                 /\ \A y \in live' : ~Overlap(mine'[u], y)
      <3>1. CASE u = t
        BY <1>1, <1>4, <1>5, <1>8, <3>1
      <3>2. CASE u # t
        BY <1>1, <1>8, <2>2, <3>2 DEF IInv, BlockInv
      <3>3. QED
        BY <3>1, <3>2
    <2>3. ASSUME NEW u \in AppThreads, NEW v \in AppThreads, mine'[u] # None, mine'[v] # None,
                 Overlap(mine'[u], mine'[v])
          PROVE  u = v
      <3>1. CASE u = t \/ v = t
        BY <1>6, <1>8, <2>3, <3>1
      <3>2. CASE u # t /\ v # t
        BY <1>8, <2>3, <3>2 DEF IInv, BlockInv
      <3>3. QED
        BY <3>1, <3>2
    <2>4. QED
      BY <2>1, <2>2, <2>3 DEF BlockInv, Big, Small, Overlap
  <1>12. RegionInv'
    <2>1. Big(x) => x \in Busy
      BY <1>3, SmallNotBig DEF Busy
    <2>2. QED
      BY <1>1, <1>9, <2>1 DEF IInv, RegionInv, Big
  <1>13. WalkInv'
    <2> SUFFICES ASSUME NEW u \in AppThreads
                 PROVE  /\ tpc'[u] = "idle" <=> mine'[u] = None
                        /\ tpc'[u] \in {"idle", "found"} => held'[u] = None
                        /\ tpc'[u] = "walk" =>
                              IF level'[u] = 0 THEN held'[u] = None
                              ELSE held'[u] = Node(Slot(mine'[u][1]), level'[u] - 1)
                        /\ tpc'[u] = "found" => found'[u] \in Regs /\ region'[found'[u]] = mine'[u]
                        /\ tpc'[u] = "garbage" => Small(mine'[u])
      BY DEF WalkInv, Walk, Small, Node, Slot
    <2>1. CASE u = t
      <3>1. tpc'[t] = "walk" /\ level'[t] = 0 /\ held'[t] = None
        BY <1>1 DEF IInv, TypeOK
      <3>2. QED
        BY <1>2, <1>8, <2>1, <3>1
    <2>2. CASE u # t
      <3>1. /\ tpc'[u] = tpc[u] /\ level'[u] = level[u] /\ mine'[u] = mine[u]
            /\ held'[u] = held[u] /\ found'[u] = found[u] /\ region' = region
        BY <1>1, <1>8, <2>2 DEF IInv, TypeOK
      <3>2. QED
        BY <3>1 DEF IInv, WalkInv, Walk
    <2>3. QED
      BY <2>1, <2>2
  <1>14. HighInv' /\ LowInv' /\ RefcountExact'
    BY <1>1, IndexSame
  <1>15. QED
    BY <1>10, <1>11, <1>12, <1>13, <1>14 DEF IInv

\* The handler of a small block leaves the index as it was.
LEMMA ReturnStep ==
  ASSUME Layout, IInv, NEW t \in AppThreads, mine[t] # None, Small(mine[t]), Return(t),
         UNCHANGED <<region, treeVars, live>>
  PROVE  IInv'
  <1>1. /\ tpc' = [tpc EXCEPT ![t] = "idle"] /\ mine' = [mine EXCEPT ![t] = None]
        /\ level' = [level EXCEPT ![t] = 0] /\ held' = [held EXCEPT ![t] = None]
        /\ found' = [found EXCEPT ![t] = None] /\ region' = region /\ live' = live
        /\ UNCHANGED <<region, treeVars>>
    BY DEF Return
  <1>2. mine'[t] = None /\ \A u \in AppThreads \ {t} : mine'[u] = mine[u]
    BY <1>1 DEF IInv, TypeOK
  <1>3. TypeOK'
    BY <1>1 DEF IInv, TypeOK, treeVars, cellVars, Layout
  <1>4. BlockInv'
    BY <1>1, <1>2 DEF IInv, BlockInv, Big, Small, Overlap
  <1>5. Busy' \subseteq Busy /\ \A y \in Busy : y # mine[t] => y \in Busy'
    BY <1>1, <1>2 DEF Busy
  <1>6. ~Big(mine[t])
    BY SmallNotBig, MineType
  <1>7. RegionInv'
    BY <1>1, <1>5, <1>6 DEF IInv, RegionInv, Big
  <1>8. WalkInv'
    <2> SUFFICES ASSUME NEW u \in AppThreads
                 PROVE  /\ tpc'[u] = "idle" <=> mine'[u] = None
                        /\ tpc'[u] \in {"idle", "found"} => held'[u] = None
                        /\ tpc'[u] = "walk" =>
                              IF level'[u] = 0 THEN held'[u] = None
                              ELSE held'[u] = Node(Slot(mine'[u][1]), level'[u] - 1)
                        /\ tpc'[u] = "found" => found'[u] \in Regs /\ region'[found'[u]] = mine'[u]
                        /\ tpc'[u] = "garbage" => Small(mine'[u])
      BY DEF WalkInv, Walk, Small, Node, Slot
    <2>1. CASE u = t
      <3>1. tpc'[t] = "idle" /\ held'[t] = None
        BY <1>1 DEF IInv, TypeOK
      <3>2. QED
        BY <1>2, <2>1, <3>1
    <2>2. CASE u # t
      <3>1. /\ tpc'[u] = tpc[u] /\ level'[u] = level[u] /\ mine'[u] = mine[u]
            /\ held'[u] = held[u] /\ found'[u] = found[u] /\ region' = region
        BY <1>1, <1>2, <2>2 DEF IInv, TypeOK
      <3>2. QED
        BY <3>1 DEF IInv, WalkInv, Walk
    <2>3. QED
      BY <2>1, <2>2
  <1>9. HighInv' /\ LowInv' /\ RefcountExact'
    BY <1>1, IndexSame
  <1>10. QED
    BY <1>3, <1>4, <1>7, <1>8, <1>9 DEF IInv

\* The walk for a large block is not turned back: its own path is there.
LEMMA WalkDownStep ==
  ASSUME Layout, IInv, NEW t \in AppThreads, WalkDown(t)
  PROVE  IInv'
  <1> DEFINE s == Slot(mine[t][1])
             n == Node(s, level[t])
  <1>1. /\ tpc[t] = "walk" /\ mine[t] # None /\ level[t] \in 0 .. Depth
        /\ UNCHANGED <<region, treeVars, live>>
    BY DEF WalkDown, IInv, WalkInv, Walk, TypeOK, Layout
  <1>2. /\ mine[t] \in Extents /\ mine[t] \in Busy /\ mine[t][2] <= Space
        /\ mine[t][1] \in Nat /\ s \in Slots
    BY <1>1, MineType
  <1>3. n \in Path(s) /\ n \in Nodes
    BY <1>1, <1>2 DEF Path, Nodes
  <1>4. CASE present[n]
    <2>1. /\ held' = [held EXCEPT ![t] = n] /\ level' = [level EXCEPT ![t] = @ + 1]
          /\ tpc' = tpc /\ mine' = mine /\ found' = found /\ region' = region /\ live' = live
      BY <1>4 DEF WalkDown
    <2>2. TypeOK'
      BY <1>1, <1>3, <2>1 DEF IInv, TypeOK, treeVars, cellVars, Layout
    <2>3. BlockInv' /\ RegionInv'
      BY <2>1, BlocksSame
    <2>4. held'[t] = n /\ level'[t] = level[t] + 1
      BY <1>1, <2>1 DEF IInv, TypeOK
    <2>5. ASSUME NEW u \in AppThreads, u # t PROVE held'[u] = held[u] /\ level'[u] = level[u]
      BY <2>1, <2>5 DEF IInv, TypeOK
    <2>6. level'[t] # 0 /\ level'[t] - 1 = level[t]
      BY <1>1, <2>4 DEF Layout
    <2>7. WalkInv'
      <3>1. ASSUME NEW u \in AppThreads, u # t PROVE Walk(u)'
        BY <2>1, <2>5, <3>1, WalkSame
      <3>2. Walk(t)'
        BY <1>1, <2>1, <2>4, <2>6 DEF Walk
      <3>3. QED
        BY <3>1, <3>2 DEF WalkInv
    <2>8. HighInv' /\ LowInv' /\ RefcountExact'
      BY <1>1, IndexSame
    <2>9. QED
      BY <2>2, <2>3, <2>7, <2>8 DEF IInv
  <1>5. CASE ~present[n]
    <2>1. ASSUME Big(mine[t]) PROVE FALSE
      <3>1. PICK r \in Regs : region[r] = mine[t]
        BY <1>2, <2>1 DEF IInv, RegionInv
      <3>2. s \in AllSlots(region[r])
        <4>1. /\ s \in Nat /\ Slot(mine[t][2]) \in Nat /\ s < Slot(mine[t][2])
              /\ HighSlots(mine[t]) = s .. Slot(mine[t][2]) - 1
              /\ AllSlots(mine[t]) = HighSlots(mine[t]) \cup LowSlots(mine[t])
          BY <1>2, <2>1, SlotsOf
        <4> HIDE DEF s
        <4>2. QED
          BY <3>1, <4>1
      <3>3. QED
        BY <1>1, <1>3, <1>5, <3>1, <3>2, OnPath DEF IInv
    <2>2. Small(mine[t])
      BY <1>1, <2>1 DEF IInv, BlockInv
    <2>3. Return(t)
      BY <1>5 DEF WalkDown
    <2>4. QED
      BY <1>1, <2>2, <2>3, ReturnStep
  <1>6. QED
    BY <1>4, <1>5

\* It ends at the region of its block, and that for a small block at none.
LEMMA WalkLeafStep ==
  ASSUME Layout, IInv, NEW t \in AppThreads, WalkLeaf(t)
  PROVE  IInv'
  <1> DEFINE a == mine[t][1]
             r == Lookup(a)
  <1>1. /\ tpc[t] = "walk" /\ mine[t] # None
        /\ UNCHANGED <<region, treeVars, live>>
    BY DEF WalkLeaf, IInv, WalkInv, Walk
  <1>2. /\ mine[t] \in Extents /\ mine[t] \in Busy /\ mine[t][2] <= Space
        /\ a \in Nat /\ mine[t][2] \in Nat /\ a < mine[t][2] /\ a < Space
    BY <1>1, MineType
  <1>3. CASE r # None
    <2>1. /\ tpc' = [tpc EXCEPT ![t] = "found"] /\ found' = [found EXCEPT ![t] = r]
          /\ held' = [held EXCEPT ![t] = None] /\ mine' = mine /\ level' = level
          /\ region' = region /\ live' = live
      BY <1>3 DEF WalkLeaf
    <2>2. r \in Regs /\ region[r] # None /\ Within(a, region[r])
      BY <1>2, <1>3, LookupOwner
    <2>3. region[r] \in Busy /\ region[r] \in Extents
      BY <2>2, RegionType DEF IInv
    <2>4. region[r][1] \in Nat /\ region[r][2] \in Nat
      BY <2>3 DEF Extents, Layout
    <2>5. Overlap(mine[t], region[r])
      <3> HIDE DEF r
      <3> QED
        BY <1>2, <2>2, <2>4 DEF Within, Overlap
    <2>6. region[r] = mine[t]
      BY <1>2, <2>3, <2>5, BusyOnce DEF IInv
    <2> HIDE DEF r
    <2>7. TypeOK'
      BY <1>1, <2>1, <2>2 DEF IInv, TypeOK, treeVars, cellVars
    <2>8. BlockInv' /\ RegionInv'
      BY <2>1, BlocksSame
    <2>9. tpc'[t] = "found" /\ found'[t] = r /\ held'[t] = None
      BY <2>1 DEF IInv, TypeOK
    <2>10. ASSUME NEW u \in AppThreads, u # t
           PROVE  tpc'[u] = tpc[u] /\ held'[u] = held[u] /\ found'[u] = found[u]
      BY <2>1, <2>10 DEF IInv, TypeOK
    <2>11. WalkInv'
      <3>1. ASSUME NEW u \in AppThreads, u # t PROVE Walk(u)'
        BY <2>1, <2>10, <3>1, WalkSame
      <3>2. Walk(t)'
        BY <1>1, <2>1, <2>2, <2>6, <2>9 DEF Walk
      <3>3. QED
        BY <3>1, <3>2 DEF WalkInv
    <2>12. HighInv' /\ LowInv' /\ RefcountExact'
      BY <1>1, IndexSame
    <2>13. QED
      BY <2>7, <2>8, <2>11, <2>12 DEF IInv
  <1>4. CASE r = None
    <2>1. ASSUME Big(mine[t]) PROVE FALSE
      <3>1. PICK q \in Regs : region[q] = mine[t]
        BY <1>2, <2>1 DEF IInv, RegionInv
      <3>2. Within(a, region[q])
        BY <1>2, <3>1 DEF Within
      <3>3. Slot(a) \notin TailSlots(region[q])
        <4>1. Slot(a) \in Nat /\ Slot(mine[t][2]) \in Nat /\ Slot(a) < Slot(mine[t][2])
          BY <1>2, <2>1, SlotsOf
        <4>2. TailSlots(mine[t]) \subseteq {Slot(mine[t][2])}
          BY DEF TailSlots
        <4>3. QED
          BY <3>1, <4>1, <4>2
      <3>4. r = q
        BY <1>1, <1>2, <3>1, <3>2, <3>3, LookupBody
      <3>5. QED
        BY <1>4, <3>4 DEF Layout
    <2>2. Small(mine[t])
      BY <1>1, <2>1 DEF IInv, BlockInv
    <2>3. Return(t)
      BY <1>4 DEF WalkLeaf
    <2>4. QED
      BY <1>1, <2>2, <2>3, ReturnStep
  <1>5. QED
    BY <1>3, <1>4

-----------------------------------------------------------------------------
(* deleteRegion: the blocks and the other walks.                           *)

\* A walker that points into a freed array walks for a small block.
LEMMA TornSmall ==
  ASSUME Layout, IInv, NEW t \in AppThreads, deleteRegion(t),
         NEW u \in AppThreads, held[u] \in Nodes, LastUse(region[found[t]], held[u])
  PROVE  u # t /\ mine[u] # None /\ Small(mine[u])
  <1> DEFINE r == found[t]
             s == Slot(mine[u][1])
  <1>1. /\ r \in Regs /\ region[r] # None /\ \A v \in AppThreads \ {t} : mine[v] # region[r]
    BY Deleted
  <1>2. held[u] # None
    BY DEF Layout
  <1>3. tpc[u] \in {"walk", "garbage"} /\ mine[u] # None
    BY <1>2 DEF IInv, WalkInv, Walk, TypeOK
  <1>4. u # t
    BY <1>3 DEF deleteRegion
  <1>5. CASE tpc[u] = "garbage"
    BY <1>3, <1>4, <1>5 DEF IInv, WalkInv, Walk
  <1>6. CASE tpc[u] = "walk"
    <2>1. level[u] \in 1 .. Depth + 1 /\ held[u] = Node(s, level[u] - 1)
      BY <1>2, <1>6 DEF IInv, WalkInv, Walk, TypeOK, Layout
    <2>2. held[u] \in Path(s)
      <3>1. Depth \in Nat
        BY DEF Layout
      <3>2. level[u] - 1 \in 0 .. Depth
        BY <2>1, <3>1, LevelAbove, Zenon
      <3>3. QED
        BY <2>1, <3>2 DEF Path
    <2>3. ASSUME Big(mine[u]) PROVE FALSE
      <3>1. /\ mine[u] \in Extents /\ mine[u] \in Busy /\ mine[u][2] <= Space
        BY <1>3, MineType
      <3>2. PICK q \in Regs : region[q] = mine[u]
        BY <2>3, <3>1 DEF IInv, RegionInv
      <3>3. s \in AllSlots(mine[u])
        <4>1. /\ s \in Nat /\ Slot(mine[u][2]) \in Nat /\ s < Slot(mine[u][2])
              /\ HighSlots(mine[u]) = s .. Slot(mine[u][2]) - 1
              /\ AllSlots(mine[u]) = HighSlots(mine[u]) \cup LowSlots(mine[u])
          BY <2>3, <3>1, SlotsOf
        <4> HIDE DEF s
        <4>2. QED
          BY <4>1
      <3>4. q = r
        BY <1>1, <1>3, <2>2, <3>2, <3>3, LastUseAlone DEF IInv
      <3>5. QED
        BY <1>1, <1>4, <3>2, <3>4
    <2>4. QED
      BY <1>3, <1>4, <2>3 DEF IInv, BlockInv
  <1>7. QED
    BY <1>3, <1>5, <1>6

\* deleteRegion takes the region of the block that is freed.
LEMMA DeleteBlocks ==
  ASSUME Layout, IInv, NEW t \in AppThreads, deleteRegion(t)
  PROVE  BlockInv' /\ RegionInv'
  <1> DEFINE r == found[t]
             x == region[r]
  <1>1. /\ r \in Regs /\ x # None /\ x = mine[t] /\ Overlap(x, x)
        /\ region'[r] = None /\ \A q \in Regs \ {r} : region'[q] = region[q]
        /\ \A u \in AppThreads \ {t} : mine[u] # x
    BY Deleted
  <1>2. live' = live /\ mine'[t] = None /\ \A u \in AppThreads \ {t} : mine'[u] = mine[u]
    BY DEF deleteRegion, IInv, TypeOK
  <1> HIDE DEF r, x
  <1>3. BlockInv'
    BY <1>2 DEF IInv, BlockInv, Big, Small, Overlap
  <1>4. x \notin live
    BY <1>1 DEF IInv, BlockInv
  <1>5. \A y : y \in Busy' <=> (y \in Busy /\ y # x)
    BY <1>1, <1>2, <1>4 DEF Busy
  <1>6. \A q \in Regs : region'[q] # None => region'[q] \in Busy' /\ Big(region'[q])
    <2>1. \A q \in Regs : q # r => region[q] # x
      BY <1>1 DEF IInv, RegionInv, x
    <2>2. QED
      BY <1>1, <1>5, <2>1 DEF IInv, RegionInv
  <1>7. \A p, q \in Regs : region'[p] # None /\ region'[p] = region'[q] => p = q
    BY <1>1 DEF IInv, RegionInv
  <1>8. ASSUME NEW y \in Busy', Big(y) PROVE \E q \in Regs : region'[q] = y
    <2>1. y \in Busy /\ y # x
      BY <1>5, <1>8
    <2>2. PICK q \in Regs : region[q] = y
      BY <1>8, <2>1 DEF IInv, RegionInv
    <2>3. q # r
      BY <2>1, <2>2 DEF x
    <2>4. QED
      BY <1>1, <2>2, <2>3
  <1>9. RegionInv'
    BY <1>6, <1>7, <1>8 DEF RegionInv, Big
  <1>10. QED
    BY <1>3, <1>9

\* deleteRegion preserves the invariant.
LEMMA DeleteStep ==
  ASSUME Layout, IInv, NEW t \in AppThreads, deleteRegion(t)
  PROVE  IInv'
  <1> DEFINE r == found[t]
             x == region[r]
             torn(u) == held[u] \in Nodes /\ LastUse(x, held[u])
  <1>1. /\ r \in Regs /\ x # None /\ x = mine[t]
        /\ region'[r] = None /\ \A q \in Regs \ {r} : region'[q] = region[q]
        /\ region' \in [Regs -> Extents \cup {None}]
        /\ \A u \in AppThreads \ {t} : mine[u] # x
    BY Deleted
  <1>2. \A n \in Nodes :
           /\ refcount'[n] = Cardinality(Registered(n))' /\ refcount'[n] \in Nat
           /\ present'[n] \in BOOLEAN /\ (present'[n] <=> refcount'[n] > 0)
    BY DeleteCounts
  <1>3. TypeOK'
    <2>1. /\ live' = live /\ held' = held
          /\ mine' = [mine EXCEPT ![t] = None] /\ level' = [level EXCEPT ![t] = 0]
          /\ found' = [found EXCEPT ![t] = None]
      BY DEF deleteRegion
    <2>2. tpc' \in [AppThreads -> {"idle", "walk", "found", "garbage"}]
      BY DEF IInv, TypeOK, deleteRegion
    <2>3. highAddr' \in [Cells -> 0 .. Space] /\ lowAddr' \in [Cells -> 0 .. Space]
      <3>1. 0 \in 0 .. Space
        BY DEF Layout
      <3>2. highAddr' \in [Cells -> 0 .. Space]
        BY <3>1 DEF IInv, TypeOK, deleteRegion
      <3>3. lowAddr' \in [Cells -> 0 .. Space]
        BY <3>1 DEF IInv, TypeOK, deleteRegion
      <3>4. QED
        BY <3>2, <3>3
    <2>4. highReg' \in [Cells -> Regs \cup {None}] /\ lowReg' \in [Cells -> Regs \cup {None}]
      BY DEF IInv, TypeOK, deleteRegion
    <2>5. refcount' = [n \in Nodes |-> refcount'[n]] /\ present' = [n \in Nodes |-> present'[n]]
      BY DEF deleteRegion
    <2>6. refcount' \in [Nodes -> Nat] /\ present' \in [Nodes -> BOOLEAN]
      BY <1>2, <2>5
    <2>7. /\ live' \subseteq Extents /\ held' \in [AppThreads -> Nodes \cup {None}]
          /\ mine' \in [AppThreads -> Extents \cup {None}]
          /\ found' \in [AppThreads -> Regs \cup {None}]
      BY <2>1 DEF IInv, TypeOK
    <2>8. level' \in [AppThreads -> 0 .. Depth + 1]
      BY <2>1 DEF IInv, TypeOK, Layout
    <2>9. QED
      BY <1>1, <2>2, <2>3, <2>4, <2>6, <2>7, <2>8 DEF TypeOK
  <1>4. RefcountExact'
    BY <1>2 DEF RefcountExact
  <1>5. WalkInv'
    <2> SUFFICES ASSUME NEW u \in AppThreads
                 PROVE  /\ tpc'[u] = "idle" <=> mine'[u] = None
                        /\ tpc'[u] \in {"idle", "found"} => held'[u] = None
                        /\ tpc'[u] = "walk" =>
                              IF level'[u] = 0 THEN held'[u] = None
                              ELSE held'[u] = Node(Slot(mine'[u][1]), level'[u] - 1)
                        /\ tpc'[u] = "found" => found'[u] \in Regs /\ region'[found'[u]] = mine'[u]
                        /\ tpc'[u] = "garbage" => Small(mine'[u])
      BY DEF WalkInv, Walk, Small, Node, Slot
    <2>1. held' = held
      BY DEF deleteRegion
    <2>2. CASE u = t
      <3>1. tpc'[t] = "idle" /\ mine'[t] = None
        BY DEF deleteRegion, IInv, TypeOK
      <3>2. held[t] = None
        BY DEF deleteRegion, IInv, WalkInv, Walk
      <3>3. QED
        BY <2>1, <2>2, <3>1, <3>2
    <2>3. CASE u # t
      <3>1. /\ mine'[u] = mine[u] /\ level'[u] = level[u] /\ found'[u] = found[u]
            /\ tpc'[u] = IF torn(u) THEN "garbage" ELSE tpc[u]
        BY <2>3 DEF deleteRegion, IInv, TypeOK
      <3>2. CASE torn(u)
        <4>1. mine[u] # None /\ Small(mine[u])
          BY <3>2, TornSmall
        <4>2. tpc'[u] = "garbage"
          BY <3>1, <3>2
        <4>3. QED
          BY <3>1, <4>1, <4>2
      <3>3. CASE ~torn(u)
        <4>1. tpc'[u] = tpc[u]
          BY <3>1, <3>3
        <4>2. tpc[u] = "found" => found[u] \in Regs /\ region'[found[u]] = mine[u]
          BY <1>1, <2>3 DEF IInv, WalkInv, Walk
        <4>3. QED
          BY <2>1, <3>1, <4>1, <4>2 DEF IInv, WalkInv, Walk
      <3>4. QED
        BY <3>2, <3>3
    <2>4. QED
      BY <2>2, <2>3
  <1>6. QED
    BY <1>3, <1>4, <1>5, DeleteBlocks, DeleteHigh, DeleteLow DEF IInv

-----------------------------------------------------------------------------
(* The theorems.                                                           *)

\* The invariant holds for the empty index.
LEMMA InitInv ==
  ASSUME Layout, Init
  PROVE  IInv
  <1>1. TypeOK
    BY DEF Init, TypeOK, Layout
  <1>2. BlockInv /\ RegionInv /\ HighInv /\ LowInv /\ WalkInv
    <2>1. \A s \in Slots : Cell(s) \in Cells
      BY DEF Cells
    <2>2. Busy = {}
      BY DEF Init, Busy
    <2>3. \A t \in AppThreads : mine[t] = None /\ tpc[t] = "idle" /\ held[t] = None
      BY DEF Init
    <2>4. BlockInv /\ RegionInv /\ WalkInv
      BY <2>2, <2>3 DEF Init, BlockInv, RegionInv, WalkInv, Walk
    <2>5. HighInv /\ LowInv
      BY <2>1 DEF Init, HighInv, LowInv
    <2>6. QED
      BY <2>4, <2>5
  <1>3. RefcountExact
    <2>1. \A n \in Nodes : Registered(n) = {}
      BY DEF Init, Registered
    <2>2. Cardinality({}) = 0
      BY FS_EmptySet
    <2>3. QED
      BY <2>1, <2>2 DEF Init, RefcountExact
  <1>4. QED
    BY <1>1, <1>2, <1>3 DEF IInv

\* Blocks, regions, cells, refcounts and walks agree in every reachable state of
\* an index of any size, used by any number of threads.
THEOREM Invariance == Layout => (Spec => []IInv)
  <1> SUFFICES ASSUME Layout PROVE Spec => []IInv
    OBVIOUS
  <1>1. Init => IInv
    BY InitInv
  <1>2. IInv /\ [Next]_vars => IInv'
    <2> SUFFICES ASSUME IInv, [Next]_vars PROVE IInv'
      OBVIOUS
    <2>1. CASE Next
      <3>1. ~MayMove
        BY DEF Layout
      <3>2. QED
        BY <2>1, <3>1, AddStep, FreeBeginStep, WalkDownStep, WalkLeafStep, DeleteStep
           DEF Next, Realloc
    <2>2. CASE UNCHANGED vars
      <3>1. HighInv' /\ LowInv' /\ RefcountExact'
        BY <2>2, IndexSame DEF vars
      <3>2. /\ region' = region /\ live' = live /\ tpc' = tpc /\ mine' = mine /\ level' = level
            /\ held' = held /\ found' = found /\ treeVars' = treeVars
        BY <2>2 DEF vars, walkVars
      <3>3. TypeOK'
        BY <3>2 DEF IInv, TypeOK, treeVars, cellVars
      <3>4. WalkInv'
        BY <3>2, WalkSame DEF WalkInv
      <3>5. QED
        BY <3>1, <3>2, <3>3, <3>4, BlocksSame DEF IInv
    <2>3. QED
      BY <2>1, <2>2
  <1>3. QED
    BY <1>1, <1>2, PTL DEF Spec

\* getRegion finds every address of a region outside its tail slot.
LEMMA ReadsBody ==
  ASSUME Layout, IInv
  PROVE  BodyFound
  <1> SUFFICES ASSUME NEW r \in Regs, region[r] # None,
                      NEW a \in region[r][1] .. region[r][2] - 1,
                      Slot(a) \notin TailSlots(region[r])
               PROVE  getRegion(a) = r
    BY DEF BodyFound
  <1>1. region[r] \in Extents /\ Big(region[r]) /\ region[r][2] <= Space
    BY RegionType DEF IInv
  <1>2. region[r][1] \in Nat /\ region[r][2] \in Nat
    BY <1>1, SlotsOf
  <1>3. a \in Nat /\ Within(a, region[r])
    BY <1>2 DEF Within
  <1>4. Slot(a) \in HighSlots(region[r]) /\ Lookup(a) = r
    BY <1>3, LookupBody
  <1>5. \A n \in Path(Slot(a)) : present[n]
    BY <1>4, OnPath DEF IInv, AllSlots, HighSlots
  <1>6. QED
    BY <1>4, <1>5 DEF getRegion

\* The index is exact, whatever other threads register and delete.  No cell points
\* to a freed region; a refcount is the number of slots registered below its array,
\* which exists as long as there are some; and the unlocked getRegion of
\* ALLOC_EVENT_FREE is harmless for the blocks the plugin handles: it meets no freed
\* array, and the region that is then deleted is that of the freed block.
THEOREM IndexIsExact == Layout => (Spec => []IndexExact)
  <1> SUFFICES ASSUME Layout PROVE Spec => []IndexExact
    OBVIOUS
  <1>1. IInv => IndexExact
    <2> SUFFICES ASSUME IInv PROVE IndexExact
      OBVIOUS
    <2>1. NoDangling
      <3>1. \A s \in Slots : highReg[Cell(s)] # None => region[highReg[Cell(s)]] # None
        BY DEF IInv, HighInv
      <3>2. \A s \in Slots : lowReg[Cell(s)] # None => region[lowReg[Cell(s)]] # None
        BY DEF IInv, LowInv
      <3>3. QED
        BY <3>1, <3>2 DEF NoDangling, Cells
    <2>2. FreeExact
      BY DEF FreeExact, IInv, WalkInv, Walk
    <2>3. ASSUME NEW t \in AppThreads, tpc[t] = "garbage"
          PROVE  mine[t][2] - mine[t][1] < REGION_SIZE
      <3>1. Small(mine[t]) /\ mine[t] # None
        BY <2>3 DEF IInv, WalkInv, Walk
      <3>2. mine[t][1] \in Nat /\ mine[t][2] \in Nat
        BY <3>1, MineType
      <3>3. QED
        BY <3>1, <3>2 DEF Small, Layout
    <2>4. OwnWalkSafe
      BY <2>3 DEF OwnWalkSafe
    <2>5. QED
      BY <2>1, <2>2, <2>4 DEF IndexExact, IInv
  <1>2. QED
    BY <1>1, Invariance, PTL

\* getRegion is right: it returns a region only for addresses inside it, and for
\* all of those that are not in its tail slot.
THEOREM IndexIsFound == Layout => (Spec => []IndexFinds)
  <1> SUFFICES ASSUME Layout PROVE Spec => []IndexFinds
    OBVIOUS
  <1>1. IInv => IndexFinds
    <2> SUFFICES ASSUME IInv PROVE IndexFinds
      OBVIOUS
    <2>1. FindsOwner
      <3> SUFFICES ASSUME NEW a \in Addresses, getRegion(a) # None
                   PROVE  Within(a, region[getRegion(a)])
        BY DEF FindsOwner
      <3>1. a \in Nat /\ a < Space
        BY DEF Addresses, Layout
      <3>2. getRegion(a) = Lookup(a)
        BY DEF getRegion
      <3>3. QED
        BY <3>1, <3>2, LookupOwner
    <2>2. BodyFound
      BY ReadsBody
    <2>3. QED
      BY <2>1, <2>2 DEF IndexFinds
  <1>2. QED
    BY <1>1, Invariance, PTL

\* A block of the threshold's size or more is in the index under its start address
\* until it is freed, as the documentation says, because it starts inside a slot;
\* Regions!AlignedStarts is the case where it is not.
THEOREM BlocksHandled == Layout => (Spec => []Handled)
  <1> SUFFICES ASSUME Layout PROVE Spec => []Handled
    OBVIOUS
  <1>1. IInv => Handled
    <2> SUFFICES ASSUME IInv, NEW x \in live PROVE \E r \in Regs : getRegion(x[1]) = r /\ region[r] = x
      BY DEF Handled
    <2>1. x \in Busy /\ x \in Extents /\ Big(x) /\ x[2] <= Space
      BY DEF IInv, TypeOK, BlockInv, Busy
    <2>2. PICK r \in Regs : region[r] = x
      BY <2>1 DEF IInv, RegionInv
    <2>3. /\ x[1] \in Nat /\ x[2] \in Nat /\ x[1] < x[2]
          /\ Slot(x[1]) \in Nat /\ Slot(x[2]) \in Nat /\ Slot(x[1]) < Slot(x[2])
      BY <2>1, SlotsOf
    <2>4. Slot(x[1]) \notin TailSlots(x)
      BY <2>3 DEF TailSlots
    <2>5. x[1] \in x[1] .. x[2] - 1 /\ x # None
      BY <2>1, <2>3 DEF Layout
    <2>6. BodyFound
      BY ReadsBody
    <2>7. getRegion(x[1]) = r
      BY <2>2, <2>4, <2>5, <2>6 DEF BodyFound
    <2>8. QED
      BY <2>2, <2>7
  <1>2. QED
    BY <1>1, Invariance, PTL

=============================================================================
