---------------------------- MODULE LruRefinement -----------------------------
(***************************************************************************)
(* The policy implements RecencyList, by the mapping of Recency in Lru.    *)
(***************************************************************************)
EXTENDS LruProofs, FiniteSetTheorems

\* Fast memory is used up before a chunk is sent to slow memory, is never lost
\* or counted twice, and is never overspent, not even in the middle of a swap.
THEOREM FastMemoryUse == Spec => []FastUse
  <1>1. IInv => FastUse
    <2> SUFFICES ASSUME IInv PROVE FastUse
      OBVIOUS
    <2>1. Accounting /\ NoIdleFast /\ (FastChunks # -1 => freeFastChunks >= 0)
      BY DEF IInv, CountInv
    <2>2. SlowIsSlow
      BY DEF IInv, BindInv, OutOfFast, SlowIsSlow
    <2>3. FastBudget
      <3> SUFFICES ASSUME FastChunks # -1
                   PROVE  Cardinality({c \in Chunks : Linked(c) /\ bound[c] = "fast"}) <= FastChunks
        BY DEF FastBudget
      <3> DEFINE F == {c \in Chunks : Linked(c) /\ bound[c] = "fast"}
                 R == {mru[j] : j \in 1 .. Len(mru)}
      <3>1. mru \in Seq(Chunks) /\ Len(mru) \in Nat
        BY DEF IInv, TypeOK
      <3>2. F \subseteq R
        <4> SUFFICES ASSUME NEW c \in Chunks, Linked(c), bound[c] = "fast" PROVE InList(mru, c)
          BY DEF InList
        <4>1. loc[c] = "FAST"
          BY DEF IInv, TypeOK, BindInv, OutOfFast
        <4>2. swapping # None => c # swapping[2]
          BY DEF IInv, BindInv, OutOfFast
        <4>3. QED
          BY <4>1, <4>2 DEF IInv, ListsMatch
      <3>3. IsFiniteSet(R) /\ Cardinality(R) <= Len(mru)
        <4> DEFINE f == [j \in 1 .. Len(mru) |-> mru[j]]
        <4>1. f \in Surjection(1 .. Len(mru), R)
          BY <3>1 DEF Surjection
        <4>2. IsFiniteSet(1 .. Len(mru)) /\ Cardinality(1 .. Len(mru)) = Len(mru)
          <5>1. 1 \in Int /\ Len(mru) \in Int
            BY <3>1
          <5>2. /\ IsFiniteSet(1 .. Len(mru))
                /\ Cardinality(1 .. Len(mru)) = IF 1 > Len(mru) THEN 0 ELSE Len(mru) - 1 + 1
            BY ONLY <5>1, FS_Interval, Zenon
          <5>3. QED
            BY <3>1, <5>2
        <4>3. QED
          BY <4>1, <4>2, FS_Surjection
      <3>4. IsFiniteSet(F) /\ Cardinality(F) <= Cardinality(R) /\ Cardinality(F) \in Nat /\ Cardinality(R) \in Nat
        BY <3>2, <3>3, FS_Subset, FS_CardinalityType
      <3>5. Len(mru) <= FastChunks
        BY <2>1, <3>1, LruAssumption DEF Accounting, InHand, IInv, TypeOK
      <3> HIDE DEF F, R
      <3>6. Cardinality(F) <= FastChunks
        BY <3>1, <3>3, <3>4, <3>5, LruAssumption
      <3>7. QED
        BY <3>6 DEF F
    <2>4. QED
      BY <2>1, <2>2, <2>3 DEF FastUse
  <1>2. QED
    BY <1>1, Invariance, PTL

\* The chunks in the order the policy keeps them, the chunk in hand first.
Order == InHand \o mru \o lru

\* Two lists one after the other.
LEMMA ConcatShape ==
  ASSUME NEW m \in Seq(Chunks), NEW l \in Seq(Chunks)
  PROVE  /\ m \o l \in Seq(Chunks) /\ Len(m \o l) = Len(m) + Len(l)
         /\ \A j \in 1 .. Len(m) + Len(l) : (m \o l)[j] = IF j <= Len(m) THEN m[j] ELSE l[j - Len(m)]
  BY ConcatProperties

\* What taking out one element of a list comes to, element by element.
LEMMA RemoveAtShape ==
  ASSUME NEW s \in Seq(Chunks), NEW k \in 1 .. Len(s)
  PROVE  /\ Recency!RemoveAt(s, k) \in Seq(Chunks)
         /\ Len(Recency!RemoveAt(s, k)) = Len(s) - 1
         /\ \A j \in 1 .. Len(s) - 1 : Recency!RemoveAt(s, k)[j] = IF j < k THEN s[j] ELSE s[j + 1]
  <1> DEFINE a == SubSeq(s, 1, k - 1)
             b == SubSeq(s, k + 1, Len(s))
  <1>1. a \in Seq(Chunks) /\ Len(a) = k - 1 /\ \A j \in 1 .. k - 1 : a[j] = s[j]
    OBVIOUS
  <1>2. b \in Seq(Chunks) /\ Len(b) = Len(s) - k /\ \A j \in 1 .. Len(s) - k : b[j] = s[k + j]
    OBVIOUS
  <1>3. Recency!RemoveAt(s, k) = a \o b
    BY DEF Recency!RemoveAt
  <1> HIDE DEF a, b
  <1>4. /\ a \o b \in Seq(Chunks) /\ Len(a \o b) = Len(a) + Len(b)
        /\ \A j \in 1 .. Len(a) + Len(b) : (a \o b)[j] = IF j <= Len(a) THEN a[j] ELSE b[j - Len(a)]
    BY <1>1, <1>2, ConcatShape, Zenon
  <1>5. QED
    BY <1>1, <1>2, <1>3, <1>4

\* A list with these elements is the result of taking one out.
LEMMA DropShape ==
  ASSUME NEW s \in Seq(Chunks), NEW k \in 1 .. Len(s), NEW r \in Seq(Chunks), Len(r) = Len(s) - 1,
         \A j \in 1 .. Len(s) - 1 : r[j] = IF j < k THEN s[j] ELSE s[j + 1]
  PROVE  r = Recency!RemoveAt(s, k)
  <1> DEFINE q == Recency!RemoveAt(s, k)
  <1>1. /\ q \in Seq(Chunks) /\ Len(q) = Len(s) - 1
        /\ \A j \in 1 .. Len(s) - 1 : q[j] = IF j < k THEN s[j] ELSE s[j + 1]
    BY RemoveAtShape, Zenon
  <1> HIDE DEF q
  <1>2. \A j \in 1 .. Len(r) : r[j] = q[j]
    BY <1>1
  <1>3. r = q
    BY <1>1, <1>2, SeqEqual
  <1>4. QED
    BY <1>3 DEF q

\* Taking a chunk out of the first of two lists takes it out of both together.
LEMMA DropFirst ==
  ASSUME NEW m \in Seq(Chunks), NEW l \in Seq(Chunks), NEW c \in Chunks, InList(m, c), Distinct(m)
  PROVE  \E i \in 1 .. Len(m \o l) : (m \o l)[i] = c /\ dq(m, c) \o l = Recency!RemoveAt(m \o l, i)
  <1> DEFINE d == dq(m, c)
             s == m \o l
             r == d \o l
  <1>1. PICK k \in 1 .. Len(m) : m[k] = c
    BY DEF InList
  <1>2. /\ d \in Seq(Chunks) /\ Len(d) = Len(m) - 1
        /\ \A j \in 1 .. Len(m) - 1 : d[j] = IF j < k THEN m[j] ELSE m[j + 1]
    BY <1>1, DqShape, Zenon
  <1>3. /\ s \in Seq(Chunks) /\ Len(s) = Len(m) + Len(l)
        /\ \A j \in 1 .. Len(m) + Len(l) : s[j] = IF j <= Len(m) THEN m[j] ELSE l[j - Len(m)]
    BY ConcatShape
  <1> HIDE DEF d, s
  <1>4. /\ r \in Seq(Chunks) /\ Len(r) = Len(d) + Len(l)
        /\ \A j \in 1 .. Len(d) + Len(l) : r[j] = IF j <= Len(d) THEN d[j] ELSE l[j - Len(d)]
    BY <1>2, ConcatShape
  <1> HIDE DEF r
  <1>5. k \in 1 .. Len(s) /\ s[k] = c /\ Len(r) = Len(s) - 1
    BY <1>1, <1>2, <1>3, <1>4
  <1>6. \A j \in 1 .. Len(s) - 1 : r[j] = IF j < k THEN s[j] ELSE s[j + 1]
    <2> SUFFICES ASSUME NEW j \in 1 .. Len(s) - 1 PROVE r[j] = IF j < k THEN s[j] ELSE s[j + 1]
      OBVIOUS
    <2>1. CASE j <= Len(m) - 1
      <3>1. r[j] = d[j] /\ j \in 1 .. Len(m) - 1
        BY <1>2, <1>3, <1>4, <2>1
      <3>2. s[j] = m[j] /\ s[j + 1] = m[j + 1]
        BY <1>3, <2>1
      <3>3. QED
        BY <1>2, <3>1, <3>2
    <2>2. CASE j > Len(m) - 1
      <3>1. r[j] = l[j - Len(d)]
        BY <1>2, <1>3, <1>4, <2>2
      <3>2. s[j + 1] = l[j + 1 - Len(m)]
        BY <1>3, <2>2
      <3>3. QED
        BY <1>1, <1>2, <1>3, <2>2, <3>1, <3>2
    <2>3. QED
      BY <1>3, <2>1, <2>2
  <1>7. r = Recency!RemoveAt(s, k)
    BY <1>3, <1>4, <1>5, <1>6, DropShape
  <1>8. QED
    BY <1>5, <1>7 DEF d, s, r

\* The same for the second list.
LEMMA DropSecond ==
  ASSUME NEW m \in Seq(Chunks), NEW l \in Seq(Chunks), NEW c \in Chunks, InList(l, c), Distinct(l)
  PROVE  \E i \in 1 .. Len(m \o l) : (m \o l)[i] = c /\ m \o dq(l, c) = Recency!RemoveAt(m \o l, i)
  <1> DEFINE d == dq(l, c)
             s == m \o l
             r == m \o d
  <1>1. PICK k \in 1 .. Len(l) : l[k] = c
    BY DEF InList
  <1>2. /\ d \in Seq(Chunks) /\ Len(d) = Len(l) - 1
        /\ \A j \in 1 .. Len(l) - 1 : d[j] = IF j < k THEN l[j] ELSE l[j + 1]
    BY <1>1, DqShape
  <1>3. /\ s \in Seq(Chunks) /\ Len(s) = Len(m) + Len(l)
        /\ \A j \in 1 .. Len(m) + Len(l) : s[j] = IF j <= Len(m) THEN m[j] ELSE l[j - Len(m)]
    BY ConcatShape
  <1> HIDE DEF d, s
  <1>4. /\ r \in Seq(Chunks) /\ Len(r) = Len(m) + Len(d)
        /\ \A j \in 1 .. Len(m) + Len(d) : r[j] = IF j <= Len(m) THEN m[j] ELSE d[j - Len(m)]
    BY <1>2, ConcatShape, Zenon
  <1> HIDE DEF r
  <1>5. Len(m) + k \in 1 .. Len(s) /\ s[Len(m) + k] = c /\ Len(r) = Len(s) - 1
    <2>1. Len(m) + k \in 1 .. Len(m) + Len(l) /\ ~(Len(m) + k <= Len(m)) /\ Len(m) + k - Len(m) = k
      OBVIOUS
    <2>2. s[Len(m) + k] = l[k]
      BY <1>3, <2>1
    <2>3. QED
      BY <1>1, <1>2, <1>3, <1>4, <2>1, <2>2
  <1>6. \A j \in 1 .. Len(s) - 1 : r[j] = IF j < Len(m) + k THEN s[j] ELSE s[j + 1]
    <2> SUFFICES ASSUME NEW j \in 1 .. Len(s) - 1
                 PROVE  r[j] = IF j < Len(m) + k THEN s[j] ELSE s[j + 1]
      OBVIOUS
    <2>1. CASE j <= Len(m)
      <3>1. r[j] = m[j] /\ s[j] = m[j]
        <4>1. j \in 1 .. Len(m) + Len(d) /\ j \in 1 .. Len(m) + Len(l)
          BY <1>2, <1>3
        <4>2. QED
          BY <1>3, <1>4, <2>1, <4>1
      <3>2. j < Len(m) + k
        BY <1>3, <2>1
      <3>3. QED
        BY <3>1, <3>2
    <2>2. CASE j > Len(m)
      <3>1. r[j] = d[j - Len(m)] /\ j - Len(m) \in 1 .. Len(l) - 1
        BY <1>2, <1>3, <1>4, <2>2
      <3>2. s[j] = l[j - Len(m)] /\ s[j + 1] = l[j - Len(m) + 1]
        BY <1>3, <2>2
      <3>3. d[j - Len(m)] = IF j - Len(m) < k THEN l[j - Len(m)] ELSE l[j - Len(m) + 1]
        BY <1>2, <3>1, Zenon
      <3>4. QED
        BY <1>1, <1>3, <2>2, <3>1, <3>2, <3>3
    <2>3. QED
      BY <1>3, <2>1, <2>2
  <1>7. r = Recency!RemoveAt(s, Len(m) + k)
    BY <1>3, <1>4, <1>5, <1>6, DropShape, Zenon
  <1>8. QED
    BY <1>5, <1>7 DEF d, s, r

\* The last of the first list may as well be the head of the second.
LEMMA HeadMoves ==
  ASSUME NEW q \in Seq(Chunks), NEW l \in Seq(Chunks), l # <<>>
  PROVE  Append(q, Head(l)) \o Tail(l) = q \o l
  <1>1. Head(l) \in Chunks /\ Tail(l) \in Seq(Chunks) /\ l = <<Head(l)>> \o Tail(l)
    OBVIOUS
  <1>2. Append(q, Head(l)) = q \o <<Head(l)>> /\ <<Head(l)>> \in Seq(Chunks)
    BY <1>1
  <1>3. (q \o <<Head(l)>>) \o Tail(l) = q \o (<<Head(l)>> \o Tail(l))
    BY <1>1, <1>2, ConcatAssociative
  <1>4. QED
    BY <1>1, <1>2, <1>3

\* Taking out the last element of a list and putting it back.
LEMMA LastMoves ==
  ASSUME NEW m \in Seq(Chunks), NEW l \in Seq(Chunks), NEW v \in Chunks,
         m # <<>>, v = m[Len(m)], Distinct(m)
  PROVE  dq(m, v) \o (<<v>> \o l) = m \o l
  <1> DEFINE d == dq(m, v)
             g == d \o <<v>>
  <1>1. Len(m) \in 1 .. Len(m) /\ <<v>> \in Seq(Chunks)
    OBVIOUS
  <1>2. /\ d \in Seq(Chunks) /\ Len(d) = Len(m) - 1
        /\ \A j \in 1 .. Len(m) - 1 : d[j] = m[j]
    BY <1>1, DqShape
  <1> HIDE DEF d
  <1>3. g \in Seq(Chunks) /\ Len(g) = Len(m) /\ \A j \in 1 .. Len(g) : g[j] = m[j]
    <2> DEFINE w == <<v>>
    <2>1. w \in Seq(Chunks) /\ Len(w) = 1 /\ w[1] = v
      OBVIOUS
    <2> HIDE DEF w
    <2>2. /\ d \o w \in Seq(Chunks) /\ Len(d \o w) = Len(d) + Len(w)
          /\ \A j \in 1 .. Len(d) + Len(w) : (d \o w)[j] = IF j <= Len(d) THEN d[j] ELSE w[j - Len(d)]
      BY <1>2, <2>1, ConcatShape, Zenon
    <2>3. g = d \o w
      BY DEF w
    <2> HIDE DEF g
    <2>4. QED
      BY <1>1, <1>2, <2>1, <2>2, <2>3
  <1> HIDE DEF g
  <1>4. g = m
    BY <1>3, SeqEqual
  <1>5. d \o (<<v>> \o l) = g \o l
    <2>1. <<v>> \in Seq(Chunks)
      BY <1>1
    <2>2. (d \o <<v>>) \o l = d \o (<<v>> \o l)
      BY <1>2, <2>1, ConcatAssociative
    <2>3. QED
      BY <2>2 DEF g
  <1>6. QED
    BY <1>4, <1>5, Zenon DEF d

\* Without a chunk in hand the order is mru, then lru.
LEMMA OrderOut ==
  ASSUME TypeOK, swapping = None
  PROVE  Order = mru \o lru /\ InHand \o mru = mru
  BY DEF TypeOK, Order, InHand

\* With one, it comes first.
LEMMA OrderIn ==
  ASSUME TypeOK, swapping # None
  PROVE  Order = <<swapping[1]>> \o (mru \o lru) /\ InHand \o mru = <<swapping[1]>> \o mru
  <1>1. mru \in Seq(Chunks) /\ lru \in Seq(Chunks) /\ <<swapping[1]>> \in Seq(Chunks)
    BY DEF TypeOK
  <1>2. InHand = <<swapping[1]>>
    BY DEF InHand
  <1>3. QED
    BY <1>1, <1>2, ConcatAssociative DEF Order

\* The chunks counted as fast are always the leading ones of the order.
LEMMA FastLeads ==
  ASSUME IInv
  PROVE  {(InHand \o mru)[i] : i \in DOMAIN (InHand \o mru)} = Recency!Leading(Order)
  <1> DEFINE h == InHand \o mru
  <1>0. /\ InHand \in Seq(Chunks) /\ mru \in Seq(Chunks) /\ lru \in Seq(Chunks)
        /\ freeFastChunks \in Int /\ FastChunks \in Int
    BY LruAssumption DEF IInv, TypeOK, InHand
  <1>1. h \in Seq(Chunks) /\ Len(h) = Len(InHand) + Len(mru)
    BY <1>0, ConcatShape
  <1>2. Order = h \o lru
    BY DEF Order
  <1> HIDE DEF h
  <1>3. /\ Order \in Seq(Chunks) /\ Len(Order) = Len(h) + Len(lru)
        /\ \A j \in 1 .. Len(h) + Len(lru) : Order[j] = IF j <= Len(h) THEN h[j] ELSE lru[j - Len(h)]
    BY <1>0, <1>1, <1>2, ConcatShape, Zenon
  <1>4. /\ freeFastChunks + Len(h) = FastChunks
        /\ lru # <<>> => freeFastChunks = 0
        /\ FastChunks # -1 => freeFastChunks >= 0
    BY <1>0, <1>1 DEF IInv, CountInv, Accounting, NoIdleFast
  <1>5. Len(lru) # 0 => lru # <<>>
    BY <1>0
  <1>6. \A j \in 1 .. Len(Order) : (FastChunks = -1 \/ j <= FastChunks) <=> j <= Len(h)
    BY <1>0, <1>1, <1>3, <1>4, <1>5, LruAssumption
  <1>7. {h[i] : i \in DOMAIN h} = {Order[i] : i \in {j \in DOMAIN Order : FastChunks = -1 \/ j <= FastChunks}}
    <2>1. DOMAIN h = 1 .. Len(h) /\ DOMAIN Order = 1 .. Len(Order) /\ Len(h) \in Nat /\ Len(lru) \in Nat
      BY <1>0, <1>1, <1>3
    <2>2. {j \in DOMAIN Order : FastChunks = -1 \/ j <= FastChunks} = 1 .. Len(h)
      BY <1>3, <1>6, <2>1
    <2>3. \A j \in 1 .. Len(h) : Order[j] = h[j]
      BY <1>3, <2>1
    <2>4. QED
      BY <2>1, <2>2, <2>3
  <1>8. QED
    BY <1>7 DEF Recency!Leading, h

\* A chunk that is added was not there, and comes last.
LEMMA AddsLast ==
  ASSUME IInv, NEW t \in AppThreads, AllocFast(t) \/ AllocSlow(t)
  PROVE  \E c \in Chunks : c \notin Recency!Tracked /\ Order' = Append(Order, c)
  <1> DEFINE c == <<reg[t], idx[t]>>
  <1>1. tpc[t] = "alloc" /\ HasChunk(t) /\ swapping' = swapping
    BY DEF AllocFast, AllocSlow
  <1>2. c \in Chunks /\ ~InList(mru, c) /\ ~InList(lru, c) /\ swapping = None
    BY <1>1, AtHand, OneHolder DEF IInv
  <1>3. mru \in Seq(Chunks) /\ lru \in Seq(Chunks) /\ Order = mru \o lru
    BY <1>2, OrderOut DEF IInv, TypeOK
  <1>4. c \notin Recency!Tracked
    <2>1. /\ Order \in Seq(Chunks) /\ Len(Order) = Len(mru) + Len(lru)
          /\ \A j \in 1 .. Len(mru) + Len(lru) : Order[j] = IF j <= Len(mru) THEN mru[j] ELSE lru[j - Len(mru)]
      BY <1>3, ConcatShape
    <2> HIDE DEF c
    <2>2. \A j \in 1 .. Len(Order) : Order[j] # c
      BY <1>2, <1>3, <2>1 DEF InList
    <2>3. DOMAIN Order = 1 .. Len(Order)
      BY <2>1
    <2>4. Recency!Tracked = {Order[i] : i \in DOMAIN Order}
      BY Zenon DEF Recency!Tracked, Order
    <2>5. QED
      BY <2>2, <2>3, <2>4
  <1>5. CASE AllocFast(t)
    <2>1. mru' = Append(mru, c) /\ lru' = lru /\ freeFastChunks # 0
      BY <1>5 DEF AllocFast, FastLeft, enq
    <2>2. lru = <<>>
      BY <2>1 DEF IInv, CountInv, NoIdleFast
    <2>3. Order' = mru' \o lru'
      BY <1>1, <1>2, <1>3, <2>1 DEF Order, InHand
    <2> HIDE DEF c
    <2>4. Order' = Append(Order, c)
      BY <1>2, <1>3, <2>1, <2>2, <2>3
    <2>5. QED
      BY <1>2, <1>4, <2>4
  <1>6. CASE AllocSlow(t)
    <2>1. mru' = mru /\ lru' = Append(lru, c)
      BY <1>6 DEF AllocSlow, enq
    <2>2. Order' = mru' \o lru'
      BY <1>1, <1>2, <1>3, <2>1 DEF Order, InHand
    <2> HIDE DEF c
    <2>3. Order' = Append(Order, c)
      BY <1>2, <1>3, <2>1, <2>2
    <2>4. QED
      BY <1>2, <1>4, <2>3
  <1>7. QED
    BY <1>5, <1>6

\* A chunk that is freed is taken out and nothing else moves.
LEMMA FreesOne ==
  ASSUME IInv, NEW t \in AppThreads, FreeSlow(t) \/ FreeFast(t) \/ FreePromote(t)
  PROVE  \E i \in 1 .. Len(Order) : Order' = Recency!RemoveAt(Order, i)
  <1> DEFINE c == <<reg[t], idx[t]>>
  <1>1. tpc[t] = "free" /\ HasChunk(t) /\ swapping' = swapping
    BY DEF FreeSlow, FreeFast, FreePromote
  <1>2. c \in Chunks /\ swapping = None
    BY <1>1, AtHand, OneHolder DEF IInv
  <1>3. mru \in Seq(Chunks) /\ lru \in Seq(Chunks) /\ Order = mru \o lru /\ Distinct(mru) /\ Distinct(lru)
    BY <1>2, OrderOut DEF IInv, TypeOK, ListsMatch
  <1>4. mru' \in Seq(Chunks) /\ lru' \in Seq(Chunks) => Order' = mru' \o lru'
    BY <1>1, <1>2 DEF Order, InHand
  <1>5. CASE FreeSlow(t)
    <2>1. mru' = mru /\ lru' = dq(lru, c) /\ InList(lru, c) /\ lru' \in Seq(Chunks)
      BY <1>5, FreeSlowLists, Zenon DEF FreeSlow
    <2> HIDE DEF c
    <2>2. Order' = mru \o dq(lru, c)
      BY <1>3, <1>4, <2>1
    <2>3. QED
      BY <1>2, <1>3, <2>1, <2>2, DropSecond, Zenon
  <1>6. CASE FreeFast(t)
    <2>1. lru' = lru /\ mru' = dq(mru, c) /\ InList(mru, c) /\ mru' \in Seq(Chunks)
      BY <1>6, FreeFastLists, Zenon DEF FreeFast
    <2> HIDE DEF c
    <2>2. Order' = dq(mru, c) \o lru
      BY <1>3, <1>4, <2>1
    <2>3. QED
      BY <1>2, <1>3, <2>1, <2>2, DropFirst, Zenon
  <1>7. CASE FreePromote(t)
    <2>1. /\ lru # <<>> /\ lru' = Tail(lru) /\ mru' = Append(dq(mru, c), Head(lru)) /\ InList(mru, c)
          /\ mru' \in Seq(Chunks) /\ lru' \in Seq(Chunks)
      BY <1>7, FreePromoteLists, Zenon DEF FreePromote, enq
    <2> HIDE DEF c
    <2>2. dq(mru, c) \in Seq(Chunks)
      BY <1>2, <1>3, <2>1, DqMembers
    <2>3. Order' = dq(mru, c) \o lru
      BY <1>3, <1>4, <2>1, <2>2, HeadMoves, Zenon
    <2>4. QED
      BY <1>2, <1>3, <2>1, <2>3, DropFirst, Zenon
  <1>8. QED
    BY <1>5, <1>6, <1>7

\* A chunk that is sampled comes first and nothing else moves; the second half
\* of a swap moves nothing.
LEMMA SamplesFirst ==
  ASSUME IInv, NEW c \in Chunks, SampleFast(c) \/ SampleSlow(c)
  PROVE  \E i \in 1 .. Len(Order) : Order' = <<Order[i]>> \o Recency!RemoveAt(Order, i)
  <1>1. Tracked(c) /\ lruLock = None
    BY DEF SampleFast, SampleSlow
  <1>2. swapping = None
    BY <1>1, AllLinked
  <1>3. /\ mru \in Seq(Chunks) /\ lru \in Seq(Chunks) /\ Order = mru \o lru
        /\ Distinct(mru) /\ Distinct(lru) /\ <<c>> \in Seq(Chunks)
    BY <1>2, OrderOut DEF IInv, TypeOK, ListsMatch
  <1>4. CASE SampleFast(c)
    <2>1. swapping' = None /\ lru' = lru /\ mru' = <<c>> \o dq(mru, c) /\ InList(mru, c)
      BY <1>2, <1>4, SampleFastLists DEF SampleFast, push
    <2>2. dq(mru, c) \in Seq(Chunks) /\ mru' \in Seq(Chunks)
      BY <1>3, <1>4, <2>1, DqMembers, SampleFastLists
    <2>3. Order' = mru' \o lru'
      BY <1>3, <2>1, <2>2 DEF Order, InHand
    <2>4. Order' = <<c>> \o (dq(mru, c) \o lru)
      BY <1>3, <2>1, <2>2, <2>3, ConcatAssociative
    <2>5. QED
      BY <1>3, <2>1, <2>4, DropFirst, Zenon
  <1>5. CASE SampleSlow(c)
    <2> DEFINE v == mru[Len(mru)]
               d == dq(lru, c)
    <2>1. /\ swapping' = <<c, v>> /\ mru' = dq(mru, v) /\ lru' = <<v>> \o d
          /\ mru # <<>> /\ InList(lru, c) /\ v \in Chunks /\ mru' \in Seq(Chunks) /\ lru' \in Seq(Chunks)
      BY <1>5, SampleSlowLists DEF SampleSlow, push
    <2>2. d \in Seq(Chunks)
      BY <1>3, <2>1, DqMembers
    <2>3. InHand' = <<c>>
      BY <2>1, LruAssumption DEF InHand
    <2>4. Order' = <<c>> \o (mru' \o lru')
      <3>1. <<c>> \in Seq(Chunks) /\ mru' \in Seq(Chunks) /\ lru' \in Seq(Chunks)
        BY <1>3, <2>1
      <3>2. Order' = (<<c>> \o mru') \o lru'
        BY <2>3 DEF Order
      <3>3. (<<c>> \o mru') \o lru' = <<c>> \o (mru' \o lru')
        BY <3>1, ConcatAssociative
      <3>4. QED
        BY <3>2, <3>3
    <2> HIDE DEF v, d
    <2>5. dq(mru, v) \o (<<v>> \o d) = mru \o d
      BY <1>3, <2>1, <2>2, LastMoves, Zenon DEF v
    <2>6. Order' = <<c>> \o (mru \o d)
      BY <2>1, <2>4, <2>5, Zenon
    <2>7. PICK i \in 1 .. Len(mru \o lru) : (mru \o lru)[i] = c /\ mru \o d = Recency!RemoveAt(mru \o lru, i)
      BY <1>3, <2>1, DropSecond, Zenon DEF d
    <2>8. QED
      BY <1>3, <2>6, <2>7, Zenon
  <1>6. QED
    BY <1>4, <1>5, Zenon

\* The second half of a swap leaves the order alone.
LEMMA SwapKeepsOrder ==
  ASSUME IInv, SampleSwapped
  PROVE  Order' = Order
  <1>1. /\ swapping # None /\ swapping' = None /\ mru' = <<swapping[1]>> \o mru /\ lru' = lru
        /\ <<swapping[1]>> \in Seq(Chunks) /\ mru \in Seq(Chunks) /\ lru \in Seq(Chunks)
    BY DEF SampleSwapped, push, IInv, TypeOK
  <1>2. Order = <<swapping[1]>> \o (mru \o lru)
    BY <1>1, OrderIn DEF IInv
  <1>3. mru' \in Seq(Chunks)
    BY <1>1
  <1>4. Order' = mru' \o lru'
    BY <1>1, <1>3 DEF Order, InHand
  <1>5. QED
    BY <1>1, <1>2, <1>4, ConcatAssociative

-----------------------------------------------------------------------------
\* The policy implements LRU: the two lists together are always the chunks in
\* the order of their last sample, and the chunks counted as fast are the first
\* config.fastChunks of them.
THEOREM ImplementsRecency == Spec => RecencySpec
  <1> DEFINE fastBar == {(InHand \o mru)[i] : i \in DOMAIN (InHand \o mru)}
  <1>1. Init => Recency!Init
    BY DEF Init, Recency!Init, InHand
  <1>2. IInv /\ IInv' /\ [Next]_vars => [Recency!Next]_<<Order, fastBar>>
    <2> SUFFICES ASSUME IInv, IInv', [Next]_vars PROVE [Recency!Next]_<<Order, fastBar>>
      OBVIOUS
    <2>1. fastBar = Recency!Leading(Order)
      BY FastLeads
    <2>2. (IInv => fastBar = Recency!Leading(Order))'
      BY FastLeads, PTL
    <2>3. fastBar' = Recency!Leading(Order')
      BY <2>2 DEF Recency!Leading
    <2>4. ASSUME Order' = Order PROVE <<Order, fastBar>>' = <<Order, fastBar>>
      BY <2>1, <2>3, <2>4, Zenon
    <2>5. Order \in Seq(Chunks) /\ DOMAIN Order = 1 .. Len(Order)
      BY LruAssumption DEF Order, InHand, IInv, TypeOK
    <2>6. ASSUME NEW t \in AppThreads, AllocFast(t) \/ AllocSlow(t) PROVE Recency!Next
      BY <2>3, <2>6, AddsLast, Zenon DEF Recency!Next, Recency!Add, Order
    <2>7. ASSUME NEW t \in AppThreads, FreeSlow(t) \/ FreeFast(t) \/ FreePromote(t) PROVE Recency!Next
      BY <2>3, <2>5, <2>7, FreesOne, Zenon DEF Recency!Next, Recency!Drop, Order
    <2>8. ASSUME NEW c \in Chunks, SampleFast(c) \/ SampleSlow(c) PROVE Recency!Next
      BY <2>3, <2>5, <2>8, SamplesFirst, Zenon DEF Recency!Next, Recency!Touch, Order
    <2>9. CASE SampleSwapped
      BY <2>4, <2>9, SwapKeepsOrder, Zenon
    <2>10. ASSUME UNCHANGED <<mru, lru, swapping>> PROVE <<Order, fastBar>>' = <<Order, fastBar>>
      BY <2>4, <2>10 DEF Order, InHand
    <2>11. ASSUME NEW t \in AppThreads, AllocUnlock(t) \/ FreeLock(t) \/ FreeDelete(t)
           PROVE  UNCHANGED <<mru, lru, swapping>>
      BY <2>11 DEF AllocUnlock, FreeLock, FreeDelete, policyVars
    <2>12. ASSUME NEW t \in AppThreads, NEW b \in Blocks,
                  AllocRegion(t, b) \/ Realloc(t, b) \/ FreeLookup(t, b)
           PROVE  UNCHANGED <<mru, lru, swapping>>
      BY <2>12 DEF AllocRegion, Realloc, FreeLookup, policyVars
    <2>13. CASE UNCHANGED vars
      BY <2>10, <2>13, Zenon DEF vars, policyVars
    <2>14. QED
      BY <2>6, <2>7, <2>8, <2>9, <2>10, <2>11, <2>12, <2>13, Zenon DEF Next, AllocStep, FreeStep, SampleStep
  <1>3. IInv /\ IInv' /\ [Next]_vars => [Recency!Next]_<<InHand \o mru \o lru, fastBar>>
    BY <1>2, Zenon DEF Order
  <1>4. QED
    BY <1>1, <1>3, Invariance, PTL DEF Spec, RecencySpec, Recency!Spec
=============================================================================
