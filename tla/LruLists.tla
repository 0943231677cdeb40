------------------------------- MODULE LruLists -------------------------------
(***************************************************************************)
(* Proofs about Lru, for any threads, blocks and number of fast chunks.    *)
(*                                                                         *)
(* The inductive invariant has three parts.  CtlInv says who holds lruLock *)
(* and what a thread inside the callback knows of its region; SwapInv what *)
(* handleSample has in its hands between the two mbinds of swap(); BindInv *)
(* which chunks can be bound to the fast nodes.                            *)
(***************************************************************************)
EXTENDS Lru, SequenceTheorems, TLAPS

\* The lock is held by the thread in a loop or by the sampler in swap().  A
\* thread in the callback has a registered region, of which it has passed idx
\* chunks; no two threads free the same block.
CtlInv ==
    /\ \A t \in AppThreads : tpc[t] \in {"alloc", "free"} <=> lruLock = t
    /\ swapping # None <=> lruLock = Sampler
    /\ \A b \in Blocks : mem[b] = "none" <=> nChunks[b] = 0
    /\ \A t \in AppThreads :
          /\ tpc[t] # "idle" => reg[t] \in Blocks /\ idx[t] <= nChunks[reg[t]]
          /\ tpc[t] = "alloc" => mem[reg[t]] = "live"
          /\ tpc[t] \in {"found", "free"} => mem[reg[t]] = "freeing"
          /\ tpc[t] = "found" => idx[t] = 0
    /\ \A t, u \in AppThreads :
          tpc[t] \in {"found", "free"} /\ tpc[u] \in {"found", "free"} /\ reg[t] = reg[u] => t = u

\* The sampled chunk is still marked SLOW and its victim FAST.
SwapInv ==
    swapping # None =>
        /\ Linked(swapping[1]) /\ loc[swapping[1]] = "SLOW"
        /\ Linked(swapping[2]) /\ loc[swapping[2]] = "FAST"

\* A linked chunk marked SLOW is bound to the slow nodes, or was unbound because
\* its block is being freed; so is the victim of a swap.
OutOfFast(c) == bound[c] # "fast" /\ (mem[c[1]] # "freeing" => bound[c] = "slow")
BindInv ==
    /\ \A c \in Chunks : Linked(c) /\ loc[c] = "SLOW" => OutOfFast(c)
    /\ swapping # None => OutOfFast(swapping[2])

CountInv == Accounting /\ NoIdleFast /\ (FastChunks # -1 => freeFastChunks >= 0)

IInv == TypeOK /\ CtlInv /\ ListsMatch /\ SwapInv /\ BindInv /\ CountInv
-----------------------------------------------------------------------------
(* The lists.                                                              *)

\* dq takes out one node: the list stays a list, is shorter by one, keeps its
\* order before and after the node.
LEMMA DqShape ==
  ASSUME NEW q \in Seq(Chunks), NEW k \in 1..Len(q), NEW c \in Chunks, q[k] = c, Distinct(q)
  PROVE  /\ dq(q, c) \in Seq(Chunks)
         /\ Len(dq(q, c)) = Len(q) - 1
         /\ \A j \in 1 .. Len(q) - 1 : dq(q, c)[j] = IF j < k THEN q[j] ELSE q[j + 1]
  <1> DEFINE m == CHOOSE j \in 1..Len(q) : q[j] = c
  <1>1. m = k
    BY DEF Distinct
  <1>2. dq(q, c) = [j \in 1 .. Len(q) - 1 |-> IF j < k THEN q[j] ELSE q[j + 1]]
    BY <1>1, Zenon DEF dq
  <1>3. \A j \in 1 .. Len(q) - 1 : (IF j < k THEN q[j] ELSE q[j + 1]) \in Chunks
    OBVIOUS
  <1> HIDE DEF m
  <1>4. dq(q, c) \in [1 .. Len(q) - 1 -> Chunks]
    BY <1>2, <1>3
  <1>5. Len(q) - 1 \in Nat
    OBVIOUS
  <1>6. dq(q, c) \in Seq(Chunks)
    BY <1>4, <1>5
  <1>7. QED
    BY <1>2, <1>4, <1>5, <1>6

\* dq takes out this node and no other.
LEMMA DqMembers ==
  ASSUME NEW q \in Seq(Chunks), NEW c \in Chunks, InList(q, c), Distinct(q)
  PROVE  /\ dq(q, c) \in Seq(Chunks)
         /\ Len(dq(q, c)) = Len(q) - 1
         /\ Distinct(dq(q, c))
         /\ \A x : InList(dq(q, c), x) <=> InList(q, x) /\ x # c
  <1>1. PICK k \in 1..Len(q) : q[k] = c
    BY DEF InList
  <1> DEFINE r == dq(q, c)
  <1>2. /\ r \in Seq(Chunks) /\ Len(r) = Len(q) - 1
        /\ \A j \in 1 .. Len(q) - 1 : r[j] = IF j < k THEN q[j] ELSE q[j + 1]
    BY <1>1, DqShape, Zenon
  <1> HIDE DEF r
  <1>3. Distinct(r)
    BY <1>2 DEF Distinct
  <1>4. ASSUME NEW x, InList(r, x) PROVE InList(q, x) /\ x # c
    BY <1>1, <1>2, <1>4 DEF Distinct, InList
  <1>5. ASSUME NEW x, InList(q, x), x # c PROVE InList(r, x)
    <2>1. PICK i \in 1..Len(q) : q[i] = x
      BY <1>5 DEF InList
    <2>2. CASE i < k
      BY <1>2, <2>1, <2>2 DEF InList
    <2>3. CASE i > k
      <3>1. i - 1 \in 1 .. Len(r) /\ r[i - 1] = x
        BY <1>2, <2>1, <2>3
      <3>2. QED BY <3>1 DEF InList
    <2>4. QED
      BY <1>1, <1>5, <2>1, <2>2, <2>3
  <1>6. QED
    BY <1>2, <1>3, <1>4, <1>5 DEF r

\* enq puts a new node last.
LEMMA EnqMembers ==
  ASSUME NEW q \in Seq(Chunks), NEW c \in Chunks, ~InList(q, c), Distinct(q)
  PROVE  /\ enq(q, c) \in Seq(Chunks)
         /\ Len(enq(q, c)) = Len(q) + 1
         /\ Distinct(enq(q, c))
         /\ \A x : InList(enq(q, c), x) <=> InList(q, x) \/ x = c
  <1> DEFINE r == enq(q, c)
  <1>1. /\ r \in Seq(Chunks) /\ Len(r) = Len(q) + 1
        /\ \A j \in 1 .. Len(q) : r[j] = q[j]
        /\ r[Len(q) + 1] = c
    BY AppendProperties DEF enq
  <1> HIDE DEF r
  <1>2. Len(q) \in Nat
    OBVIOUS
  <1>3. Distinct(r)
    BY <1>1, <1>2 DEF Distinct, InList
  <1>4. ASSUME NEW x PROVE InList(r, x) <=> InList(q, x) \/ x = c
    BY <1>1, <1>2 DEF InList
  <1>5. QED
    BY <1>1, <1>3, <1>4 DEF r

\* push puts a new node first.
LEMMA PushMembers ==
  ASSUME NEW q \in Seq(Chunks), NEW c \in Chunks, ~InList(q, c), Distinct(q)
  PROVE  /\ push(q, c) \in Seq(Chunks)
         /\ Len(push(q, c)) = Len(q) + 1
         /\ Distinct(push(q, c))
         /\ \A x : InList(push(q, c), x) <=> InList(q, x) \/ x = c
  <1> DEFINE r == push(q, c)
  <1>1. /\ r \in Seq(Chunks) /\ Len(r) = Len(q) + 1
        /\ \A j \in 1 .. Len(q) + 1 : r[j] = IF j = 1 THEN c ELSE q[j - 1]
    <2>1. <<c>> \in Seq(Chunks) /\ Len(<<c>>) = 1
      OBVIOUS
    <2>2. QED
      BY <2>1, ConcatProperties DEF push
  <1> HIDE DEF r
  <1>2. Distinct(r)
    <2> SUFFICES ASSUME NEW i \in 1 .. Len(r), NEW j \in 1 .. Len(r), r[i] = r[j] PROVE i = j
      BY DEF Distinct
    <2>1. i > 1 => i - 1 \in 1 .. Len(q) /\ r[i] = q[i - 1]
      BY <1>1
    <2>2. j > 1 => j - 1 \in 1 .. Len(q) /\ r[j] = q[j - 1]
      BY <1>1
    <2>3. QED
      BY <1>1, <2>1, <2>2 DEF Distinct, InList
  <1>3. ASSUME NEW x PROVE InList(r, x) <=> InList(q, x) \/ x = c
    <2>1. ASSUME InList(r, x) PROVE InList(q, x) \/ x = c
      <3>1. PICK i \in 1 .. Len(r) : r[i] = x
        BY <2>1 DEF InList
      <3>2. i > 1 => i - 1 \in 1 .. Len(q) /\ r[i] = q[i - 1]
        BY <1>1
      <3>3. QED
        BY <1>1, <3>1, <3>2 DEF InList
    <2>2. ASSUME InList(q, x) PROVE InList(r, x)
      <3>1. PICK i \in 1 .. Len(q) : q[i] = x
        BY <2>2 DEF InList
      <3>2. i + 1 \in 1 .. Len(r) /\ r[i + 1] = x
        BY <1>1, <3>1
      <3>3. QED
        BY <3>2 DEF InList
    <2>3. InList(r, c)
      <3>1. 1 \in 1 .. Len(r) /\ r[1] = c
        BY <1>1
      <3>2. QED
        BY <3>1 DEF InList
    <2>4. QED
      BY <2>1, <2>2, <2>3
  <1>4. QED
    BY <1>1, <1>2, <1>3 DEF r

\* Taking the head takes out that node and no other.
LEMMA TailMembers ==
  ASSUME NEW q \in Seq(Chunks), q # <<>>, Distinct(q)
  PROVE  /\ Tail(q) \in Seq(Chunks)
         /\ Len(Tail(q)) = Len(q) - 1
         /\ Distinct(Tail(q))
         /\ Head(q) \in Chunks
         /\ InList(q, Head(q))
         /\ \A x : InList(Tail(q), x) <=> InList(q, x) /\ x # Head(q)
  <1> DEFINE r == Tail(q)
  <1>1. /\ Head(q) \in Chunks /\ Head(q) = q[1] /\ Len(q) \in Nat \ {0}
        /\ r \in Seq(Chunks) /\ Len(r) = Len(q) - 1
        /\ \A j \in 1 .. Len(q) - 1 : r[j] = q[j + 1]
    OBVIOUS
  <1> HIDE DEF r
  <1>2. Distinct(r) /\ InList(q, q[1])
    BY <1>1 DEF Distinct, InList
  <1>3. ASSUME NEW x, InList(r, x) PROVE InList(q, x) /\ x # q[1]
    BY <1>1, <1>3 DEF Distinct, InList
  <1>4. ASSUME NEW x, InList(q, x), x # q[1] PROVE InList(r, x)
    <2>1. PICK i \in 1 .. Len(q) : q[i] = x
      BY <1>4 DEF InList
    <2>2. i - 1 \in 1 .. Len(r) /\ r[i - 1] = x
      BY <1>1, <1>4, <2>1
    <2>3. QED
      BY <2>2 DEF InList
  <1>5. QED
    BY <1>1, <1>2, <1>3, <1>4 DEF r

-----------------------------------------------------------------------------
(* Where threads and chunks are.                                           *)

\* Who holds the lock is alone in the loops of the callback.
LEMMA OneHolder ==
  ASSUME CtlInv, NEW t \in AppThreads, tpc[t] \in {"alloc", "free"}
  PROVE  /\ lruLock = t
         /\ swapping = None
         /\ \A u \in AppThreads : u # t => tpc[u] \notin {"alloc", "free"}
  BY LruAssumption DEF CtlInv

\* The chunk at hand in a loop: in no list when its region is being added, in
\* the list its mark names when it is being removed.
LEMMA AtHand ==
  ASSUME IInv, NEW t \in AppThreads, tpc[t] \in {"alloc", "free"}, HasChunk(t),
         NEW c, c = <<reg[t], idx[t]>>
  PROVE  /\ c \in Chunks
         /\ reg[t] \in Blocks
         /\ Tracked(c)
         /\ tpc[t] = "alloc" => ~Linked(c) /\ ~InList(mru, c) /\ ~InList(lru, c)
         /\ tpc[t] = "free" => /\ Linked(c)
                               /\ loc[c] = "FAST" <=> InList(mru, c)
                               /\ loc[c] = "SLOW" <=> InList(lru, c)
  <1>1. reg[t] \in Blocks /\ idx[t] \in Nat /\ idx[t] < nChunks[reg[t]] /\ nChunks[reg[t]] \in 0 .. MaxChunks
    BY DEF IInv, TypeOK, CtlInv, HasChunk
  <1>2. c \in Chunks /\ c[1] = reg[t] /\ c[2] = idx[t]
    BY <1>1, LruAssumption DEF Chunks
  <1>3. Tracked(c)
    BY <1>1, <1>2 DEF Tracked
  <1>4. /\ swapping = None
        /\ \A u \in AppThreads : u # t => tpc[u] \notin {"alloc", "free"}
    BY OneHolder DEF IInv
  <1>5. tpc[t] = "alloc" => ~Linked(c)
    BY <1>1, <1>2 DEF Linked
  <1>6. tpc[t] = "free" => Linked(c)
    BY <1>1, <1>2, <1>3, <1>4 DEF Linked
  <1>7. QED
    BY <1>1, <1>2, <1>3, <1>4, <1>5, <1>6 DEF IInv, ListsMatch

\* With the lock free every chunk of a region is in the list its mark names.
LEMMA AllLinked ==
  ASSUME IInv, lruLock = None, NEW c \in Chunks, Tracked(c)
  PROVE  /\ Linked(c)
         /\ swapping = None
         /\ loc[c] = "FAST" <=> InList(mru, c)
         /\ loc[c] = "SLOW" <=> InList(lru, c)
  <1>1. swapping = None /\ \A u \in AppThreads : tpc[u] \notin {"alloc", "free"}
    BY LruAssumption DEF IInv, CtlInv
  <1>2. QED
    BY <1>1 DEF IInv, ListsMatch, Linked

-----------------------------------------------------------------------------
(* What each action does to the lists.                                     *)

\* AllocFast puts the chunk last in mru.
LEMMA AllocFastLists ==
  ASSUME IInv, NEW t \in AppThreads, AllocFast(t), NEW c, c = <<reg[t], idx[t]>>
  PROVE  /\ c \in Chunks
         /\ mru' \in Seq(Chunks) /\ Len(mru') = Len(mru) + 1 /\ Distinct(mru')
         /\ \A x : InList(mru', x) <=> InList(mru, x) \/ x = c
  <1>1. c \in Chunks /\ ~InList(mru, c)
    BY AtHand DEF AllocFast, IInv, TypeOK
  <1>2. mru \in Seq(Chunks) /\ Distinct(mru)
    BY DEF IInv, TypeOK, ListsMatch
  <1>3. mru' = enq(mru, c)
    BY DEF AllocFast
  <1>4. /\ enq(mru, c) \in Seq(Chunks) /\ Len(enq(mru, c)) = Len(mru) + 1
        /\ Distinct(enq(mru, c))
        /\ \A x : InList(enq(mru, c), x) <=> InList(mru, x) \/ x = c
    BY <1>1, <1>2, EnqMembers, Zenon
  <1>5. QED
    BY <1>1, <1>3, <1>4, Zenon

\* AllocSlow puts the chunk last in lru.
LEMMA AllocSlowLists ==
  ASSUME IInv, NEW t \in AppThreads, AllocSlow(t), NEW c, c = <<reg[t], idx[t]>>
  PROVE  /\ c \in Chunks
         /\ lru' \in Seq(Chunks) /\ Len(lru') = Len(lru) + 1 /\ Distinct(lru')
         /\ \A x : InList(lru', x) <=> InList(lru, x) \/ x = c
  <1>1. c \in Chunks /\ ~InList(lru, c)
    BY AtHand DEF AllocSlow, IInv, TypeOK
  <1>2. lru \in Seq(Chunks) /\ Distinct(lru)
    BY DEF IInv, TypeOK, ListsMatch
  <1>3. lru' = enq(lru, c)
    BY DEF AllocSlow
  <1>4. /\ enq(lru, c) \in Seq(Chunks) /\ Len(enq(lru, c)) = Len(lru) + 1
        /\ Distinct(enq(lru, c))
        /\ \A x : InList(enq(lru, c), x) <=> InList(lru, x) \/ x = c
    BY <1>1, <1>2, EnqMembers, Zenon
  <1>5. QED
    BY <1>1, <1>3, <1>4, Zenon

\* FreeSlow takes the chunk out of lru.
LEMMA FreeSlowLists ==
  ASSUME IInv, NEW t \in AppThreads, FreeSlow(t), NEW c, c = <<reg[t], idx[t]>>
  PROVE  /\ c \in Chunks /\ InList(lru, c)
         /\ lru' \in Seq(Chunks) /\ Len(lru') = Len(lru) - 1 /\ Distinct(lru')
         /\ \A x : InList(lru', x) <=> InList(lru, x) /\ x # c
  <1>1. c \in Chunks /\ InList(lru, c)
    BY AtHand DEF FreeSlow, IInv, TypeOK
  <1>2. lru \in Seq(Chunks) /\ Distinct(lru)
    BY DEF IInv, TypeOK, ListsMatch
  <1>3. lru' = dq(lru, c)
    BY DEF FreeSlow
  <1>4. dq(lru, c) \in Seq(Chunks) /\ Len(dq(lru, c)) = Len(lru) - 1
    BY <1>1, <1>2, DqMembers, Zenon
  <1>5. Distinct(dq(lru, c))
    BY <1>1, <1>2, DqMembers, Zenon
  <1>6. ASSUME NEW x, InList(dq(lru, c), x) PROVE InList(lru, x) /\ x # c
    BY <1>1, <1>2, <1>6, DqMembers, Zenon
  <1>7. ASSUME NEW x, InList(lru, x), x # c PROVE InList(dq(lru, c), x)
    BY <1>1, <1>2, <1>7, DqMembers
  <1>8. QED
    BY <1>1, <1>3, <1>4, <1>5, <1>6, <1>7, Zenon

\* FreeFast takes the chunk out of mru.
LEMMA FreeFastLists ==
  ASSUME IInv, NEW t \in AppThreads, FreeFast(t), NEW c, c = <<reg[t], idx[t]>>
  PROVE  /\ c \in Chunks /\ InList(mru, c)
         /\ mru' \in Seq(Chunks) /\ Len(mru') = Len(mru) - 1 /\ Distinct(mru')
         /\ \A x : InList(mru', x) <=> InList(mru, x) /\ x # c
  <1>1. c \in Chunks /\ InList(mru, c)
    BY AtHand DEF FreeFast, IInv, TypeOK
  <1>2. mru \in Seq(Chunks) /\ Distinct(mru)
    BY DEF IInv, TypeOK, ListsMatch
  <1>3. mru' = dq(mru, c)
    BY DEF FreeFast
  <1>4. dq(mru, c) \in Seq(Chunks) /\ Len(dq(mru, c)) = Len(mru) - 1
    BY <1>1, <1>2, DqMembers, Zenon
  <1>5. Distinct(dq(mru, c))
    BY <1>1, <1>2, DqMembers, Zenon
  <1>6. ASSUME NEW x, InList(dq(mru, c), x) PROVE InList(mru, x) /\ x # c
    BY <1>1, <1>2, <1>6, DqMembers, Zenon
  <1>7. ASSUME NEW x, InList(mru, x), x # c PROVE InList(dq(mru, c), x)
    BY <1>1, <1>2, <1>7, DqMembers
  <1>8. QED
    BY <1>1, <1>3, <1>4, <1>5, <1>6, <1>7, Zenon

\* FreePromote takes the chunk out of mru and moves the head of lru there.
LEMMA FreePromoteLists ==
  ASSUME IInv, NEW t \in AppThreads, FreePromote(t), NEW c, c = <<reg[t], idx[t]>>
  PROVE  /\ c \in Chunks /\ InList(mru, c) /\ ~InList(lru, c)
         /\ Head(lru) \in Chunks /\ InList(lru, Head(lru)) /\ ~InList(mru, Head(lru))
         /\ mru' \in Seq(Chunks) /\ Len(mru') = Len(mru) /\ Distinct(mru')
         /\ \A x : InList(mru', x) <=> (InList(mru, x) /\ x # c) \/ x = Head(lru)
         /\ lru' \in Seq(Chunks) /\ Len(lru') = Len(lru) - 1 /\ Distinct(lru')
         /\ \A x : InList(lru', x) <=> InList(lru, x) /\ x # Head(lru)
  <1> DEFINE p == Head(lru)
             q == dq(mru, c)
  <1>1. c \in Chunks /\ InList(mru, c) /\ ~InList(lru, c)
    BY AtHand DEF FreePromote, IInv, TypeOK
  <1>2. /\ p \in Chunks /\ InList(lru, p)
        /\ lru' \in Seq(Chunks) /\ Len(lru') = Len(lru) - 1 /\ Distinct(lru')
        /\ \A x : InList(lru', x) <=> InList(lru, x) /\ x # p
    <2>1. lru \in Seq(Chunks) /\ Distinct(lru) /\ lru # <<>> /\ lru' = Tail(lru)
      BY DEF FreePromote, IInv, TypeOK, ListsMatch
    <2>2. QED
      BY <2>1, TailMembers
  <1>3. ~InList(mru, p)
    <2>1. swapping = None
      BY OneHolder DEF FreePromote, IInv
    <2>2. QED
      BY <1>2, <2>1 DEF IInv, ListsMatch
  <1>4. /\ q \in Seq(Chunks) /\ Len(q) = Len(mru) - 1 /\ Distinct(q)
        /\ \A x : InList(q, x) <=> InList(mru, x) /\ x # c
    <2>1. mru \in Seq(Chunks) /\ Distinct(mru)
      BY DEF IInv, TypeOK, ListsMatch
    <2>2. QED
      BY <1>1, <2>1, DqMembers, Zenon
  <1>5. mru' = enq(q, p)
    BY DEF FreePromote
  <1> HIDE DEF p, q
  <1>6. /\ mru' \in Seq(Chunks) /\ Len(mru') = Len(q) + 1 /\ Distinct(mru')
        /\ \A x : InList(mru', x) <=> InList(q, x) \/ x = p
    BY <1>2, <1>3, <1>4, <1>5, EnqMembers
  <1>7. Len(mru') = Len(mru)
    BY <1>4, <1>6 DEF IInv, TypeOK
  <1>8. QED
    BY <1>1, <1>2, <1>3, <1>4, <1>6, <1>7 DEF p

\* SampleFast moves the chunk to the head of mru.
LEMMA SampleFastLists ==
  ASSUME IInv, NEW c \in Chunks, SampleFast(c)
  PROVE  /\ InList(mru, c)
         /\ mru' \in Seq(Chunks) /\ Len(mru') = Len(mru) /\ Distinct(mru')
         /\ \A x : InList(mru', x) <=> InList(mru, x)
  <1> DEFINE q == dq(mru, c)
  <1>1. InList(mru, c)
    BY AllLinked DEF SampleFast
  <1>2. /\ q \in Seq(Chunks) /\ Len(q) = Len(mru) - 1 /\ Distinct(q)
        /\ \A x : InList(q, x) <=> InList(mru, x) /\ x # c
    <2>1. mru \in Seq(Chunks) /\ Distinct(mru)
      BY DEF IInv, TypeOK, ListsMatch
    <2>2. QED
      BY <1>1, <2>1, DqMembers
  <1>3. mru' = push(q, c)
    BY DEF SampleFast
  <1> HIDE DEF q
  <1>4. /\ mru' \in Seq(Chunks) /\ Len(mru') = Len(q) + 1 /\ Distinct(mru')
        /\ \A x : InList(mru', x) <=> InList(q, x) \/ x = c
    BY <1>2, <1>3, PushMembers
  <1>5. Len(mru') = Len(mru)
    BY <1>2, <1>4 DEF IInv, TypeOK
  <1>6. QED
    BY <1>1, <1>2, <1>4, <1>5

\* SampleSlow takes the chunk out of lru and moves the last of mru there.
LEMMA SampleSlowLists ==
  ASSUME IInv, NEW c \in Chunks, SampleSlow(c), NEW v, v = mru[Len(mru)]
  PROVE  /\ InList(lru, c) /\ ~InList(mru, c)
         /\ v \in Chunks /\ InList(mru, v) /\ ~InList(lru, v)
         /\ mru' \in Seq(Chunks) /\ Len(mru') = Len(mru) - 1 /\ Distinct(mru')
         /\ \A x : InList(mru', x) <=> InList(mru, x) /\ x # v
         /\ lru' \in Seq(Chunks) /\ Len(lru') = Len(lru) /\ Distinct(lru')
         /\ \A x : InList(lru', x) <=> (InList(lru, x) /\ x # c) \/ x = v
  <1> DEFINE q == dq(lru, c)
  <1>1. /\ InList(lru, c) /\ ~InList(mru, c) /\ swapping = None
    BY AllLinked DEF SampleSlow, IInv, TypeOK
  <1>2. v \in Chunks /\ InList(mru, v)
    <2>1. mru \in Seq(Chunks) /\ mru # <<>>
      BY DEF SampleSlow, IInv, TypeOK
    <2>2. Len(mru) \in 1 .. Len(mru)
      BY <2>1
    <2>3. QED
      BY <2>1, <2>2 DEF InList
  <1>3. ~InList(lru, v)
    BY <1>1, <1>2 DEF IInv, ListsMatch
  <1>4. /\ mru' \in Seq(Chunks) /\ Len(mru') = Len(mru) - 1 /\ Distinct(mru')
        /\ \A x : InList(mru', x) <=> InList(mru, x) /\ x # v
    <2>1. mru \in Seq(Chunks) /\ Distinct(mru) /\ mru' = dq(mru, v)
      BY DEF SampleSlow, IInv, TypeOK, ListsMatch
    <2>2. QED
      BY <1>2, <2>1, DqMembers
  <1>5. /\ q \in Seq(Chunks) /\ Len(q) = Len(lru) - 1 /\ Distinct(q)
        /\ \A x : InList(q, x) <=> InList(lru, x) /\ x # c
    <2>1. lru \in Seq(Chunks) /\ Distinct(lru)
      BY DEF IInv, TypeOK, ListsMatch
    <2>2. QED
      BY <1>1, <2>1, DqMembers
  <1>6. lru' = push(q, v)
    BY DEF SampleSlow
  <1> HIDE DEF q
  <1>7. /\ lru' \in Seq(Chunks) /\ Len(lru') = Len(q) + 1 /\ Distinct(lru')
        /\ \A x : InList(lru', x) <=> InList(q, x) \/ x = v
    BY <1>2, <1>3, <1>5, <1>6, PushMembers
  <1>8. Len(lru') = Len(lru)
    BY <1>5, <1>7 DEF IInv, TypeOK
  <1>9. QED
    BY <1>1, <1>2, <1>3, <1>4, <1>5, <1>7, <1>8

\* SampleSwapped puts the chunk in hand first in mru.
LEMMA SampleSwappedLists ==
  ASSUME IInv, SampleSwapped, NEW c, c = swapping[1]
  PROVE  /\ c \in Chunks /\ ~InList(mru, c)
         /\ mru' \in Seq(Chunks) /\ Len(mru') = Len(mru) + 1 /\ Distinct(mru')
         /\ \A x : InList(mru', x) <=> InList(mru, x) \/ x = c
  <1>1. c \in Chunks /\ ~InList(mru, c)
    BY DEF SampleSwapped, IInv, TypeOK, ListsMatch, SwapInv
  <1>2. QED
    <2>1. mru \in Seq(Chunks) /\ Distinct(mru) /\ mru' = push(mru, c)
      BY DEF SampleSwapped, IInv, TypeOK, ListsMatch
    <2>2. QED
      BY <1>1, <2>1, PushMembers

-----------------------------------------------------------------------------
(* Steps: one lemma for each part of the invariant.                        *)
=============================================================================
