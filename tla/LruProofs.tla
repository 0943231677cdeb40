------------------------------ MODULE LruProofs -------------------------------
(***************************************************************************)
(* Invariance of the policy's inductive invariant, step by step, and what  *)
(* follows from it.                                                        *)
(***************************************************************************)
EXTENDS LruLists

\* Every step keeps the types.
LEMMA TypeStep == IInv /\ [Next]_vars => TypeOK'
  <1> SUFFICES ASSUME IInv, [Next]_vars PROVE TypeOK'
    OBVIOUS
  <1> USE LruAssumption DEF policyVars, indexVars, appVars
  <1>0. TypeOK
    BY DEF IInv
  <1>1. ASSUME NEW t \in AppThreads, NEW b \in Blocks, AllocRegion(t, b) PROVE TypeOK'
    BY <1>0, <1>1 DEF AllocRegion, TypeOK
  <1>2. ASSUME NEW t \in AppThreads, AllocFast(t) PROVE TypeOK'
    <2> DEFINE c == <<reg[t], idx[t]>>
    <2>1. c \in Chunks /\ mru' \in Seq(Chunks)
      BY <1>2, AllocFastLists
    <2>2. idx[t] + 1 \in 0 .. MaxChunks
      BY <1>0, <1>2 DEF AllocFast, HasChunk, IInv, CtlInv, TypeOK
    <2>3. freeFastChunks' \in Int /\ loc' \in [Chunks -> {"FAST", "SLOW"}]
          /\ bound' \in [Chunks -> {"default", "fast", "slow"}] /\ idx' \in [AppThreads -> 0 .. MaxChunks]
      BY <1>0, <1>2, <2>1, <2>2 DEF AllocFast, TypeOK
    <2>4. QED
      BY <1>0, <1>2, <2>1, <2>3 DEF AllocFast, TypeOK
  <1>3. ASSUME NEW t \in AppThreads, AllocSlow(t) PROVE TypeOK'
    <2> DEFINE c == <<reg[t], idx[t]>>
    <2>1. c \in Chunks /\ lru' \in Seq(Chunks)
      BY <1>3, AllocSlowLists
    <2>2. idx[t] + 1 \in 0 .. MaxChunks
      BY <1>0, <1>3 DEF AllocSlow, HasChunk, IInv, CtlInv, TypeOK
    <2>3. loc' \in [Chunks -> {"FAST", "SLOW"}]
          /\ bound' \in [Chunks -> {"default", "fast", "slow"}] /\ idx' \in [AppThreads -> 0 .. MaxChunks]
      BY <1>0, <1>3, <2>1, <2>2 DEF AllocSlow, TypeOK
    <2>4. QED
      BY <1>0, <1>3, <2>1, <2>3 DEF AllocSlow, TypeOK
  <1>4. ASSUME NEW t \in AppThreads, AllocUnlock(t) PROVE TypeOK'
    BY <1>0, <1>4 DEF AllocUnlock, Return, TypeOK
  <1>5. ASSUME NEW t \in AppThreads, NEW b \in Blocks, Realloc(t, b) PROVE TypeOK'
    BY <1>0, <1>5 DEF Realloc, TypeOK
  <1>6. ASSUME NEW t \in AppThreads, NEW b \in Blocks, FreeLookup(t, b) PROVE TypeOK'
    <2>1. CASE b \in Aligned
      BY <1>0, <1>6, <2>1, Zenon DEF FreeLookup, NotFound, TypeOK
    <2>2. CASE b \notin Aligned
      <3>1. bound' \in [Chunks -> {"default", "fast", "slow"}]
        BY <1>0, <1>6, <2>2, Zenon DEF FreeLookup, TypeOK
      <3>2. mem' \in [Blocks -> {"none", "live", "freeing", "stale"}]
            /\ tpc' \in [AppThreads -> {"idle", "alloc", "found", "free"}]
        BY <1>0, <1>6, <2>2, Zenon DEF FreeLookup, TypeOK
      <3>3. reg' \in [AppThreads -> Blocks \cup {None}] /\ idx' \in [AppThreads -> 0 .. MaxChunks]
        <4>1. 0 \in 0 .. MaxChunks
          OBVIOUS
        <4>2. reg' = [reg EXCEPT ![t] = b] /\ idx' = [idx EXCEPT ![t] = 0]
          BY <1>6, <2>2 DEF FreeLookup
        <4>3. QED
          BY <1>0, <4>1, <4>2 DEF TypeOK
      <3>4. UNCHANGED <<lruLock, freeFastChunks, mru, lru, loc, nChunks, swapping>>
        BY <1>6 DEF FreeLookup
      <3>5. QED
        BY <1>0, <3>1, <3>2, <3>3, <3>4 DEF TypeOK
    <2>3. QED
      BY <2>1, <2>2
  <1>7. ASSUME NEW t \in AppThreads, FreeLock(t) PROVE TypeOK'
    BY <1>0, <1>7 DEF FreeLock, TypeOK
  <1>8. ASSUME NEW t \in AppThreads, FreeSlow(t) PROVE TypeOK'
    <2>1. lru' \in Seq(Chunks)
      BY <1>8, FreeSlowLists, Zenon
    <2>2. idx[t] + 1 \in 0 .. MaxChunks
      BY <1>0, <1>8 DEF FreeSlow, HasChunk, IInv, CtlInv, TypeOK
    <2>3. QED
      BY <1>0, <1>8, <2>1, <2>2 DEF FreeSlow, TypeOK
  <1>9. ASSUME NEW t \in AppThreads, FreeFast(t) PROVE TypeOK'
    <2>1. mru' \in Seq(Chunks)
      BY <1>9, FreeFastLists, Zenon
    <2>2. idx[t] + 1 \in 0 .. MaxChunks
      BY <1>0, <1>9 DEF FreeFast, HasChunk, IInv, CtlInv, TypeOK
    <2>3. QED
      BY <1>0, <1>9, <2>1, <2>2 DEF FreeFast, TypeOK
  <1>10. ASSUME NEW t \in AppThreads, FreePromote(t) PROVE TypeOK'
    <2>1. Head(lru) \in Chunks /\ mru' \in Seq(Chunks) /\ lru' \in Seq(Chunks)
      BY <1>10, FreePromoteLists, Zenon
    <2>2. idx[t] + 1 \in 0 .. MaxChunks
      BY <1>0, <1>10 DEF FreePromote, HasChunk, IInv, CtlInv, TypeOK
    <2>3. loc' \in [Chunks -> {"FAST", "SLOW"}] /\ bound' \in [Chunks -> {"default", "fast", "slow"}]
      BY <1>0, <1>10, <2>1 DEF FreePromote, TypeOK
    <2>4. QED
      BY <1>0, <1>10, <2>1, <2>2, <2>3 DEF FreePromote, TypeOK
  <1>11. ASSUME NEW t \in AppThreads, FreeDelete(t) PROVE TypeOK'
    BY <1>0, <1>11 DEF FreeDelete, Return, TypeOK, IInv, CtlInv
  <1>12. ASSUME NEW c \in Chunks, SampleFast(c) PROVE TypeOK'
    BY <1>0, <1>12, SampleFastLists DEF SampleFast, TypeOK
  <1>13. ASSUME NEW c \in Chunks, SampleSlow(c) PROVE TypeOK'
    <2> DEFINE v == mru[Len(mru)]
    <2>1. v \in Chunks /\ mru' \in Seq(Chunks) /\ lru' \in Seq(Chunks)
      BY <1>13, SampleSlowLists
    <2>2. bound' \in [Chunks -> {"default", "fast", "slow"}] /\ swapping' \in Chunks \X Chunks
      BY <1>0, <1>13, <2>1 DEF SampleSlow, SwapOut, TypeOK
    <2>3. QED
      BY <1>0, <1>13, <2>1, <2>2 DEF SampleSlow, TypeOK
  <1>14. CASE SampleSwapped
    <2>1. swapping[1] \in Chunks /\ swapping[2] \in Chunks /\ mru' \in Seq(Chunks)
      BY <1>0, <1>14, SampleSwappedLists DEF SampleSwapped, TypeOK
    <2>2. loc' \in [Chunks -> {"FAST", "SLOW"}] /\ bound' \in [Chunks -> {"default", "fast", "slow"}]
      BY <1>0, <1>14, <2>1, Zenon DEF SampleSwapped, TypeOK
    <2>3. QED
      BY <1>0, <1>14, <2>1, <2>2 DEF SampleSwapped, TypeOK
  <1>15. CASE UNCHANGED vars
    BY <1>0, <1>15 DEF vars, TypeOK
  <1>16. QED
    BY <1>1, <1>2, <1>3, <1>4, <1>5, <1>6, <1>7, <1>8, <1>9, <1>10, <1>11, <1>12, <1>13, <1>14, <1>15
       DEF Next, AllocStep, FreeStep, SampleStep

\* Every step keeps the lock, the threads and the regions in agreement.
LEMMA CtlStep == IInv /\ [Next]_vars => CtlInv'
  <1> SUFFICES ASSUME IInv, [Next]_vars PROVE CtlInv'
    OBVIOUS
  <1> USE LruAssumption DEF policyVars, indexVars, appVars
  <1>0. TypeOK /\ CtlInv
    BY DEF IInv
  <1>1. ASSUME NEW t \in AppThreads, NEW b \in Blocks, AllocRegion(t, b) PROVE CtlInv'
    <2>1. \A u \in AppThreads : tpc[u] # "idle" => reg[u] # b
      <3> SUFFICES ASSUME NEW u \in AppThreads, tpc[u] # "idle" PROVE mem[reg[u]] # "none"
        BY <1>1 DEF AllocRegion
      <3>1. tpc[u] \in {"alloc", "found", "free"}
        BY <1>0 DEF TypeOK
      <3>2. tpc[u] = "alloc" => mem[reg[u]] = "live"
        BY <1>0 DEF CtlInv
      <3>3. tpc[u] \in {"found", "free"} => mem[reg[u]] = "freeing"
        BY <1>0 DEF CtlInv
      <3> QED
        BY <3>1, <3>2, <3>3
    <2>2. QED
      BY <1>0, <1>1, <2>1 DEF AllocRegion, CtlInv, TypeOK
  <1>2. ASSUME NEW t \in AppThreads, AllocFast(t) PROVE CtlInv'
    BY <1>0, <1>2 DEF AllocFast, HasChunk, CtlInv, TypeOK
  <1>3. ASSUME NEW t \in AppThreads, AllocSlow(t) PROVE CtlInv'
    BY <1>0, <1>3 DEF AllocSlow, HasChunk, CtlInv, TypeOK
  <1>4. ASSUME NEW t \in AppThreads, AllocUnlock(t) PROVE CtlInv'
    BY <1>0, <1>4 DEF AllocUnlock, Return, CtlInv, TypeOK
  <1>5. ASSUME NEW t \in AppThreads, NEW b \in Blocks, Realloc(t, b) PROVE CtlInv'
    BY <1>0, <1>5 DEF Realloc, CtlInv, TypeOK
  <1>6. ASSUME NEW t \in AppThreads, NEW b \in Blocks, FreeLookup(t, b) PROVE CtlInv'
    <2>1. \A u \in AppThreads : tpc[u] # "idle" => reg[u] # b
      BY <1>0, <1>6 DEF FreeLookup, CtlInv, TypeOK
    <2>2. CASE b \in Aligned
      BY <1>0, <1>6, <2>1, <2>2 DEF FreeLookup, NotFound, CtlInv, TypeOK
    <2>3. CASE b \notin Aligned
      <3>1. mem[b] = "live" /\ tpc[t] = "idle" /\ UNCHANGED <<lruLock, nChunks, swapping>>
            /\ mem' = [mem EXCEPT ![b] = "freeing"] /\ tpc' = [tpc EXCEPT ![t] = "found"]
            /\ reg' = [reg EXCEPT ![t] = b] /\ idx' = [idx EXCEPT ![t] = 0]
        BY <1>6, <2>3 DEF FreeLookup
      <3>2. QED
        BY <1>0, <2>1, <3>1 DEF CtlInv, TypeOK
    <2>4. QED
      BY <2>2, <2>3
  <1>7. ASSUME NEW t \in AppThreads, FreeLock(t) PROVE CtlInv'
    BY <1>0, <1>7 DEF FreeLock, CtlInv, TypeOK
  <1>8. ASSUME NEW t \in AppThreads, FreeSlow(t) PROVE CtlInv'
    BY <1>0, <1>8 DEF FreeSlow, HasChunk, CtlInv, TypeOK
  <1>9. ASSUME NEW t \in AppThreads, FreeFast(t) PROVE CtlInv'
    BY <1>0, <1>9 DEF FreeFast, HasChunk, CtlInv, TypeOK
  <1>10. ASSUME NEW t \in AppThreads, FreePromote(t) PROVE CtlInv'
    BY <1>0, <1>10 DEF FreePromote, HasChunk, CtlInv, TypeOK
  <1>11. ASSUME NEW t \in AppThreads, FreeDelete(t) PROVE CtlInv'
    <2>1. reg[t] \in Blocks /\ \A u \in AppThreads : u # t /\ tpc[u] # "idle" => reg[u] # reg[t]
      BY <1>0, <1>11 DEF FreeDelete, CtlInv, TypeOK
    <2>2. QED
      BY <1>0, <1>11, <2>1 DEF FreeDelete, Return, CtlInv, TypeOK
  <1>12. ASSUME NEW c \in Chunks, SampleFast(c) PROVE CtlInv'
    BY <1>0, <1>12 DEF SampleFast, CtlInv
  <1>13. ASSUME NEW c \in Chunks, SampleSlow(c) PROVE CtlInv'
    <2>1. swapping' # None
      BY <1>13, SampleSlowLists DEF SampleSlow
    <2>2. QED
      BY <1>0, <1>13, <2>1 DEF SampleSlow, CtlInv
  <1>14. CASE SampleSwapped
    BY <1>0, <1>14 DEF SampleSwapped, CtlInv
  <1>15. CASE UNCHANGED vars
    BY <1>0, <1>15 DEF vars, CtlInv
  <1>16. QED
    BY <1>1, <1>2, <1>3, <1>4, <1>5, <1>6, <1>7, <1>8, <1>9, <1>10, <1>11, <1>12, <1>13, <1>14, <1>15
       DEF Next, AllocStep, FreeStep, SampleStep

-----------------------------------------------------------------------------
(* Which chunks are linked after a step.                                   *)

\* A round of an allocation loop links the chunk at hand.
LEMMA LinkedAlloc ==
  ASSUME IInv, NEW t \in AppThreads, AllocFast(t) \/ AllocSlow(t), NEW x \in Chunks
  PROVE  Linked(x)' <=> Linked(x) \/ x = <<reg[t], idx[t]>>
  <1>1. /\ tpc[t] = "alloc" /\ HasChunk(t) /\ UNCHANGED <<nChunks, tpc, reg>>
        /\ idx' = [idx EXCEPT ![t] = @ + 1]
    BY DEF AllocFast, AllocSlow, indexVars
  <1>2. \A u \in AppThreads : u # t => tpc[u] \notin {"alloc", "free"}
    BY <1>1, OneHolder DEF IInv
  <1>3. x = <<reg[t], idx[t]>> => Tracked(x)
    BY <1>1 DEF HasChunk, Tracked
  <1>4. Linked(x) <=> Tracked(x) /\ (reg[t] = x[1] => x[2] < idx[t])
    BY <1>1, <1>2 DEF Linked
  <1>5. Tracked(x)' <=> Tracked(x)
    BY <1>1 DEF Tracked
  <1>6. idx[t] \in Int /\ idx' \in [AppThreads -> Int] /\ idx'[t] = idx[t] + 1
    BY <1>1 DEF IInv, TypeOK
  <1>7. Linked(x)' <=> Tracked(x) /\ (reg[t] = x[1] => x[2] < idx[t] + 1)
    BY <1>1, <1>2, <1>5, <1>6 DEF Linked
  <1>8. x = <<x[1], x[2]>> /\ x[2] \in Int
    BY LruAssumption DEF Chunks
  <1>9. QED
    BY <1>3, <1>4, <1>6, <1>7, <1>8

\* A round of the freeing loop unlinks the chunk at hand.
LEMMA LinkedFree ==
  ASSUME IInv, NEW t \in AppThreads, FreeSlow(t) \/ FreeFast(t) \/ FreePromote(t), NEW x \in Chunks
  PROVE  Linked(x)' <=> Linked(x) /\ x # <<reg[t], idx[t]>>
  <1>1. /\ tpc[t] = "free" /\ HasChunk(t) /\ UNCHANGED <<nChunks, tpc, reg>>
        /\ idx' = [idx EXCEPT ![t] = @ + 1]
    BY DEF FreeSlow, FreeFast, FreePromote, indexVars
  <1>2. \A u \in AppThreads : u # t => tpc[u] \notin {"alloc", "free"}
    BY <1>1, OneHolder DEF IInv
  <1>4. Linked(x) <=> Tracked(x) /\ (reg[t] = x[1] => idx[t] <= x[2])
    BY <1>1, <1>2 DEF Linked
  <1>5. Tracked(x)' <=> Tracked(x)
    BY <1>1 DEF Tracked
  <1>6. idx[t] \in Int /\ idx' \in [AppThreads -> Int] /\ idx'[t] = idx[t] + 1
    BY <1>1 DEF IInv, TypeOK
  <1>7. Linked(x)' <=> Tracked(x) /\ (reg[t] = x[1] => idx[t] + 1 <= x[2])
    BY <1>1, <1>2, <1>5, <1>6 DEF Linked
  <1>8. x = <<x[1], x[2]>> /\ x[2] \in Int
    BY LruAssumption DEF Chunks
  <1>9. QED
    BY <1>4, <1>6, <1>7, <1>8

\* The steps before and after the loops link and unlink nothing.
LEMMA LinkedSame ==
  ASSUME IInv, NEW x \in Chunks,
         \/ \E t \in AppThreads : \/ \E b \in Blocks : AllocRegion(t, b) \/ Realloc(t, b) \/ FreeLookup(t, b)
                                  \/ AllocUnlock(t) \/ FreeLock(t) \/ FreeDelete(t)
         \/ UNCHANGED <<nChunks, tpc, reg, idx>>
  PROVE  Linked(x)' <=> Linked(x)
  <1> USE DEF policyVars, indexVars, appVars
  <1>0. x[1] \in Blocks /\ x[2] \in Nat /\ TypeOK /\ CtlInv
    BY LruAssumption DEF Chunks, IInv
  <1>1. ASSUME NEW t \in AppThreads, NEW b \in Blocks, AllocRegion(t, b) PROVE Linked(x)' <=> Linked(x)
    <2>1. CASE x[1] = b
      <3>1. ~Tracked(x)
        BY <1>0, <1>1, <2>1 DEF AllocRegion, Tracked, CtlInv, TypeOK
      <3>2. tpc'[t] = "alloc" /\ reg'[t] = x[1] /\ idx'[t] = 0
        BY <1>0, <1>1, <2>1 DEF AllocRegion, TypeOK
      <3>3. QED
        BY <1>0, <3>1, <3>2 DEF Linked
    <2>2. CASE x[1] # b
      <3>1. nChunks'[x[1]] = nChunks[x[1]]
        BY <1>0, <1>1, <2>2 DEF AllocRegion, TypeOK
      <3>2. tpc[t] = "idle" /\ reg'[t] # x[1]
        BY <1>0, <1>1, <2>2 DEF AllocRegion, TypeOK
      <3>3. \A u \in AppThreads : u # t => tpc'[u] = tpc[u] /\ reg'[u] = reg[u] /\ idx'[u] = idx[u]
        BY <1>0, <1>1 DEF AllocRegion, TypeOK
      <3>4. QED
        BY <3>1, <3>2, <3>3 DEF Linked, Tracked
    <2>3. QED
      BY <2>1, <2>2
  <1>2. ASSUME NEW t \in AppThreads, NEW b \in Blocks, Realloc(t, b) PROVE Linked(x)' <=> Linked(x)
    BY <1>2 DEF Realloc, Linked, Tracked
  <1>3. ASSUME NEW t \in AppThreads, NEW b \in Blocks, FreeLookup(t, b) PROVE Linked(x)' <=> Linked(x)
    <2>1. nChunks' = nChunks
      BY <1>3 DEF FreeLookup
    <2>2. tpc[t] = "idle" /\ tpc'[t] \in {"idle", "found"}
      BY <1>0, <1>3 DEF FreeLookup, TypeOK
    <2>3. \A u \in AppThreads : u # t => tpc'[u] = tpc[u] /\ reg'[u] = reg[u] /\ idx'[u] = idx[u]
      BY <1>0, <1>3 DEF FreeLookup, TypeOK
    <2>4. QED
      BY <2>1, <2>2, <2>3 DEF Linked, Tracked
  <1>4. ASSUME NEW t \in AppThreads, AllocUnlock(t) PROVE Linked(x)' <=> Linked(x)
    <2>1. /\ tpc[t] = "alloc" /\ nChunks[reg[t]] <= idx[t] /\ nChunks' = nChunks
          /\ tpc'[t] = "idle"
          /\ \A u \in AppThreads : u # t => tpc'[u] = tpc[u] /\ reg'[u] = reg[u] /\ idx'[u] = idx[u]
      BY <1>0, <1>4 DEF AllocUnlock, Return, HasChunk, TypeOK, CtlInv
    <2>2. Tracked(x) /\ reg[t] = x[1] => x[2] < idx[t]
      BY <1>0, <2>1 DEF Tracked, TypeOK
    <2>3. QED
      BY <2>1, <2>2 DEF Linked, Tracked
  <1>5. ASSUME NEW t \in AppThreads, FreeLock(t) PROVE Linked(x)' <=> Linked(x)
    <2>1. /\ tpc[t] = "found" /\ idx[t] = 0 /\ nChunks' = nChunks
          /\ tpc'[t] = "free" /\ idx' = idx /\ reg' = reg
          /\ \A u \in AppThreads : u # t => tpc'[u] = tpc[u]
      BY <1>0, <1>5 DEF FreeLock, TypeOK, CtlInv
    <2>2. QED
      BY <1>0, <2>1 DEF Linked, Tracked
  <1>6. ASSUME NEW t \in AppThreads, FreeDelete(t) PROVE Linked(x)' <=> Linked(x)
    <2>1. /\ tpc[t] = "free" /\ nChunks[reg[t]] <= idx[t] /\ reg[t] \in Blocks
          /\ nChunks' = [nChunks EXCEPT ![reg[t]] = 0] /\ tpc'[t] = "idle"
          /\ \A u \in AppThreads : u # t => tpc'[u] = tpc[u] /\ reg'[u] = reg[u] /\ idx'[u] = idx[u]
      <3>1. tpc[t] = "free" /\ ~HasChunk(t) /\ Return(t) /\ nChunks' = [nChunks EXCEPT ![reg[t]] = 0]
        BY <1>6 DEF FreeDelete
      <3>2. reg[t] \in Blocks
        BY <1>0, <3>1 DEF CtlInv
      <3>3. nChunks[reg[t]] <= idx[t]
        BY <1>0, <3>1, <3>2 DEF HasChunk, TypeOK
      <3>4. QED
        BY <1>0, <3>1, <3>2, <3>3 DEF Return, TypeOK
    <2>2. CASE x[1] = reg[t]
      <3>1. ~Tracked(x)'
        BY <1>0, <2>1, <2>2 DEF Tracked, TypeOK
      <3>2. Tracked(x) => x[2] < idx[t]
        BY <1>0, <2>1, <2>2 DEF Tracked, TypeOK
      <3>3. idx[t] \in Nat
        BY <1>0 DEF TypeOK
      <3>4. QED
        BY <1>0, <2>1, <2>2, <3>1, <3>2, <3>3 DEF Linked
    <2>3. CASE x[1] # reg[t]
      <3>1. nChunks'[x[1]] = nChunks[x[1]]
        BY <1>0, <2>1, <2>3 DEF TypeOK
      <3>2. QED
        BY <2>1, <2>3, <3>1 DEF Linked, Tracked
    <2>4. QED
      BY <2>2, <2>3
  <1>7. CASE UNCHANGED <<nChunks, tpc, reg, idx>>
    BY <1>7 DEF Linked, Tracked
  <1>8. QED
    BY <1>1, <1>2, <1>3, <1>4, <1>5, <1>6, <1>7

-----------------------------------------------------------------------------
\* Every step keeps the lists and the marks in agreement.
LEMMA ListStep == IInv /\ [Next]_vars => ListsMatch'
  <1> SUFFICES ASSUME IInv, [Next]_vars PROVE ListsMatch'
    OBVIOUS
  <1>0. TypeOK /\ CtlInv /\ ListsMatch /\ SwapInv
    BY DEF IInv
  <1>a. ASSUME UNCHANGED <<mru, lru, loc, swapping>>, \A x \in Chunks : Linked(x)' <=> Linked(x)
        PROVE  ListsMatch'
    BY <1>0, <1>a DEF ListsMatch, InList, Distinct
  <1>1. ASSUME NEW t \in AppThreads, NEW b \in Blocks,
               AllocRegion(t, b) \/ Realloc(t, b) \/ FreeLookup(t, b)
        PROVE  ListsMatch'
    BY <1>1, <1>a, LinkedSame, Zenon DEF AllocRegion, Realloc, FreeLookup, policyVars
  <1>2. ASSUME NEW t \in AppThreads, AllocFast(t) PROVE ListsMatch'
    <2> DEFINE c == <<reg[t], idx[t]>>
    <2>1. c \in Chunks /\ Distinct(mru') /\ \A x : InList(mru', x) <=> InList(mru, x) \/ x = c
      BY <1>2, AllocFastLists
    <2>2. ~InList(lru, c) /\ swapping = None
      BY <1>0, <1>2, AtHand, OneHolder DEF AllocFast
    <2>3. \A x \in Chunks : Linked(x)' <=> Linked(x) \/ x = c
      BY <1>2, LinkedAlloc
    <2>4. lru' = lru /\ swapping' = swapping /\ loc' = [loc EXCEPT ![c] = "FAST"]
      BY <1>2 DEF AllocFast
    <2> HIDE DEF c
    <2>5. \A x \in Chunks : loc'[x] = IF x = c THEN "FAST" ELSE loc[x]
      BY <1>0, <2>1, <2>4 DEF TypeOK
    <2>6. QED
      BY <1>0, <2>1, <2>2, <2>3, <2>4, <2>5 DEF ListsMatch
  <1>3. ASSUME NEW t \in AppThreads, AllocSlow(t) PROVE ListsMatch'
    <2> DEFINE c == <<reg[t], idx[t]>>
    <2>1. c \in Chunks /\ Distinct(lru') /\ \A x : InList(lru', x) <=> InList(lru, x) \/ x = c
      BY <1>3, AllocSlowLists
    <2>2. ~InList(mru, c) /\ swapping = None
      BY <1>0, <1>3, AtHand, OneHolder DEF AllocSlow
    <2>3. \A x \in Chunks : Linked(x)' <=> Linked(x) \/ x = c
      BY <1>3, LinkedAlloc
    <2>4. mru' = mru /\ swapping' = swapping /\ loc' = [loc EXCEPT ![c] = "SLOW"]
      BY <1>3 DEF AllocSlow
    <2> HIDE DEF c
    <2>5. \A x \in Chunks : loc'[x] = IF x = c THEN "SLOW" ELSE loc[x]
      BY <1>0, <2>1, <2>4 DEF TypeOK
    <2>6. QED
      BY <1>0, <2>1, <2>2, <2>3, <2>4, <2>5 DEF ListsMatch
  <1>4. ASSUME NEW t \in AppThreads, AllocUnlock(t) \/ FreeLock(t) PROVE ListsMatch'
    BY <1>4, <1>a, LinkedSame DEF AllocUnlock, FreeLock, policyVars
  <1>5. ASSUME NEW t \in AppThreads, FreeSlow(t) PROVE ListsMatch'
    <2> DEFINE c == <<reg[t], idx[t]>>
    <2>1. c \in Chunks /\ Distinct(lru') /\ \A x : InList(lru', x) <=> InList(lru, x) /\ x # c
      BY <1>5, FreeSlowLists
    <2>2. swapping = None /\ loc[c] = "SLOW"
      BY <1>0, <1>5, OneHolder DEF FreeSlow
    <2>3. \A x \in Chunks : Linked(x)' <=> Linked(x) /\ x # c
      BY <1>5, LinkedFree
    <2>4. UNCHANGED <<mru, loc, swapping>>
      BY <1>5 DEF FreeSlow
    <2> HIDE DEF c
    <2>5. QED
      BY <1>0, <2>1, <2>2, <2>3, <2>4 DEF ListsMatch
  <1>6. ASSUME NEW t \in AppThreads, FreeFast(t) PROVE ListsMatch'
    <2> DEFINE c == <<reg[t], idx[t]>>
    <2>1. c \in Chunks /\ Distinct(mru') /\ \A x : InList(mru', x) <=> InList(mru, x) /\ x # c
      BY <1>6, FreeFastLists
    <2>2. swapping = None /\ loc[c] = "FAST"
      BY <1>0, <1>6, OneHolder DEF FreeFast
    <2>3. \A x \in Chunks : Linked(x)' <=> Linked(x) /\ x # c
      BY <1>6, LinkedFree
    <2>4. UNCHANGED <<lru, loc, swapping>>
      BY <1>6 DEF FreeFast
    <2> HIDE DEF c
    <2>5. QED
      BY <1>0, <2>1, <2>2, <2>3, <2>4 DEF ListsMatch
  <1>7. ASSUME NEW t \in AppThreads, FreePromote(t) PROVE ListsMatch'
    <2> DEFINE c == <<reg[t], idx[t]>>
               p == Head(lru)
    <2>1. /\ c \in Chunks /\ InList(mru, c) /\ p \in Chunks /\ InList(lru, p)
          /\ Distinct(mru') /\ \A x : InList(mru', x) <=> (InList(mru, x) /\ x # c) \/ x = p
          /\ Distinct(lru') /\ \A x : InList(lru', x) <=> InList(lru, x) /\ x # p
      BY <1>7, FreePromoteLists
    <2>2. swapping = None /\ loc[c] = "FAST"
      BY <1>0, <1>7, OneHolder DEF FreePromote
    <2>3. \A x \in Chunks : Linked(x)' <=> Linked(x) /\ x # c
      BY <1>7, LinkedFree
    <2>4. swapping' = swapping /\ loc' = [loc EXCEPT ![p] = "FAST"]
      BY <1>7 DEF FreePromote
    <2> HIDE DEF c, p
    <2>5. \A x \in Chunks : loc'[x] = IF x = p THEN "FAST" ELSE loc[x]
      BY <1>0, <2>1, <2>4 DEF TypeOK
    <2>6. Linked(p) /\ p # c
      BY <1>0, <2>1, <2>2 DEF ListsMatch
    <2>7. QED
      BY <1>0, <2>1, <2>2, <2>3, <2>4, <2>5, <2>6 DEF ListsMatch
  <1>8. ASSUME NEW t \in AppThreads, FreeDelete(t) PROVE ListsMatch'
    <2>1. \A x \in Chunks : Linked(x)' <=> Linked(x)
      BY <1>8, LinkedSame
    <2>2. UNCHANGED <<mru, lru, swapping>> /\ swapping = None
          /\ loc' = [c \in Chunks |-> IF c[1] = reg[t] THEN "SLOW" ELSE loc[c]]
      BY <1>0, <1>8, OneHolder DEF FreeDelete
    <2>3. \A x \in Chunks : Linked(x)' => x[1] # reg[t]
      <3> SUFFICES ASSUME NEW x \in Chunks, Linked(x)', x[1] = reg[t] PROVE FALSE
        OBVIOUS
      <3>1. x[1] \in Blocks /\ x[2] \in Nat /\ nChunks'[x[1]] = 0
        BY <1>0, <1>8 DEF Chunks, FreeDelete, TypeOK
      <3>2. QED
        BY <3>1 DEF Linked, Tracked
    <2>4. \A x \in Chunks : Linked(x) => loc'[x] = loc[x]
      BY <2>1, <2>2, <2>3
    <2>5. QED
      BY <1>0, <2>1, <2>2, <2>4 DEF ListsMatch, InList, Distinct
  <1>9. ASSUME NEW c \in Chunks, SampleFast(c) PROVE ListsMatch'
    <2>1. Distinct(mru') /\ \A x : InList(mru', x) <=> InList(mru, x)
      BY <1>9, SampleFastLists
    <2>2. UNCHANGED <<lru, loc, swapping>>
      BY <1>9 DEF SampleFast
    <2>3. \A x \in Chunks : Linked(x)' <=> Linked(x)
      BY <1>9, LinkedSame DEF SampleFast, indexVars, appVars
    <2>4. QED
      BY <1>0, <2>1, <2>2, <2>3 DEF ListsMatch
  <1>10. ASSUME NEW c \in Chunks, SampleSlow(c) PROVE ListsMatch'
    <2> DEFINE v == mru[Len(mru)]
    <2>1. /\ InList(lru, c) /\ ~InList(mru, c) /\ v \in Chunks /\ InList(mru, v) /\ ~InList(lru, v)
          /\ Distinct(mru') /\ \A x : InList(mru', x) <=> InList(mru, x) /\ x # v
          /\ Distinct(lru') /\ \A x : InList(lru', x) <=> (InList(lru, x) /\ x # c) \/ x = v
      BY <1>10, SampleSlowLists
    <2>2. loc' = loc /\ swapping' = <<c, v>> /\ swapping = None
      BY <1>10, AllLinked DEF SampleSlow
    <2>3. \A x \in Chunks : Linked(x)' <=> Linked(x)
      BY <1>10, LinkedSame DEF SampleSlow, indexVars, appVars
    <2> HIDE DEF v
    <2>4. swapping' # None /\ swapping'[1] = c /\ swapping'[2] = v /\ c # v
      BY <2>1, <2>2, LruAssumption
    <2>5. QED
      BY <1>0, <2>1, <2>2, <2>3, <2>4 DEF ListsMatch
  <1>11. CASE SampleSwapped
    <2> DEFINE c == swapping[1]
               v == swapping[2]
    <2>1. /\ c \in Chunks /\ Distinct(mru') /\ \A x : InList(mru', x) <=> InList(mru, x) \/ x = c
      BY <1>11, SampleSwappedLists
    <2>2. swapping # None /\ swapping' = None /\ lru' = lru
          /\ loc' = [loc EXCEPT ![c] = "FAST", ![v] = "SLOW"]
      BY <1>11 DEF SampleSwapped
    <2>3. \A x \in Chunks : Linked(x)' <=> Linked(x)
      BY <1>11, LinkedSame DEF SampleSwapped, indexVars, appVars
    <2>4. v \in Chunks /\ c # v /\ Linked(c) /\ Linked(v)
      BY <1>0, <2>2 DEF SwapInv, TypeOK
    <2>5. \A x \in Chunks : loc'[x] = IF x = v THEN "SLOW" ELSE IF x = c THEN "FAST" ELSE loc[x]
      BY <1>0, <2>1, <2>2, <2>4 DEF TypeOK
    <2>6. loc[c] = "SLOW" /\ loc[v] = "FAST"
      BY <1>0, <2>2 DEF SwapInv
    <2>7. /\ Distinct(lru)
          /\ \A x \in Chunks : /\ InList(mru, x) <=> Linked(x) /\ loc[x] = "FAST" /\ x # v
                               /\ InList(lru, x) <=> (Linked(x) /\ loc[x] = "SLOW" /\ x # c) \/ x = v
      BY <1>0, <2>2 DEF ListsMatch
    <2> HIDE DEF c, v
    <2>8. /\ Distinct(lru)'
          /\ \A x \in Chunks : /\ InList(mru', x) <=> Linked(x)' /\ loc'[x] = "FAST"
                               /\ InList(lru, x) <=> Linked(x)' /\ loc'[x] = "SLOW"
      BY <2>1, <2>2, <2>3, <2>4, <2>5, <2>6, <2>7, Zenon
    <2>9. QED
      BY <2>1, <2>2, <2>8, Zenon DEF ListsMatch
  <1>12. CASE UNCHANGED vars
    BY <1>12, <1>a, LinkedSame DEF vars, policyVars, indexVars, appVars
  <1>13. QED
    BY <1>1, <1>2, <1>3, <1>4, <1>5, <1>6, <1>7, <1>8, <1>9, <1>10, <1>11, <1>12
       DEF Next, AllocStep, FreeStep, SampleStep

\* Every step keeps the chunk and the victim of a swap what they were.
LEMMA SwapStep == IInv /\ [Next]_vars => SwapInv'
  <1> SUFFICES ASSUME IInv, [Next]_vars PROVE SwapInv'
    OBVIOUS
  <1>0. TypeOK /\ CtlInv /\ ListsMatch /\ SwapInv
    BY DEF IInv
  <1>a. ASSUME UNCHANGED <<loc, swapping>>, \A x \in Chunks : Linked(x)' <=> Linked(x)
        PROVE  SwapInv'
    BY <1>0, <1>a DEF SwapInv, TypeOK
  <1>1. ASSUME NEW t \in AppThreads, NEW b \in Blocks,
               AllocRegion(t, b) \/ Realloc(t, b) \/ FreeLookup(t, b)
        PROVE  SwapInv'
    BY <1>1, <1>a, LinkedSame, Zenon DEF AllocRegion, Realloc, FreeLookup, policyVars
  <1>2. ASSUME NEW t \in AppThreads,
               \/ AllocFast(t) \/ AllocSlow(t) \/ AllocUnlock(t)
               \/ FreeSlow(t) \/ FreeFast(t) \/ FreePromote(t) \/ FreeDelete(t)
        PROVE  SwapInv'
    <2>1. tpc[t] \in {"alloc", "free"} /\ swapping' = swapping
      BY <1>2, Zenon DEF AllocFast, AllocSlow, AllocUnlock, FreeSlow, FreeFast, FreePromote, FreeDelete
    <2>2. QED
      BY <1>0, <2>1, OneHolder DEF SwapInv
  <1>3. ASSUME NEW t \in AppThreads, FreeLock(t) PROVE SwapInv'
    BY <1>3, <1>a, LinkedSame, Zenon DEF FreeLock, policyVars
  <1>4. ASSUME NEW c \in Chunks, SampleFast(c) PROVE SwapInv'
    BY <1>4, <1>a, LinkedSame DEF SampleFast, indexVars, appVars
  <1>5. ASSUME NEW c \in Chunks, SampleSlow(c) PROVE SwapInv'
    <2> DEFINE v == mru[Len(mru)]
    <2>1. v \in Chunks /\ InList(mru, v)
      BY <1>5, SampleSlowLists
    <2>2. loc' = loc /\ loc[c] = "SLOW" /\ swapping' = <<c, v>> /\ Linked(c)
      BY <1>5, AllLinked DEF SampleSlow
    <2>3. \A x \in Chunks : Linked(x)' <=> Linked(x)
      BY <1>5, LinkedSame DEF SampleSlow, indexVars, appVars
    <2>4. Linked(v) /\ loc[v] = "FAST"
      BY <1>0, <2>1 DEF ListsMatch
    <2>5. QED
      BY <2>1, <2>2, <2>3, <2>4 DEF SwapInv
  <1>6. CASE SampleSwapped
    BY <1>6 DEF SampleSwapped, SwapInv
  <1>7. CASE UNCHANGED vars
    BY <1>7, <1>a, LinkedSame DEF vars, policyVars, indexVars, appVars
  <1>8. QED
    BY <1>1, <1>2, <1>3, <1>4, <1>5, <1>6, <1>7 DEF Next, AllocStep, FreeStep, SampleStep

\* Every step leaves the chunks marked SLOW out of fast memory.
LEMMA BindStep == IInv /\ [Next]_vars => BindInv'
  <1> SUFFICES ASSUME IInv, [Next]_vars PROVE BindInv'
    OBVIOUS
  <1>0. TypeOK /\ CtlInv /\ ListsMatch /\ SwapInv /\ BindInv
    BY DEF IInv
  <1>b. \A x \in Chunks : x[1] \in Blocks /\ x[2] \in Nat
    BY LruAssumption DEF Chunks
  <1>c. \A x \in Chunks : Linked(x) => mem[x[1]] # "none"
    BY <1>0, <1>b DEF Linked, Tracked, CtlInv, TypeOK
  <1>d. swapping # None => swapping[2] \in Chunks /\ Linked(swapping[2])
    BY <1>0 DEF SwapInv, TypeOK
  <1>a. ASSUME UNCHANGED <<loc, swapping>>, \A x \in Chunks : Linked(x)' => Linked(x),
               \A x \in Chunks : Linked(x) /\ OutOfFast(x) => OutOfFast(x)'
        PROVE  BindInv'
    BY <1>0, <1>a, <1>d DEF BindInv
  <1>1. ASSUME NEW t \in AppThreads, NEW b \in Blocks, AllocRegion(t, b) PROVE BindInv'
    <2>1. \A x \in Chunks : Linked(x) => mem'[x[1]] = mem[x[1]]
      BY <1>0, <1>1, <1>b, <1>c DEF AllocRegion, TypeOK
    <2>2. UNCHANGED <<loc, bound, swapping>>
      BY <1>1 DEF AllocRegion, policyVars
    <2>3. QED
      BY <1>1, <1>a, <2>1, <2>2, LinkedSame DEF OutOfFast
  <1>2. ASSUME NEW t \in AppThreads, NEW b \in Blocks, Realloc(t, b) PROVE BindInv'
    <2>1. \A x \in Chunks : mem[x[1]] = "freeing" => mem'[x[1]] = "freeing"
      BY <1>0, <1>2, <1>b DEF Realloc, TypeOK
    <2>2. \A x \in Chunks : mem'[x[1]] = "freeing" => mem[x[1]] = "freeing"
      BY <1>0, <1>2, <1>b DEF Realloc, TypeOK
    <2>3. UNCHANGED <<loc, bound, swapping>>
      BY <1>2 DEF Realloc, policyVars
    <2>4. QED
      BY <1>2, <1>a, <2>1, <2>2, <2>3, LinkedSame DEF OutOfFast
  <1>3. ASSUME NEW t \in AppThreads, NEW b \in Blocks, FreeLookup(t, b) PROVE BindInv'
    <2>1. UNCHANGED <<loc, swapping>>
      BY <1>3 DEF FreeLookup, policyVars
    <2>2. ASSUME NEW x \in Chunks, OutOfFast(x) PROVE OutOfFast(x)'
      <3>1. CASE b \in Aligned
        <4>1. bound' = bound /\ mem' = [mem EXCEPT ![b] = "stale"] /\ mem[b] = "live"
          BY <1>3, <3>1 DEF FreeLookup, NotFound
        <4>2. mem'[x[1]] = "freeing" <=> mem[x[1]] = "freeing"
          BY <1>0, <1>b, <4>1 DEF TypeOK
        <4>3. QED
          BY <2>2, <4>1, <4>2 DEF OutOfFast
      <3>2. CASE b \notin Aligned
        <4>1. bound' = [bound EXCEPT ![<<b, 0>>] = "default"] /\ mem' = [mem EXCEPT ![b] = "freeing"]
          BY <1>3, <3>2 DEF FreeLookup
        <4>2. CASE x[1] = b
          <5>1. mem'[x[1]] = "freeing"
            BY <1>0, <1>b, <4>1, <4>2 DEF TypeOK
          <5>2. bound'[x] # "fast"
            BY <1>0, <2>2, <4>1 DEF TypeOK, OutOfFast
          <5>3. QED
            BY <5>1, <5>2 DEF OutOfFast
        <4>3. CASE x[1] # b
          <5>1. mem'[x[1]] = mem[x[1]]
            BY <1>0, <1>b, <4>1, <4>3 DEF TypeOK
          <5>2. bound'[x] = bound[x]
            BY <1>0, <4>1, <4>3 DEF TypeOK
          <5>3. QED
            BY <2>2, <5>1, <5>2 DEF OutOfFast
        <4>4. QED
          BY <4>2, <4>3
      <3>3. QED
        BY <3>1, <3>2
    <2>3. QED
      BY <1>3, <1>a, <2>1, <2>2, LinkedSame
  <1>4. ASSUME NEW t \in AppThreads, AllocFast(t) PROVE BindInv'
    <2> DEFINE c == <<reg[t], idx[t]>>
    <2>1. c \in Chunks /\ swapping = None /\ swapping' = None /\ mem' = mem
          /\ loc' = [loc EXCEPT ![c] = "FAST"] /\ bound' = [bound EXCEPT ![c] = "fast"]
      BY <1>0, <1>4, AllocFastLists, OneHolder, Zenon DEF AllocFast, indexVars
    <2>2. \A x \in Chunks : Linked(x)' <=> Linked(x) \/ x = c
      BY <1>4, LinkedAlloc
    <2> HIDE DEF c
    <2>3. QED
      BY <1>0, <2>1, <2>2 DEF BindInv, OutOfFast, TypeOK
  <1>5. ASSUME NEW t \in AppThreads, AllocSlow(t) PROVE BindInv'
    <2> DEFINE c == <<reg[t], idx[t]>>
    <2>1. c \in Chunks /\ swapping = None /\ swapping' = None /\ mem' = mem
          /\ loc' = [loc EXCEPT ![c] = "SLOW"] /\ bound' = [bound EXCEPT ![c] = "slow"]
      BY <1>0, <1>5, AllocSlowLists, OneHolder, Zenon DEF AllocSlow, indexVars
    <2>2. \A x \in Chunks : Linked(x)' <=> Linked(x) \/ x = c
      BY <1>5, LinkedAlloc
    <2> HIDE DEF c
    <2>3. QED
      BY <1>0, <2>1, <2>2 DEF BindInv, OutOfFast, TypeOK
  <1>6. ASSUME NEW t \in AppThreads, AllocUnlock(t) \/ FreeLock(t) PROVE BindInv'
    BY <1>6, <1>a, LinkedSame DEF AllocUnlock, FreeLock, policyVars, indexVars, OutOfFast
  <1>7. ASSUME NEW t \in AppThreads, FreeSlow(t) \/ FreeFast(t) PROVE BindInv'
    <2>1. \A x \in Chunks : Linked(x)' => Linked(x)
      BY <1>7, LinkedFree
    <2>2. UNCHANGED <<loc, bound, mem, swapping>>
      BY <1>7, Zenon DEF FreeSlow, FreeFast, indexVars
    <2>3. QED
      BY <1>a, <2>1, <2>2 DEF OutOfFast
  <1>8. ASSUME NEW t \in AppThreads, FreePromote(t) PROVE BindInv'
    <2> DEFINE p == Head(lru)
    <2>1. p \in Chunks
      BY <1>8, FreePromoteLists, Zenon
    <2>2. /\ swapping = None /\ swapping' = None /\ mem' = mem /\ loc' = [loc EXCEPT ![p] = "FAST"]
          /\ bound' = [bound EXCEPT ![p] = "fast"] \/ bound' = bound
      BY <1>0, <1>8, OneHolder DEF FreePromote, indexVars
    <2>3. \A x \in Chunks : Linked(x)' => Linked(x)
      BY <1>8, LinkedFree
    <2> HIDE DEF p
    <2>4. QED
      BY <1>0, <2>1, <2>2, <2>3 DEF BindInv, OutOfFast, TypeOK
  <1>9. ASSUME NEW t \in AppThreads, FreeDelete(t) PROVE BindInv'
    <2>1. /\ swapping = None /\ swapping' = None /\ bound' = bound /\ reg[t] \in Blocks
          /\ mem' = [mem EXCEPT ![reg[t]] = "none"] /\ nChunks' = [nChunks EXCEPT ![reg[t]] = 0]
          /\ loc' = [c \in Chunks |-> IF c[1] = reg[t] THEN "SLOW" ELSE loc[c]]
      <3>1. tpc[t] = "free"
        BY <1>9, Zenon DEF FreeDelete
      <3>2. QED
        BY <1>0, <1>9, <3>1, OneHolder DEF FreeDelete, CtlInv
    <2>2. ASSUME NEW x \in Chunks, Linked(x)' PROVE x[1] # reg[t] /\ Linked(x)
      <3>1. x[1] # reg[t]
        BY <1>0, <1>b, <2>1, <2>2 DEF Linked, Tracked, TypeOK
      <3>2. QED
        BY <1>9, <2>2, <3>1, LinkedSame
    <2>3. \A x \in Chunks : x[1] # reg[t] => mem'[x[1]] = mem[x[1]] /\ loc'[x] = loc[x]
      BY <1>0, <1>b, <2>1 DEF TypeOK
    <2>4. QED
      BY <1>0, <2>1, <2>2, <2>3 DEF BindInv, OutOfFast
  <1>10. ASSUME NEW c \in Chunks, SampleFast(c) PROVE BindInv'
    BY <1>10, <1>a, LinkedSame, Zenon DEF SampleFast, indexVars, appVars, OutOfFast
  <1>11. ASSUME NEW c \in Chunks, SampleSlow(c) PROVE BindInv'
    <2> DEFINE v == mru[Len(mru)]
    <2>1. v \in Chunks
      BY <1>11, SampleSlowLists
    <2>2. loc' = loc /\ mem' = mem /\ swapping' = <<c, v>> /\ bound' = [bound EXCEPT ![v] = "slow"]
      BY <1>11 DEF SampleSlow, SwapOut, indexVars
    <2>3. \A x \in Chunks : Linked(x)' <=> Linked(x)
      BY <1>11, LinkedSame DEF SampleSlow, indexVars, appVars
    <2> HIDE DEF v
    <2>4. \A x \in Chunks : bound'[x] = IF x = v THEN "slow" ELSE bound[x]
      BY <1>0, <2>1, <2>2 DEF TypeOK
    <2>5. bound'[v] = "slow" /\ swapping'[2] = v
      BY <2>1, <2>2, <2>4
    <2>6. QED
      BY <1>0, <2>1, <2>2, <2>3, <2>4, <2>5 DEF BindInv, OutOfFast
  <1>12. CASE SampleSwapped
    <2> DEFINE c == swapping[1]
               v == swapping[2]
    <2>1. /\ swapping # None /\ swapping' = None /\ mem' = mem
          /\ loc' = [loc EXCEPT ![c] = "FAST", ![v] = "SLOW"] /\ bound' = [bound EXCEPT ![c] = "fast"]
      BY <1>12 DEF SampleSwapped, indexVars
    <2>2. \A x \in Chunks : Linked(x)' <=> Linked(x)
      BY <1>12, LinkedSame DEF SampleSwapped, indexVars, appVars
    <2>3. c \in Chunks /\ v \in Chunks /\ c # v /\ OutOfFast(v)
      BY <1>0, <2>1 DEF SwapInv, BindInv, TypeOK
    <2> HIDE DEF c, v
    <2>4. \A x \in Chunks : /\ bound'[x] = IF x = c THEN "fast" ELSE bound[x]
                            /\ loc'[x] = IF x = v THEN "SLOW" ELSE IF x = c THEN "FAST" ELSE loc[x]
      BY <1>0, <2>1, <2>3 DEF TypeOK
    <2>5. ASSUME NEW x \in Chunks, Linked(x)', loc'[x] = "SLOW" PROVE OutOfFast(x)'
      <3>1. x # c /\ bound'[x] = bound[x]
        BY <2>3, <2>4, <2>5
      <3>2. OutOfFast(x)
        BY <1>0, <2>2, <2>3, <2>4, <2>5, <3>1 DEF BindInv
      <3>3. QED
        BY <2>1, <3>1, <3>2 DEF OutOfFast
    <2>6. QED
      BY <2>1, <2>5, Zenon DEF BindInv
  <1>13. CASE UNCHANGED vars
    BY <1>13, <1>a, LinkedSame DEF vars, policyVars, indexVars, appVars, OutOfFast
  <1>14. QED
    BY <1>1, <1>2, <1>3, <1>4, <1>5, <1>6, <1>7, <1>8, <1>9, <1>10, <1>11, <1>12, <1>13
       DEF Next, AllocStep, FreeStep, SampleStep

\* Every step keeps the count of the free fast chunks.
LEMMA CountStep == IInv /\ [Next]_vars => CountInv'
  <1> SUFFICES ASSUME IInv, [Next]_vars PROVE CountInv'
    OBVIOUS
  <1> USE LruAssumption
  <1>0. /\ TypeOK /\ CtlInv /\ CountInv
        /\ freeFastChunks \in Int /\ Len(mru) \in Nat /\ Len(lru) \in Nat
        /\ lru # <<>> <=> Len(lru) # 0
    BY DEF IInv, TypeOK
  <1>a. ASSUME UNCHANGED <<freeFastChunks, swapping>>, Len(mru') = Len(mru), lru' # <<>> => lru # <<>>
        PROVE  CountInv'
    BY <1>0, <1>a DEF CountInv, Accounting, NoIdleFast, InHand
  <1>b. swapping = None => freeFastChunks + Len(mru) = FastChunks
    BY <1>0 DEF CountInv, Accounting, InHand
  <1>c. ASSUME swapping' = None, freeFastChunks' \in Int, freeFastChunks' + Len(mru') = FastChunks,
               lru' # <<>> => freeFastChunks' = 0, FastChunks # -1 => freeFastChunks' >= 0,
               Len(mru') \in Nat
        PROVE  CountInv'
    BY <1>c DEF CountInv, Accounting, NoIdleFast, InHand
  <1>1. ASSUME NEW t \in AppThreads, NEW b \in Blocks,
               AllocRegion(t, b) \/ Realloc(t, b) \/ FreeLookup(t, b)
        PROVE  CountInv'
    BY <1>1, <1>a DEF AllocRegion, Realloc, FreeLookup, policyVars
  <1>2. ASSUME NEW t \in AppThreads, AllocFast(t) PROVE CountInv'
    <2>1. swapping = None /\ swapping' = None /\ freeFastChunks # 0
          /\ freeFastChunks' = freeFastChunks - 1 /\ lru' = lru
      BY <1>0, <1>2, OneHolder DEF AllocFast, FastLeft
    <2>2. Len(mru') = Len(mru) + 1
      BY <1>2, AllocFastLists, Zenon
    <2>3. lru = <<>> /\ (FastChunks # -1 => freeFastChunks >= 0)
      BY <1>0, <2>1 DEF CountInv, NoIdleFast
    <2>4. QED
      BY <1>0, <1>b, <1>c, <2>1, <2>2, <2>3
  <1>3. ASSUME NEW t \in AppThreads, AllocSlow(t) PROVE CountInv'
    <2>1. swapping = None /\ swapping' = None /\ freeFastChunks = 0
          /\ freeFastChunks' = freeFastChunks /\ mru' = mru
      BY <1>0, <1>3, OneHolder DEF AllocSlow, FastLeft
    <2>2. QED
      BY <1>0, <1>b, <1>c, <2>1
  <1>4. ASSUME NEW t \in AppThreads, AllocUnlock(t) \/ FreeLock(t) \/ FreeDelete(t) PROVE CountInv'
    BY <1>4, <1>a DEF AllocUnlock, FreeLock, FreeDelete, policyVars
  <1>5. ASSUME NEW t \in AppThreads, FreeSlow(t) PROVE CountInv'
    <2>1. InList(lru, <<reg[t], idx[t]>>)
      BY <1>5, FreeSlowLists
    <2>2. lru # <<>>
      BY <1>0, <2>1 DEF InList
    <2>3. QED
      BY <1>5, <1>a, <2>2 DEF FreeSlow
  <1>6. ASSUME NEW t \in AppThreads, FreeFast(t) PROVE CountInv'
    <2>1. swapping = None /\ swapping' = None /\ lru' = <<>> /\ freeFastChunks' = freeFastChunks + 1
      BY <1>0, <1>6, OneHolder DEF FreeFast
    <2>2. Len(mru') = Len(mru) - 1 /\ mru' \in Seq(Chunks)
      BY <1>6, FreeFastLists, Zenon
    <2> Len(mru') \in Nat
      BY <2>2
    <2>3. FastChunks # -1 => freeFastChunks >= 0
      BY <1>0 DEF CountInv
    <2>4. QED
      BY <1>0, <1>b, <1>c, <2>1, <2>2, <2>3
  <1>7. ASSUME NEW t \in AppThreads, FreePromote(t) PROVE CountInv'
    BY <1>7, <1>a, FreePromoteLists, Zenon DEF FreePromote
  <1>8. ASSUME NEW c \in Chunks, SampleFast(c) PROVE CountInv'
    BY <1>8, <1>a, SampleFastLists DEF SampleFast
  <1>9. ASSUME NEW c \in Chunks, SampleSlow(c) PROVE CountInv'
    <2>1. swapping = None /\ swapping' # None /\ freeFastChunks' = freeFastChunks
      <3>1. swapping' = <<c, mru[Len(mru)]>> /\ mru[Len(mru)] \in Chunks
        BY <1>9, SampleSlowLists DEF SampleSlow
      <3>2. QED
        BY <1>9, <3>1, AllLinked DEF SampleSlow
    <2>2. InList(lru, c) /\ Len(mru') = Len(mru) - 1 /\ Len(mru') \in Nat
      BY <1>9, SampleSlowLists
    <2>3. lru # <<>>
      BY <1>0, <2>2 DEF InList
    <2>4. freeFastChunks = 0
      BY <1>0, <2>3 DEF CountInv, NoIdleFast
    <2>5. Len(InHand') = 1
      BY <2>1 DEF InHand
    <2>6. QED
      BY <1>0, <1>b, <2>1, <2>2, <2>4, <2>5 DEF CountInv, Accounting, NoIdleFast
  <1>10. CASE SampleSwapped
    <2>1. swapping # None /\ swapping' = None /\ UNCHANGED <<freeFastChunks, lru>>
      BY <1>10 DEF SampleSwapped
    <2>2. Len(mru') = Len(mru) + 1
      BY <1>10, SampleSwappedLists
    <2>3. Len(InHand) = 1
      BY <2>1 DEF InHand
    <2>4. freeFastChunks + Len(mru) + 1 = FastChunks /\ (lru # <<>> => freeFastChunks = 0)
          /\ (FastChunks # -1 => freeFastChunks >= 0)
      BY <1>0, <2>3 DEF CountInv, Accounting, NoIdleFast
    <2>5. QED
      BY <1>0, <1>c, <2>1, <2>2, <2>4
  <1>11. CASE UNCHANGED vars
    BY <1>11, <1>a DEF vars, policyVars
  <1>12. QED
    BY <1>1, <1>2, <1>3, <1>4, <1>5, <1>6, <1>7, <1>8, <1>9, <1>10, <1>11
       DEF Next, AllocStep, FreeStep, SampleStep

-----------------------------------------------------------------------------
(* The theorems.                                                           *)

\* The invariant holds of every behaviour of the policy.
THEOREM Invariance == Spec => []IInv
  <1>1. Init => IInv
    <2> SUFFICES ASSUME Init PROVE IInv
      OBVIOUS
    <2> USE LruAssumption
    <2>1. TypeOK
      BY DEF Init, TypeOK
    <2>2. \A x \in Chunks : ~Linked(x)
      BY DEF Init, Linked, Tracked, Chunks
    <2>3. CtlInv
      BY DEF Init, CtlInv
    <2>4. ListsMatch /\ SwapInv /\ BindInv
      BY <2>2 DEF Init, ListsMatch, SwapInv, BindInv, InList, Distinct
    <2>5. CountInv
      BY DEF Init, CountInv, Accounting, NoIdleFast, InHand
    <2>6. QED
      BY <2>1, <2>3, <2>4, <2>5 DEF IInv
  <1>2. IInv /\ [Next]_vars => IInv'
    BY TypeStep, CtlStep, ListStep, SwapStep, BindStep, CountStep DEF IInv
  <1>3. QED
    BY <1>1, <1>2, PTL DEF Spec

\* The lists hold exactly the chunks their marks name, and when a slow chunk can
\* be sampled there is a victim: dq and swap() never meet a node out of place.
THEOREM ListsUsable == Spec => []ListUse
  <1>1. IInv => ListUse
    <2> SUFFICES ASSUME IInv PROVE VictimThere
      BY DEF IInv, ListUse
    <2> SUFFICES ASSUME FastChunks # 0, lruLock = None,
                        NEW c \in Chunks, Tracked(c), loc[c] = "SLOW"
                 PROVE  mru # <<>>
      BY DEF VictimThere
    <2>1. InList(lru, c) /\ swapping = None
      BY AllLinked
    <2>2. lru # <<>>
      BY <2>1 DEF InList, IInv, TypeOK
    <2>3. freeFastChunks = 0 /\ freeFastChunks + Len(mru) + 0 = FastChunks
      BY <2>1, <2>2 DEF IInv, CountInv, NoIdleFast, Accounting, InHand
    <2>4. QED
      BY <2>3 DEF IInv, TypeOK
  <1>2. QED
    BY <1>1, Invariance, PTL
=============================================================================
