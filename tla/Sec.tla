------------------------------- MODULE Sec --------------------------------
(* The small extent cache in front of the hugepage allocator: src/sec.c.      *)
(*                                                                            *)
(* An extent is <<size in pages, serial>>; sizes up to NPsizes are cached,    *)
(* each a bin of its own (up to eight pages every count is a class).  The     *)
(* backing allocator is external: the set of extents it has to give.  One     *)
(* step is one critical section of a shard's mtx, or one call of the backing  *)
(* allocator made without it.                                                 *)
EXTENDS Integers, Sequences, FiniteSets, SequencesExt

CONSTANTS
    Threads,
    NShards,
    NPsizes,      \* npsizes, and max_alloc in pages
    PerSize,      \* extents of each size the backing allocator has
    MaxBytes,     \* max_bytes, in pages
    AfterFlush,   \* bytes_after_flush
    Extra         \* batch_fill_extra

VARIABLES
    shard,        \* [enabled, bytes_cur, to_flush_next, bins]
    back,         \* extents of the backing allocator
    out,          \* extents given to the arena
    pick,         \* the thread's sec_shard; 0 before its first use
    call          \* what each thread is doing

vars == <<shard, back, out, pick, call>>

BinSizes == 1 .. NPsizes
Extents == (1 .. NPsizes + 1) \X (1 .. PerSize)
Shards == 1 .. NShards

sec_bin_init == [filling |-> FALSE, bytes |-> 0, list |-> <<>>]

sec_init ==
    [enabled |-> TRUE, bytes |-> 0, next |-> 0, bins |-> [z \in BinSizes |-> sec_bin_init]]

Idle == [pc |-> "idle", size |-> 0, list |-> <<>>, at |-> 0, off |-> FALSE]

Init ==
    /\ shard = [i \in Shards |-> sec_init]
    /\ back = Extents /\ out = {}
    /\ pick = [t \in Threads |-> 0]
    /\ call = [t \in Threads |-> Idle]

(* sec_shard_pick: any shard the first time, that one ever after.             *)
sec_shard_pick(t, i) ==
    /\ pick[t] \in {0, i}
    /\ pick' = [pick EXCEPT ![t] = i]

(* The first k victims, in turn from to_flush_next.                           *)
Victims(sh, k) == {1 + ((sh.next + j) % NPsizes) : j \in 0 .. k - 1}

BytesLeft(sh, k) == sh.bytes - MapThenSumSet(LAMBDA z : sh.bins[z].bytes, Victims(sh, k))

(* Defect: flushed bins keep their count.                                     *)
Emptied_Counted(bin) == [bin EXCEPT !.list = <<>>]

Emptied(bin) == [bin EXCEPT !.list = <<>>, !.bytes = 0]

(* sec_flush_some_and_unlock: bins are emptied until at most AfterFlush is    *)
(* left; what they held is given back after the unlock.                       *)
sec_flush_some(sh) ==
    LET k == Min({j \in 0 .. NPsizes : BytesLeft(sh, j) <= AfterFlush}) IN
    [sh |-> [sh EXCEPT !.bytes = BytesLeft(sh, k), !.next = (@ + k) % NPsizes,
                       !.bins = [z \in BinSizes |->
                           IF z \in Victims(sh, k) THEN Emptied(@[z]) ELSE @[z]]],
     list |-> FlattenSeq([j \in 1 .. k |-> sh.bins[1 + ((sh.next + j - 1) % NPsizes)].list])]

(* Defect: the shard may stay over its limit.                                 *)
FlushIfFull_Never(sh) == [sh |-> sh, list |-> <<>>]

FlushIfFull(sh) ==
    IF sh.bytes > MaxBytes THEN sec_flush_some(sh) ELSE [sh |-> sh, list |-> <<>>]

(* Then the call returns, unless extents are still to be given back.          *)
Returning(list) == IF list = <<>> THEN Idle ELSE [Idle EXCEPT !.pc = "flush", !.list = list]

-----------------------------------------------------------------------------
(* sec_alloc of a size that is too large for the cache.                       *)
AllocLarge(t) ==
    /\ call[t].pc = "idle"
    /\ \E e \in back : e[1] > NPsizes /\ back' = back \ {e} /\ out' = out \cup {e}
    /\ UNCHANGED <<shard, pick, call>>

(* sec_alloc under the mtx: from the bin (sec_shard_alloc_locked), or else a  *)
(* batch fill, when nobody is filling this bin already.                       *)
sec_alloc(t, i, z) ==
    LET bin == shard[i].bins[z]
        hit == shard[i].enabled /\ bin.list # <<>> IN
    /\ call[t].pc = "idle"
    /\ sec_shard_pick(t, i)
    /\ IF hit
       THEN /\ shard' = [shard EXCEPT ![i].bytes = @ - z,
                            ![i].bins[z].bytes = @ - z, ![i].bins[z].list = Tail(@)]
            /\ out' = out \cup {Head(bin.list)}
            /\ UNCHANGED call
       ELSE LET fill == ~bin.filling /\ Extra > 0 IN
            /\ shard' = [shard EXCEPT ![i].bins[z].filling = @ \/ fill]
            /\ call' = [call EXCEPT ![t] = [Idle EXCEPT !.size = z,
                            !.pc = IF fill THEN "fill" ELSE "fallback"]]
            /\ UNCHANGED out
    /\ UNCHANGED back

(* pai_alloc of the backing allocator, which may fail.                        *)
Fallback(t) ==
    /\ call[t].pc = "fallback"
    /\ \/ \E e \in back : e[1] = call[t].size /\ back' = back \ {e} /\ out' = out \cup {e}
       \/ UNCHANGED <<back, out>>
    /\ call' = [call EXCEPT ![t] = Idle]
    /\ UNCHANGED <<shard, pick>>

(* pai_alloc_batch of the backing allocator: up to 1 + Extra extents.         *)
BatchAlloc(t) ==
    /\ call[t].pc = "fill"
    /\ \E es \in SUBSET {e \in back : e[1] = call[t].size} :
        /\ Cardinality(es) <= 1 + Extra
        /\ back' = back \ es
        /\ call' = [call EXCEPT ![t].pc = "filled", ![t].list = SetToSeq(es)]
    /\ UNCHANGED <<shard, out, pick>>

(* Defect: only a fill that has something to cache says that it is over.      *)
FillOver_Cached(bin, list) == [bin EXCEPT !.filling = Len(list) <= 1]

FillOver(bin, list) == [bin EXCEPT !.filling = FALSE]

(* The rest of sec_batch_fill_and_alloc: the first extent is returned and the *)
(* others are cached; whether the shard is still enabled is not looked at.    *)
sec_batch_fill_and_alloc(t) ==
    LET i    == pick[t]
        c    == call[t]
        more == IF c.list = <<>> THEN <<>> ELSE Tail(c.list)
        size == Len(more) * c.size
        over == [shard[i] EXCEPT !.bins[c.size] = FillOver(@, c.list)]
        full == [over EXCEPT !.bytes = @ + size, !.bins[c.size].bytes = @ + size,
                             !.bins[c.size].list = @ \o more]
        res  == IF more = <<>> THEN [sh |-> over, list |-> <<>>] ELSE FlushIfFull(full) IN
    /\ c.pc = "filled"
    /\ shard' = [shard EXCEPT ![i] = res.sh]
    /\ out' = IF c.list = <<>> THEN out ELSE out \cup {Head(c.list)}
    /\ call' = [call EXCEPT ![t] = Returning(res.list)]
    /\ UNCHANGED <<back, pick>>

(* sec_dalloc: cached, last in first out, when the shard is enabled.          *)
sec_dalloc(t, i, e) ==
    LET z    == e[1]
        full == [shard[i] EXCEPT !.bytes = @ + z, !.bins[z].bytes = @ + z,
                                 !.bins[z].list = <<e>> \o @]
        res  == FlushIfFull(full) IN
    /\ call[t].pc = "idle" /\ z <= NPsizes
    /\ sec_shard_pick(t, i)
    /\ out' = out \ {e}
    /\ IF shard[i].enabled
       THEN /\ shard' = [shard EXCEPT ![i] = res.sh]
            /\ call' = [call EXCEPT ![t] = Returning(res.list)]
       ELSE /\ call' = [call EXCEPT ![t] = Returning(<<e>>)]
            /\ UNCHANGED shard
    /\ UNCHANGED back

DallocLarge(t, e) ==
    /\ call[t].pc = "idle" /\ e[1] > NPsizes
    /\ out' = out \ {e} /\ back' = back \cup {e}
    /\ UNCHANGED <<shard, pick, call>>

(* pai_dalloc or pai_dalloc_batch of the backing allocator.                   *)
GiveBack(t) ==
    /\ call[t].pc = "flush"
    /\ back' = back \cup ToSet(call[t].list)
    /\ call' = [call EXCEPT ![t] = Idle]
    /\ UNCHANGED <<shard, out, pick>>

(* sec_flush, and sec_disable, shard after shard.                             *)
sec_flush(t, off) ==
    /\ call[t].pc = "idle"
    /\ call' = [call EXCEPT ![t] = [Idle EXCEPT !.pc = "sweep", !.at = 1, !.off = off]]
    /\ UNCHANGED <<shard, back, out, pick>>

(* sec_flush_all_locked, which gives back with the mtx held.                  *)
sec_flush_all_locked(t) ==
    LET i == call[t].at IN
    /\ call[t].pc = "sweep"
    /\ shard' = [shard EXCEPT ![i].enabled = @ /\ ~call[t].off, ![i].bytes = 0,
                    ![i].bins = [z \in BinSizes |-> Emptied(@[z])]]
    /\ back' = back \cup UNION {ToSet(shard[i].bins[z].list) : z \in BinSizes}
    /\ call' = [call EXCEPT ![t] = IF i = NShards THEN Idle ELSE [@ EXCEPT !.at = i + 1]]
    /\ UNCHANGED <<out, pick>>

Next ==
    \E t \in Threads :
        \/ AllocLarge(t) \/ Fallback(t) \/ BatchAlloc(t)
        \/ \E i \in Shards, z \in BinSizes : sec_alloc(t, i, z)
        \/ sec_batch_fill_and_alloc(t)
        \/ \E i \in Shards, e \in out : sec_dalloc(t, i, e)
        \/ \E e \in out : DallocLarge(t, e)
        \/ GiveBack(t)
        \/ \E off \in BOOLEAN : sec_flush(t, off)
        \/ sec_flush_all_locked(t)

Spec == Init /\ [][Next]_vars

-----------------------------------------------------------------------------
Cached(i, z) == shard[i].bins[z].list

(* An extent is with the backing allocator, with the arena, in one bin of its *)
(* size or in the hands of one thread: none is lost or given out twice when   *)
(* flushes, fills and frees overlap; and the bytes a shard and its bins count *)
(* are those of the extents in them.                                          *)
CacheExact ==
    LET Bin == Shards \X BinSizes
        Places(e) == (IF e \in back THEN 1 ELSE 0) + (IF e \in out THEN 1 ELSE 0)
            + MapThenSumSet(LAMBDA b : Len(SelectSeq(Cached(b[1], b[2]), LAMBDA x : x = e)), Bin)
            + Cardinality({t \in Threads : Contains(call[t].list, e)}) IN
    /\ \A e \in Extents : Places(e) = 1
    /\ \A i \in Shards :
        /\ \A z \in BinSizes : /\ \A e \in ToSet(Cached(i, z)) : e[1] = z
                            /\ shard[i].bins[z].bytes = z * Len(Cached(i, z))
        /\ shard[i].bytes = MapThenSumSet(LAMBDA z : shard[i].bins[z].bytes, BinSizes)

(* Whenever its mtx is free a shard holds at most max_bytes (the assertion of *)
(* sec_shard_dalloc_and_unlock), fills included; and a bin is marked as being *)
(* filled exactly while one thread fills it, or no fill would follow.         *)
FillsBounded ==
    \A i \in Shards :
        /\ shard[i].bytes <= MaxBytes
        /\ \A z \in BinSizes :
            Cardinality({t \in Threads : pick[t] = i /\ call[t].size = z
                                         /\ call[t].pc \in {"fill", "filled"}})
                = IF shard[i].bins[z].filling THEN 1 ELSE 0

(* "A SEC may need to be shut down (i.e. flushed of its contents and          *)
(* prevented from further caching)" (sec.h:71): a disabled shard is empty.    *)
DisabledEmpty == \A i \in Shards : ~shard[i].enabled => shard[i].bytes = 0
=============================================================================
