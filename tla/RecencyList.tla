---------------------------- MODULE RecencyList ----------------------------
(***************************************************************************)
(* What an LRU placement policy promises: the tracked chunks are kept in   *)
(* the order of their last sample, never-sampled ones last, and the first  *)
(* FastChunks of them (all of them when FastChunks is -1) are the ones the *)
(* policy counts as fast.                                                  *)
(***************************************************************************)
EXTENDS Integers, Sequences

CONSTANTS Chunks, FastChunks

VARIABLES
    order,   \* tracked chunks, most recently sampled first
    fast     \* the chunks counted as fast

\* The chunks that belong in fast memory.
Leading(s) == {s[i] : i \in {j \in DOMAIN s : FastChunks = -1 \/ j <= FastChunks}}

Init == order = <<>> /\ fast = {}

\* The chunks in the order.
Tracked == {order[i] : i \in DOMAIN order}

\* The sequence without its i-th element.
RemoveAt(s, i) == SubSeq(s, 1, i - 1) \o SubSeq(s, i + 1, Len(s))

\* A new chunk has never been sampled.
Add == \E c \in Chunks : c \notin Tracked /\ order' = Append(order, c)

\* A sample makes its chunk the most recent one.
Touch == \E i \in DOMAIN order : order' = <<order[i]>> \o RemoveAt(order, i)

\* A freed chunk is forgotten.
Drop == \E i \in DOMAIN order : order' = RemoveAt(order, i)

Next == (Add \/ Touch \/ Drop) /\ fast' = Leading(order')

Spec == Init /\ [][Next]_<<order, fast>>
=============================================================================
