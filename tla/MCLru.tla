------------------------------- MODULE MCLru -------------------------------
(* Lru for TLC: threads are interchangeable, and so are the blocks that    *)
(* agree on their alignment.                                               *)
EXTENDS Lru, TLC

\* fastChunks when no environment variable bounds fast memory.
NoLimit == -1

Symmetry == Permutations(AppThreads) \cup Permutations(Blocks \ Aligned)
=============================================================================
