------------------------------ MODULE MCKroom ------------------------------
(* Kroom for TLC: threads and samples are model values, interchangeable.   *)
EXTENDS Kroom, TLC

Symmetry == Permutations(Threads) \cup Permutations(Samples)
=============================================================================
