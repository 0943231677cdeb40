----------------------------- MODULE MCRegions -----------------------------
(* Regions for TLC: threads and region objects are interchangeable.        *)
EXTENDS Regions, TLC

Symmetry == Permutations(AppThreads) \cup Permutations(Regs)
=============================================================================
