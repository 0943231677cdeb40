------------------------------ MODULE MCHpa -------------------------------
EXTENDS Hpa, TLC

Perms == Permutations(Threads)
=============================================================================
