---- MODULE MCClientSetup ----
EXTENDS ClientSetup, TLC
CONSTANTS r1, r2, e1, e2, d1, d2
Symmetry == Permutations(Requests)
====
