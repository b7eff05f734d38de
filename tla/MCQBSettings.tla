---- MODULE MCQBSettings ----
EXTENDS QBSettings, TLC
CONSTANTS r1, r2, e1, e2, v1
Symmetry == Permutations(Requests) \cup Permutations(Endpoints)
====
