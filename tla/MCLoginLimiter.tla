--------------------------- MODULE MCLoginLimiter ---------------------------
EXTENDS LoginLimiter, TLC

CONSTANTS r1, r2, r3, a1, a2, a3

Symmetry == Permutations({r1, r2, r3}) \cup Permutations({a1, a2, a3})
=============================================================================
