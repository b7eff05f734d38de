----------------------------- MODULE MCLocalAuth -----------------------------
EXTENDS LocalAuth, TLC

CONSTANTS r1, r2, u1, u2, p1, p2

\* A volume first started with one environment and later with another one.
MCTwoBootstraps ==
    {[user |-> u, password |-> p1, mustChange |-> TRUE] : u \in {u1, u2}}

Symmetry == Permutations({r1, r2})
=============================================================================
