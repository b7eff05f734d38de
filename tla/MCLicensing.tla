----------------------------- MODULE MCLicensing -----------------------------
EXTENDS Licensing, TLC

CONSTANTS l1, l2, c1, c2, i1, i2, k1, k2

\* Nothing in the store orders licenses, codes, installations or keys.
Symmetry == Permutations({l1, l2}) \cup Permutations({c1, c2})
                \cup Permutations({i1, i2}) \cup Permutations({k1, k2})
=============================================================================
