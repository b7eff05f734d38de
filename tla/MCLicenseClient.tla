--------------------------- MODULE MCLicenseClient ---------------------------
EXTENDS LicenseClient, TLC

CONSTANTS l1, l2, c1, c2, i1, i2, k1, k2

MCKeyFor == [i \in Installations |-> IF i = i1 THEN k1 ELSE k2]
=============================================================================
