---------------------------- MODULE MCAccount115 ----------------------------
EXTENDS Account115, TLC

CONSTANTS c1, c2, a1, a2, u1, u2
=============================================================================
