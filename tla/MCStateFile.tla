---- MODULE MCStateFile ----
EXTENDS StateFile, TLC
CONSTANTS v1, v2, v3
====
