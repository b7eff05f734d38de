---- MODULE MCDownloadFlow ----
EXTENDS DownloadFlow, TLC
CONSTANTS r1, d1, d2, u1, u2, f1
====
