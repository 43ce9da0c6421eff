---------------------------- MODULE MCAccounting ----------------------------
EXTENDS Accounting, TLC

CONSTANTS k1, k2, v1, v2
Alike == Permutations({k1, k2}) \cup Permutations({v1, v2})
=============================================================================
