----------------------------- MODULE MCOperations -----------------------------
EXTENDS Operations, TLC

CONSTANTS p1, p2

Alike == Permutations(Processes)
=============================================================================
