--------------------------- MODULE MCCollectionRun ---------------------------
(* Small instances of CollectionRun for TLC.                                *)
EXTENDS CollectionRun

CONSTANTS t1, t2, t3, w1, w2, c1, s1

OneRun == {1}
TwoRuns == {1, 2}

(* Who asked for a cancellation is history: no guard reads it, so states that *)
(* differ in nothing else are one where no property speaks of it.            *)
Unasked == <<rowVars, jobVars, req, other, proc, faults>>
=============================================================================
