------------------------------- MODULE Orders --------------------------------
(***************************************************************************)
(* The order in which the code goes through a set: sorted() with a key.    *)
(***************************************************************************)
EXTENDS Integers, FiniteSets

\* S in the order Before, a strict total order on it.
Arranged(S, Before(_, _)) ==
    [k \in 1..Cardinality(S) |-> CHOOSE x \in S : Cardinality({y \in S : Before(y, x)}) = k - 1]
==============================================================================
