----------------------------- MODULE MCReaders -----------------------------
EXTENDS Readers

MCOffers ==
    LET offer(b, size, price, new) == [brand |-> b, size |-> size, price |-> price, new |-> new, department |-> 1]
    IN  <<offer("b1", 1, 1, TRUE), offer("b1", 2, 9, FALSE), offer("b2", 1, 3, FALSE)>>
=============================================================================
