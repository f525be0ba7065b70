------------------------------- MODULE Folding -------------------------------
(* Induction over a loop.  FoldLeft goes through a sequence and Op makes the *)
(* next value of the one before and of the member it has come to; if Good    *)
(* holds of the value it starts from and every step keeps it, it holds of    *)
(* the value the loop ends with.                                             *)
(*                                                                           *)
(* Op and Good are constants here, so a module that has a loop instantiates  *)
(* this one with its own step and its own invariant; c is what the step may  *)
(* read besides, k the number of members behind it.                          *)
EXTENDS Integers, Sequences, SequencesExt, FiniteSetTheorems, WellFoundedInduction, TLAPS

CONSTANTS
    Op(_, _, _),    \* Op(c, a, x): the value a, after the member x
    Good(_, _, _)   \* Good(c, k, a): what holds of the value a, after k members

\* The loop.
Fold(c, base, seq) == FoldLeft(LAMBDA a, x : Op(c, a, x), base, seq)

\* g has the value after the members at the places in s, for every s within S.
Unfolds(g, S, c, base, seq) ==
    g = [s \in SUBSET S |-> IF s = {} THEN base ELSE Op(c, g[s \ {Max(s)}], seq[Max(s)])]

\* A set of natural numbers that is not empty has a least member.
LEMMA LeastNatural ==
    ASSUME NEW T \in SUBSET Nat, T # {}
    PROVE  \E m \in T : \A k \in T : m <= k
<1>1. PICK m \in T : \A k \in T : ~ (<<k, m>> \in OpToRel(<, Nat))
    BY WFMin, NatLessThanWellFounded
<1>2. \A k \in T : ~ (k < m)
    BY <1>1 DEF OpToRel
<1> QED
    BY <1>2

\* The number that is largest is Max.
LEMMA MaxIs ==
    ASSUME NEW k \in Nat, NEW s \in SUBSET (1..k), k \in s
    PROVE  Max(s) = k
<1>1. \A x \in s : k >= x
    OBVIOUS
<1>2. \A x \in s : (\A y \in s : x >= y) => x = k
    OBVIOUS
<1> QED
    BY <1>1, <1>2 DEF Max

\* A fold is well defined: there is a function with the values on the way.
LEMMA FoldExists ==
    ASSUME NEW c, NEW base, NEW seq, NEW n \in Nat
    PROVE  \E g : Unfolds(g, 1..n, c, base, seq)
<1> DEFINE T == {k \in Nat : ~ \E g : Unfolds(g, 1..k, c, base, seq)}
<1>1. SUFFICES ASSUME T # {} PROVE FALSE
    OBVIOUS
<1>2. PICK k \in T : \A j \in T : k <= j
    <2>1. T \in SUBSET Nat
        OBVIOUS
    <2> HIDE DEF T
    <2> QED
        BY <1>1, <2>1, LeastNatural
<1>3. CASE k = 0
    <2>1. 1..0 = {}
        OBVIOUS
    <2>2. Unfolds([s \in SUBSET {} |-> base], {}, c, base, seq)
        BY DEF Unfolds
    <2> QED
        BY <1>3, <2>1, <2>2
<1>4. CASE k # 0
    <2>1. k - 1 \in Nat /\ k - 1 \notin T /\ k \in Nat
        BY <1>2, <1>4
    <2>2. PICK g : Unfolds(g, 1..(k - 1), c, base, seq)
        BY <2>1
    <2> DEFINE h == [s \in SUBSET (1..k) |-> IF k \in s THEN Op(c, g[s \ {k}], seq[k]) ELSE g[s]]
    <2>3. ASSUME NEW s \in SUBSET (1..k)
          PROVE  h[s] = IF s = {} THEN base ELSE Op(c, h[s \ {Max(s)}], seq[Max(s)])
        <3>1. CASE k \in s
            <4>1. Max(s) = k /\ s # {} /\ s \ {k} \in SUBSET (1..(k - 1)) /\ s \ {k} \in SUBSET (1..k)
                BY <2>1, <3>1, MaxIs
            <4>2. h[s \ {k}] = g[s \ {k}]
                BY <4>1
            <4>3. h[s] = Op(c, g[s \ {k}], seq[k])
                BY <3>1
            <4> HIDE DEF h
            <4> QED
                BY <4>1, <4>2, <4>3
        <3>2. CASE k \notin s
            <4>1. s \in SUBSET (1..(k - 1))
                BY <2>1, <3>2
            <4>2. g[s] = IF s = {} THEN base ELSE Op(c, g[s \ {Max(s)}], seq[Max(s)])
                BY <2>2, <4>1 DEF Unfolds
            <4>3. h[s] = g[s] /\ h[s \ {Max(s)}] = g[s \ {Max(s)}]
                BY <3>2, <4>1
            <4> HIDE DEF h
            <4> QED
                BY <4>2, <4>3
        <3> QED
            BY <3>1, <3>2
    <2>4. Unfolds(h, 1..k, c, base, seq)
        <3>1. h = [s \in SUBSET (1..k) |-> h[s]]
            OBVIOUS
        <3> HIDE DEF h
        <3> QED
            BY <2>3, <3>1 DEF Unfolds
    <2> HIDE DEF h
    <2> QED
        BY <2>1, <2>4
<1> QED
    BY <1>3, <1>4

\* FoldLeft is the value of that function for the whole sequence.
LEMMA FoldIs ==
    ASSUME NEW c, NEW base, NEW seq, NEW n \in Nat, DOMAIN seq = 1..n
    PROVE  \E g : Unfolds(g, 1..n, c, base, seq) /\ Fold(c, base, seq) = g[1..n]
<1> DEFINE g == CHOOSE f : Unfolds(f, 1..n, c, base, seq)
<1>1. Unfolds(g, 1..n, c, base, seq)
    BY FoldExists
<1>2. Fold(c, base, seq) = g[1..n]
    BY DEF Fold, FoldLeft, MapThenFoldSet, Unfolds
<1> QED
    BY <1>1, <1>2

\* What every step of a loop keeps holds at its end: the loops of a regroup, which add, revive
\* and hang groups one by one, are judged step by step.
THEOREM FoldKeeps ==
    ASSUME NEW c, NEW base, NEW seq, NEW n \in Nat, DOMAIN seq = 1..n, Good(c, 0, base),
           \A k \in 1..n : \A a : Good(c, k - 1, a) => Good(c, k, Op(c, a, seq[k]))
    PROVE  Good(c, n, Fold(c, base, seq))
<1>1. PICK g : Unfolds(g, 1..n, c, base, seq) /\ Fold(c, base, seq) = g[1..n]
    BY FoldIs
<1> DEFINE T == {k \in 0..n : ~ Good(c, k, g[1..k])}
<1>2. SUFFICES ASSUME T # {} PROVE FALSE
    <2>1. n \in 0..n
        OBVIOUS
    <2> QED
        BY <1>1, <2>1
<1>3. PICK k \in T : \A j \in T : k <= j
    <2>1. T \in SUBSET Nat
        OBVIOUS
    <2> HIDE DEF T
    <2> QED
        BY <1>2, <2>1, LeastNatural
<1>4. k \in 0..n /\ ~ Good(c, k, g[1..k])
    OBVIOUS
<1>5. k # 0
    <2>1. 1..0 = {}
        OBVIOUS
    <2>2. g[{}] = base
        BY <1>1 DEF Unfolds
    <2> QED
        BY <1>4, <2>1, <2>2
<1>6. k - 1 \in 0..n /\ k \in 1..n /\ Good(c, k - 1, g[1..(k - 1)])
    BY <1>3, <1>4, <1>5
<1>7. g[1..k] = Op(c, g[1..(k - 1)], seq[k])
    <2>1. Max(1..k) = k /\ (1..k) \ {k} = 1..(k - 1) /\ 1..k # {} /\ 1..k \in SUBSET (1..n)
        BY <1>6, MaxIs
    <2>2. g[1..k] = Op(c, g[(1..k) \ {Max(1..k)}], seq[Max(1..k)])
        BY <1>1, <2>1 DEF Unfolds
    <2> QED
        BY <2>1, <2>2
<1> HIDE DEF T
<1> QED
    BY <1>4, <1>6, <1>7
==============================================================================
