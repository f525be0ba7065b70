---------------------------- MODULE ScreensProofs ----------------------------
(***************************************************************************)
(* Theorems about what the screens show: the past that is rebuilt and the  *)
(* pages of the catalog (Readers), the scores of the trends list           *)
(* (Metrics).                                                              *)
(*                                                                         *)
(* Readers: a cursor stands for all that matched from its last listing on, *)
(* and all of it is shown (CursorInv); what comes later has a larger id    *)
(* than the cursor's max, and what stops matching is no longer owed.       *)
(* Ids are unique (IdsInv), so a scope's chains are shared out among its   *)
(* sizes, and what is summed over the sizes is what the scope counts.      *)
(*                                                                         *)
(* Metrics: a row says of its scope what its key says, whoever writes it   *)
(* (StoredRow), and ids are unique, so P30, scores and a carried ranking   *)
(* land on the row they were computed for (RankingInv).                    *)
(* What a brand's rows and months say of types, and of what has no model,  *)
(* is of one read of its listings, whose scopes share them out             *)
(* (SharesInv): the sums over such rows are sizes of sets of listings.     *)
(***************************************************************************)
EXTENDS Readers, Metrics, SequenceTheorems, FiniteSetTheorems, WellFoundedInduction, TLAPS

Newest(S) == Arranged(S, LAMBDA a, b : a > b)
Above(S, x) == {y \in S : y > x}

LEMMA NewestIs ==
    ASSUME NEW S
    PROVE  Newest(S) = [k \in 1..Cardinality(S) |-> CHOOSE x \in S : Cardinality(Above(S, x)) = k - 1]
BY DEF Newest, Arranged, Above

(* Whose turn comes before that of x, when every member of S has its own.   *)
Before(S, turn, x) == {y \in S : turn[y] < turn[x]}

LEMMA BeforeLess ==
    ASSUME NEW S, IsFiniteSet(S), NEW turn \in [S -> Int], NEW x \in S, NEW y \in S, turn[x] < turn[y]
    PROVE  /\ Cardinality(Before(S, turn, x)) \in 0..(Cardinality(S) - 1)
           /\ Cardinality(Before(S, turn, x)) < Cardinality(Before(S, turn, y))
<1> DEFINE A == Before(S, turn, x)
           B == Before(S, turn, y)
<1>1. A \in SUBSET B /\ B \in SUBSET S
    <2>1. ASSUME NEW z \in S, turn[z] < turn[x] PROVE turn[z] < turn[y]
        BY <2>1
    <2> QED
        BY <2>1 DEF Before
<1>2. x \in B /\ x \notin A
    BY DEF Before
<1> HIDE DEF A, B
<1>3. IsFiniteSet(B) /\ Cardinality(B) <= Cardinality(S) /\ Cardinality(S) \in Nat
    BY <1>1, FS_Subset, FS_CardinalityType
<1>4. /\ Cardinality(A) <= Cardinality(B) /\ Cardinality(A) # Cardinality(B)
      /\ Cardinality(A) \in Nat /\ Cardinality(B) \in Nat
    BY <1>1, <1>2, <1>3, FS_Subset, FS_CardinalityType
<1> QED
    BY <1>3, <1>4 DEF A, B

(* As many come before as there are places before.                           *)
LEMMA TurnPlaces ==
    ASSUME NEW S, IsFiniteSet(S), NEW turn \in [S -> Int], \A x, y \in S : turn[x] = turn[y] => x = y
    PROVE  \A k \in 1..Cardinality(S) : \E x \in S : Cardinality(Before(S, turn, x)) = k - 1
<1> DEFINE n == Cardinality(S)
           Rank == [x \in S |-> Cardinality(Before(S, turn, x))]
<1>1. n \in Nat
    BY FS_CardinalityType
<1>2. \A x \in S : Rank[x] \in 0..(n - 1)
    <2> SUFFICES ASSUME NEW x \in S PROVE Cardinality(Before(S, turn, x)) \in 0..(n - 1)
        OBVIOUS
    <2>1. Before(S, turn, x) \in SUBSET S /\ x \notin Before(S, turn, x)
        BY DEF Before
    <2>2. /\ Cardinality(Before(S, turn, x)) <= n /\ Cardinality(Before(S, turn, x)) # n
          /\ Cardinality(Before(S, turn, x)) \in Nat
        BY <2>1, FS_Subset, FS_CardinalityType
    <2> QED
        BY <1>1, <2>2
<1>3. Rank \in Injection(S, 0..(n - 1))
    <2>1. ASSUME NEW x \in S, NEW y \in S, x # y PROVE Rank[x] # Rank[y]
        <3>1. turn[x] < turn[y] \/ turn[y] < turn[x]
            BY <2>1
        <3>2. turn[x] < turn[y] => Rank[x] < Rank[y]
            BY BeforeLess
        <3>3. turn[y] < turn[x] => Rank[y] < Rank[x]
            BY BeforeLess
        <3>4. Rank[x] \in Int /\ Rank[y] \in Int
            BY <1>2
        <3> HIDE DEF Rank
        <3> QED
            BY <3>1, <3>2, <3>3, <3>4
    <2> QED
        BY <1>2, <2>1 DEF Injection, IsInjective
<1>4. IsFiniteSet(0..(n - 1)) /\ Cardinality(0..(n - 1)) = n
    <2>1. 0 \in Int /\ n - 1 \in Int
        BY <1>1
    <2> QED
        BY <1>1, <2>1, FS_Interval
<1>5. Rank \in Surjection(S, 0..(n - 1))
    <2> HIDE DEF Rank, n
    <2> QED
        BY <1>3, <1>4, FS_Injection DEF n
<1>6. ASSUME NEW k \in 1..n PROVE \E x \in S : Cardinality(Before(S, turn, x)) = k - 1
    <2>1. k - 1 \in 0..(n - 1)
        BY <1>1
    <2>2. \E x \in S : Rank[x] = k - 1
        <3> HIDE DEF Rank, n
        <3> QED
            BY <1>5, <2>1 DEF Surjection
    <2> QED
        BY <2>2
<1> QED
    BY <1>6

LEMMA AboveIs ==
    ASSUME NEW S \in SUBSET Int
    PROVE  LET turn == [x \in S |-> -x]
           IN  /\ turn \in [S -> Int] /\ \A x, y \in S : turn[x] = turn[y] => x = y
               /\ \A x \in S : Above(S, x) = Before(S, turn, x)
               /\ \A x, y \in S : x > y <=> turn[x] < turn[y]
<1> DEFINE turn == [x \in S |-> -x]
<1>1. \A x \in S : x \in Int /\ turn[x] = -x
    OBVIOUS
<1>2. \A x, y \in S : (y > x <=> turn[y] < turn[x]) /\ (turn[x] = turn[y] => x = y)
    BY <1>1
<1>3. turn \in [S -> Int]
    BY <1>1
<1> HIDE DEF turn
<1>4. \A x \in S : Above(S, x) = Before(S, turn, x)
    BY <1>2 DEF Above, Before
<1> QED
    BY <1>2, <1>3, <1>4 DEF turn

LEMMA AboveLess ==
    ASSUME NEW S \in SUBSET Int, IsFiniteSet(S), NEW x \in S, NEW y \in S, x > y
    PROVE  /\ Cardinality(Above(S, x)) \in 0..(Cardinality(S) - 1)
           /\ Cardinality(Above(S, x)) < Cardinality(Above(S, y))
<1> DEFINE turn == [z \in S |-> -z]
<1>1. /\ turn \in [S -> Int] /\ turn[x] < turn[y]
      /\ Above(S, x) = Before(S, turn, x) /\ Above(S, y) = Before(S, turn, y)
    BY AboveIs
<1> HIDE DEF turn
<1> QED
    BY <1>1, BeforeLess

LEMMA NewestPlaces ==
    ASSUME NEW S \in SUBSET Int, IsFiniteSet(S)
    PROVE  \A k \in 1..Cardinality(S) : Newest(S)[k] \in S /\ Cardinality(Above(S, Newest(S)[k])) = k - 1
<1> DEFINE turn == [z \in S |-> -z]
<1>1. /\ turn \in [S -> Int] /\ \A x, y \in S : turn[x] = turn[y] => x = y
      /\ \A x \in S : Above(S, x) = Before(S, turn, x)
    BY AboveIs
<1> HIDE DEF turn
<1>2. \A k \in 1..Cardinality(S) : \E x \in S : Cardinality(Before(S, turn, x)) = k - 1
    BY <1>1, TurnPlaces
<1>3. \A k \in 1..Cardinality(S) : \E x \in S : Cardinality(Above(S, x)) = k - 1
    BY <1>1, <1>2
<1> QED
    BY <1>3, NewestIs

(* The newest of S, in order: nothing of S is missing above the last place.  *)
LEMMA NewestOrder ==
    ASSUME NEW S \in SUBSET Int, IsFiniteSet(S)
    PROVE  /\ Cardinality(S) \in Nat
           /\ Newest(S) \in Seq(S) /\ Len(Newest(S)) = Cardinality(S)
           /\ \A j, k \in 1..Cardinality(S) : j < k => Newest(S)[j] > Newest(S)[k]
           /\ \A x \in S : \E k \in 1..Cardinality(S) : Newest(S)[k] = x
<1> DEFINE n == Cardinality(S)
           L == Newest(S)
<1>1. n \in Nat
    BY FS_CardinalityType
<1>2. \A k \in 1..n : L[k] \in S /\ Cardinality(Above(S, L[k])) = k - 1
    BY NewestPlaces
<1>3. L \in [1..n -> S]
    BY <1>2, NewestIs
<1>4. L \in Seq(S) /\ Len(L) = n
    <2> HIDE DEF L, n
    <2> QED
        BY <1>1, <1>3, SeqDef
<1>5. ASSUME NEW j \in 1..n, NEW k \in 1..n, j < k PROVE L[j] > L[k]
    <2> HIDE DEF L
    <2>1. L[j] \in S /\ L[k] \in S /\ L[j] \in Int /\ L[k] \in Int
        BY <1>2
    <2>2. L[j] # L[k]
        BY <1>1, <1>2, <1>5
    <2>3. ~(L[k] > L[j])
        <3>1. L[k] > L[j] => Cardinality(Above(S, L[k])) < Cardinality(Above(S, L[j]))
            BY <2>1, AboveLess
        <3> QED
            BY <1>1, <1>2, <1>5, <3>1
    <2> QED
        BY <2>1, <2>2, <2>3
<1>6. ASSUME NEW x \in S PROVE \E k \in 1..n : L[k] = x
    <2> DEFINE k == Cardinality(Above(S, x)) + 1
    <2>1. k \in 1..n
        <3>1. Above(S, x) \in SUBSET S /\ x \notin Above(S, x)
            BY DEF Above
        <3>2. Cardinality(Above(S, x)) <= n /\ Cardinality(Above(S, x)) # n /\ Cardinality(Above(S, x)) \in Nat
            BY <3>1, FS_Subset, FS_CardinalityType
        <3> QED
            BY <1>1, <3>2
    <2>2. L[k] \in S /\ Cardinality(Above(S, L[k])) = Cardinality(Above(S, x))
        <3>1. Cardinality(Above(S, x)) \in Nat
            BY FS_Subset, FS_CardinalityType DEF Above
        <3> HIDE DEF L
        <3>2. L[k] \in S /\ Cardinality(Above(S, L[k])) = k - 1
            BY <1>2, <2>1
        <3> QED
            BY <3>1, <3>2
    <2>3. L[k] = x
        <3> HIDE DEF L, k
        <3>1. L[k] \in Int /\ x \in Int /\ L[k] \in S
            BY <2>2
        <3>2. ASSUME NEW a \in S, NEW b \in S, a > b, Cardinality(Above(S, a)) = Cardinality(Above(S, b)) PROVE FALSE
            <4>1. Cardinality(Above(S, a)) < Cardinality(Above(S, b)) /\ Cardinality(Above(S, a)) \in 0..(n - 1)
                BY <3>2, AboveLess
            <4> QED
                BY <1>1, <3>2, <4>1
        <3> QED
            BY <2>2, <3>1, <3>2
    <2> QED
        BY <2>1, <2>3
<1> QED
    BY <1>1, <1>4, <1>5, <1>6

(* A page: the first listings of those still open, and whether more follow.  *)
FirstOf(S, limit) ==
    LET found == Fetched(Newest(S), limit)
    IN  SubSeq(found, 1, Min({limit, Len(found)}))
MoreThan(S, limit) == Len(Fetched(Newest(S), limit)) > limit

LEMMA LesserOf ==
    ASSUME NEW a \in Nat, NEW b \in Nat
    PROVE  Min({a, b}) = IF a <= b THEN a ELSE b
BY DEF Min

LEMMA PageLength ==
    ASSUME NEW S \in SUBSET Int, IsFiniteSet(S), NEW limit \in Nat \ {0}
    PROVE  \E m \in 0..Cardinality(S) :
              /\ FirstOf(S, limit) \in Seq(S) /\ Len(FirstOf(S, limit)) = m
              /\ \A k \in 1..m : FirstOf(S, limit)[k] = Newest(S)[k]
              /\ MoreThan(S, limit) => m = limit
              /\ ~MoreThan(S, limit) => m = Cardinality(S)
<1> DEFINE n == Cardinality(S)
           L == Newest(S)
           all == Min({limit + 1, Len(L)})
           found == Fetched(L, limit)
           m == Min({limit, Len(found)})
<1>1. n \in Nat /\ L \in Seq(S) /\ Len(L) = n
    BY NewestOrder
<1> HIDE DEF n, L
<1>2. all = (IF limit + 1 <= n THEN limit + 1 ELSE n) /\ all \in 0..n
    BY <1>1, LesserOf
<1>3. \A k \in 1..all : L[k] \in S
    BY <1>1, <1>2, ElementOfSeq
<1> HIDE DEF all
<1>4. found \in Seq(S) /\ Len(found) = all /\ \A k \in 1..all : found[k] = L[k]
    <2>1. found = SubSeq(L, 1, all)
        BY DEF Fetched, all
    <2>2. /\ SubSeq(L, 1, all) \in Seq(S) /\ Len(SubSeq(L, 1, all)) = (IF 1 <= all THEN all - 1 + 1 ELSE 0)
          /\ \A i \in 1 .. (all - 1 + 1) : SubSeq(L, 1, all)[i] = L[1 + i - 1]
        BY <1>2, <1>3, SubSeqProperties
    <2> HIDE DEF found
    <2> QED
        BY <1>2, <2>1, <2>2
<1> HIDE DEF found
<1>5. m = (IF limit <= all THEN limit ELSE all) /\ m \in 0..all
    BY <1>1, <1>2, <1>4, LesserOf
<1> HIDE DEF m
<1>6. FirstOf(S, limit) = SubSeq(found, 1, m) /\ (MoreThan(S, limit) <=> all > limit)
    BY <1>4 DEF FirstOf, MoreThan, found, m, L
<1>7. /\ SubSeq(found, 1, m) \in Seq(S) /\ Len(SubSeq(found, 1, m)) = m
      /\ \A k \in 1..m : SubSeq(found, 1, m)[k] = found[k]
    <2>1. \A k \in 1..m : found[k] \in S
        BY <1>3, <1>4, <1>5, <1>2
    <2>2. /\ SubSeq(found, 1, m) \in Seq(S) /\ Len(SubSeq(found, 1, m)) = (IF 1 <= m THEN m - 1 + 1 ELSE 0)
          /\ \A i \in 1 .. (m - 1 + 1) : SubSeq(found, 1, m)[i] = found[1 + i - 1]
        BY <1>5, <1>2, <2>1, SubSeqProperties
    <2> QED
        BY <1>2, <1>5, <2>2
<1>8. m \in 0..n /\ \A k \in 1..m : FirstOf(S, limit)[k] = L[k]
    BY <1>1, <1>2, <1>4, <1>5, <1>6, <1>7
<1>9. (all > limit => m = limit) /\ (~(all > limit) => m = n)
    BY <1>1, <1>2, <1>5
<1> QED
    BY <1>6, <1>7, <1>8, <1>9 DEF n, L

LEMMA PageShows ==
    ASSUME NEW S \in SUBSET Nat, IsFiniteSet(S), NEW limit \in Nat \ {0}
    PROVE  LET ids == FirstOf(S, limit)
           IN  /\ ids \in Seq(S)
               /\ \A j, k \in 1..Len(ids) : j < k => ids[j] > ids[k]
               /\ ~MoreThan(S, limit) => S \subseteq ToSet(ids)
               /\ MoreThan(S, limit) =>
                     /\ Last(ids) \in S
                     /\ \A k \in 1..Len(ids) : ids[k] >= Last(ids)
                     /\ \A x \in S : x >= Last(ids) => x \in ToSet(ids)
<1> DEFINE n == Cardinality(S)
           L == Newest(S)
           ids == FirstOf(S, limit)
<1>1. PICK m \in 0..n :
              /\ ids \in Seq(S) /\ Len(ids) = m
              /\ \A k \in 1..m : ids[k] = L[k]
              /\ MoreThan(S, limit) => m = limit
              /\ ~MoreThan(S, limit) => m = n
    <2>1. S \in SUBSET Int
        OBVIOUS
    <2> QED
        BY <2>1, PageLength
<1>2. /\ n \in Nat /\ L \in Seq(S) /\ Len(L) = n
      /\ \A j, k \in 1..n : j < k => L[j] > L[k]
      /\ \A x \in S : \E k \in 1..n : L[k] = x
    <2>1. S \in SUBSET Int
        OBVIOUS
    <2> QED
        BY <2>1, NewestOrder
<1> HIDE DEF n, L, ids
<1>3. ToSet(ids) = {ids[k] : k \in 1..m}
    <2>1. DOMAIN ids = 1..m
        BY <1>1, LenProperties
    <2> QED
        BY <2>1 DEF ToSet
<1>4. \A j, k \in 1..m : j < k => ids[j] > ids[k]
    BY <1>1, <1>2
<1>5. ASSUME ~MoreThan(S, limit) PROVE S \subseteq ToSet(ids)
    BY <1>1, <1>2, <1>3, <1>5
<1>6. ASSUME MoreThan(S, limit)
      PROVE  /\ Last(ids) \in S
             /\ \A k \in 1..m : ids[k] >= Last(ids)
             /\ \A x \in S : x >= Last(ids) => x \in ToSet(ids)
    <2>1. m = limit /\ m \in 1..m /\ m \in 1..n
        BY <1>1, <1>2, <1>6
    <2>2. Last(ids) = ids[m] /\ ids[m] \in S /\ ids[m] \in Nat /\ ids[m] = L[m]
        BY <1>1, <2>1, ElementOfSeq DEF Last
    <2>3. \A k \in 1..m : ids[k] \in Nat
        BY <1>1, ElementOfSeq
    <2>4. ASSUME NEW k \in 1..m PROVE ids[k] >= ids[m]
        <3>1. k = m \/ k < m
            BY <2>1
        <3>2. k < m => ids[k] > ids[m]
            BY <1>4, <2>1
        <3> QED
            BY <2>1, <2>3, <3>1, <3>2
    <2>5. ASSUME NEW x \in S, x >= ids[m] PROVE x \in ToSet(ids)
        <3>1. PICK k \in 1..n : L[k] = x
            BY <1>2
        <3>2. ~(m < k)
            <4>1. m < k => L[m] > L[k]
                BY <1>2, <2>1
            <4> QED
                BY <2>2, <2>5, <3>1, <4>1
        <3>3. k \in 1..m
            BY <2>1, <3>2
        <3> QED
            BY <1>1, <1>3, <3>1, <3>3
    <2> QED
        BY <2>2, <2>4, <2>5
<1> QED
    BY <1>1, <1>4, <1>5, <1>6 DEF ids

------------------------------------------------------------------------------
(* The rows of the table.                                                    *)

RowFields == {"id", "status", "created", "sold", "checked", "root", "bumped", "updated"}

IsRow(l) == l = [f \in DOMAIN l |-> l[f]] /\ RowFields \subseteq DOMAIN l /\ l.created \in Nat

TableInv ==
    /\ now \in Nat /\ listings \in Seq(Rows)
    /\ \A l \in Rows : IsRow(l)

LEMMA NewRow ==
    ASSUME now \in Nat, NEW offer, NEW root
    PROVE  LET l == NewListing(offer, root)
           IN  IsRow(l) /\ l.id = Len(listings) + 1 /\ l.created = now /\ l.status = "active"
BY DEF NewListing, IsRow, RowFields

(* A changed row keeps its place, its fields and the day it came.            *)
RowChanges(i, l) ==
    /\ listings' = [listings EXCEPT ![i] = l]
    /\ IsRow(l)

LEMMA SoldRow ==
    ASSUME TableInv, NEW i \in DOMAIN listings, NEW status, NEW day
    PROVE  LET l == [listings[i] EXCEPT !.status = status, !.sold = day]
           IN  /\ [listings EXCEPT ![i].status = status, ![i].sold = day] = [listings EXCEPT ![i] = l]
               /\ IsRow(l) /\ l.status = status
<1>1. listings[i] \in Rows
    BY DEF Rows
<1>2. IsRow(listings[i])
    BY <1>1 DEF TableInv
<1> QED
    BY <1>2 DEF IsRow, RowFields

LEMMA CheckedRow ==
    ASSUME TableInv, NEW i \in DOMAIN listings, NEW status, NEW day
    PROVE  LET l == [listings[i] EXCEPT !.status = status, !.checked = day]
           IN  /\ [listings EXCEPT ![i].status = status, ![i].checked = day] = [listings EXCEPT ![i] = l]
               /\ IsRow(l) /\ l.status = status
<1>1. listings[i] \in Rows
    BY DEF Rows
<1>2. IsRow(listings[i])
    BY <1>1 DEF TableInv
<1> QED
    BY <1>2 DEF IsRow, RowFields

LEMMA RowComes ==
    ASSUME TableInv, NEW l, IsRow(l), listings' = Append(listings, l), now' \in Nat
    PROVE  /\ TableInv' /\ Len(listings') = Len(listings) + 1
           /\ \A k \in 1..Len(listings) : listings'[k] = listings[k]
           /\ listings'[Len(listings) + 1] = l
<1> DEFINE S == Rows \cup {l}
<1>1. listings \in Seq(S)
    BY SeqMonotonic DEF TableInv
<1>2. /\ listings' \in Seq(S) /\ Len(listings') = Len(listings) + 1
      /\ \A k \in 1..Len(listings) : listings'[k] = listings[k]
      /\ listings'[Len(listings) + 1] = l
    BY <1>1, AppendProperties
<1>3. /\ DOMAIN listings' = 1..(Len(listings) + 1) /\ Len(listings) \in Nat
      /\ listings' \in [1..Len(listings') -> S] /\ DOMAIN listings = 1..Len(listings)
    BY <1>1, <1>2, LenProperties
<1>4. \A r \in Rows' : IsRow(r)
    <2>1. \A r \in S : IsRow(r)
        BY DEF TableInv
    <2>2. Rows' \subseteq S
        BY <1>3, <1>2 DEF Rows
    <2> QED
        BY <2>1, <2>2
<1>5. listings' \in [1..Len(listings') -> Rows']
    BY <1>3, <1>2 DEF Rows
<1>6. listings' \in Seq(Rows')
    <2>1. Len(listings') \in Nat
        BY <1>2, <1>3
    <2> QED
        BY <1>5, <2>1, SeqDef
<1> QED
    BY <1>2, <1>4, <1>6 DEF TableInv

LEMMA RowStays ==
    ASSUME TableInv, NEW i \in DOMAIN listings, NEW l, RowChanges(i, l), now' \in Nat
    PROVE  /\ TableInv' /\ Len(listings') = Len(listings) /\ DOMAIN listings' = DOMAIN listings
           /\ \A k \in DOMAIN listings : listings'[k] = IF k = i THEN l ELSE listings[k]
<1> DEFINE S == Rows \cup {l}
<1>1. listings \in Seq(S)
    BY SeqMonotonic DEF TableInv
<1>0. i \in 1..Len(listings)
    BY <1>1, LenProperties
<1>2. /\ listings' \in Seq(S) /\ Len(listings') = Len(listings)
      /\ \A k \in 1..Len(listings) : listings'[k] = IF k = i THEN l ELSE listings[k]
    BY <1>0, <1>1, ExceptSeq DEF RowChanges
<1>3. /\ DOMAIN listings' = 1..Len(listings) /\ Len(listings) \in Nat
      /\ listings' \in [1..Len(listings') -> S] /\ DOMAIN listings = 1..Len(listings)
    BY <1>1, <1>2, LenProperties
<1>4. \A r \in Rows' : IsRow(r)
    <2>1. \A r \in S : IsRow(r)
        BY DEF TableInv, RowChanges
    <2>2. Rows' \subseteq S
        BY <1>3, <1>2 DEF Rows
    <2> QED
        BY <2>1, <2>2
<1>5. listings' \in [1..Len(listings') -> Rows']
    BY <1>3, <1>2 DEF Rows
<1>6. listings' \in Seq(Rows')
    <2>1. Len(listings') \in Nat
        BY <1>2, <1>3
    <2> QED
        BY <1>5, <2>1, SeqDef
<1> QED
    BY <1>2, <1>3, <1>4, <1>6 DEF TableInv

(* What a step does to the table.                                            *)
RowAppears ==
    \E l : IsRow(l) /\ l.id = Len(listings) + 1 /\ l.created = now /\ listings' = Append(listings, l)
RowSold(i) ==
    /\ listings[i].status = "active"
    /\ RowChanges(i, [listings[i] EXCEPT !.status = "sold", !.sold = now])
RowWithdrawn(i) ==
    /\ listings[i].status = "active"
    /\ RowChanges(i, [listings[i] EXCEPT !.status = "removed_pending", !.checked = now])
RowReturns(i) ==
    /\ CameBack(i)
    /\ RowChanges(i, [listings[i] EXCEPT !.status = "active", !.checked = None])

LEMMA TableInit == ReadersInit => TableInv
BY DEF ReadersInit, TableInv, Rows

LEMMA TableStep ==
    ASSUME TableInv, [ReadersNext]_readersVars
    PROVE  /\ \/ UNCHANGED listings
              \/ RowAppears /\ now' = now
              \/ \E i \in DOMAIN listings : now' = now /\ (RowSold(i) \/ RowWithdrawn(i) \/ RowReturns(i))
           /\ TableInv'
<1>0. CASE UNCHANGED listings /\ now' \in Nat
    BY <1>0 DEF TableInv, Rows
<1>1. CASE Appear
    <2>1. PICK l : /\ IsRow(l) /\ l.id = Len(listings) + 1 /\ l.created = now
                   /\ listings' = Append(listings, l) /\ now' = now
        BY <1>1, NewRow DEF Appear, Changed, TableInv
    <2> QED
        BY <2>1, RowComes DEF RowAppears, TableInv
<1>2. CASE SellListing
    <2>1. PICK i \in DOMAIN listings : RowSold(i) /\ now' = now
        BY <1>2, SoldRow DEF SellListing, Changed, Matching, RowSold, RowChanges
    <2> QED
        BY <2>1, RowStays DEF RowSold, TableInv
<1>3. CASE WithdrawListing
    <2>1. PICK i \in DOMAIN listings : RowWithdrawn(i) /\ now' = now
        BY <1>3, CheckedRow DEF WithdrawListing, Changed, Matching, RowWithdrawn, RowChanges
    <2> QED
        BY <2>1, RowStays DEF RowWithdrawn, TableInv
<1>4. CASE Return
    <2>1. PICK i \in DOMAIN listings :
            /\ listings[i].status = "removed_pending" /\ now' = now
            /\ listings' = [listings EXCEPT ![i].status = "active", ![i].checked = None]
        BY <1>4 DEF Return, Changed
    <2> DEFINE l == [listings[i] EXCEPT !.status = "active", !.checked = None]
    <2>2. RowChanges(i, l) /\ l.status = "active"
        BY <2>1, CheckedRow DEF RowChanges
    <2> HIDE DEF l
    <2>3. now' \in Nat
        BY <2>1 DEF TableInv
    <2>4. TableInv' /\ listings'[i] = l
        BY <2>2, <2>3, RowStays
    <2>5. CameBack(i)
        BY <2>1, <2>2, <2>4 DEF CameBack
    <2> QED
        BY <2>1, <2>2, <2>4, <2>5 DEF RowReturns, l
<1>5. CASE Advance
    BY <1>0, <1>5, ReadersAssumption DEF Advance, TableInv
<1>6. CASE OpenCatalog \/ NextPage \/ UNCHANGED readersVars
    BY <1>0, <1>6 DEF OpenCatalog, NextPage, readersVars, TableInv
<1> QED
    BY <1>1, <1>2, <1>3, <1>4, <1>5, <1>6 DEF ReadersNext

------------------------------------------------------------------------------
(* The past.                                                                 *)

Seen(l, day) == [StateAt(l, day) EXCEPT !.checked = None]
PlacedOn(ls, day) == {i \in DOMAIN ls : StatusAt(ls[i], day) # "unlisted"}

LEMMA PastIs ==
    ASSUME NEW ls, NEW day
    PROVE  Past(ls, day) = {Seen(ls[i], day) : i \in PlacedOn(ls, day)}
BY DEF Past, History, Seen, PlacedOn

LEMMA NotYetListed ==
    ASSUME NEW l, NEW day \in Nat, l.created \in Nat, l.created > day
    PROVE  StatusAt(l, day) = "unlisted"
BY DEF StatusAt

(* An active listing that is sold or withdrawn was active on every day before. *)
LEMMA SaleIsLater ==
    ASSUME NEW l, IsRow(l), l.status = "active", now \in Nat, NEW day \in Nat, day < now
    PROVE  LET m == [l EXCEPT !.status = "sold", !.sold = now]
           IN  StatusAt(m, day) = StatusAt(l, day) /\ Seen(m, day) = Seen(l, day)
<1> DEFINE m == [l EXCEPT !.status = "sold", !.sold = now]
<1>1. /\ m.status = "sold" /\ m.sold = now /\ m.created = l.created
      /\ m.bumped = l.bumped /\ m.updated = l.updated /\ m.checked = l.checked
      /\ DOMAIN m = DOMAIN l /\ \A f \in DOMAIN l \ {"status", "sold"} : m[f] = l[f]
      /\ m = [f \in DOMAIN m |-> m[f]]
    BY DEF IsRow, RowFields
<1>2. /\ StatusAt(m, day) = StatusAt(l, day) /\ StatusAt(m, day) # "sold"
    <2>1. l.created \in Nat
        BY DEF IsRow
    <2> HIDE DEF m
    <2> QED
        BY <1>1, <2>1 DEF StatusAt, RemovedStates
<1>3. StateAt(m, day) = StateAt(l, day)
    <2> HIDE DEF m
    <2> QED
        BY <1>1, <1>2 DEF StateAt, IsRow, RowFields
<1> QED
    BY <1>2, <1>3 DEF Seen

LEMMA WithdrawalIsLater ==
    ASSUME NEW l, IsRow(l), l.status = "active", now \in Nat, NEW day \in Nat, day < now
    PROVE  LET m == [l EXCEPT !.status = "removed_pending", !.checked = now]
           IN  StatusAt(m, day) = StatusAt(l, day) /\ Seen(m, day) = Seen(l, day)
<1> DEFINE m == [l EXCEPT !.status = "removed_pending", !.checked = now]
<1>1. /\ m.status = "removed_pending" /\ m.checked = now /\ m.created = l.created
      /\ m.bumped = l.bumped /\ m.updated = l.updated /\ m.sold = l.sold
      /\ DOMAIN m = DOMAIN l /\ \A f \in DOMAIN l \ {"status", "checked"} : m[f] = l[f]
      /\ m = [f \in DOMAIN m |-> m[f]]
    BY DEF IsRow, RowFields
<1>2. StatusAt(m, day) = StatusAt(l, day) /\ StatusAt(m, day) # "sold"
    <2>1. l.created \in Nat
        BY DEF IsRow
    <2> HIDE DEF m
    <2> QED
        BY <1>1, <2>1 DEF StatusAt, RemovedStates
<1>3. Seen(m, day) = Seen(l, day)
    <2> HIDE DEF m
    <2> QED
        BY <1>1, <1>2 DEF Seen, StateAt, IsRow, RowFields
<1> QED
    BY <1>2, <1>3

(***************************************************************************)
(* Selling or withdrawing a listing changes nothing of an earlier day: the *)
(* backtest rebuilds the past from the listings as they are, and finds     *)
(* each where it was (supply.status_at, history.state_at).                 *)
(***************************************************************************)
THEOREM PastIsKept == ReadersSpec => PastStandsStill
<1>1. ASSUME TableInv, [ReadersNext]_readersVars,
             \A i \in DOMAIN listings : ~CameBack(i), NEW day \in 0..(now - 1)
      PROVE  listings' # listings => Past(listings', day) = Past(listings, day)
    <2>1. now \in Nat /\ day \in Nat /\ day < now
        BY <1>1 DEF TableInv
    <2>2. /\ \A i \in DOMAIN listings : IsRow(listings[i])
          /\ DOMAIN listings = 1..Len(listings) /\ Len(listings) \in Nat
        BY <1>1, LenProperties DEF TableInv, Rows
    <2>3. CASE RowAppears /\ now' = now
        <3>1. PICK l : IsRow(l) /\ l.created = now /\ listings' = Append(listings, l)
            BY <2>3 DEF RowAppears
        <3>2. /\ TableInv' /\ Len(listings') = Len(listings) + 1
              /\ \A k \in 1..Len(listings) : listings'[k] = listings[k]
              /\ listings'[Len(listings) + 1] = l
            BY <1>1, <2>1, <2>3, <3>1, RowComes
        <3>3. DOMAIN listings' = 1..(Len(listings) + 1)
            BY <3>2, LenProperties DEF TableInv
        <3>4. StatusAt(l, day) = "unlisted"
            BY <2>1, <3>1, NotYetListed
        <3>5. PlacedOn(listings', day) = PlacedOn(listings, day)
            BY <2>2, <3>2, <3>3, <3>4 DEF PlacedOn
        <3>6. \A i \in PlacedOn(listings, day) : listings'[i] = listings[i]
            BY <2>2, <3>2 DEF PlacedOn
        <3> QED
            BY <3>5, <3>6, PastIs
    <2>4. ASSUME NEW i \in DOMAIN listings, NEW l, RowChanges(i, l), now' = now,
                 StatusAt(l, day) = StatusAt(listings[i], day), Seen(l, day) = Seen(listings[i], day)
          PROVE  Past(listings', day) = Past(listings, day)
        <3>1. /\ DOMAIN listings' = DOMAIN listings
              /\ \A k \in DOMAIN listings : listings'[k] = IF k = i THEN l ELSE listings[k]
            BY <1>1, <2>1, <2>4, RowStays
        <3>2. \A k \in DOMAIN listings : /\ StatusAt(listings'[k], day) = StatusAt(listings[k], day)
                                         /\ Seen(listings'[k], day) = Seen(listings[k], day)
            BY <2>4, <3>1
        <3>3. PlacedOn(listings', day) = PlacedOn(listings, day)
            BY <3>1, <3>2 DEF PlacedOn
        <3>4. \A k \in PlacedOn(listings, day) : Seen(listings'[k], day) = Seen(listings[k], day)
            BY <3>2 DEF PlacedOn
        <3> QED
            BY <3>3, <3>4, PastIs
    <2>5. ASSUME NEW i \in DOMAIN listings, now' = now, RowSold(i) PROVE Past(listings', day) = Past(listings, day)
        <3> DEFINE m == [listings[i] EXCEPT !.status = "sold", !.sold = now]
        <3>1. StatusAt(m, day) = StatusAt(listings[i], day) /\ Seen(m, day) = Seen(listings[i], day)
            BY <2>1, <2>2, <2>5, SaleIsLater DEF RowSold
        <3>2. RowChanges(i, m)
            BY <2>5 DEF RowSold
        <3> HIDE DEF m
        <3> QED
            BY <2>4, <2>5, <3>1, <3>2
    <2>6. ASSUME NEW i \in DOMAIN listings, now' = now, RowWithdrawn(i)
          PROVE  Past(listings', day) = Past(listings, day)
        <3> DEFINE m == [listings[i] EXCEPT !.status = "removed_pending", !.checked = now]
        <3>1. StatusAt(m, day) = StatusAt(listings[i], day) /\ Seen(m, day) = Seen(listings[i], day)
            BY <2>1, <2>2, <2>6, WithdrawalIsLater DEF RowWithdrawn
        <3>2. RowChanges(i, m)
            BY <2>6 DEF RowWithdrawn
        <3> HIDE DEF m
        <3> QED
            BY <2>4, <2>6, <3>1, <3>2
    <2>7. \A i \in DOMAIN listings : ~RowReturns(i)
        BY <1>1 DEF RowReturns
    <2> QED
        BY <1>1, <2>3, <2>5, <2>6, <2>7, TableStep
<1>2. TableInv /\ [ReadersNext]_readersVars =>
         [(\A i \in DOMAIN listings : ~CameBack(i)) =>
             \A day \in 0..(now - 1) : Past(listings', day) = Past(listings, day)]_listings
    BY <1>1
<1>3. TableInv /\ [ReadersNext]_readersVars => TableInv'
    BY TableStep
<1> QED
    BY <1>2, <1>3, TableInit, PTL DEF ReadersSpec, PastStandsStill

------------------------------------------------------------------------------
(* The reader of the catalog.                                                *)

Decreasing(s) == \A j, k \in DOMAIN s : j < k => s[j] > s[k]

(* What a cursor stands for: all that matched from its last listing on is    *)
(* shown, and what is shown is not below it.                                 *)
CursorInv(r, c) ==
    /\ c.max \in Nat /\ r.all = 1..c.max
    /\ c.last \in Nat
    /\ \A k \in DOMAIN r.shown : r.shown[k] >= c.last
    /\ \A i \in r.kept : i >= c.last => i \in ToSet(r.shown)

FollowsCatalog(r, ls) ==
    /\ r = [cursor |-> r.cursor, limit |-> r.limit, all |-> r.all, kept |-> r.kept, shown |-> r.shown]
    /\ r.limit \in Nat \ {0}
    /\ \E n \in 0..Len(ls) : r.all = 1..n
    /\ r.kept \subseteq r.all /\ r.kept \subseteq Matching(ls)
    /\ r.shown \in Seq(r.all) /\ Decreasing(r.shown)
    /\ r.cursor = <<>> => r.kept \subseteq ToSet(r.shown)
    /\ r.cursor # <<>> => CursorInv(r, r.cursor[1])

ReaderInv == reader # <<>> => FollowsCatalog(reader, listings)

CatalogInv == TableInv /\ ReaderInv

LEMMA LastIdOf ==
    ASSUME NEW n \in Nat
    PROVE  Max({0} \cup (1..n)) = n
BY DEF Max

OpenTo(matching, max, cursor) == {i \in matching : i <= max /\ (cursor # <<>> => i < cursor[1].last)}

LEMMA CatalogPageIs ==
    ASSUME NEW ids, NEW matching, NEW q, NEW n, NEW from, NEW top, NEW todo,
           top = IF from = <<>> THEN Max({0} \cup ids) ELSE from[1].max,
           todo = OpenTo(matching, top, from)
    PROVE  /\ CatalogPage(ids, matching, q, n, from).ids = FirstOf(todo, n)
           /\ CatalogPage(ids, matching, q, n, from).next =
                  IF MoreThan(todo, n)
                  THEN <<[max |-> top, last |-> Last(FirstOf(todo, n)), query |-> q]>> ELSE <<>>
BY DEF CatalogPage, OpenTo, FirstOf, MoreThan, Newest

LEMMA ReaderKeeps ==
    ASSUME ReaderInv, NEW ls, Changed(ls), Len(listings) \in Nat, Len(listings') \in Nat,
           Len(listings') >= Len(listings)
    PROVE  ReaderInv'
<1> SUFFICES ASSUME reader' # <<>> PROVE FollowsCatalog(reader', listings')
    BY DEF ReaderInv
<1>1. reader # <<>> /\ listings' = ls
    BY DEF Changed
<1>2. FollowsCatalog(reader, listings)
    BY <1>1 DEF ReaderInv
<1>3. /\ reader'.cursor = reader.cursor /\ reader'.limit = reader.limit /\ reader'.all = reader.all
      /\ reader'.shown = reader.shown /\ reader'.kept = reader.kept \cap Matching(listings')
      /\ reader' = [cursor |-> reader'.cursor, limit |-> reader'.limit, all |-> reader'.all,
                    kept |-> reader'.kept, shown |-> reader'.shown]
    <2>1. reader = [cursor |-> reader.cursor, limit |-> reader.limit, all |-> reader.all,
                    kept |-> reader.kept, shown |-> reader.shown]
        BY <1>2 DEF FollowsCatalog
    <2>2. reader' = [reader EXCEPT !.kept = reader.kept \cap Matching(listings')]
        BY <1>1 DEF Changed
    <2> QED
        BY <2>1, <2>2
<1>4. \E n \in 0..Len(listings') : reader'.all = 1..n
    BY <1>2, <1>3 DEF FollowsCatalog
<1>5. reader.cursor # <<>> => CursorInv(reader', reader.cursor[1])
    BY <1>2, <1>3 DEF FollowsCatalog, CursorInv
<1> QED
    BY <1>2, <1>3, <1>4, <1>5 DEF FollowsCatalog

LEMMA MatchingRows ==
    ASSUME TableInv
    PROVE  /\ DOMAIN listings = 1..Len(listings) /\ Len(listings) \in Nat
           /\ Matching(listings) \subseteq 1..Len(listings)
           /\ IsFiniteSet(Matching(listings))
<1>1. DOMAIN listings = 1..Len(listings) /\ Len(listings) \in Nat
    BY LenProperties DEF TableInv
<1>2. IsFiniteSet(1..Len(listings))
    BY <1>1, FS_Interval
<1>3. Matching(listings) \in SUBSET (1..Len(listings))
    BY <1>1 DEF Matching
<1> QED
    BY <1>1, <1>2, <1>3, FS_Subset

LEMMA ReaderOpens ==
    ASSUME TableInv, OpenCatalog
    PROVE  ReaderInv'
<1> DEFINE n == Len(listings)
           match == Matching(listings)
<1>1. PICK limit \in PageSizes :
         LET page == CatalogPage(DOMAIN listings, match, "active", limit, <<>>)
         IN  reader' = Shown(page, limit, DOMAIN listings, match, <<>>) /\ listings' = listings
    BY DEF OpenCatalog
<1>2. limit \in Nat \ {0}
    BY ReadersAssumption
<1>3. DOMAIN listings = 1..n /\ n \in Nat /\ match \subseteq 1..n /\ IsFiniteSet(match)
    BY MatchingRows
<1>4. OpenTo(match, n, <<>>) = match
    BY <1>3 DEF OpenTo
<1>5. Max({0} \cup DOMAIN listings) = n
    BY <1>3, LastIdOf
<1> DEFINE ids == FirstOf(match, limit)
           next == IF MoreThan(match, limit) THEN <<[max |-> n, last |-> Last(ids), query |-> "active"]>>
                   ELSE <<>>
<1> DEFINE page == CatalogPage(DOMAIN listings, match, "active", limit, <<>>)
<1>6. page.ids = ids /\ page.next = next
    BY <1>4, <1>5, CatalogPageIs
<1>6a. reader' = [cursor |-> page.next, limit |-> limit, all |-> DOMAIN listings, kept |-> match,
                  shown |-> <<>> \o page.ids]
    BY <1>1 DEF Shown
<1> HIDE DEF page
<1>7. /\ ids \in Seq(match)
      /\ \A j, k \in 1..Len(ids) : j < k => ids[j] > ids[k]
      /\ ~MoreThan(match, limit) => match \subseteq ToSet(ids)
      /\ MoreThan(match, limit) =>
            /\ Last(ids) \in match
            /\ \A k \in 1..Len(ids) : ids[k] >= Last(ids)
            /\ \A x \in match : x >= Last(ids) => x \in ToSet(ids)
    <2>1. match \in SUBSET Nat
        BY <1>3
    <2> QED
        BY <1>2, <1>3, <2>1, PageShows
<1>7a. \A x \in match : x \in Nat
    BY <1>3
<1> HIDE DEF ids, match
<1>8. <<>> \o ids = ids /\ DOMAIN ids = 1..Len(ids) /\ ids \in Seq(1..n)
    BY <1>3, <1>7, ConcatEmptySeq, LenProperties, SeqMonotonic
<1>9. next # <<>> => MoreThan(match, limit) /\ next[1].max = n /\ next[1].last = Last(ids)
    OBVIOUS
<1>10. next = <<>> => ~MoreThan(match, limit)
    OBVIOUS
<1> HIDE DEF next
<1>11. reader' = [cursor |-> next, limit |-> limit, all |-> 1..n, kept |-> match, shown |-> ids]
    BY <1>3, <1>6, <1>6a, <1>8
<1>12. next # <<>> => CursorInv(reader', next[1])
    <2> SUFFICES ASSUME next # <<>> PROVE CursorInv(reader', next[1])
        OBVIOUS
    <2>0. Last(ids) \in match
        BY <1>7, <1>9
    <2>1. Last(ids) \in Nat
        BY <1>7a, <2>0
    <2>2. reader'.all = 1..n /\ reader'.kept = match /\ reader'.shown = ids
        BY <1>11
    <2> QED
        BY <1>3, <1>7, <1>8, <1>9, <2>1, <2>2 DEF CursorInv
<1>13. Decreasing(ids) /\ match = Matching(listings')
    BY <1>1, <1>7, <1>8 DEF Decreasing, match
<1>14. \E m \in 0..Len(listings') : 1..n = 1..m
    <2>1. n \in 0..Len(listings')
        BY <1>1, <1>3
    <2> HIDE DEF n
    <2> QED
        BY <2>1
<1>15. FollowsCatalog(reader', listings')
    BY <1>2, <1>3, <1>7, <1>8, <1>10, <1>11, <1>12, <1>13, <1>14 DEF FollowsCatalog
<1> QED
    BY <1>15 DEF ReaderInv

LEMMA ReaderGoesOn ==
    ASSUME TableInv, ReaderInv, NextPage
    PROVE  ReaderInv'
<1> DEFINE match == Matching(listings)
           c == reader.cursor[1]
           open == OpenTo(match, c.max, reader.cursor)
           limit == reader.limit
           ids == FirstOf(open, limit)
           next == IF MoreThan(open, limit) THEN <<[max |-> c.max, last |-> Last(ids), query |-> "active"]>>
                   ELSE <<>>
           page == CatalogPage(DOMAIN listings, match, "active", limit, reader.cursor)
<1>1. reader # <<>> /\ reader.cursor # <<>> /\ FollowsCatalog(reader, listings) /\ CursorInv(reader, c)
    BY DEF NextPage, ReaderInv, FollowsCatalog
<1>2. /\ reader' = Shown(page, limit, reader.all, reader.kept, reader.shown)
      /\ listings' = listings
    BY DEF NextPage
<1>3. limit \in Nat \ {0} /\ c.max \in Nat /\ c.last \in Nat
    BY <1>1 DEF FollowsCatalog, CursorInv
<1>4. match \subseteq Nat /\ IsFiniteSet(match)
    BY MatchingRows
<1>5. open = {i \in match : i <= c.max /\ i < c.last}
    BY <1>1 DEF OpenTo
<1>6. open \in SUBSET Nat /\ IsFiniteSet(open) /\ open \in SUBSET (1..c.max)
    <2>1. open \in SUBSET match
        BY <1>5
    <2>2. \A i \in match : i \in 1..Len(listings) /\ Len(listings) \in Nat
        BY MatchingRows
    <2>3. open \subseteq 1..c.max
        BY <1>3, <1>5, <2>2
    <2> QED
        BY <1>4, <2>1, <2>3, FS_Subset
<1>7. page.ids = ids /\ page.next = next
    <2>1. reader.cursor # <<>>
        BY <1>1
    <2> QED
        BY <2>1 DEF CatalogPage, OpenTo, FirstOf, MoreThan, Newest
<1>8. /\ ids \in Seq(open)
      /\ \A j, k \in 1..Len(ids) : j < k => ids[j] > ids[k]
      /\ ~MoreThan(open, limit) => open \subseteq ToSet(ids)
      /\ MoreThan(open, limit) =>
            /\ Last(ids) \in open
            /\ \A k \in 1..Len(ids) : ids[k] >= Last(ids)
            /\ \A x \in open : x >= Last(ids) => x \in ToSet(ids)
    <2> HIDE DEF open, limit
    <2> QED
        BY <1>3, <1>6, PageShows
<1>9. reader' = [cursor |-> page.next, limit |-> limit, all |-> reader.all, kept |-> reader.kept,
                 shown |-> reader.shown \o page.ids]
    BY <1>2 DEF Shown
<1> HIDE DEF page, ids, open, match
<1>10. next # <<>> => MoreThan(open, limit) /\ next[1].max = c.max /\ next[1].last = Last(ids)
    OBVIOUS
<1>11. next = <<>> => ~MoreThan(open, limit)
    OBVIOUS
<1> DEFINE before == reader.shown
           all == reader.all
           kept == reader.kept
           shown == before \o ids
<1>12. /\ all = 1..c.max /\ kept \subseteq all /\ kept \subseteq match
       /\ before \in Seq(all) /\ Decreasing(before)
       /\ \A k \in DOMAIN before : before[k] >= c.last
       /\ \A i \in kept : i >= c.last => i \in ToSet(before)
    BY <1>1 DEF FollowsCatalog, CursorInv, match
<1>13. \E n \in 0..Len(listings') : all = 1..n
    BY <1>1, <1>2 DEF FollowsCatalog
<1>14. reader' = [cursor |-> next, limit |-> limit, all |-> all, kept |-> kept, shown |-> shown]
    BY <1>7, <1>9
<1> HIDE DEF next, c, limit, before, all, kept
<1>15. /\ shown \in Seq(all) /\ DOMAIN shown = 1..(Len(before) + Len(ids))
       /\ DOMAIN before = 1..Len(before) /\ DOMAIN ids = 1..Len(ids)
       /\ Len(before) \in Nat /\ Len(ids) \in Nat
       /\ \A k \in DOMAIN shown : shown[k] = IF k <= Len(before) THEN before[k] ELSE ids[k - Len(before)]
    <2>1. ids \in Seq(all)
        BY <1>6, <1>8, <1>12, SeqMonotonic
    <2>2. /\ shown \in Seq(all) /\ Len(shown) = Len(before) + Len(ids)
          /\ \A k \in 1..(Len(before) + Len(ids)) :
                shown[k] = IF k <= Len(before) THEN before[k] ELSE ids[k - Len(before)]
        BY <1>12, <2>1, ConcatProperties
    <2> HIDE DEF shown
    <2> QED
        BY <1>12, <2>1, <2>2, LenProperties
<1> HIDE DEF shown
<1>16. ToSet(shown) = ToSet(before) \cup ToSet(ids)
    <2>1. \A k \in DOMAIN before : k \in DOMAIN shown /\ shown[k] = before[k]
        BY <1>15
    <2>2. \A k \in DOMAIN ids : (k + Len(before)) \in DOMAIN shown /\ shown[k + Len(before)] = ids[k]
        BY <1>15
    <2>3. \A k \in DOMAIN shown : shown[k] \in ToSet(before) \cup ToSet(ids)
        BY <1>15 DEF ToSet
    <2> QED
        BY <2>1, <2>2, <2>3 DEF ToSet
<1>17. \A k \in DOMAIN ids : ids[k] \in open /\ ids[k] < c.last /\ ids[k] \in Nat
    BY <1>5, <1>6, <1>8, <1>15, ElementOfSeq
<1>18. \A k \in DOMAIN before : before[k] \in Nat /\ before[k] >= c.last
    <2>1. \A k \in DOMAIN before : before[k] \in all
        BY <1>12, <1>15, ElementOfSeq
    <2>2. \A x \in all : x \in Nat
        BY <1>3, <1>12
    <2> QED
        BY <1>12, <2>1, <2>2
<1>19. Decreasing(shown)
    <2> SUFFICES ASSUME NEW j \in DOMAIN shown, NEW k \in DOMAIN shown, j < k PROVE shown[j] > shown[k]
        BY DEF Decreasing
    <2>1. CASE k <= Len(before)
        BY <1>12, <1>15, <2>1 DEF Decreasing
    <2>2. CASE j > Len(before)
        <3>1. j - Len(before) \in DOMAIN ids /\ k - Len(before) \in DOMAIN ids
            BY <1>15, <2>2
        <3> QED
            BY <1>8, <1>15, <2>2, <3>1
    <2>3. CASE j <= Len(before) /\ k > Len(before)
        <3>1. j \in DOMAIN before /\ k - Len(before) \in DOMAIN ids
            BY <1>15, <2>3
        <3> QED
            BY <1>3, <1>15, <1>17, <1>18, <2>3, <3>1
    <2> QED
        BY <1>15, <2>1, <2>2, <2>3
<1>20. \A i \in kept : i < c.last => i \in open
    BY <1>5, <1>12, <1>3
<1>21. next = <<>> => kept \subseteq ToSet(shown)
    BY <1>3, <1>8, <1>11, <1>12, <1>16, <1>20
<1>22. next # <<>> => CursorInv(reader', next[1])
    <2> SUFFICES ASSUME next # <<>> PROVE CursorInv(reader', next[1])
        OBVIOUS
    <2>1. Last(ids) \in open /\ next[1].max = c.max /\ next[1].last = Last(ids)
        BY <1>8, <1>10
    <2>2. Last(ids) \in Nat /\ Last(ids) < c.last
        BY <1>5, <1>6, <2>1
    <2>3. \A k \in DOMAIN shown : shown[k] >= Last(ids)
        <3> SUFFICES ASSUME NEW k \in DOMAIN shown PROVE shown[k] >= Last(ids)
            OBVIOUS
        <3>1. CASE k <= Len(before)
            <4>1. k \in DOMAIN before
                BY <1>15, <3>1
            <4> QED
                BY <1>3, <1>15, <1>18, <2>2, <3>1, <4>1
        <3>2. CASE k > Len(before)
            <4>1. k - Len(before) \in DOMAIN ids
                BY <1>15, <3>2
            <4> QED
                BY <1>8, <1>10, <1>15, <3>2, <4>1
        <3> QED
            BY <1>15, <3>1, <3>2
    <2>4. \A i \in kept : i >= Last(ids) => i \in ToSet(shown)
        <3> SUFFICES ASSUME NEW i \in kept, i >= Last(ids) PROVE i \in ToSet(shown)
            OBVIOUS
        <3>1. i \in Nat
            BY <1>3, <1>12
        <3>2. CASE i >= c.last
            BY <1>12, <1>16, <3>2
        <3>3. CASE i < c.last
            BY <1>8, <1>10, <1>16, <1>20, <3>3
        <3> QED
            BY <1>3, <3>1, <3>2, <3>3
    <2>5. reader'.all = all /\ reader'.kept = kept /\ reader'.shown = shown
        BY <1>14
    <2> QED
        BY <1>3, <1>12, <2>1, <2>2, <2>3, <2>4, <2>5 DEF CursorInv
<1>23. kept \subseteq Matching(listings')
    BY <1>2, <1>12 DEF match
<1>24. FollowsCatalog(reader', listings')
    BY <1>3, <1>12, <1>13, <1>14, <1>15, <1>19, <1>21, <1>22, <1>23 DEF FollowsCatalog
<1> QED
    BY <1>24 DEF ReaderInv

LEMMA CatalogStep == CatalogInv /\ [ReadersNext]_readersVars => CatalogInv'
<1> SUFFICES ASSUME TableInv, ReaderInv, [ReadersNext]_readersVars PROVE ReaderInv'
    BY TableStep DEF CatalogInv
<1>1. TableInv'
    BY TableStep
<1>2. /\ Len(listings) \in Nat /\ Len(listings') \in Nat
    BY <1>1, LenProperties DEF TableInv
<1>3. Len(listings') >= Len(listings)
    <2>1. CASE RowAppears /\ now' = now
        BY <1>2, <2>1, RowComes DEF RowAppears, TableInv
    <2>2. ASSUME NEW i \in DOMAIN listings, now' = now, RowSold(i) \/ RowWithdrawn(i) \/ RowReturns(i)
          PROVE  Len(listings') = Len(listings)
        <3>1. now' \in Nat
            BY <2>2 DEF TableInv
        <3> QED
            BY <2>2, <3>1, RowStays DEF RowSold, RowWithdrawn, RowReturns
    <2> QED
        BY <1>2, <2>1, <2>2, TableStep
<1>4. CASE \E ls : Changed(ls)
    BY <1>2, <1>3, <1>4, ReaderKeeps
<1>5. CASE OpenCatalog
    BY <1>5, ReaderOpens
<1>6. CASE NextPage
    BY <1>6, ReaderGoesOn
<1>7. CASE UNCHANGED <<listings, reader>>
    BY <1>7 DEF ReaderInv
<1> QED
    BY <1>4, <1>5, <1>6, <1>7
       DEF ReadersNext, readersVars, Appear, SellListing, WithdrawListing, Return, Advance

(***************************************************************************)
(* Whatever is stored, sold or withdrawn between the pages, a reader who   *)
(* follows the catalog's cursors to the end has seen every listing that    *)
(* matched all along, once, newest first, and none that came later         *)
(* (api/listings.py with its keyset cursor, api/cursors.py).               *)
(***************************************************************************)
THEOREM PagesMissNothing == ReadersSpec => []CatalogPagesMissNothing
<1>1. ReadersInit => CatalogInv
    BY TableInit DEF ReadersInit, CatalogInv, ReaderInv
<1>2. CatalogInv => CatalogPagesMissNothing
    <2> SUFFICES ASSUME CatalogInv, reader # <<>>
                 PROVE  /\ reader.cursor = <<>> => reader.kept \subseteq ToSet(reader.shown)
                        /\ ToSet(reader.shown) \subseteq reader.all
                        /\ \A j, k \in DOMAIN reader.shown : j < k => reader.shown[j] > reader.shown[k]
        BY DEF CatalogPagesMissNothing
    <2>1. FollowsCatalog(reader, listings)
        BY DEF CatalogInv, ReaderInv
    <2>2. ToSet(reader.shown) \subseteq reader.all
        BY <2>1, ElementOfSeq, LenProperties DEF FollowsCatalog, ToSet
    <2> QED
        BY <2>1, <2>2 DEF FollowsCatalog, Decreasing
<1> QED
    BY <1>1, <1>2, CatalogStep, PTL DEF ReadersSpec

------------------------------------------------------------------------------
(* Finite sets                                                               *)

LEMMA FiniteImage ==
    ASSUME NEW S, IsFiniteSet(S), NEW f, NEW T, T = {f[x] : x \in S}
    PROVE  IsFiniteSet(T)
<1> DEFINE g == [x \in S |-> f[x]]
<1>1. g \in Surjection(S, T)
    BY DEF Surjection
<1> HIDE DEF g
<1> QED
    BY <1>1, FS_Surjection

LEMMA MaxOfFinite ==
    ASSUME NEW S \in SUBSET Int, IsFiniteSet(S), S # {}
    PROVE  Max(S) \in S /\ \A y \in S : Max(S) >= y
<1>1. Cardinality(S) \in Nat /\ Cardinality(S) # 0
    BY FS_CardinalityType, FS_EmptySet
<1>2. PICK x \in S : Cardinality(Above(S, x)) = 0
    <2>1. 1 \in 1..Cardinality(S)
        BY <1>1
    <2>2. Newest(S)[1] \in S /\ Cardinality(Above(S, Newest(S)[1])) = 1 - 1
        BY <2>1, NewestPlaces
    <2>3. Cardinality(Above(S, Newest(S)[1])) = 0
        BY <2>2
    <2> QED
        BY <2>2, <2>3
<1>3. Above(S, x) = {}
    <2>1. Above(S, x) \in SUBSET S
        BY DEF Above
    <2> QED
        BY <1>2, <2>1, FS_Subset, FS_EmptySet
<1>4. \A y \in S : x >= y
    BY <1>3 DEF Above
<1> QED
    BY <1>4 DEF Max

LEMMA MinOfFinite ==
    ASSUME NEW S \in SUBSET Int, IsFiniteSet(S), S # {}
    PROVE  Min(S) \in S /\ \A y \in S : Min(S) <= y
<1> DEFINE turn == [x \in S |-> x]
<1>1. Cardinality(S) \in Nat /\ Cardinality(S) # 0
    BY FS_CardinalityType, FS_EmptySet
<1>2. turn \in [S -> Int] /\ (\A x, y \in S : turn[x] = turn[y] => x = y) /\ \A x \in S : turn[x] = x /\ x \in Int
    OBVIOUS
<1> HIDE DEF turn
<1>3. PICK x \in S : Cardinality(Before(S, turn, x)) = 0
    <2>1. 1 \in 1..Cardinality(S)
        BY <1>1
    <2>2. \A k \in 1..Cardinality(S) : \E x \in S : Cardinality(Before(S, turn, x)) = k - 1
        BY <1>2, TurnPlaces
    <2>3. \E x \in S : Cardinality(Before(S, turn, x)) = 1 - 1
        BY <2>1, <2>2
    <2> QED
        BY <2>3
<1>4. Before(S, turn, x) = {}
    <2>1. Before(S, turn, x) \in SUBSET S
        BY DEF Before
    <2> QED
        BY <1>3, <2>1, FS_Subset, FS_EmptySet
<1>5. \A y \in S : x <= y
    BY <1>2, <1>4 DEF Before
<1> QED
    BY <1>5 DEF Min

(* Counting the ids up to each of them gives different ids different numbers. *)
LEMMA NumbersDiffer ==
    ASSUME NEW used \in SUBSET Int, IsFiniteSet(used), NEW i \in used, NEW j \in used, i # j
    PROVE  Cardinality({n \in used : n <= i}) # Cardinality({n \in used : n <= j})
<1> DEFINE UpTo(k) == {n \in used : n <= k}
<1>1. ASSUME NEW a \in used, NEW b \in used, a < b PROVE Cardinality(UpTo(a)) < Cardinality(UpTo(b))
    <2>1. UpTo(a) \in SUBSET UpTo(b)
        <3>1. ASSUME NEW n \in used, n <= a PROVE n <= b
            BY <1>1, <3>1
        <3> QED
            BY <3>1
    <2>2. b \in UpTo(b) /\ b \notin UpTo(a)
        BY <1>1
    <2>3. IsFiniteSet(UpTo(b)) /\ Cardinality(UpTo(b)) \in Nat
        BY FS_Subset, FS_CardinalityType
    <2>4. UpTo(a) # UpTo(b)
        BY <2>2
    <2> HIDE DEF UpTo
    <2> QED
        BY <2>1, <2>3, <2>4, FS_Subset, FS_CardinalityType
<1>2. Cardinality(UpTo(i)) \in Nat /\ Cardinality(UpTo(j)) \in Nat
    BY FS_Subset, FS_CardinalityType
<1>3. i < j \/ j < i
    OBVIOUS
<1> HIDE DEF UpTo
<1>4. Cardinality(UpTo(i)) # Cardinality(UpTo(j))
    BY <1>1, <1>2, <1>3
<1> QED
    BY <1>4 DEF UpTo

------------------------------------------------------------------------------
(* The table of metrics                                                      *)

RowColumns == {"key", "id", "brand", "scope", "type", "section", "group", "line", "kind",
               "m", "period", "p30", "score", "badges"}

(* A row that is written again says the same of its scope.                   *)
LEMMA RowRewritten ==
    ASSUME NEW r, StoredRow(r), NEW s, DOMAIN s = DOMAIN r,
           s.key = r.key, s.scope = r.scope, s.type = r.type, s.line = r.line, s.kind = r.kind, s.m = r.m,
           s.id \in Int, s.score # None => IsRanked(r, {})
    PROVE  StoredRow(s)
BY DEF StoredRow, IsRanked

LEMMA TableRewritten ==
    ASSUME NEW R, StoredRows(R), NEW f, \A r \in R : StoredRow(f[r]) /\ f[r].id = r.id,
           NEW T, T = {f[r] : r \in R}
    PROVE  StoredRows(T)
<1>1. IsFiniteSet(T)
    BY FiniteImage DEF StoredRows
<1>2. \A a, b \in R : f[a].id = f[b].id => f[a] = f[b]
    BY DEF StoredRows
<1> QED
    BY <1>1, <1>2 DEF StoredRows

(* Only what may be ranked is scored.                                        *)
LEMMA ScoredIsRanked ==
    ASSUME NEW R, StoredRows(R), NEW r \in R, NEW retired, NEW policy,
           ScoreIn(r, LiquidityScores(R, retired, policy)) # None
    PROVE  IsRanked(r, {})
<1> DEFINE pool == {q \in R : q.scope = r.scope /\ IsRanked(q, retired)}
           eligible == {q \in pool : IsEligible(q, policy)}
<1>1. r.scope \in {"model", "type", "brand"}
    BY DEF StoredRows, StoredRow
<1>2. r.id \in DOMAIN LiquidityScores(R, retired, policy)[r.scope]
    BY DEF ScoreIn
<1>3. LiquidityScores(R, retired, policy)[r.scope] = Scores(pool, policy)
    BY <1>1 DEF LiquidityScores
<1>4. DOMAIN Scores(pool, policy) = {q.id : q \in eligible}
    BY DEF Scores, PoolScores
<1>5. \E q \in R : q.id = r.id /\ IsRanked(q, retired)
    BY <1>2, <1>3, <1>4
<1>6. IsRanked(r, retired)
    BY <1>5 DEF StoredRows
<1> QED
    BY <1>6 DEF IsRanked

LEMMA ScoredRows ==
    ASSUME NEW R, StoredRows(R), NEW retired, NEW policy, NEW period
    PROVE  StoredRows(Scored(R, LiquidityScores(R, retired, policy), period))
<1> DEFINE scores == LiquidityScores(R, retired, policy)
           f == [r \in R |-> [r EXCEPT !.score = ScoreIn(r, scores), !.period = Candidate(r, period)]]
<1>1. ASSUME NEW r \in R PROVE StoredRow(f[r]) /\ f[r].id = r.id
    <2>1. StoredRow(r) /\ DOMAIN r = RowColumns
        BY DEF StoredRows, StoredRow, RowColumns
    <2>2. ScoreIn(r, scores) # None => IsRanked(r, {})
        BY ScoredIsRanked
    <2> HIDE DEF scores
    <2>3. f[r] = [r EXCEPT !.score = ScoreIn(r, scores), !.period = Candidate(r, period)]
        OBVIOUS
    <2> HIDE DEF f
    <2>4. /\ DOMAIN f[r] = DOMAIN r /\ f[r].score = ScoreIn(r, scores)
          /\ f[r].key = r.key /\ f[r].scope = r.scope /\ f[r].type = r.type /\ f[r].line = r.line
          /\ f[r].kind = r.kind /\ f[r].m = r.m /\ f[r].id = r.id
        BY <2>1, <2>3 DEF RowColumns
    <2>5. r.id \in Int
        BY <2>1 DEF StoredRow
    <2> QED
        BY <2>1, <2>2, <2>4, <2>5, RowRewritten
<1>2. Scored(R, scores, period) = {f[r] : r \in R}
    BY DEF Scored
<1> HIDE DEF f, scores
<1>3. StoredRows(Scored(R, scores, period))
    BY <1>1, <1>2, TableRewritten
<1> QED
    BY <1>3 DEF scores

LEMMA BadgedRows ==
    ASSUME NEW R, StoredRows(R), NEW badges
    PROVE  StoredRows(WithBadges(R, badges))
<1> DEFINE f == [r \in R |-> [r EXCEPT !.badges = IF r.id \in DOMAIN badges THEN badges[r.id] ELSE @]]
<1>1. ASSUME NEW r \in R PROVE StoredRow(f[r]) /\ f[r].id = r.id
    <2>1. StoredRow(r) /\ DOMAIN r = RowColumns
        BY DEF StoredRows, StoredRow, RowColumns
    <2>2. PICK x : f[r] = [r EXCEPT !.badges = x]
        OBVIOUS
    <2> HIDE DEF f
    <2>3. /\ DOMAIN f[r] = DOMAIN r /\ f[r].score = r.score
          /\ f[r].key = r.key /\ f[r].scope = r.scope /\ f[r].type = r.type /\ f[r].line = r.line
          /\ f[r].kind = r.kind /\ f[r].m = r.m /\ f[r].id = r.id
        BY <2>1, <2>2 DEF RowColumns
    <2>4. r.id \in Int /\ (r.score # None => IsRanked(r, {}))
        BY <2>1 DEF StoredRow
    <2> QED
        BY <2>1, <2>3, <2>4, RowRewritten
<1>2. WithBadges(R, badges) = {f[r] : r \in R}
    BY DEF WithBadges
<1> HIDE DEF f
<1> QED
    BY <1>1, <1>2, TableRewritten

LEMMA RankedRows ==
    ASSUME NEW R, StoredRows(R), NEW policy
    PROVE  StoredRows(Ranked(R, policy))
BY ScoredRows, BadgedRows DEF Ranked, Badged

------------------------------------------------------------------------------
(* What a recompute reads of a brand                                         *)

ScopeKinds == {"model", "type", "brand"}

LEMMA MetricRowStored ==
    ASSUME NEW key, key[1] \in ScopeKinds, NEW b, NEW items, IsFiniteSet(items), NEW day
    PROVE  StoredRow(MetricRow(key, b, items, day))
<1> DEFINE row == MetricRow(key, b, items, day)
           sold == {i \in items : SoldWithin(i, day, 30)}
<1>1. Counters(items, day).sold30 = Cardinality(sold)
    BY DEF Counters, CountersBut
<1>2. Cardinality(sold) \in Nat
    BY FS_Subset, FS_CardinalityType
<1>3. /\ DOMAIN row = RowColumns /\ row.key = key /\ row.id = None /\ row.m = Counters(items, day)
      /\ row.scope = ScopeInfo(key).scope /\ row.type = ScopeInfo(key).type
      /\ row.line = ScopeInfo(key).line /\ row.kind = ScopeInfo(key).kind /\ row.score = None
    BY DEF MetricRow, RowColumns
<1>4. ScopeInfo(key).scope = key[1] /\ None \in Int
    BY DEF ScopeInfo, None
<1> HIDE DEF row, sold
<1> QED
    BY <1>1, <1>2, <1>3, <1>4 DEF StoredRow, RowColumns, ScopeKinds, row

LEMMA ItemsFinite ==
    ASSUME NEW b, NEW day
    PROVE  LET items == Items(RowsOf(b), day)
           IN  IsFiniteSet(items) /\ \A i \in items : i.id \in Nat
<1> DEFINE ids == {j \in Ids : Ads[j].brand = b}
           row == [j \in ids |-> Row(j)]
           stored == RowsOf(b)
           shown == {k \in stored : "possible_replica" \notin k.flags}
           item == [l \in shown |-> ItemOf(l, stored, DormantWholesalers(stored, day))]
<1>1. IsFiniteSet(ids)
    BY AdsAssumption, FS_Subset
<1>2. stored = {row[j] : j \in ids}
    BY DEF RowsOf
<1>3. IsFiniteSet(stored)
    <2> HIDE DEF ids, row, stored
    <2> QED
        BY <1>1, <1>2, FiniteImage
<1>4. \A l \in stored : l.id \in Nat
    BY AdsAssumption DEF RowsOf, Row
<1>5. IsFiniteSet(shown)
    <2> HIDE DEF stored
    <2> QED
        BY <1>3, FS_Subset
<1>6. Items(stored, day) = {item[l] : l \in shown}
    BY DEF Items
<1>7. \A l \in shown : item[l].id = l.id
    BY DEF ItemOf
<1>8. IsFiniteSet(Items(stored, day)) /\ \A i \in Items(stored, day) : i.id \in Nat
    <2>1. \A l \in shown : l \in stored
        OBVIOUS
    <2> HIDE DEF stored, shown, item
    <2> QED
        BY <1>4, <1>5, <1>6, <1>7, <2>1, FiniteImage
<1> QED
    BY <1>8

LEMMA KeysAreScopes ==
    ASSUME NEW i, NEW known, NEW n \in DOMAIN KeysOf(i, known)
    PROVE  KeysOf(i, known)[n][1] \in ScopeKinds /\ n \in 1..4
<1> DEFINE g == assigned[i]
           parent == IF g \in known THEN GroupInfo[g].parent ELSE None
           type == IF Ads[i].type = "none" /\ g \in known THEN GroupInfo[g].type ELSE Ads[i].type
           has == <<g \in known, parent \in known, type # "none", type # Review>>
           key == <<<<"model", g>>, <<"model", parent>>, <<"type", Ads[i].brand, type>>,
                    <<"brand", Ads[i].brand>>>>
<1>1. KeysOf(i, known) = [m \in {k \in 1..4 : has[k]} |-> key[m]]
    BY DEF KeysOf
<1>2. \A m \in 1..4 : key[m][1] \in ScopeKinds
    BY DEF ScopeKinds
<1> HIDE DEF key, has
<1> QED
    BY <1>1, <1>2

(* Every scope has finitely many items and a turn of its own.                *)
LEMMA ScopedItems ==
    ASSUME NEW b, NEW day, NEW known
    PROVE  LET scopes == Scoped(b, day, known)
               keys == DOMAIN scopes.items
           IN  /\ IsFiniteSet(keys)
               /\ \A k \in keys : k[1] \in ScopeKinds /\ IsFiniteSet(scopes.items[k])
               /\ \A k \in keys : scopes.turn[k] \in Int
               /\ \A j, k \in keys : scopes.turn[j] = scopes.turn[k] => j = k
<1> DEFINE all == Items(RowsOf(b), day)
           named == {c \in all \X (1..4) : c[2] \in DOMAIN KeysOf(c[1].id, known)}
           key(c) == KeysOf(c[1].id, known)[c[2]]
           at(c) == 4 * c[1].id + c[2]
           keys == {key(c) : c \in named}
           of(k) == {c \in named : key(c) = k}
           items == [k \in keys |-> {c[1] : c \in of(k)}]
           turn == [k \in keys |-> Min({at(c) : c \in of(k)})]
           scopes == Scoped(b, day, known)
<1>1. IsFiniteSet(named)
    <2>1. IsFiniteSet(all)
        BY ItemsFinite
    <2>2. IsFiniteSet(1..4)
        <3>1. 1 \in Int /\ 4 \in Int
            OBVIOUS
        <3> QED
            BY <3>1, FS_Interval
    <2> HIDE DEF all
    <2>3. IsFiniteSet(all \X (1..4))
        BY <2>1, <2>2, FS_Product
    <2> QED
        BY <2>3, FS_Subset
<1>2. ASSUME NEW c \in named
      PROVE  /\ key(c)[1] \in ScopeKinds /\ at(c) \in Int
             /\ \A d \in named : at(c) = at(d) => key(c) = key(d)
    <2>1. \A d \in named : d[1].id \in Nat /\ d[2] \in 1..4
        BY ItemsFinite
    <2>2. key(c)[1] \in ScopeKinds
        BY KeysAreScopes
    <2>3. ASSUME NEW d \in named, at(c) = at(d) PROVE c[1].id = d[1].id /\ c[2] = d[2]
        <3>1. 4 * c[1].id + c[2] = 4 * d[1].id + d[2]
            BY <2>3
        <3> HIDE DEF named
        <3> QED
            BY <2>1, <3>1
    <2>4. at(c) \in Int
        BY <2>1
    <2>5. ASSUME NEW d \in named, at(c) = at(d) PROVE key(c) = key(d)
        BY <2>3, <2>5
    <2> QED
        BY <2>2, <2>4, <2>5
<1>3. scopes.items = items /\ scopes.turn = turn
    BY DEF Scoped
<1> HIDE DEF scopes, named
<1>4. IsFiniteSet(keys)
    <2> DEFINE f == [c \in named |-> key(c)]
    <2>1. keys = {f[c] : c \in named}
        OBVIOUS
    <2> HIDE DEF f, keys
    <2> QED
        BY <1>1, <2>1, FiniteImage
<1> HIDE DEF key, at
<1>5. ASSUME NEW k \in keys
      PROVE  /\ k[1] \in ScopeKinds /\ IsFiniteSet(items[k]) /\ turn[k] \in Int
             /\ \E c \in of(k) : turn[k] = at(c)
    <2>1. IsFiniteSet(of(k)) /\ of(k) # {}
        BY <1>1, <1>5, FS_Subset
    <2> DEFINE T == {c[1] : c \in of(k)}
               A == {at(c) : c \in of(k)}
    <2>2. A \in SUBSET Int /\ A # {}
        BY <1>2, <2>1
    <2>3. IsFiniteSet(T) /\ IsFiniteSet(A)
        <3> DEFINE S == of(k)
                   f == [c \in S |-> c[1]]
                   g == [c \in S |-> at(c)]
        <3>1. T = {f[c] : c \in S} /\ A = {g[c] : c \in S} /\ IsFiniteSet(S)
            BY <2>1
        <3> HIDE DEF S, T, A, f, g
        <3> QED
            BY <3>1, FiniteImage
    <2>4. Min(A) \in A
        <3> HIDE DEF A
        <3> QED
            BY <2>2, <2>3, MinOfFinite
    <2>5. items[k] = T /\ turn[k] = Min(A)
        BY <1>5
    <2>6. k[1] \in ScopeKinds
        BY <1>2, <1>5
    <2> QED
        BY <2>2, <2>3, <2>4, <2>5, <2>6
<1>6. \A j, k \in keys : turn[j] = turn[k] => j = k
    <2> SUFFICES ASSUME NEW j \in keys, NEW k \in keys, turn[j] = turn[k] PROVE j = k
        OBVIOUS
    <2>1. PICK c \in of(j) : turn[j] = at(c)
        BY <1>5
    <2>2. PICK d \in of(k) : turn[k] = at(d)
        BY <1>5
    <2> HIDE DEF turn
    <2> QED
        BY <1>2, <2>1, <2>2
<1>7. DOMAIN items = keys
    OBVIOUS
<1> HIDE DEF items, turn, keys
<1>8. DOMAIN scopes.items = keys
    BY <1>3, <1>7
<1>9. /\ IsFiniteSet(DOMAIN scopes.items)
      /\ \A k \in DOMAIN scopes.items : k[1] \in ScopeKinds /\ IsFiniteSet(scopes.items[k]) /\ scopes.turn[k] \in Int
      /\ \A j, k \in DOMAIN scopes.items : scopes.turn[j] = scopes.turn[k] => j = k
    BY <1>3, <1>4, <1>5, <1>6, <1>8
<1> QED
    BY <1>9 DEF scopes

NewRows(s) == \E n \in Nat : DOMAIN s = 1..n /\ \A k \in 1..n : StoredRow(s[k])

LEMMA LastRankingStored ==
    ASSUME StoredRows(rows), NEW b, NEW row, StoredRow(row)
    PROVE  StoredRow(WithLastRanking(b, row))
<1> DEFINE last == {r \in rows : r.brand = b /\ r.key = row.key}
           r == CHOOSE r \in last : TRUE
           new == [row EXCEPT !.p30 = r.p30, !.score = r.score, !.badges = r.badges]
<1>1. CASE last = {}
    BY <1>1 DEF WithLastRanking
<1>2. CASE last # {}
    <2>1. r \in rows /\ r.key = row.key /\ StoredRow(r)
        BY <1>2 DEF StoredRows
    <2>2. WithLastRanking(b, row) = new
        BY <1>2 DEF WithLastRanking
    <2> HIDE DEF r, last
    <2>3. DOMAIN row = RowColumns
        BY DEF StoredRow, RowColumns
    <2>4. /\ DOMAIN new = DOMAIN row /\ new.score = r.score
          /\ new.key = row.key /\ new.scope = row.scope /\ new.type = row.type /\ new.line = row.line
          /\ new.kind = row.kind /\ new.m = row.m /\ new.id = row.id
        BY <2>3 DEF RowColumns
    <2>5. r.score # None => IsRanked(row, {})
        BY <2>1 DEF StoredRow, IsRanked
    <2>6. row.id \in Int
        BY DEF StoredRow
    <2> HIDE DEF new
    <2> QED
        BY <2>2, <2>4, <2>5, <2>6, RowRewritten
<1> QED
    BY <1>1, <1>2

InTurn(S, turn) == Arranged(S, LAMBDA j, k : turn[j] < turn[k])

LEMMA OpenScopes ==
    ASSUME NEW S, IsFiniteSet(S), NEW turn, \A k \in S : turn[k] \in Int, \A j, k \in S : turn[j] = turn[k] => j = k
    PROVE  /\ DOMAIN InTurn(S, turn) = 1..Cardinality(S)
           /\ \A k \in 1..Cardinality(S) : InTurn(S, turn)[k] \in S
<1> DEFINE t == [k \in S |-> turn[k]]
<1>1. t \in [S -> Int] /\ \A j, k \in S : t[j] = t[k] => j = k
    OBVIOUS
<1>2. \A x \in S : Before(S, t, x) = {y \in S : turn[y] < turn[x]}
    BY DEF Before
<1> HIDE DEF t
<1>3. \A k \in 1..Cardinality(S) : \E x \in S : Cardinality(Before(S, t, x)) = k - 1
    BY <1>1, TurnPlaces
<1>4. \A k \in 1..Cardinality(S) : \E x \in S : Cardinality({y \in S : turn[y] < turn[x]}) = k - 1
    BY <1>2, <1>3
<1> QED
    BY <1>4 DEF InTurn, Arranged

LEMMA BrandRows ==
    ASSUME StoredRows(rows), NEW b, NEW day, NEW known, NEW frozen
    PROVE  NewRows(BrandValues(Scoped(b, day, known), frozen, b, day).rows)
<1> DEFINE scopes == Scoped(b, day, known)
           open == DOMAIN scopes.items \ frozen
           turn == scopes.turn
           order == InTurn(open, turn)
           new == ScopeRows(scopes, frozen, b, day)
           n == Cardinality(open)
<1>1. IsFiniteSet(open) /\ n \in Nat
    BY ScopedItems, FS_Difference, FS_CardinalityType
<1>2. DOMAIN order = 1..n /\ \A k \in 1..n : order[k] \in open
    <2>1. \A k \in open : turn[k] \in Int
        BY ScopedItems
    <2>2. \A j, k \in open : turn[j] = turn[k] => j = k
        BY ScopedItems
    <2> HIDE DEF open, turn
    <2> QED
        BY <1>1, <2>1, <2>2, OpenScopes
<1>3. \A k \in open : k[1] \in ScopeKinds /\ IsFiniteSet(scopes.items[k])
    BY ScopedItems
<1>4. DOMAIN new = DOMAIN order /\ \A k \in DOMAIN order : new[k] = MetricRow(order[k], b, scopes.items[order[k]], day)
    BY DEF ScopeRows, InTurn
<1> HIDE DEF scopes, turn, open, order, new, n
<1>5. \A k \in 1..n : StoredRow(new[k])
    BY <1>2, <1>3, <1>4, MetricRowStored
<1>6. DOMAIN Carried(b, new) = 1..n /\ \A k \in 1..n : StoredRow(Carried(b, new)[k])
    BY <1>2, <1>4, <1>5, LastRankingStored DEF Carried
<1>7. NewRows(Carried(b, new))
    BY <1>1, <1>6 DEF NewRows
<1>8. BrandValues(scopes, frozen, b, day).rows = Carried(b, new)
    BY DEF BrandValues, new
<1> QED
    BY <1>7, <1>8 DEF scopes

------------------------------------------------------------------------------
(* What a recompute writes                                                   *)

Table(values, last) == {[values[n] EXCEPT !.id = last + n] : n \in DOMAIN values}

LEMMA BrandTable ==
    ASSUME NEW kept, StoredRows(kept), NEW values, NewRows(values)
    PROVE  StoredRows(kept \cup Table(values, LastId(kept)))
<1> DEFINE ids == {0} \cup {r.id : r \in kept}
           last == LastId(kept)
           new == Table(values, last)
           f == [n \in DOMAIN values |-> [values[n] EXCEPT !.id = last + n]]
<1>1. last \in Int /\ \A r \in kept : r.id <= last
    <2> DEFINE g == [r \in kept |-> r.id]
               taken == {g[r] : r \in kept}
    <2>1. ids = {0} \cup taken /\ IsFiniteSet(kept)
        BY DEF StoredRows
    <2>2. taken \in SUBSET Int
        BY DEF StoredRows, StoredRow
    <2>3. IsFiniteSet(taken)
        <3> HIDE DEF g, taken
        <3>1. taken = {g[r] : r \in kept}
            BY DEF taken
        <3> QED
            BY <2>1, <3>1, FiniteImage
    <2>4. IsFiniteSet(ids) /\ ids \in SUBSET Int /\ ids # {}
        <3> HIDE DEF taken, ids
        <3>1. IsFiniteSet({0})
            BY FS_Singleton
        <3>2. IsFiniteSet({0} \cup taken)
            BY <2>3, <3>1, FS_Union
        <3> QED
            BY <2>1, <2>2, <3>2
    <2>5. \A r \in kept : r.id \in ids
        OBVIOUS
    <2>6. last = Max(ids)
        BY DEF LastId
    <2> HIDE DEF ids, last
    <2>7. Max(ids) \in ids /\ \A y \in ids : Max(ids) >= y
        BY <2>4, MaxOfFinite
    <2> QED
        BY <2>4, <2>5, <2>6, <2>7
<1>2. PICK n \in Nat : DOMAIN values = 1..n /\ \A k \in 1..n : StoredRow(values[k])
    BY DEF NewRows
<1>3. \A k \in 1..n : f[k] = [values[k] EXCEPT !.id = last + k]
    BY <1>2
<1>4. new = {f[k] : k \in 1..n}
    BY <1>2 DEF Table
<1> HIDE DEF last, f, new
<1>5. ASSUME NEW k \in 1..n PROVE StoredRow(f[k]) /\ f[k].id = last + k /\ last + k > last /\ last + k \in Int
    <2>1. StoredRow(values[k]) /\ DOMAIN values[k] = RowColumns /\ k \in Nat /\ k > 0
        BY <1>2 DEF StoredRow, RowColumns
    <2>2. last + k \in Int /\ last + k > last
        BY <1>1, <2>1
    <2> DEFINE r == values[k]
    <2>3. /\ DOMAIN f[k] = DOMAIN r /\ f[k].score = r.score /\ f[k].id = last + k
          /\ f[k].key = r.key /\ f[k].scope = r.scope /\ f[k].type = r.type /\ f[k].line = r.line
          /\ f[k].kind = r.kind /\ f[k].m = r.m
        BY <1>3, <2>1 DEF RowColumns
    <2>4. r.score # None => IsRanked(r, {})
        BY <2>1 DEF StoredRow
    <2> HIDE DEF r
    <2>5. StoredRow(r)
        BY <2>1 DEF r
    <2> QED
        BY <2>2, <2>3, <2>4, <2>5, RowRewritten
<1>6. IsFiniteSet(kept \cup new)
    <2>1. IsFiniteSet(1..n)
        <3>1. 1 \in Int /\ n \in Int
            BY <1>2
        <3> QED
            BY <3>1, FS_Interval
    <2>2. IsFiniteSet(new)
        BY <1>4, <2>1, FiniteImage
    <2> QED
        BY <2>2, FS_Union DEF StoredRows
<1>7. \A r \in kept \cup new : StoredRow(r)
    BY <1>4, <1>5 DEF StoredRows
<1>8. \A r \in kept, k \in 1..n : r.id \in Int /\ r.id # f[k].id
    <2>1. \A r \in kept : r.id \in Int
        BY DEF StoredRows, StoredRow
    <2> QED
        BY <1>1, <1>5, <2>1
<1>9. \A j, k \in 1..n : f[j].id = f[k].id => f[j] = f[k]
    <2> SUFFICES ASSUME NEW j \in 1..n, NEW k \in 1..n, f[j].id = f[k].id PROVE j = k
        OBVIOUS
    <2>1. last + j = last + k
        BY <1>5
    <2> QED
        BY <1>1, <1>2, <2>1
<1>10. \A r, s \in kept : r.id = s.id => r = s
    BY DEF StoredRows
<1>11. \A r, s \in kept \cup new : r.id = s.id => r = s
    BY <1>4, <1>8, <1>9, <1>10
<1>12. StoredRows(kept \cup new)
    BY <1>6, <1>7, <1>11 DEF StoredRows
<1> QED
    BY <1>12 DEF new, last

(* The values a ranking holds between its read and its commit.               *)
HeldValues(values) ==
    IsFiniteSet(values) /\ \A v \in values : DOMAIN v = {"id", "key", "p30"} /\ v.id \in Int

Numbered(S, used) == {[r EXCEPT !.id = Cardinality({i \in used : i <= r.id})] : r \in S}

LEMMA NumberedRows ==
    ASSUME NEW R, StoredRows(R), NEW used \in SUBSET Int, IsFiniteSet(used), \A r \in R : r.id \in used
    PROVE  StoredRows(Numbered(R, used))
<1> DEFINE number(i) == Cardinality({n \in used : n <= i})
           f == [r \in R |-> [r EXCEPT !.id = number(r.id)]]
           new == Numbered(R, used)
<1>1. new = {f[r] : r \in R}
    BY DEF Numbered
<1>2. \A i, j \in used : number(i) = number(j) => i = j
    BY NumbersDiffer
<1>3. \A i : number(i) \in Nat
    BY FS_Subset, FS_CardinalityType
<1>4. \A r \in R : f[r] = [r EXCEPT !.id = number(r.id)]
    OBVIOUS
<1> HIDE DEF number, f, new
<1>5. ASSUME NEW r \in R PROVE StoredRow(f[r]) /\ f[r].id = number(r.id)
    <2>1. StoredRow(r) /\ DOMAIN r = RowColumns
        BY DEF StoredRows, StoredRow, RowColumns
    <2>2. /\ DOMAIN f[r] = DOMAIN r /\ f[r].score = r.score /\ f[r].id = number(r.id)
          /\ f[r].key = r.key /\ f[r].scope = r.scope /\ f[r].type = r.type /\ f[r].line = r.line
          /\ f[r].kind = r.kind /\ f[r].m = r.m
        BY <1>4, <2>1 DEF RowColumns
    <2>3. (r.score # None => IsRanked(r, {})) /\ f[r].id \in Int
        BY <1>3, <2>1, <2>2 DEF StoredRow
    <2> QED
        BY <2>1, <2>2, <2>3, RowRewritten
<1>6. IsFiniteSet(new)
    BY <1>1, FiniteImage DEF StoredRows
<1>7. \A r, s \in R : f[r].id = f[s].id => f[r] = f[s]
    BY <1>2, <1>5 DEF StoredRows
<1>8. StoredRows(new)
    BY <1>1, <1>5, <1>6, <1>7 DEF StoredRows
<1> QED
    BY <1>8 DEF new

LEMMA NumberedValues ==
    ASSUME NEW V, HeldValues(V), NEW used \in SUBSET Int, IsFiniteSet(used)
    PROVE  HeldValues(Numbered(V, used))
<1> DEFINE number(i) == Cardinality({n \in used : n <= i})
           f == [v \in V |-> [v EXCEPT !.id = number(v.id)]]
           new == Numbered(V, used)
<1>1. new = {f[v] : v \in V}
    BY DEF Numbered
<1>2. \A i : number(i) \in Int
    BY FS_Subset, FS_CardinalityType
<1>3. \A v \in V : DOMAIN f[v] = {"id", "key", "p30"} /\ f[v].id = number(v.id)
    BY DEF HeldValues
<1> HIDE DEF number, f, new
<1>4. IsFiniteSet(new)
    BY <1>1, FiniteImage DEF HeldValues
<1>5. HeldValues(new)
    BY <1>1, <1>2, <1>3, <1>4 DEF HeldValues
<1> QED
    BY <1>5 DEF new

------------------------------------------------------------------------------
(* Every step of every recompute                                             *)

PassFields == {"at", "todo", "day", "full", "groups", "retired", "values"}

PassInv(q) ==
    /\ DOMAIN q = PassFields
    /\ q.at = "write" => NewRows(q.values.rows)
    /\ q.at = "rank" => HeldValues(q.values)

RankingInv == StoredRows(rows) /\ DOMAIN pass = Passes /\ \A p \in Passes : PassInv(pass[p])

LEMMA PassMoves ==
    ASSUME RankingInv, NEW p \in Passes, NEW q, PassInv(q), pass' = [pass EXCEPT ![p] = q], StoredRows(rows')
    PROVE  RankingInv'
BY DEF RankingInv

LEMMA IdlePass == PassInv(Idle)
BY DEF PassInv, Idle, PassFields

LEMMA ReadSteps ==
    ASSUME RankingInv, NEW p \in Passes, ReadGroups(p) \/ ReadListings(p) \/ ReadRows(p)
    PROVE  RankingInv'
<1>1. DOMAIN pass = Passes /\ DOMAIN pass[p] = PassFields /\ StoredRows(rows)
    BY DEF RankingInv, PassInv
<1>2. CASE ReadGroups(p)
    <2>1. PICK x, y : pass' = [pass EXCEPT ![p].at = "listings", ![p].groups = x, ![p].retired = y]
        BY <1>2 DEF ReadGroups
    <2> DEFINE q == [pass[p] EXCEPT !.at = "listings", !.groups = x, !.retired = y]
    <2>2. pass' = [pass EXCEPT ![p] = q]
        BY <1>1, <2>1
    <2>3. PassInv(q)
        BY <1>1 DEF PassInv, PassFields
    <2> HIDE DEF q
    <2> QED
        BY <1>1, <1>2, <2>2, <2>3, PassMoves DEF ReadGroups, tables
<1>3. CASE ReadListings(p)
    <2> DEFINE b == Head(pass[p].todo)
               values == BrandValues(Scoped(b, pass[p].day, pass[p].groups), Frozen(p), b, pass[p].day)
               q == [pass[p] EXCEPT !.at = "write", !.values = values]
    <2>1. pass' = [pass EXCEPT ![p].at = "write", ![p].values = values]
        BY <1>3 DEF ReadListings
    <2>2. NewRows(values.rows)
        BY <1>1, BrandRows
    <2> HIDE DEF values
    <2>3. pass' = [pass EXCEPT ![p] = q]
        BY <1>1, <2>1
    <2>4. PassInv(q)
        BY <1>1, <2>2 DEF PassInv, PassFields
    <2> HIDE DEF q
    <2> QED
        BY <1>1, <1>3, <2>3, <2>4, PassMoves DEF ReadListings, tables
<1>4. CASE ReadRows(p)
    <2> DEFINE live == {r \in rows : r.group \notin Retired}
               f == [r \in live |-> [id |-> r.id, key |-> r.key, p30 |-> SmoothedP30(r, live)]]
               values == {[id |-> r.id, key |-> r.key, p30 |-> SmoothedP30(r, live)] : r \in live}
               q == [pass[p] EXCEPT !.at = "rank", !.values = values]
    <2>1. pass' = [pass EXCEPT ![p].at = "rank", ![p].values = values]
        BY <1>4 DEF ReadRows
    <2>2. values = {f[r] : r \in live}
        OBVIOUS
    <2>3. HeldValues(values)
        <3>1. IsFiniteSet(live)
            BY <1>1, FS_Subset DEF StoredRows
        <3>2. \A r \in live : DOMAIN f[r] = {"id", "key", "p30"} /\ f[r].id \in Int
            BY <1>1 DEF StoredRows, StoredRow
        <3>3. IsFiniteSet(values)
            <4> HIDE DEF live, f, values
            <4> QED
                BY <2>2, <3>1, FiniteImage
        <3> HIDE DEF f, live, values
        <3> QED
            BY <2>2, <3>2, <3>3 DEF HeldValues
    <2> HIDE DEF values
    <2>4. pass' = [pass EXCEPT ![p] = q]
        BY <1>1, <2>1
    <2>5. PassInv(q)
        BY <1>1, <2>3 DEF PassInv, PassFields
    <2> HIDE DEF q
    <2> QED
        BY <1>1, <1>4, <2>4, <2>5, PassMoves DEF ReadRows, tables
<1> QED
    BY <1>2, <1>3, <1>4

LEMMA WriteBrandKeeps ==
    ASSUME RankingInv, NEW p \in Passes, WriteBrand(p)
    PROVE  RankingInv'
<1> DEFINE kept == KeptRows(p)
           table == kept \cup Table(pass[p].values.rows, LastId(kept))
           held == UNION {HeldIds(q) : q \in Passes \ {p}}
           used == {r.id : r \in table} \cup held
<1>1. DOMAIN pass = Passes /\ StoredRows(rows) /\ \A q \in Passes : PassInv(pass[q])
    BY DEF RankingInv
<1>2. StoredRows(kept)
    <2>1. kept \in SUBSET rows
        BY DEF KeptRows
    <2> HIDE DEF kept
    <2> QED
        BY <1>1, <2>1, FS_Subset DEF StoredRows
<1>3. NewRows(pass[p].values.rows)
    BY <1>1 DEF WriteBrand, PassInv
<1>4. StoredRows(table)
    <2> HIDE DEF kept
    <2> QED
        BY <1>2, <1>3, BrandTable
<1>5. \A q \in Passes : IsFiniteSet(HeldIds(q)) /\ HeldIds(q) \in SUBSET Int
    <2> SUFFICES ASSUME NEW q \in Passes PROVE IsFiniteSet(HeldIds(q)) /\ HeldIds(q) \in SUBSET Int
        OBVIOUS
    <2> DEFINE V == pass[q].values
               f == [v \in V |-> v.id]
    <2>1. CASE pass[q].at = "rank"
        <3>1. HeldValues(V) /\ HeldIds(q) = {f[v] : v \in V}
            BY <1>1, <2>1 DEF PassInv, HeldIds
        <3>2. HeldIds(q) \in SUBSET Int
            BY <3>1 DEF HeldValues
        <3> HIDE DEF V, f
        <3> QED
            BY <3>1, <3>2, FiniteImage DEF HeldValues
    <2>2. CASE pass[q].at # "rank"
        BY <2>2, FS_EmptySet DEF HeldIds
    <2> QED
        BY <2>1, <2>2
<1>6. IsFiniteSet(held) /\ held \in SUBSET Int
    <2>1. held \in SUBSET (HeldIds("run") \cup HeldIds("edit"))
        BY DEF Passes
    <2>2. IsFiniteSet(HeldIds("run") \cup HeldIds("edit"))
        BY <1>5, FS_Union DEF Passes
    <2>3. HeldIds("run") \cup HeldIds("edit") \in SUBSET Int
        BY <1>5 DEF Passes
    <2> HIDE DEF held
    <2> QED
        BY <2>1, <2>2, <2>3, FS_Subset
<1> HIDE DEF table, held
<1>7. used \in SUBSET Int /\ IsFiniteSet(used) /\ \A r \in table : r.id \in used
    <2> DEFINE ids == {r.id : r \in table}
               f == [r \in table |-> r.id]
    <2>1. ids = {f[r] : r \in table}
        OBVIOUS
    <2>2. IsFiniteSet(table) /\ \A r \in table : r.id \in Int
        BY <1>4 DEF StoredRows, StoredRow
    <2>3. IsFiniteSet(ids)
        <3> HIDE DEF ids, f
        <3> QED
            BY <2>1, <2>2, FiniteImage
    <2>4. IsFiniteSet(ids \cup held)
        <3> HIDE DEF ids
        <3> QED
            BY <1>6, <2>3, FS_Union
    <2> QED
        BY <1>6, <2>2, <2>4
<1>8. /\ rows' = Numbered(table, used)
      /\ \E rest : pass' = [q \in Passes |->
            IF q = p THEN [Idle EXCEPT !.at = IF rest = <<>> THEN "rows" ELSE "groups", !.todo = rest,
                                       !.day = pass[p].day, !.full = pass[p].full]
            ELSE IF pass[q].at = "rank" THEN [pass[q] EXCEPT !.values = Numbered(@, used)] ELSE pass[q]]
    BY DEF WriteBrand, Renumbered, Numbered, Table, table, held
<1> HIDE DEF used
<1>9. StoredRows(rows')
    BY <1>4, <1>7, <1>8, NumberedRows
<1>10. DOMAIN pass' = Passes
    BY <1>8
<1>11. ASSUME NEW q \in Passes PROVE PassInv(pass'[q])
    <2>1. CASE q = p
        <3>1. PICK rest : pass'[q] = [Idle EXCEPT !.at = IF rest = <<>> THEN "rows" ELSE "groups", !.todo = rest,
                                       !.day = pass[p].day, !.full = pass[p].full]
            BY <1>8, <2>1
        <3> QED
            BY <3>1 DEF PassInv, Idle, PassFields
    <2>2. CASE q # p /\ pass[q].at = "rank"
        <3>1. pass'[q] = [pass[q] EXCEPT !.values = Numbered(pass[q].values, used)]
            BY <1>8, <2>2
        <3>2. HeldValues(pass[q].values) /\ DOMAIN pass[q] = PassFields
            BY <1>1, <2>2 DEF PassInv
        <3>3. HeldValues(Numbered(pass[q].values, used))
            BY <1>7, <3>2, NumberedValues
        <3>4. /\ DOMAIN pass'[q] = PassFields /\ pass'[q].at = "rank"
              /\ pass'[q].values = Numbered(pass[q].values, used)
            BY <2>2, <3>1, <3>2 DEF PassFields
        <3> QED
            BY <3>3, <3>4 DEF PassInv
    <2>3. CASE q # p /\ pass[q].at # "rank"
        BY <1>1, <1>8, <2>3
    <2> QED
        BY <2>1, <2>2, <2>3
<1> QED
    BY <1>9, <1>10, <1>11 DEF RankingInv

LEMMA WriteRankKeeps ==
    ASSUME RankingInv, NEW p \in Passes, WriteRank(p)
    PROVE  RankingInv'
<1> DEFINE p30(r) == {v \in pass[p].values : v.id = r.id}
           f == [r \in rows |-> IF p30(r) = {} THEN r ELSE [r EXCEPT !.p30 = (CHOOSE v \in p30(r) : TRUE).p30]]
           smoothed == {f[r] : r \in rows}
           q == [pass[p] EXCEPT !.at = "profiles", !.values = <<>>]
<1>1. DOMAIN pass = Passes /\ StoredRows(rows) /\ DOMAIN pass[p] = PassFields
    BY DEF RankingInv, PassInv
<1>2. ASSUME NEW r \in rows PROVE StoredRow(f[r]) /\ f[r].id = r.id
    <2>1. StoredRow(r) /\ DOMAIN r = RowColumns
        BY <1>1 DEF StoredRows, StoredRow, RowColumns
    <2>2. CASE p30(r) = {}
        BY <2>1, <2>2
    <2>3. CASE p30(r) # {}
        <3>1. PICK x : f[r] = [r EXCEPT !.p30 = x]
            BY <2>3
        <3> HIDE DEF f
        <3>2. /\ DOMAIN f[r] = DOMAIN r /\ f[r].score = r.score /\ f[r].id = r.id
              /\ f[r].key = r.key /\ f[r].scope = r.scope /\ f[r].type = r.type /\ f[r].line = r.line
              /\ f[r].kind = r.kind /\ f[r].m = r.m
            BY <2>1, <3>1 DEF RowColumns
        <3>3. r.id \in Int /\ (r.score # None => IsRanked(r, {}))
            BY <2>1 DEF StoredRow
        <3> QED
            BY <2>1, <3>2, <3>3, RowRewritten
    <2> QED
        BY <2>2, <2>3
<1>3. rows' = Ranked(smoothed, EffectivePolicy(saved))
    BY DEF WriteRank
<1>4. pass' = [pass EXCEPT ![p].at = "profiles", ![p].values = <<>>]
    BY DEF WriteRank
<1> HIDE DEF f
<1>5. StoredRows(smoothed)
    BY <1>1, <1>2, TableRewritten
<1> HIDE DEF smoothed
<1>6. StoredRows(rows')
    BY <1>3, <1>5, RankedRows
<1>7. pass' = [pass EXCEPT ![p] = q]
    BY <1>1, <1>4
<1>8. PassInv(q)
    BY <1>1 DEF PassInv, PassFields
<1> HIDE DEF q
<1> QED
    BY <1>6, <1>7, <1>8, PassMoves

LEMMA BeginKeeps ==
    ASSUME RankingInv, NEW p \in Passes, NEW brands, Begin(p, brands), StoredRows(rows')
    PROVE  RankingInv'
<1> DEFINE q == [Idle EXCEPT !.at = "groups", !.todo = brands, !.day = today]
<1>1. PassInv(q)
    BY DEF PassInv, Idle, PassFields
<1>2. pass' = [pass EXCEPT ![p] = q]
    BY DEF Begin
<1> HIDE DEF q
<1> QED
    BY <1>1, <1>2, PassMoves

LEMMA StopKeeps ==
    ASSUME RankingInv, NEW p \in Passes, Stop(p), StoredRows(rows')
    PROVE  RankingInv'
BY IdlePass, PassMoves DEF Stop

LEMMA RankingStep == RankingInv /\ [Next]_vars => RankingInv'
<1> SUFFICES ASSUME RankingInv, [Next]_vars PROVE RankingInv'
    OBVIOUS
<1>1. StoredRows(rows)
    BY DEF RankingInv
<1>2. CASE (\E i \in Ids : Sell(i) \/ Withdraw(i)) \/ NextDay \/ UNCHANGED vars
    BY <1>2 DEF Sell, Withdraw, NextDay, vars, tables, RankingInv
<1>3. CASE RunRecompute
    BY <1>1, <1>3, BeginKeeps DEF RunRecompute, Passes, tables
<1>4. ASSUME NEW i \in Ids, NEW g \in Groups, EditRecompute(i, g) PROVE RankingInv'
    <2>1. PICK expired : rows' = {r \in rows : r.group \notin expired}
        BY <1>4 DEF EditRecompute
    <2>2. StoredRows(rows')
        BY <1>1, <2>1, FS_Subset DEF StoredRows
    <2> QED
        BY <1>4, <2>2, BeginKeeps DEF EditRecompute, Passes
<1>5. ASSUME NEW policy, SavePolicy(policy) PROVE RankingInv'
    BY <1>1, <1>5, RankedRows DEF SavePolicy, RankingInv
<1>6. ASSUME NEW p \in Passes, Recompute(p) \/ Cut(p) PROVE RankingInv'
    <2>1. CASE ReadGroups(p) \/ ReadListings(p) \/ ReadRows(p)
        BY <2>1, ReadSteps
    <2>2. CASE WriteBrand(p)
        BY <2>2, WriteBrandKeeps
    <2>3. CASE WriteRank(p)
        BY <2>3, WriteRankKeeps
    <2>4. CASE WriteProfiles(p) \/ Breaks(p) \/ Cut(p)
        BY <1>1, <2>4, StopKeeps DEF WriteProfiles, Breaks, Cut, tables
    <2> QED
        BY <1>6, <2>1, <2>2, <2>3, <2>4 DEF Recompute
<1> QED
    BY <1>2, <1>3, <1>4, <1>5, <1>6 DEF Next

LEMMA RankingInit == Init => RankingInv
BY FirstRowsAssumption, IdlePass DEF Init, RankingInv

(***************************************************************************)
(* The screens show what the ranking scored: however recomputes of runs    *)
(* and of edits overlap, break off or carry a last ranking over, and       *)
(* whatever policy is saved between their steps, a scored row is on the    *)
(* trends list of its level unless its group has retired                   *)
(* (metrics/service.py, api/trends.py).                                    *)
(***************************************************************************)
THEOREM ScoresAreShown == Spec => []ScoredAreListed
<1>1. RankingInv => ScoredAreListed
    <2> SUFFICES ASSUME RankingInv, NEW r \in rows, r.score # None, r.group \notin Retired
                 PROVE  r \in Listed([DefaultQuery EXCEPT !.level = r.scope], Tables)
        BY DEF ScoredAreListed
    <2> DEFINE q == [DefaultQuery EXCEPT !.level = r.scope]
    <2>1. StoredRow(r) /\ IsRanked(r, {})
        BY DEF RankingInv, StoredRows, StoredRow
    <2>2. /\ q.level = r.scope /\ q.brands = {} /\ q.types = {} /\ q.section = "any" /\ q.from = None
          /\ q.window = 30 /\ q.priceMin = None /\ q.priceMax = None /\ q.minSales = 0
          /\ q.hideLowData = FALSE /\ q.department = None /\ q.condition = "all" /\ q.watched = FALSE
        BY DEF DefaultQuery
    <2> HIDE DEF q
    <2>3. Tables.rows = rows /\ Tables.retired = Retired
        BY DEF Tables
    <2>4. InScope(q, r)
        BY <2>2 DEF InScope
    <2>5. OnLevel(q, r, Tables)
        BY <2>1, <2>2, <2>3 DEF OnLevel, HidesReview, IsRanked
    <2>6. RankedOrAsked(q, r)
        BY DEF RankedOrAsked
    <2>7. SoldAndPrice(q, r, Tables).sold = r.m.sold30 /\ r.m.sold30 >= 0
        BY <2>1, <2>2 DEF SoldAndPrice, ByPeriod, StoredRow
    <2>8. HasValues(q, r, Tables)
        BY <2>2, <2>7 DEF HasValues
    <2> QED
        BY <2>3, <2>4, <2>5, <2>6, <2>8 DEF Listed, q
<1> QED
    BY <1>1, RankingInit, RankingStep, PTL DEF Spec

------------------------------------------------------------------------------
(* Sums over a finite set                                                    *)

\* A set of natural numbers that is not empty has a least member.
LEMMA LeastNatural ==
    ASSUME NEW T \in SUBSET Nat, T # {}
    PROVE  \E m \in T : \A k \in T : m <= k
<1>1. PICK m \in T : \A k \in T : ~ (<<k, m>> \in OpToRel(<, Nat))
    BY WFMin, NatLessThanWellFounded
<1>2. \A k \in T : ~ (k < m)
    BY <1>1 DEF OpToRel
<1> QED
    BY <1>2

(* The member a sum takes first.                                             *)
Pick(s) == CHOOSE x \in s : TRUE

LEMMA PickIs == \A s : s # {} => Pick(s) \in s
BY DEF Pick

LEMMA Smaller ==
    ASSUME NEW s, IsFiniteSet(s), s # {}
    PROVE  /\ IsFiniteSet(s \ {Pick(s)})
           /\ Cardinality(s) \in Nat /\ Cardinality(s \ {Pick(s)}) = Cardinality(s) - 1
           /\ Cardinality(s) > 0
BY PickIs, FS_RemoveElement, FS_CardinalityType, FS_EmptySet

\* What holds of the empty set, and of a set when it holds of the set without the member
\* that is picked first, holds of every finite set.
LEMMA SubsetInduction ==
    ASSUME NEW D, IsFiniteSet(D), NEW G, {} \in G,
           \A s \in SUBSET D : s # {} /\ s \ {Pick(s)} \in G => s \in G
    PROVE  D \in G
<1> DEFINE T == {n \in Nat : \E s \in SUBSET D : Cardinality(s) = n /\ s \notin G}
<1>1. SUFFICES ASSUME D \notin G PROVE FALSE
    OBVIOUS
<1>2. Cardinality(D) \in T
    <2>1. Cardinality(D) \in Nat /\ D \in SUBSET D
        BY FS_CardinalityType
    <2> QED
        BY <1>1, <2>1
<1>3. PICK m \in T : \A k \in T : m <= k
    <2>1. T \in SUBSET Nat /\ T # {}
        BY <1>2
    <2> HIDE DEF T
    <2> QED
        BY <2>1, LeastNatural
<1>4. PICK s \in SUBSET D : Cardinality(s) = m /\ s \notin G
    OBVIOUS
<1>5. s # {} /\ IsFiniteSet(s)
    BY <1>4, FS_Subset
<1>6. s \ {Pick(s)} \notin G
    BY <1>4, <1>5
<1>7. m - 1 \in T
    <2> DEFINE r == s \ {Pick(s)}
    <2>1. r \in SUBSET D /\ r \notin G
        BY <1>6
    <2>2. Cardinality(r) = m - 1 /\ m - 1 \in Nat
        <3>1. /\ Cardinality(s) \in Nat /\ Cardinality(r) = Cardinality(s) - 1
              /\ Cardinality(s) > 0
            BY <1>5, Smaller
        <3> QED
            BY <1>4, <3>1
    <2> HIDE DEF r
    <2> QED
        BY <2>1, <2>2
<1> QED
    BY <1>3, <1>7

(* g has the sum of val over each subset of D.                               *)
Adds(g, D, val) ==
    g = [s \in SUBSET D |-> IF s = {} THEN 0 ELSE val[Pick(s)] + g[s \ {Pick(s)}]]

LEMMA SumExists ==
    ASSUME NEW D, IsFiniteSet(D), NEW val
    PROVE  \E g : Adds(g, D, val)
<1> DEFINE Upto(n) == {s \in SUBSET D : Cardinality(s) <= n}
           Part(g, n) == g = [s \in Upto(n) |-> IF s = {} THEN 0 ELSE val[Pick(s)] + g[s \ {Pick(s)}]]
           T == {n \in Nat : ~ \E g : Part(g, n)}
<1>1. \A s \in SUBSET D : IsFiniteSet(s) /\ Cardinality(s) \in Nat
    BY FS_Subset, FS_CardinalityType
<1>2. \A n \in Nat : \A s \in Upto(n) : s # {} => n # 0 /\ s \ {Pick(s)} \in Upto(n - 1)
    BY <1>1, Smaller
<1>3. T = {}
    <2>1. SUFFICES ASSUME T # {} PROVE FALSE
        OBVIOUS
    <2>2. PICK n \in T : \A k \in T : n <= k
        <3>1. T \in SUBSET Nat
            OBVIOUS
        <3> HIDE DEF T
        <3> QED
            BY <2>1, <3>1, LeastNatural
    <2>3. CASE n = 0
        <3>0. \A s \in Upto(0) : s = {}
            BY <1>2
        <3> HIDE DEF Upto
        <3>1. Part([s \in Upto(0) |-> 0], 0)
            BY <3>0
        <3> QED
            BY <2>2, <2>3, <3>1
    <2>4. CASE n # 0
        <3>1. n - 1 \in Nat /\ n - 1 \notin T
            <4>1. n \in Nat
                OBVIOUS
            <4> HIDE DEF T
            <4> QED
                BY <2>2, <2>4, <4>1
        <3>2. PICK g : Part(g, n - 1)
            BY <3>1
        <3> DEFINE h == [s \in Upto(n) |-> IF s = {} THEN 0 ELSE val[Pick(s)] + g[s \ {Pick(s)}]]
        <3>3. \A s \in Upto(n - 1) : s \in Upto(n) /\ h[s] = g[s]
            <4>1. \A s \in Upto(n - 1) : s \in Upto(n)
                BY <1>1, <3>1
            <4>2. \A s \in Upto(n - 1) : g[s] = IF s = {} THEN 0 ELSE val[Pick(s)] + g[s \ {Pick(s)}]
                BY <3>2
            <4> HIDE DEF Upto
            <4> QED
                BY <4>1, <4>2
        <3>4. \A s \in Upto(n) : s # {} => s \ {Pick(s)} \in Upto(n - 1)
            BY <1>2
        <3> HIDE DEF Upto
        <3>5. Part(h, n)
            BY <3>3, <3>4
        <3> HIDE DEF h
        <3> QED
            BY <2>2, <3>5
    <2> QED
        BY <2>3, <2>4
<1>4. PICK g : Part(g, Cardinality(D))
    <2>1. Cardinality(D) \in Nat
        BY FS_CardinalityType
    <2> QED
        BY <1>3, <2>1
<1>5. Upto(Cardinality(D)) = SUBSET D
    BY FS_Subset
<1> HIDE DEF Upto
<1> QED
    BY <1>4, <1>5 DEF Adds

LEMMA SumSteps ==
    ASSUME NEW D, NEW val, NEW g, Adds(g, D, val)
    PROVE  /\ g[{}] = 0
           /\ \A s \in SUBSET D : s # {} => g[s] = val[Pick(s)] + g[s \ {Pick(s)}]
<1>1. \A s \in SUBSET D : g[s] = IF s = {} THEN 0 ELSE val[Pick(s)] + g[s \ {Pick(s)}]
    BY DEF Adds
<1> QED
    BY <1>1

\* The sum of the sizes of parts that have nothing in common is the size of the whole.
LEMMA SumOfParts ==
    ASSUME NEW D, IsFiniteSet(D), NEW part,
           \A v \in D : IsFiniteSet(part[v]),
           \A v, w \in D : v # w => part[v] \cap part[w] = {},
           NEW val, \A v \in D : val[v] = Cardinality(part[v]),
           NEW g, Adds(g, D, val)
    PROVE  g[D] = Cardinality(UNION {part[v] : v \in D})
<1>0. /\ g[{}] = 0
      /\ \A s \in SUBSET D : s # {} => g[s] = val[Pick(s)] + g[s \ {Pick(s)}]
    BY SumSteps
<1> DEFINE Whole(s) == UNION {part[v] : v \in s}
           G == {s \in SUBSET D : IsFiniteSet(Whole(s)) /\ g[s] = Cardinality(Whole(s))}
<1>1. {} \in G
    <2>1. Whole({}) = {}
        OBVIOUS
    <2> HIDE DEF Whole
    <2> QED
        BY <2>1, SumSteps, FS_EmptySet
<1>2. ASSUME NEW s \in SUBSET D, s # {}, s \ {Pick(s)} \in G PROVE s \in G
    <2> DEFINE x == Pick(s)
               r == s \ {x}
    <2>1. x \in s /\ x \in D /\ x \notin r /\ r \in SUBSET D
        BY <1>2, PickIs
    <2>2. Whole(s) = Whole(r) \cup part[x] /\ Whole(r) \cap part[x] = {}
        BY <2>1
    <2>3. IsFiniteSet(Whole(r)) /\ g[r] = Cardinality(Whole(r))
        BY <1>2
    <2>4. g[s] = Cardinality(part[x]) + Cardinality(Whole(r))
        <3>1. g[s] = val[x] + g[r]
            BY <1>0, <1>2
        <3>2. val[x] = Cardinality(part[x])
            BY <2>1
        <3> HIDE DEF Whole, x, r
        <3> QED
            BY <2>3, <3>1, <3>2
    <2>5. IsFiniteSet(part[x]) /\ Cardinality(part[x]) \in Nat /\ Cardinality(Whole(r)) \in Nat
        BY <2>1, <2>3, FS_CardinalityType
    <2> HIDE DEF Whole, x, r
    <2>6. IsFiniteSet(Whole(s)) /\ Cardinality(Whole(s)) = Cardinality(Whole(r)) + Cardinality(part[x]) - Cardinality(Whole(r) \cap part[x])
        BY <2>2, <2>3, <2>5, FS_Union
    <2>7. Cardinality(Whole(r) \cap part[x]) = 0
        BY <2>2, FS_EmptySet
    <2> QED
        BY <2>4, <2>5, <2>6, <2>7
<1>3. D \in G
    <2> HIDE DEF G
    <2> QED
        BY <1>1, <1>2, SubsetInduction
<1> QED
    BY <1>3

(* The two sums.                                                             *)
SoldOf(by, D) == MapThenSumSet(LAMBDA v : by[v].sold, D)
CohortOf(by, D) == MapThenSumSet(LAMBDA v : by[v].cohort, D)

LEMMA SumIs ==
    ASSUME NEW D, IsFiniteSet(D), NEW by
    PROVE  /\ \E g : /\ Adds(g, D, [v \in D |-> by[v].sold])
                     /\ SoldOf(by, D) = g[D]
           /\ \E g : /\ Adds(g, D, [v \in D |-> by[v].cohort])
                     /\ CohortOf(by, D) = g[D]
<1> DEFINE SoldSum(g) == g = [s \in SUBSET D |-> IF s = {} THEN 0 ELSE by[Pick(s)].sold + g[s \ {Pick(s)}]]
           CohortSum(g) == g = [s \in SUBSET D |-> IF s = {} THEN 0 ELSE by[Pick(s)].cohort + g[s \ {Pick(s)}]]
<1>1. \A g : SoldSum(g) <=> Adds(g, D, [v \in D |-> by[v].sold])
    BY PickIs DEF Adds
<1>2. \A g : CohortSum(g) <=> Adds(g, D, [v \in D |-> by[v].cohort])
    BY PickIs DEF Adds
<1>3. SoldOf(by, D) = (CHOOSE g : SoldSum(g))[D]
    BY DEF SoldOf, MapThenSumSet, MapThenFoldSet, Pick
<1>4. CohortOf(by, D) = (CHOOSE g : CohortSum(g))[D]
    BY DEF CohortOf, MapThenSumSet, MapThenFoldSet, Pick
<1>5. (\E g : SoldSum(g)) /\ (\E g : CohortSum(g))
    <2>1. \A val : \E g : Adds(g, D, val)
        BY SumExists
    <2> HIDE DEF SoldSum, CohortSum
    <2> QED
        BY <1>1, <1>2, <2>1
<1> HIDE DEF SoldSum, CohortSum
<1>6. SoldSum(CHOOSE g : SoldSum(g)) /\ CohortSum(CHOOSE g : CohortSum(g))
    BY <1>5
<1> QED
    BY <1>1, <1>2, <1>3, <1>4, <1>6

------------------------------------------------------------------------------
(* The chains of a scope.                                                     *)
Distinct(items) ==
    /\ IsFiniteSet(items)
    /\ \A i \in items : i.id \in Nat \ {0}
    /\ \A i, j \in items : i.id = j.id => i = j

SizeOf(i, items) == RootOf(i, items).size
Sizes(items) == {SizeOf(i, items) : i \in items}
Sized(items, v) == {i \in items : SizeOf(i, items) = v}

LEMMA BySize ==
    ASSUME NEW items, NEW day
    PROVE  P30By(items, day, LAMBDA i : i.size) = [v \in Sizes(items) |-> P30Counts(Sized(items, v), day)]
BY DEF P30By, Sizes, Sized, SizeOf

LEMMA RootIs ==
    ASSUME NEW items, Distinct(items), NEW i \in items
    PROVE  /\ i.root = None => RootOf(i, items) = i
           /\ \A r \in items : r.id = i.root => RootOf(i, items) = r
<1>1. ASSUME NEW r \in items, r.id = i.root PROVE RootOf(i, items) = r
    <2>1. \A q \in items : q.id = i.root => q = r
        BY <1>1 DEF Distinct
    <2> QED
        BY <1>1, <2>1 DEF RootOf
<1>2. \A r \in items : r.id # None
    BY DEF Distinct, None
<1> QED
    BY <1>1, <1>2 DEF RootOf

LEMMA RootInScope ==
    ASSUME NEW items, NEW i \in items
    PROVE  RootOf(i, items) \in items
BY DEF RootOf

(* Who has an id in the cohort, and who sold for it.                         *)
Starts(k, c, day) == k.id = c /\ k.root = None /\ k.effective /\ day - k.listed \in 30..120
Sells(k, c, day) ==
    Chain(k) = c /\ k.status = "sold" /\ k.sold # None /\ k.sold <= day /\ k.sold - k.born <= 30

LEMMA CohortHas ==
    ASSUME NEW items, NEW day, NEW c
    PROVE  /\ c \in Cohort(items, day) <=> \E k \in items : Starts(k, c, day)
           /\ c \in SoldChains(items, day) <=>
                  c \in Cohort(items, day) /\ \E k \in items : Sells(k, c, day)
BY DEF Cohort, SoldChains, Starts, Sells

LEMMA SizedHas ==
    ASSUME NEW items, Distinct(items), NEW day, NEW c, NEW v
    PROVE  /\ c \in Cohort(Sized(items, v), day) <=>
                  \E k \in items : Starts(k, c, day) /\ SizeOf(k, items) = v
           /\ c \in SoldChains(Sized(items, v), day) <=>
                  c \in SoldChains(items, day) /\ c \in Cohort(Sized(items, v), day)
<1>1. c \in Cohort(Sized(items, v), day) <=> \E k \in items : Starts(k, c, day) /\ SizeOf(k, items) = v
    BY CohortHas DEF Sized
<1>2. ASSUME NEW k \in items, Starts(k, c, day), SizeOf(k, items) = v,
             NEW i \in items, Sells(i, c, day)
      PROVE  SizeOf(i, items) = v
    <2>1. CASE i.root = None
        <3>1. i = k
            BY <1>2, <2>1 DEF Starts, Sells, Chain, Distinct
        <3> QED
            BY <1>2, <3>1
    <2>2. CASE i.root # None
        <3>1. k.id = i.root
            BY <1>2, <2>2 DEF Starts, Sells, Chain
        <3>2. RootOf(i, items) = k /\ RootOf(k, items) = k
            BY <1>2, <3>1, RootIs DEF Starts
        <3> QED
            BY <1>2, <3>2 DEF SizeOf
    <2> QED
        BY <2>1, <2>2
<1>3. c \in SoldChains(Sized(items, v), day) <=>
          /\ c \in Cohort(Sized(items, v), day)
          /\ \E i \in items : SizeOf(i, items) = v /\ Sells(i, c, day)
    BY CohortHas DEF Sized
<1>4. c \in SoldChains(items, day) <=>
          (\E k \in items : Starts(k, c, day)) /\ \E i \in items : Sells(i, c, day)
    BY CohortHas
<1> QED
    BY <1>1, <1>2, <1>3, <1>4

\* The chains of the sizes have nothing in common, and together they are all of them.
LEMMA SizesShareOut ==
    ASSUME NEW items, Distinct(items), NEW day,
           NEW cohort, cohort = [v \in Sizes(items) |-> Cohort(Sized(items, v), day)],
           NEW sold, sold = [v \in Sizes(items) |-> SoldChains(Sized(items, v), day)]
    PROVE  /\ UNION {cohort[v] : v \in Sizes(items)} = Cohort(items, day)
           /\ UNION {sold[v] : v \in Sizes(items)} = SoldChains(items, day)
           /\ \A v, w \in Sizes(items) : v # w => cohort[v] \cap cohort[w] = {} /\ sold[v] \cap sold[w] = {}
<1> DEFINE D == Sizes(items)
<1>1. \A k \in items : SizeOf(k, items) \in D
    BY DEF Sizes
<1>2. \A v \in D : \A c : c \in cohort[v] <=> \E k \in items : Starts(k, c, day) /\ SizeOf(k, items) = v
    BY SizedHas
<1>3. \A v \in D : \A c : c \in sold[v] <=> c \in SoldChains(items, day) /\ c \in cohort[v]
    BY SizedHas
<1>4. \A c : c \in Cohort(items, day) <=> \E k \in items : Starts(k, c, day)
    BY CohortHas
<1>5. \A c : c \in SoldChains(items, day) => c \in Cohort(items, day)
    BY CohortHas
<1>6. \A k, l \in items : \A c : Starts(k, c, day) /\ Starts(l, c, day) => k = l
    BY DEF Distinct, Starts
<1> HIDE DEF D
<1>7. UNION {cohort[v] : v \in D} = Cohort(items, day)
    <2>1. ASSUME NEW c PROVE (\E v \in D : c \in cohort[v]) <=> c \in Cohort(items, day)
        BY <1>1, <1>2, <1>4
    <2> QED
        BY <2>1
<1>8. UNION {sold[v] : v \in D} = SoldChains(items, day)
    <2>1. ASSUME NEW c PROVE (\E v \in D : c \in sold[v]) <=> c \in SoldChains(items, day)
        BY <1>1, <1>2, <1>3, <1>4, <1>5
    <2> QED
        BY <2>1
<1>9. ASSUME NEW v \in D, NEW w \in D, v # w
      PROVE  cohort[v] \cap cohort[w] = {} /\ sold[v] \cap sold[w] = {}
    <2>1. \A c : ~ (c \in cohort[v] /\ c \in cohort[w])
        BY <1>2, <1>6, <1>9
    <2> QED
        BY <1>3, <2>1
<1> QED
    BY <1>7, <1>8, <1>9 DEF D

LEMMA ScopeFinite ==
    ASSUME NEW items, Distinct(items), NEW day
    PROVE  /\ IsFiniteSet(Sizes(items)) /\ IsFiniteSet(Cohort(items, day)) /\ IsFiniteSet(SoldChains(items, day))
           /\ \A v : Distinct(Sized(items, v))
<1>1. IsFiniteSet(items)
    BY DEF Distinct
<1>2. IsFiniteSet(Sizes(items))
    <2> DEFINE f == [i \in items |-> SizeOf(i, items)]
    <2>1. Sizes(items) = {f[i] : i \in items}
        BY DEF Sizes
    <2> HIDE DEF f
    <2> QED
        BY <1>1, <2>1, FiniteImage
<1>3. IsFiniteSet(Cohort(items, day))
    <2> DEFINE f == [i \in items |-> i.id]
               K == {k \in items : k.root = None /\ k.effective /\ day - k.listed \in 30..120}
    <2>1. Cohort(items, day) = {f[i] : i \in K}
        BY DEF Cohort
    <2>2. IsFiniteSet(K)
        BY <1>1, FS_Subset
    <2> HIDE DEF f, K
    <2> QED
        BY <2>1, <2>2, FiniteImage
<1>4. SoldChains(items, day) \subseteq Cohort(items, day)
    BY DEF SoldChains
<1>5. \A v : Distinct(Sized(items, v))
    <2>1. \A v : Sized(items, v) \subseteq items
        BY DEF Sized
    <2> QED
        BY <2>1, FS_Subset DEF Distinct
<1> QED
    BY <1>2, <1>3, <1>4, <1>5, FS_Subset

CountsBySize(items, day) == [v \in Sizes(items) |-> P30Counts(Sized(items, v), day)]

LEMMA SumsAreWhole ==
    ASSUME NEW items, Distinct(items), NEW day,
           NEW by, by = CountsBySize(items, day),
           NEW whole, whole = P30Counts(items, day)
    PROVE  /\ \A v \in Sizes(items) : by[v].sold \in Nat /\ by[v].cohort \in Nat /\ by[v].sold <= by[v].cohort
           /\ \E g : Adds(g, Sizes(items), [v \in Sizes(items) |-> by[v].sold]) /\ whole.sold = g[Sizes(items)]
                     /\ SoldOf(by, Sizes(items)) = g[Sizes(items)]
           /\ \E g : Adds(g, Sizes(items), [v \in Sizes(items) |-> by[v].cohort]) /\ whole.cohort = g[Sizes(items)]
                     /\ CohortOf(by, Sizes(items)) = g[Sizes(items)]
<1> DEFINE D == Sizes(items)
           cohort == [v \in D |-> Cohort(Sized(items, v), day)]
           sold == [v \in D |-> SoldChains(Sized(items, v), day)]
           sales == [v \in D |-> by[v].sold]
           size == [v \in D |-> by[v].cohort]
<1>1. /\ UNION {cohort[v] : v \in D} = Cohort(items, day)
      /\ UNION {sold[v] : v \in D} = SoldChains(items, day)
      /\ \A v, w \in D : v # w => cohort[v] \cap cohort[w] = {} /\ sold[v] \cap sold[w] = {}
    <2>1. /\ cohort = [v \in Sizes(items) |-> Cohort(Sized(items, v), day)]
          /\ sold = [v \in Sizes(items) |-> SoldChains(Sized(items, v), day)]
        OBVIOUS
    <2> HIDE DEF cohort, sold
    <2> QED
        BY <2>1, SizesShareOut
<1>2. \A v \in D : by[v].sold = Cardinality(sold[v]) /\ by[v].cohort = Cardinality(cohort[v])
    BY DEF CountsBySize, P30Counts
<1>3. \A v \in D : IsFiniteSet(cohort[v]) /\ IsFiniteSet(sold[v]) /\ sold[v] \subseteq cohort[v]
    BY ScopeFinite DEF SoldChains
<1>3a. (\A v, w \in D : v # w => cohort[v] \cap cohort[w] = {}) /\ (\A v \in D : IsFiniteSet(cohort[v]))
    <2> HIDE DEF cohort, sold
    <2> QED
        BY <1>1, <1>3
<1>3b. (\A v, w \in D : v # w => sold[v] \cap sold[w] = {}) /\ (\A v \in D : IsFiniteSet(sold[v]))
    <2> HIDE DEF cohort, sold
    <2> QED
        BY <1>1, <1>3
<1>4. \A v \in D : by[v].sold \in Nat /\ by[v].cohort \in Nat /\ by[v].sold <= by[v].cohort
    <2> HIDE DEF cohort, sold
    <2> QED
        BY <1>2, <1>3, FS_CardinalityType, FS_Subset
<1>5. IsFiniteSet(D)
    BY ScopeFinite
<1>6. whole.sold = Cardinality(SoldChains(items, day)) /\ whole.cohort = Cardinality(Cohort(items, day))
    BY DEF P30Counts
<1>7. \A v \in D : sales[v] = Cardinality(sold[v]) /\ size[v] = Cardinality(cohort[v])
    BY <1>2
<1>8. /\ \E g : Adds(g, D, sales) /\ SoldOf(by, D) = g[D]
      /\ \E g : Adds(g, D, size) /\ CohortOf(by, D) = g[D]
    BY <1>5, SumIs
<1> HIDE DEF D, cohort, sold, sales, size
<1>9. ASSUME NEW g, Adds(g, D, sales) PROVE g[D] = whole.sold
    <2>1. g[D] = Cardinality(UNION {sold[v] : v \in D})
        BY <1>3b, <1>5, <1>7, <1>9, SumOfParts
    <2> QED
        BY <1>1, <1>6, <2>1
<1>10. ASSUME NEW g, Adds(g, D, size) PROVE g[D] = whole.cohort
    <2>1. g[D] = Cardinality(UNION {cohort[v] : v \in D})
        BY <1>3a, <1>5, <1>7, <1>10, SumOfParts
    <2> QED
        BY <1>1, <1>6, <2>1
<1>11. /\ \E g : Adds(g, D, sales) /\ whole.sold = g[D] /\ SoldOf(by, D) = g[D]
       /\ \E g : Adds(g, D, size) /\ whole.cohort = g[D] /\ CohortOf(by, D) = g[D]
    BY <1>8, <1>9, <1>10
<1> QED
    BY <1>4, <1>11 DEF D, sales, size

\* Not every part can be below the ratio of the whole.
LEMMA PartReaches ==
    ASSUME NEW D, IsFiniteSet(D), NEW vs, NEW vc,
           \A v \in D : vs[v] \in Nat /\ vc[v] \in Nat /\ vs[v] <= vc[v],
           NEW gs, Adds(gs, D, vs), NEW gc, Adds(gc, D, vc), gs[D] \in Nat, gc[D] \in Nat \ {0}
    PROVE  \E v \in D : vc[v] > 0 /\ vs[v] * gc[D] >= gs[D] * vc[v]
<1> DEFINE S == gs[D]
           C == gc[D]
           Below(p, q) == \/ p = 0 /\ q = 0
                          \/ q > 0 /\ p * C < S * q
           G == {s \in SUBSET D : gs[s] \in Nat /\ gc[s] \in Nat /\ Below(gs[s], gc[s])}
<1>0. S \in Nat /\ C \in Nat /\ C > 0
    OBVIOUS
<1>1. SUFFICES ASSUME \A v \in D : vc[v] > 0 => ~ (vs[v] * C >= S * vc[v]) PROVE FALSE
    OBVIOUS
<1>2. /\ gs[{}] = 0 /\ \A s \in SUBSET D : s # {} => gs[s] = vs[Pick(s)] + gs[s \ {Pick(s)}]
      /\ gc[{}] = 0 /\ \A s \in SUBSET D : s # {} => gc[s] = vc[Pick(s)] + gc[s \ {Pick(s)}]
    BY SumSteps
<1> HIDE DEF S, C
<1>3. ASSUME NEW p \in Nat, NEW q \in Nat, NEW a \in Nat, NEW b \in Nat, Below(p, q), Below(a, b)
      PROVE  Below(p + a, q + b)
    <2>1. (p + a) * C = p * C + a * C /\ S * (q + b) = S * q + S * b
        BY <1>0
    <2>2. p * C \in Nat /\ a * C \in Nat /\ S * q \in Nat /\ S * b \in Nat
        BY <1>0
    <2>3. (p = 0 => p * C = 0) /\ (q = 0 => S * q = 0) /\ (a = 0 => a * C = 0) /\ (b = 0 => S * b = 0)
        BY <1>0
    <2> DEFINE pC == p * C
               aC == a * C
               Sq == S * q
               Sb == S * b
    <2> HIDE DEF pC, aC, Sq, Sb
    <2>4. (p = 0 /\ q = 0) \/ (q > 0 /\ pC < Sq)
        BY <1>3 DEF pC, Sq
    <2>5. (a = 0 /\ b = 0) \/ (b > 0 /\ aC < Sb)
        BY <1>3 DEF aC, Sb
    <2>6. pC \in Nat /\ aC \in Nat /\ Sq \in Nat /\ Sb \in Nat
        BY <2>2 DEF pC, aC, Sq, Sb
    <2>7. (p = 0 => pC = 0) /\ (q = 0 => Sq = 0) /\ (a = 0 => aC = 0) /\ (b = 0 => Sb = 0)
        BY <2>3 DEF pC, aC, Sq, Sb
    <2>8. (p + a = 0 /\ q + b = 0) \/ (q + b > 0 /\ pC + aC < Sq + Sb)
        BY <2>4, <2>5, <2>6, <2>7
    <2> QED
        BY <2>1, <2>8 DEF pC, aC, Sq, Sb
<1>4. \A v \in D : Below(vs[v], vc[v])
    <2>1. SUFFICES ASSUME NEW v \in D PROVE Below(vs[v], vc[v])
        OBVIOUS
    <2>2. vs[v] \in Nat /\ vc[v] \in Nat /\ vs[v] <= vc[v]
        OBVIOUS
    <2>3. CASE vc[v] = 0
        BY <2>2, <2>3
    <2>4. CASE vc[v] > 0
        <3>1. vs[v] * C \in Nat /\ S * vc[v] \in Nat
            BY <1>0, <2>2
        <3>2. ~ (vs[v] * C >= S * vc[v])
            BY <1>1, <2>4
        <3> QED
            BY <2>4, <3>1, <3>2
    <2> QED
        BY <2>2, <2>3, <2>4
<1> HIDE DEF Below
<1>5. {} \in G
    BY <1>2 DEF Below
<1>6. ASSUME NEW s \in SUBSET D, s # {}, s \ {Pick(s)} \in G PROVE s \in G
    <2> DEFINE x == Pick(s)
               r == s \ {x}
    <2>1. x \in D
        BY <1>6, PickIs
    <2>2. gs[s] = vs[x] + gs[r] /\ gc[s] = vc[x] + gc[r]
        BY <1>2, <1>6
    <2>3. gs[r] \in Nat /\ gc[r] \in Nat /\ Below(gs[r], gc[r])
        BY <1>6
    <2> HIDE DEF x, r
    <2>4. vs[x] \in Nat /\ vc[x] \in Nat /\ Below(vs[x], vc[x])
        BY <1>4, <2>1
    <2>5. Below(vs[x] + gs[r], vc[x] + gc[r])
        BY <1>3, <2>3, <2>4
    <2> QED
        BY <2>2, <2>3, <2>4, <2>5
<1>7. D \in G
    <2> HIDE DEF G
    <2> QED
        BY <1>5, <1>6, SubsetInduction
<1>8. Below(S, C)
    BY <1>7 DEF S, C
<1> QED
    BY <1>0, <1>8 DEF Below

LEMMA RoundMonotone ==
    ASSUME NEW a \in Nat, NEW c \in Nat \ {0}, NEW b \in Nat, NEW d \in Nat \ {0}, a * d >= b * c
    PROVE  Round(a, c) \in Nat /\ Round(b, d) \in Nat /\ Round(a, c) >= Round(b, d)
<1> DEFINE q == (2 * b + d) \div (2 * d)
           p == (2 * a + c) \div (2 * c)
<1>1. q \in Nat /\ q * (2 * d) <= 2 * b + d
    OBVIOUS
<1>2. p \in Nat /\ 2 * a + c < (p + 1) * (2 * c)
    OBVIOUS
<1> HIDE DEF q, p
<1>3. p >= q
    <2>1. SUFFICES ASSUME p + 1 <= q PROVE FALSE
        BY <1>1, <1>2
    <2>2. (p + 1) * (2 * c) <= q * (2 * c)
        BY <1>1, <1>2, <2>1
    <2>3. 2 * a + c < q * (2 * c)
        BY <1>1, <1>2, <2>2
    <2>4. (2 * a + c) * d < (q * (2 * c)) * d
        BY <1>1, <2>3
    <2>5. (q * (2 * d)) * c <= (2 * b + d) * c
        BY <1>1
    <2>6. (q * (2 * c)) * d = (q * (2 * d)) * c
        BY <1>1
    <2>7. (2 * b + d) * c = 2 * (b * c) + d * c /\ (2 * a + c) * d = 2 * (a * d) + d * c
        OBVIOUS
    <2> QED
        BY <1>1, <2>4, <2>5, <2>6, <2>7
<1> QED
    BY <1>1, <1>2, <1>3 DEF Round, p, q

LEMMA RateReaches ==
    ASSUME NEW c, c.sold \in Nat, c.cohort \in Nat, c.cohort > 0,
           NEW w, w.sold \in Nat, w.cohort \in Nat, w.cohort > 0,
           c.sold * w.cohort >= w.sold * c.cohort
    PROVE  Rate(c) # None /\ Rate(w) # None /\ Rate(c) >= Rate(w)
<1>1. (Share * c.sold) * w.cohort >= (Share * w.sold) * c.cohort
    BY DEF Share
<1>2. Share * c.sold \in Nat /\ Share * w.sold \in Nat
    BY DEF Share
<1>3. /\ Round(Share * c.sold, c.cohort) \in Nat /\ Round(Share * w.sold, w.cohort) \in Nat
      /\ Round(Share * c.sold, c.cohort) >= Round(Share * w.sold, w.cohort)
    <2> DEFINE a == Share * c.sold
               b == Share * w.sold
    <2>1. c.cohort \in Nat \ {0} /\ w.cohort \in Nat \ {0}
        OBVIOUS
    <2> HIDE DEF a, b
    <2>2. a \in Nat /\ b \in Nat /\ a * w.cohort >= b * c.cohort
        BY <1>1, <1>2 DEF a, b
    <2>3. Round(a, c.cohort) \in Nat /\ Round(b, w.cohort) \in Nat /\ Round(a, c.cohort) >= Round(b, w.cohort)
        BY <2>1, <2>2, RoundMonotone
    <2> QED
        BY <2>3 DEF a, b
<1>4. Rate(c) = Round(Share * c.sold, c.cohort) /\ Rate(w) = Round(Share * w.sold, w.cohort)
    BY DEF Rate
<1> QED
    BY <1>3, <1>4 DEF None

LEMMA SizeRowIs ==
    ASSUME NEW items, NEW day, NEW k \in DOMAIN SizeRows(items, day),
           SizeRows(items, day)[k].row.value \in Sizes(items)
    PROVE  LET row == SizeRows(items, day)[k]
               c == CountsBySize(items, day)[row.row.value]
               whole == P30Counts(items, day)
           IN  row.hot = (c.cohort >= HotSizeMin /\ Rate(c) # None /\ Rate(whole) # None /\ Rate(c) >= Rate(whole))
<1>1. P30By(items, day, LAMBDA i : i.size) = CountsBySize(items, day)
    BY BySize DEF CountsBySize
<1>2. DOMAIN CountsBySize(items, day) = Sizes(items)
    BY DEF CountsBySize
<1> QED
    BY <1>1, <1>2 DEF SizeRows

BySizeOf(items, day) == P30By(items, day, LAMBDA i : i.size)

\* What ChainsCountOnce says of one set of items.
LEMMA ScopeCountsOnce ==
    ASSUME NEW items, Distinct(items), NEW day, HotSizeMin \in Nat
    PROVE  LET by == P30By(items, day, LAMBDA i : i.size)
               whole == P30Counts(items, day)
               sizes == SizeRows(items, day)
               shown == {sizes[k].row.value : k \in DOMAIN sizes}
           IN  /\ whole.sold = MapThenSumSet(LAMBDA v : by[v].sold, DOMAIN by)
               /\ whole.cohort = MapThenSumSet(LAMBDA v : by[v].cohort, DOMAIN by)
               /\ whole.cohort > 0 /\ HotSizeMin <= 1 /\ {i.size : i \in items} \subseteq shown =>
                      \E k \in DOMAIN sizes : sizes[k].hot
<1> DEFINE by == CountsBySize(items, day)
           D == Sizes(items)
           whole == P30Counts(items, day)
           sizes == SizeRows(items, day)
           shown == {sizes[k].row.value : k \in DOMAIN sizes}
<1>1. BySizeOf(items, day) = by /\ DOMAIN by = D
    BY BySize DEF BySizeOf, CountsBySize
<1>2. IsFiniteSet(D)
    BY ScopeFinite
<1>3. /\ \A v \in D : by[v].sold \in Nat /\ by[v].cohort \in Nat /\ by[v].sold <= by[v].cohort
      /\ \E g : Adds(g, D, [v \in D |-> by[v].sold]) /\ whole.sold = g[D] /\ SoldOf(by, D) = g[D]
      /\ \E g : Adds(g, D, [v \in D |-> by[v].cohort]) /\ whole.cohort = g[D] /\ CohortOf(by, D) = g[D]
    BY SumsAreWhole
<1>4. whole.sold \in Nat /\ whole.cohort \in Nat
    BY ScopeFinite, FS_CardinalityType DEF P30Counts
<1>5. ASSUME whole.cohort > 0, HotSizeMin <= 1, {i.size : i \in items} \subseteq shown
      PROVE  \E k \in DOMAIN sizes : sizes[k].hot
    <2>1. PICK v \in D : by[v].cohort > 0 /\ by[v].sold * whole.cohort >= whole.sold * by[v].cohort
        <3> DEFINE vs == [v \in D |-> by[v].sold]
                   vc == [v \in D |-> by[v].cohort]
        <3>1. \A v \in D : vs[v] \in Nat /\ vc[v] \in Nat /\ vs[v] <= vc[v] /\ vs[v] = by[v].sold /\ vc[v] = by[v].cohort
            BY <1>3
        <3>2. PICK gs : Adds(gs, D, vs) /\ whole.sold = gs[D]
            BY <1>3
        <3>3. PICK gc : Adds(gc, D, vc) /\ whole.cohort = gc[D]
            BY <1>3
        <3> HIDE DEF vs, vc, D, by, whole
        <3>4. gs[D] \in Nat /\ gc[D] \in Nat \ {0}
            BY <1>4, <1>5, <3>2, <3>3
        <3>5. \E v \in D : vc[v] > 0 /\ vs[v] * gc[D] >= gs[D] * vc[v]
            BY <1>2, <3>1, <3>2, <3>3, <3>4, PartReaches
        <3> QED
            BY <3>1, <3>2, <3>3, <3>5
    <2>2. v \in {i.size : i \in items}
        BY RootInScope DEF Sizes, SizeOf
    <2>3. PICK k \in DOMAIN sizes : sizes[k].row.value = v
        BY <1>5, <2>2
    <2>4. sizes[k].hot = (by[v].cohort >= HotSizeMin /\ Rate(by[v]) # None /\ Rate(whole) # None
                          /\ Rate(by[v]) >= Rate(whole))
        BY <2>1, <2>3, SizeRowIs
    <2> HIDE DEF by, D, whole, sizes
    <2>5. Rate(by[v]) # None /\ Rate(whole) # None /\ Rate(by[v]) >= Rate(whole)
        BY <1>3, <1>4, <1>5, <2>1, RateReaches
    <2>6. by[v].cohort >= HotSizeMin
        BY <1>3, <1>5, <2>1
    <2> QED
        BY <2>3, <2>4, <2>5, <2>6
<1>6. LET counts == BySizeOf(items, day)
      IN  whole.sold = SoldOf(counts, DOMAIN counts) /\ whole.cohort = CohortOf(counts, DOMAIN counts)
    <2> HIDE DEF by, D, whole
    <2> QED
        BY <1>1, <1>3
<1> HIDE DEF D
<1> QED
    BY <1>5, <1>6 DEF SoldOf, CohortOf, BySizeOf

(* A row has the id of its place.                                            *)
IdsInv == \A i \in DOMAIN listings : listings[i].id = i

LEMMA IdsStep ==
    ASSUME TableInv, IdsInv, [ReadersNext]_readersVars
    PROVE  TableInv' /\ IdsInv'
<1>1. /\ \/ UNCHANGED listings
         \/ RowAppears /\ now' = now
         \/ \E i \in DOMAIN listings : now' = now /\ (RowSold(i) \/ RowWithdrawn(i) \/ RowReturns(i))
      /\ TableInv'
    BY TableStep
<1>2. DOMAIN listings = 1..Len(listings) /\ Len(listings) \in Nat /\ DOMAIN listings' = 1..Len(listings')
    BY <1>1, LenProperties DEF TableInv
<1>3. CASE UNCHANGED listings
    BY <1>1, <1>3 DEF IdsInv
<1>4. CASE RowAppears /\ now' = now
    <2>1. PICK l : IsRow(l) /\ l.id = Len(listings) + 1 /\ listings' = Append(listings, l)
        BY <1>4 DEF RowAppears
    <2>2. now' \in Nat
        BY <1>4 DEF TableInv
    <2>3. /\ Len(listings') = Len(listings) + 1 /\ listings'[Len(listings) + 1] = l
          /\ \A k \in 1..Len(listings) : listings'[k] = listings[k]
        BY <2>1, <2>2, RowComes
    <2>4. ASSUME NEW k \in DOMAIN listings' PROVE listings'[k].id = k
        <3>1. k \in 1..Len(listings) \/ k = Len(listings) + 1
            BY <1>2, <2>3
        <3>2. CASE k \in 1..Len(listings)
            BY <1>2, <2>3, <3>2 DEF IdsInv
        <3> QED
            BY <2>1, <2>3, <3>1, <3>2
    <2> QED
        BY <1>1, <2>4 DEF IdsInv
<1>5. CASE \E i \in DOMAIN listings : now' = now /\ (RowSold(i) \/ RowWithdrawn(i) \/ RowReturns(i))
    <2>1. PICK i \in DOMAIN listings : now' = now /\ (RowSold(i) \/ RowWithdrawn(i) \/ RowReturns(i))
        BY <1>5
    <2>2. PICK l : RowChanges(i, l) /\ l.id = listings[i].id
        <3>0. IsRow(listings[i])
            BY DEF TableInv, Rows
        <3> DEFINE Same(l) == RowChanges(i, l) /\ l.id = listings[i].id
        <3>1. CASE RowSold(i)
            <4>1. Same([listings[i] EXCEPT !.status = "sold", !.sold = now])
                BY <3>0, <3>1 DEF RowSold, IsRow, RowFields
            <4> QED
                BY <4>1
        <3>2. CASE RowWithdrawn(i)
            <4>1. Same([listings[i] EXCEPT !.status = "removed_pending", !.checked = now])
                BY <3>0, <3>2 DEF RowWithdrawn, IsRow, RowFields
            <4> QED
                BY <4>1
        <3>3. CASE RowReturns(i)
            <4>1. Same([listings[i] EXCEPT !.status = "active", !.checked = None])
                BY <3>0, <3>3 DEF RowReturns, IsRow, RowFields
            <4> QED
                BY <4>1
        <3> QED
            BY <2>1, <3>1, <3>2, <3>3
    <2>3. now' \in Nat
        BY <2>1 DEF TableInv
    <2>4. /\ DOMAIN listings' = DOMAIN listings
          /\ \A k \in DOMAIN listings : listings'[k] = IF k = i THEN l ELSE listings[k]
        BY <2>2, <2>3, RowStays
    <2> QED
        BY <1>1, <2>2, <2>4 DEF IdsInv
<1> QED
    BY <1>1, <1>3, <1>4, <1>5

LEMMA ItemsDistinct ==
    ASSUME TableInv, IdsInv, NEW items \in SUBSET Items(Rows, now)
    PROVE  Distinct(items)
<1> DEFINE shown == {k \in Rows : "possible_replica" \notin k.flags}
           item == [l \in shown |-> ItemOf(l, Rows, DormantWholesalers(Rows, now))]
<1>1. DOMAIN listings = 1..Len(listings) /\ Len(listings) \in Nat
    BY LenProperties DEF TableInv
<1>2. IsFiniteSet(Rows)
    <2>1. Rows = {listings[i] : i \in 1..Len(listings)}
        BY <1>1 DEF Rows
    <2>2. IsFiniteSet(1..Len(listings))
        BY <1>1, FS_Interval
    <2> QED
        BY <2>1, <2>2, FiniteImage
<1>3. Items(Rows, now) = {item[l] : l \in shown}
    BY DEF Items
<1>4. \A l \in shown : item[l].id = l.id
    BY DEF ItemOf
<1>5. \A l, m \in Rows : l.id \in Nat \ {0} /\ (l.id = m.id => l = m)
    BY <1>1 DEF Rows, IdsInv
<1>6. IsFiniteSet(Items(Rows, now))
    <2>1. IsFiniteSet(shown)
        BY <1>2, FS_Subset
    <2> HIDE DEF shown, item
    <2> QED
        BY <1>3, <2>1, FiniteImage
<1>7. \A i, j \in Items(Rows, now) : i.id \in Nat \ {0} /\ (i.id = j.id => i = j)
    <2>1. shown \subseteq Rows
        OBVIOUS
    <2> HIDE DEF shown, item
    <2> QED
        BY <1>3, <1>4, <1>5, <2>1
<1> QED
    BY <1>6, <1>7, FS_Subset DEF Distinct

(***************************************************************************)
(* P30 counts every chain once and with one size, whatever is relisted,    *)
(* sold or withdrawn, so the sizes share out what the scope counts, and    *)
(* one of them reaches the rate of the whole (p30_by, size_rows).          *)
(***************************************************************************)
THEOREM ChainsAreCountedOnce == ReadersSpec => []ChainsCountOnce
<1>1. ReadersInit => TableInv /\ IdsInv
    BY TableInit DEF ReadersInit, IdsInv
<1>2. TableInv /\ IdsInv /\ [ReadersNext]_readersVars => (TableInv /\ IdsInv)'
    BY IdsStep
<1>3. TableInv /\ IdsInv => ChainsCountOnce
    BY ItemsDistinct, ScopeCountsOnce, SizesAssumption DEF ChainsCountOnce
<1> QED
    BY <1>1, <1>2, <1>3, PTL DEF ReadersSpec

------------------------------------------------------------------------------
(* How the scopes of a brand share out its listings                          *)

(* The brand a scope is of.                                                  *)
BrandOf(key) == IF key[1] = "model" THEN GroupInfo[key[2]].brand ELSE key[2]

(* The scopes of types, and of what has no model.                            *)
NoModelKey(key) == key[1] = "model" /\ GroupInfo[key[2]].kind = "none"
SharesOut(key) == key[1] = "type" \/ NoModelKey(key)

(* The items of the scopes of a brand, as one read finds them.               *)
ScopesOf(items, b) ==
    /\ \A k \in DOMAIN items :
           /\ BrandOf(k) = b /\ k[1] \in ScopeKinds /\ (k[1] = "model" => k = <<"model", k[2]>>)
           /\ IsFiniteSet(items[k]) /\ items[k] # {}
           /\ \A i \in items[k] : i.id \in Ids /\ Ads[i.id].brand = b
    /\ \A j, k \in DOMAIN items :
           SharesOut(j) /\ SharesOut(k) /\ j[1] = k[1] /\ j # k => items[j] \cap items[k] = {}
    /\ \A k \in DOMAIN items : NoModelKey(k) =>
           LET of == <<"type", b, GroupInfo[k[2]].type>>
           IN  of \in DOMAIN items /\ items[k] \subseteq items[of]

(* The rows and the months of a brand, of which one read has the items.      *)
Tells(R, items, b, day) ==
    /\ \A r \in R : r.brand = b /\ SharesOut(r.key) =>
           r.key \in DOMAIN items /\ r.m = Counters(items[r.key], day)
    /\ \A k \in DOMAIN items : SharesOut(k) => \E r \in R : r.key = k /\ r.brand = b
MonthsOf(items, day) == {[key |-> k, stats |-> MonthStats(items[k], day)] : k \in DOMAIN items}

KeysApart(R) == \A r, s \in R : r.key = s.key => r = s
Placed(r) == r.brand = BrandOf(r.key) /\ r.group = ScopeInfo(r.key).group

RowsInv(R, M) ==
    /\ KeysApart(R)
    /\ \A r \in R : Placed(r)
    /\ \A b : \E items, day : /\ ScopesOf(items, b) /\ Tells(R, items, b, day)
                              /\ b \in DOMAIN M => M[b] = MonthsOf(items, day)

(* The facts of rows that are written again are kept.                        *)
SameFacts(r, s) == s.key = r.key /\ s.brand = r.brand /\ s.group = r.group /\ s.m = r.m

LEMMA FactsAreKept ==
    ASSUME NEW R, NEW M, RowsInv(R, M), NEW f, \A r \in R : SameFacts(r, f[r]),
           NEW T, T = {f[r] : r \in R}
    PROVE  RowsInv(T, M)
<1>1. KeysApart(T)
    BY DEF RowsInv, KeysApart, SameFacts
<1>2. \A r \in T : Placed(r)
    BY DEF RowsInv, Placed, SameFacts
<1>3. ASSUME NEW items, NEW b, NEW day, Tells(R, items, b, day) PROVE Tells(T, items, b, day)
    <2>1. ASSUME NEW r \in R, f[r].brand = b, SharesOut(f[r].key)
          PROVE  f[r].key \in DOMAIN items /\ f[r].m = Counters(items[f[r].key], day)
        BY <1>3, <2>1 DEF Tells, SameFacts
    <2>2. ASSUME NEW k \in DOMAIN items, SharesOut(k) PROVE \E r \in R : f[r].key = k /\ f[r].brand = b
        BY <1>3, <2>2 DEF Tells, SameFacts
    <2> QED
        BY <2>1, <2>2 DEF Tells
<1> QED
    BY <1>1, <1>2, <1>3 DEF RowsInv

(* Rows of other scopes may go.                                              *)
LEMMA OthersMayGo ==
    ASSUME NEW R, NEW M, RowsInv(R, M), NEW T \in SUBSET R, \A r \in R : SharesOut(r.key) => r \in T
    PROVE  RowsInv(T, M)
<1>1. ASSUME NEW items, NEW b, NEW day, Tells(R, items, b, day) PROVE Tells(T, items, b, day)
    BY <1>1 DEF Tells
<1> QED
    BY <1>1 DEF RowsInv, KeysApart

LEMMA RankedFacts ==
    ASSUME NEW R, StoredRows(R), NEW M, RowsInv(R, M), NEW policy
    PROVE  RowsInv(Ranked(R, policy), M)
<1> DEFINE scores == LiquidityScores(R, Retired, policy)
           f == [r \in R |-> [r EXCEPT !.score = ScoreIn(r, scores), !.period = Candidate(r, policy.period)]]
           S == Scored(R, scores, policy.period)
           badges == AssignBadges({r \in S : r.scope = "model" /\ r.group \notin Retired})
           g == [r \in S |-> [r EXCEPT !.badges = IF r.id \in DOMAIN badges THEN badges[r.id] ELSE @]]
           T == WithBadges(S, badges)
<1>1. S = {f[r] : r \in R} /\ T = {g[r] : r \in S} /\ Ranked(R, policy) = T
    BY DEF Scored, WithBadges, Ranked, Badged
<1>2. StoredRows(S)
    <2> HIDE DEF scores, S
    <2> QED
        BY ScoredRows DEF S, scores
<1>3. ASSUME NEW r \in R PROVE SameFacts(r, f[r])
    <2>1. DOMAIN r = RowColumns
        BY DEF StoredRows, StoredRow, RowColumns
    <2>2. f[r] = [r EXCEPT !.score = ScoreIn(r, scores), !.period = Candidate(r, policy.period)]
        OBVIOUS
    <2> HIDE DEF f, scores
    <2> QED
        BY <2>1, <2>2 DEF SameFacts, RowColumns
<1> HIDE DEF f, scores, S
<1>4. ASSUME NEW r \in S PROVE SameFacts(r, g[r])
    <2>1. DOMAIN r = RowColumns
        BY <1>2 DEF StoredRows, StoredRow, RowColumns
    <2>2. PICK x : g[r] = [r EXCEPT !.badges = x]
        OBVIOUS
    <2> HIDE DEF g
    <2> QED
        BY <2>1, <2>2 DEF SameFacts, RowColumns
<1> HIDE DEF g, T
<1>5. RowsInv(S, M)
    BY <1>1, <1>3, FactsAreKept
<1> QED
    BY <1>1, <1>4, <1>5, FactsAreKept

(* The type a listing has says nothing else than its group.                  *)
TypesFit == \A i \in Ids : assigned[i] \in Groups => Ads[i].type \in {"none", GroupInfo[assigned[i]].type}
GroupsOf(known, b) == \A g \in known : g \in Groups /\ GroupInfo[g].brand = b

(* The scopes of one listing.                                                *)
LEMMA KeysShare ==
    ASSUME TypesFit, NEW b, NEW known, GroupsOf(known, b), NEW i \in Ids, Ads[i].brand = b
    PROVE  LET key == KeysOf(i, known)
           IN  /\ \A n \in DOMAIN key :
                      /\ BrandOf(key[n]) = b /\ key[n][1] \in ScopeKinds
                      /\ key[n][1] = "model" => key[n] = <<"model", key[n][2]>>
                      /\ NoModelKey(key[n]) =>
                             3 \in DOMAIN key /\ key[3] = <<"type", b, GroupInfo[key[n][2]].type>>
               /\ \A m, n \in DOMAIN key :
                      SharesOut(key[m]) /\ SharesOut(key[n]) /\ key[m][1] = key[n][1] => key[m] = key[n]
<1> DEFINE g == assigned[i]
           parent == IF g \in known THEN GroupInfo[g].parent ELSE None
           type == IF Ads[i].type = "none" /\ g \in known THEN GroupInfo[g].type ELSE Ads[i].type
           has == <<g \in known, parent \in known, type # "none", type # Review>>
           all == <<<<"model", g>>, <<"model", parent>>, <<"type", Ads[i].brand, type>>,
                    <<"brand", Ads[i].brand>>>>
           key == KeysOf(i, known)
<1>1. key = [m \in {k \in 1..4 : has[k]} |-> all[m]]
    BY DEF KeysOf
<1>2. /\ DOMAIN key = {k \in 1..4 : has[k]}
      /\ 1 \in DOMAIN key <=> g \in known
      /\ 2 \in DOMAIN key <=> parent \in known
      /\ 3 \in DOMAIN key <=> type # "none"
      /\ 1 \in DOMAIN key => key[1] = <<"model", g>>
      /\ 2 \in DOMAIN key => key[2] = <<"model", parent>>
      /\ 3 \in DOMAIN key => key[3] = <<"type", b, type>>
      /\ 4 \in DOMAIN key => key[4] = <<"brand", b>>
    <2>1. DOMAIN key = {k \in 1..4 : has[k]} /\ \A k \in DOMAIN key : key[k] = all[k]
        <3> HIDE DEF has, all, key
        <3> QED
            BY <1>1
    <2>2. has[1] <=> g \in known
        <3> HIDE DEF g, parent, type
        <3> QED
            OBVIOUS
    <2>3. has[2] <=> parent \in known
        <3> HIDE DEF g, parent, type
        <3> QED
            OBVIOUS
    <2>4. has[3] <=> type # "none"
        <3> HIDE DEF g, parent, type
        <3> QED
            OBVIOUS
    <2>5. /\ all[1] = <<"model", g>> /\ all[2] = <<"model", parent>>
          /\ all[3] = <<"type", b, type>> /\ all[4] = <<"brand", b>>
        <3> HIDE DEF g, parent, type
        <3> QED
            OBVIOUS
    <2> HIDE DEF g, parent, type, has, all, key
    <2> QED
        BY <2>1, <2>2, <2>3, <2>4, <2>5
<1>3. \A n \in DOMAIN key : n = 1 \/ n = 2 \/ n = 3 \/ n = 4
    BY <1>2
<1>4. None \notin known /\ \A h \in known : h \in Groups /\ GroupInfo[h].brand = b
    BY GroupsAssumption DEF GroupsOf
<1>5. parent \in known => g \in known /\ parent = GroupInfo[g].parent
    BY <1>4
<1>6. g \in known /\ GroupInfo[g].kind = "none" => type = GroupInfo[g].type /\ type # "none"
    BY <1>4, GroupsAssumption DEF TypesFit
<1>7. parent \in known => GroupInfo[parent].kind # "none"
    BY <1>4, <1>5, GroupsAssumption
<1> HIDE DEF g, parent, type, has, all, key
<1>8. ASSUME NEW n \in DOMAIN key
      PROVE  /\ BrandOf(key[n]) = b /\ key[n][1] \in ScopeKinds
             /\ key[n][1] = "model" => key[n] = <<"model", key[n][2]>>
             /\ SharesOut(key[n]) => n = 1 \/ n = 3
             /\ n = 3 => key[n][1] = "type"
             /\ n = 1 => key[n][1] = "model"
             /\ NoModelKey(key[n]) => 3 \in DOMAIN key /\ key[3] = <<"type", b, GroupInfo[key[n][2]].type>>
    <2>1. CASE n = 1
        BY <1>2, <1>4, <1>6, <2>1 DEF BrandOf, ScopeKinds, NoModelKey, SharesOut
    <2>2. CASE n = 2
        BY <1>2, <1>4, <1>7, <2>2 DEF BrandOf, ScopeKinds, NoModelKey, SharesOut
    <2>3. CASE n = 3
        BY <1>2, <2>3 DEF BrandOf, ScopeKinds, NoModelKey, SharesOut
    <2>4. CASE n = 4
        BY <1>2, <2>4 DEF BrandOf, ScopeKinds, NoModelKey, SharesOut
    <2> QED
        BY <1>3, <2>1, <2>2, <2>3, <2>4
<1>9. ASSUME NEW m \in DOMAIN key, NEW n \in DOMAIN key,
             SharesOut(key[m]), SharesOut(key[n]), key[m][1] = key[n][1]
      PROVE  key[m] = key[n]
    <2>1. m = 1 \/ m = 3
        BY <1>8, <1>9
    <2>2. n = 1 \/ n = 3
        BY <1>8, <1>9
    <2>3. "model" # "type"
        OBVIOUS
    <2> QED
        BY <1>8, <1>9, <2>1, <2>2, <2>3
<1>10. \A n \in DOMAIN key :
          /\ BrandOf(key[n]) = b /\ key[n][1] \in ScopeKinds
          /\ key[n][1] = "model" => key[n] = <<"model", key[n][2]>>
          /\ NoModelKey(key[n]) => 3 \in DOMAIN key /\ key[3] = <<"type", b, GroupInfo[key[n][2]].type>>
    BY <1>8
<1> QED
    BY <1>9, <1>10 DEF key

LEMMA ItemsOfBrand ==
    ASSUME NEW b, NEW day, NEW i \in Items(RowsOf(b), day)
    PROVE  i.id \in Ids /\ Ads[i.id].brand = b
<1>1. \A l \in RowsOf(b) : l.id \in Ids /\ Ads[l.id].brand = b
    BY DEF RowsOf, Row
<1>2. PICK l \in RowsOf(b) : i.id = l.id
    BY DEF Items, ItemOf
<1> QED
    BY <1>1, <1>2

(* What one read finds.                                                      *)
LEMMA ScopedShares ==
    ASSUME TypesFit, NEW b, NEW day, NEW known, GroupsOf(known, b)
    PROVE  ScopesOf(Scoped(b, day, known).items, b)
<1> DEFINE all == Items(RowsOf(b), day)
           K(i) == KeysOf(i.id, known)
           named == {c \in all \X (1..4) : c[2] \in DOMAIN KeysOf(c[1].id, known)}
           key(c) == KeysOf(c[1].id, known)[c[2]]
           of(k) == {c \in named : key(c) = k}
           keys == {key(c) : c \in named}
           items == Scoped(b, day, known).items
<1>1. items = [k \in keys |-> {c[1] : c \in of(k)}]
    BY DEF Scoped
<1>2. \A i \in all : \A n \in DOMAIN K(i) : <<i, n>> \in named /\ key(<<i, n>>) = K(i)[n]
    BY KeysAreScopes
<1>3. \A c \in named : c[1] \in all /\ c[2] \in DOMAIN K(c[1]) /\ key(c) = K(c[1])[c[2]]
    OBVIOUS
<1>4. \A i \in all : i.id \in Ids /\ Ads[i.id].brand = b
    BY ItemsOfBrand
<1>5. DOMAIN items = keys /\ \A k \in keys : items[k] = {c[1] : c \in of(k)}
    BY <1>1
<1> HIDE DEF items, all
<1>6. \A k \in keys : \A i : i \in items[k] <=> i \in all /\ \E n \in DOMAIN K(i) : K(i)[n] = k
    <2> SUFFICES ASSUME NEW k \in keys, NEW i PROVE i \in items[k] <=> i \in all /\ \E n \in DOMAIN K(i) : K(i)[n] = k
        OBVIOUS
    <2>1. ASSUME i \in items[k] PROVE i \in all /\ \E n \in DOMAIN K(i) : K(i)[n] = k
        <3>1. PICK c \in of(k) : i = c[1]
            BY <1>5, <2>1
        <3> QED
            BY <1>3, <3>1
    <2>2. ASSUME i \in all, NEW n \in DOMAIN K(i), K(i)[n] = k PROVE i \in items[k]
        <3>1. <<i, n>> \in of(k)
            BY <1>2, <2>2
        <3>2. \A c \in of(k) : c[1] \in items[k]
            BY <1>5
        <3>3. <<i, n>>[1] \in items[k]
            BY <3>1, <3>2
        <3> QED
            BY <3>3
    <2> QED
        BY <2>1, <2>2
<1>7. \A k \in keys : \E i \in all : \E n \in DOMAIN K(i) : K(i)[n] = k
    BY <1>3
<1>8. \A i \in all : \A n \in DOMAIN K(i) : K(i)[n] \in keys
    BY <1>2
<1>9. \A k \in keys : IsFiniteSet(items[k])
    BY <1>5, ScopedItems DEF items
<1> HIDE DEF named, key, of, keys, K
<1>10. \A i \in all :
        /\ \A n \in DOMAIN K(i) :
              /\ BrandOf(K(i)[n]) = b /\ K(i)[n][1] \in ScopeKinds
              /\ K(i)[n][1] = "model" => K(i)[n] = <<"model", K(i)[n][2]>>
              /\ NoModelKey(K(i)[n]) =>
                    3 \in DOMAIN K(i) /\ K(i)[3] = <<"type", b, GroupInfo[K(i)[n][2]].type>>
        /\ \A m, n \in DOMAIN K(i) :
              SharesOut(K(i)[m]) /\ SharesOut(K(i)[n]) /\ K(i)[m][1] = K(i)[n][1] => K(i)[m] = K(i)[n]
    <2> SUFFICES ASSUME NEW i \in all
                 PROVE  /\ \A n \in DOMAIN K(i) :
                              /\ BrandOf(K(i)[n]) = b /\ K(i)[n][1] \in ScopeKinds
                              /\ K(i)[n][1] = "model" => K(i)[n] = <<"model", K(i)[n][2]>>
                              /\ NoModelKey(K(i)[n]) =>
                                    3 \in DOMAIN K(i) /\ K(i)[3] = <<"type", b, GroupInfo[K(i)[n][2]].type>>
                        /\ \A m, n \in DOMAIN K(i) :
                              SharesOut(K(i)[m]) /\ SharesOut(K(i)[n]) /\ K(i)[m][1] = K(i)[n][1]
                                  => K(i)[m] = K(i)[n]
        OBVIOUS
    <2>1. i.id \in Ids /\ Ads[i.id].brand = b
        BY <1>4
    <2> QED
        BY <2>1, KeysShare DEF K
<1>11. ASSUME NEW k \in DOMAIN items
       PROVE  /\ BrandOf(k) = b /\ k[1] \in ScopeKinds /\ (k[1] = "model" => k = <<"model", k[2]>>)
              /\ IsFiniteSet(items[k]) /\ items[k] # {}
              /\ \A i \in items[k] : i.id \in Ids /\ Ads[i.id].brand = b
    <2>1. PICK i \in all : \E n \in DOMAIN K(i) : K(i)[n] = k
        BY <1>5, <1>7
    <2>2. BrandOf(k) = b /\ k[1] \in ScopeKinds /\ (k[1] = "model" => k = <<"model", k[2]>>)
        BY <1>10, <2>1
    <2>3. i \in items[k]
        BY <1>5, <1>6, <2>1
    <2>4. \A j \in items[k] : j \in all
        BY <1>5, <1>6
    <2> QED
        BY <1>4, <1>5, <1>9, <2>2, <2>3, <2>4
<1>12. ASSUME NEW j \in DOMAIN items, NEW k \in DOMAIN items, SharesOut(j), SharesOut(k), j[1] = k[1], j # k
       PROVE  items[j] \cap items[k] = {}
    <2> SUFFICES ASSUME NEW i \in items[j], i \in items[k] PROVE FALSE
        OBVIOUS
    <2>1. PICK m \in DOMAIN K(i) : K(i)[m] = j
        BY <1>5, <1>6
    <2>2. PICK n \in DOMAIN K(i) : K(i)[n] = k
        BY <1>5, <1>6
    <2>3. i \in all
        BY <1>5, <1>6
    <2> QED
        BY <1>10, <1>12, <2>1, <2>2, <2>3
<1>13. ASSUME NEW k \in DOMAIN items, NoModelKey(k)
       PROVE  LET type == <<"type", b, GroupInfo[k[2]].type>>
              IN  type \in DOMAIN items /\ items[k] \subseteq items[type]
    <2> DEFINE type == <<"type", b, GroupInfo[k[2]].type>>
    <2>1. ASSUME NEW i \in items[k] PROVE i \in all /\ 3 \in DOMAIN K(i) /\ K(i)[3] = type
        <3>1. i \in all
            BY <1>5, <1>6
        <3>2. PICK n \in DOMAIN K(i) : K(i)[n] = k
            BY <1>5, <1>6
        <3> QED
            BY <1>10, <1>13, <3>1, <3>2
    <2> HIDE DEF type
    <2>2. \E i \in items[k] : TRUE
        BY <1>11
    <2>3. type \in DOMAIN items
        BY <1>5, <1>8, <2>1, <2>2
    <2>4. \A i \in items[k] : i \in items[type]
        BY <1>5, <1>6, <2>1, <2>3
    <2> QED
        BY <2>3, <2>4 DEF type
<1>14. ScopesOf(items, b)
    BY <1>11, <1>12, <1>13 DEF ScopesOf
<1> QED
    BY <1>14 DEF items

(* The scopes in their order are all of them, each once.                     *)
LEMMA OpenOnce ==
    ASSUME NEW S, IsFiniteSet(S), NEW turn, \A k \in S : turn[k] \in Int, \A j, k \in S : turn[j] = turn[k] => j = k
    PROVE  LET order == InTurn(S, turn)
           IN  /\ DOMAIN order = 1..Cardinality(S) /\ \A k \in DOMAIN order : order[k] \in S
               /\ \A j, k \in DOMAIN order : order[j] = order[k] => j = k
               /\ \A x \in S : \E k \in DOMAIN order : order[k] = x
<1> DEFINE t == [k \in S |-> turn[k]]
           order == InTurn(S, turn)
           place(x) == Cardinality(Before(S, t, x))
<1>1. t \in [S -> Int] /\ \A j, k \in S : t[j] = t[k] => j = k
    OBVIOUS
<1>2. \A x \in S : Before(S, t, x) = {y \in S : turn[y] < turn[x]}
    BY DEF Before
<1>3. \A k \in 1..Cardinality(S) : order[k] = CHOOSE x \in S : Cardinality({y \in S : turn[y] < turn[x]}) = k - 1
    BY DEF InTurn, Arranged
<1>4. DOMAIN order = 1..Cardinality(S)
    BY OpenScopes
<1> HIDE DEF t, order
<1>5. \A k \in 1..Cardinality(S) : \E x \in S : place(x) = k - 1
    BY <1>1, TurnPlaces
<1>6. \A k \in 1..Cardinality(S) : order[k] \in S /\ place(order[k]) = k - 1
    <2> SUFFICES ASSUME NEW k \in 1..Cardinality(S) PROVE order[k] \in S /\ place(order[k]) = k - 1
        OBVIOUS
    <2> DEFINE P(x) == Cardinality({y \in S : turn[y] < turn[x]}) = k - 1
    <2>1. \E x \in S : P(x)
        BY <1>2, <1>5
    <2>2. order[k] = CHOOSE x \in S : P(x)
        BY <1>3
    <2> HIDE DEF P
    <2>3. order[k] \in S /\ P(order[k])
        BY <2>1, <2>2
    <2> QED
        BY <1>2, <2>3 DEF P
<1>7. \A x, y \in S : place(x) = place(y) => x = y
    <2> SUFFICES ASSUME NEW x \in S, NEW y \in S, place(x) = place(y), x # y PROVE FALSE
        OBVIOUS
    <2>1. t[x] \in Int /\ t[y] \in Int /\ t[x] # t[y]
        BY <1>1
    <2>2. t[x] < t[y] \/ t[y] < t[x]
        BY <2>1
    <2>3. place(x) \in Int /\ place(y) \in Int /\ (place(x) < place(y) \/ place(y) < place(x))
        <3>1. CASE t[x] < t[y]
            <4>1. place(x) < place(y) /\ place(x) \in 0..(Cardinality(S) - 1)
                BY <1>1, <3>1, BeforeLess
            <4> QED
                BY <4>1
        <3>2. CASE t[y] < t[x]
            <4>1. place(y) < place(x) /\ place(y) \in 0..(Cardinality(S) - 1)
                BY <1>1, <3>2, BeforeLess
            <4> QED
                BY <4>1
        <3> QED
            BY <2>2, <3>1, <3>2
    <2> HIDE DEF place
    <2> QED
        BY <2>3
<1>8. Cardinality(S) \in Nat
    BY FS_CardinalityType
<1>9. \A x \in S : place(x) \in 0..(Cardinality(S) - 1)
    <2> SUFFICES ASSUME NEW x \in S PROVE place(x) \in 0..(Cardinality(S) - 1)
        OBVIOUS
    <2> DEFINE B == Before(S, t, x)
    <2>1. B \in SUBSET S /\ x \in S /\ x \notin B
        BY <1>1 DEF Before
    <2> HIDE DEF B
    <2>2. IsFiniteSet(B) /\ Cardinality(B) <= Cardinality(S) /\ Cardinality(B) # Cardinality(S)
        BY <2>1, FS_Subset
    <2>3. Cardinality(B) \in Nat
        BY <2>2, FS_CardinalityType
    <2>4. Cardinality(B) \in 0..(Cardinality(S) - 1)
        BY <1>8, <2>2, <2>3
    <2> QED
        BY <2>4 DEF B
<1> HIDE DEF place
<1>10. \A j, k \in 1..Cardinality(S) : order[j] = order[k] => j = k
    <2> SUFFICES ASSUME NEW j \in 1..Cardinality(S), NEW k \in 1..Cardinality(S), order[j] = order[k] PROVE j = k
        OBVIOUS
    <2>1. j - 1 = k - 1
        BY <1>6
    <2> QED
        BY <1>8, <2>1
<1>11. \A x \in S : \E k \in 1..Cardinality(S) : order[k] = x
    <2> SUFFICES ASSUME NEW x \in S PROVE \E k \in 1..Cardinality(S) : order[k] = x
        OBVIOUS
    <2>1. place(x) + 1 \in 1..Cardinality(S) /\ (place(x) + 1) - 1 = place(x)
        BY <1>8, <1>9
    <2>2. order[place(x) + 1] = x
        BY <1>6, <1>7, <2>1
    <2> QED
        BY <2>1, <2>2
<1> QED
    BY <1>4, <1>6, <1>10, <1>11 DEF order

(* What a recompute is about to write of a brand.                            *)
Shares(values, b, retired) ==
    \E items, day :
        /\ ScopesOf(items, b) /\ values.months = MonthsOf(items, day)
        /\ \A m, n \in DOMAIN values.rows : values.rows[m].key = values.rows[n].key => m = n
        /\ \A n \in DOMAIN values.rows :
               LET r == values.rows[n]
               IN  /\ r.key \in DOMAIN items /\ r.m = Counters(items[r.key], day)
                   /\ r.brand = b /\ Placed(r)
                   /\ r.key[1] = "model" => r.key[2] \notin retired
        /\ \A k \in DOMAIN items : SharesOut(k) => \E n \in DOMAIN values.rows : values.rows[n].key = k

LEMMA LastRankingFacts ==
    ASSUME NEW b, NEW row, DOMAIN row = RowColumns
    PROVE  SameFacts(row, WithLastRanking(b, row))
<1> DEFINE last == {r \in rows : r.brand = b /\ r.key = row.key}
           r == CHOOSE r \in last : TRUE
           new == [row EXCEPT !.p30 = r.p30, !.score = r.score, !.badges = r.badges]
<1>1. WithLastRanking(b, row) = IF last = {} THEN row ELSE new
    BY DEF WithLastRanking
<1> HIDE DEF last, r
<1>2. SameFacts(row, new)
    BY DEF SameFacts, RowColumns
<1> QED
    BY <1>1, <1>2 DEF SameFacts

LEMMA BrandShares ==
    ASSUME TypesFit, NEW b, NEW day, NEW known, GroupsOf(known, b),
           NEW retired, \A g \in retired : GroupInfo[g].kind # "none"
    PROVE  Shares(BrandValues(Scoped(b, day, known), {<<"model", g>> : g \in retired}, b, day), b, retired)
<1> DEFINE scopes == Scoped(b, day, known)
           items == scopes.items
           frozen == {<<"model", g>> : g \in retired}
           open == DOMAIN items \ frozen
           turn == scopes.turn
           order == InTurn(open, turn)
           new == ScopeRows(scopes, frozen, b, day)
           carried == Carried(b, new)
           values == BrandValues(scopes, frozen, b, day)
<1>1. ScopesOf(items, b)
    BY ScopedShares
<1>2. values.rows = carried /\ values.months = MonthsOf(items, day)
    BY DEF BrandValues, MonthsOf
<1>3. /\ \A k \in DOMAIN order : order[k] \in open
      /\ \A j, k \in DOMAIN order : order[j] = order[k] => j = k
      /\ \A x \in open : \E k \in DOMAIN order : order[k] = x
    <2>1. IsFiniteSet(open)
        BY ScopedItems, FS_Difference
    <2>2. \A k \in open : turn[k] \in Int
        BY ScopedItems
    <2>3. \A j, k \in open : turn[j] = turn[k] => j = k
        BY ScopedItems
    <2> HIDE DEF open, turn
    <2> QED
        BY <2>1, <2>2, <2>3, OpenOnce
<1>4. DOMAIN new = DOMAIN order /\ \A n \in DOMAIN order : new[n] = MetricRow(order[n], b, items[order[n]], day)
    BY DEF ScopeRows, InTurn
<1>5. \A n \in DOMAIN new : carried[n] = WithLastRanking(b, new[n])
    BY DEF Carried
<1>6. DOMAIN carried = DOMAIN new
    BY DEF Carried
<1> HIDE DEF scopes, turn, order, new, carried, values
<1>7. ASSUME NEW n \in DOMAIN carried
      PROVE  /\ carried[n].key = order[n] /\ carried[n].brand = b
             /\ carried[n].group = ScopeInfo(order[n]).group /\ carried[n].m = Counters(items[order[n]], day)
    <2> DEFINE row == MetricRow(order[n], b, items[order[n]], day)
    <2>1. /\ DOMAIN row = RowColumns /\ row.key = order[n] /\ row.brand = b
          /\ row.group = ScopeInfo(order[n]).group /\ row.m = Counters(items[order[n]], day)
        BY DEF MetricRow, RowColumns
    <2> HIDE DEF row
    <2>2. new[n] = row /\ carried[n] = WithLastRanking(b, row)
        BY <1>4, <1>5, <1>6 DEF row
    <2>3. SameFacts(row, carried[n])
        BY <2>1, <2>2, LastRankingFacts
    <2> QED
        BY <2>1, <2>3 DEF SameFacts
<1>8. \A k \in DOMAIN items : BrandOf(k) = b /\ (k[1] = "model" => k = <<"model", k[2]>>)
    BY <1>1 DEF ScopesOf
<1>9. \A m, n \in DOMAIN carried : carried[m].key = carried[n].key => m = n
    BY <1>3, <1>4, <1>6, <1>7
<1>10. ASSUME NEW n \in DOMAIN carried
       PROVE  LET r == carried[n]
              IN  /\ r.key \in DOMAIN items /\ r.m = Counters(items[r.key], day)
                  /\ r.brand = b /\ Placed(r)
                  /\ r.key[1] = "model" => r.key[2] \notin retired
    <2>1. order[n] \in open
        BY <1>3, <1>4, <1>6
    <2>2. order[n][1] = "model" => order[n][2] \notin retired
        <3> SUFFICES ASSUME order[n][1] = "model", order[n][2] \in retired PROVE FALSE
            OBVIOUS
        <3>1. order[n] = <<"model", order[n][2]>>
            BY <1>8, <2>1
        <3>2. <<"model", order[n][2]>> \in frozen
            OBVIOUS
        <3> QED
            BY <2>1, <3>1, <3>2
    <2> QED
        BY <1>7, <1>8, <2>1, <2>2 DEF Placed
<1>11. ASSUME NEW k \in DOMAIN items, SharesOut(k) PROVE \E n \in DOMAIN carried : carried[n].key = k
    <2>1. k \notin frozen
        <3> SUFFICES ASSUME NEW g \in retired, k = <<"model", g>> PROVE FALSE
            OBVIOUS
        <3>1. k[1] = "model" /\ k[2] = g /\ "model" # "type"
            OBVIOUS
        <3>2. GroupInfo[g].kind = "none"
            BY <1>11, <3>1 DEF SharesOut, NoModelKey
        <3> QED
            BY <3>2
    <2>2. PICK n \in DOMAIN order : order[n] = k
        BY <1>3, <2>1
    <2> QED
        BY <1>4, <1>6, <1>7, <2>2
<1> HIDE DEF items, frozen, open
<1>12. Shares(values, b, retired)
    BY <1>1, <1>2, <1>9, <1>10, <1>11 DEF Shares
<1> QED
    BY <1>12 DEF values, scopes, frozen

(* What a recompute holds, and what the tables and groups are.               *)
PassShares(q) ==
    /\ \A g \in q.retired : g \in Groups /\ GroupInfo[g].kind # "none"
    /\ q.at = "listings" => GroupsOf(q.groups, Head(q.todo))
    /\ q.at = "write" => Shares(q.values, Head(q.todo), q.retired)

NoModelStays == \A g \in Groups : GroupInfo[g].kind = "none" => groups[g] # "retired"

SharesInv ==
    /\ RowsInv(rows, monthly) /\ DOMAIN monthly = {Ads[i].brand : i \in Ids}
    /\ TypesFit /\ DOMAIN assigned = Ids /\ NoModelStays
    /\ \A p \in Passes : PassShares(pass[p])

LEMMA PassGoesOn ==
    ASSUME RankingInv, SharesInv, NEW p \in Passes, NEW q, PassShares(q), pass' = [pass EXCEPT ![p] = q],
           RowsInv(rows', monthly'), DOMAIN monthly' = DOMAIN monthly,
           TypesFit', DOMAIN assigned' = Ids, NoModelStays'
    PROVE  SharesInv'
<1>1. DOMAIN pass = Passes
    BY DEF RankingInv
<1>2. \A r \in Passes : PassShares(pass'[r])
    BY <1>1 DEF SharesInv
<1>3. \A r \in Passes : PassShares(pass[r])'
    BY <1>2 DEF PassShares, Shares, GroupsOf
<1> QED
    BY <1>3 DEF SharesInv

LEMMA IdleShares == PassShares(Idle)
BY DEF PassShares, Idle

(* The delete and the insert of a brand.                                     *)
LEMMA BrandIsReplaced ==
    ASSUME RowsInv(rows, monthly), NEW p \in Passes, PassShares(pass[p]),
           NEW b, b = Head(pass[p].todo), NEW values, NewRows(values.rows), Shares(values, b, pass[p].retired),
           NEW M, DOMAIN M = DOMAIN monthly, \A c \in DOMAIN M : M[c] = IF c = b THEN values.months ELSE monthly[c]
    PROVE  RowsInv(KeptRows(p) \cup Table(values.rows, LastId(KeptRows(p))), M)
<1> DEFINE kept == KeptRows(p)
           last == LastId(kept)
           new == Table(values.rows, last)
           retired == pass[p].retired
           T == kept \cup new
<1>1. \A r : r \in kept <=> r \in rows /\ (r.brand # b \/ r.group \in retired)
    BY DEF KeptRows
<1>2. PICK items, day :
        /\ ScopesOf(items, b) /\ values.months = MonthsOf(items, day)
        /\ \A m, n \in DOMAIN values.rows : values.rows[m].key = values.rows[n].key => m = n
        /\ \A n \in DOMAIN values.rows :
               LET r == values.rows[n]
               IN  /\ r.key \in DOMAIN items /\ r.m = Counters(items[r.key], day)
                   /\ r.brand = b /\ Placed(r)
                   /\ r.key[1] = "model" => r.key[2] \notin retired
        /\ \A k \in DOMAIN items : SharesOut(k) => \E n \in DOMAIN values.rows : values.rows[n].key = k
    BY DEF Shares
<1>3. ASSUME NEW n \in DOMAIN values.rows
      PROVE  SameFacts(values.rows[n], [values.rows[n] EXCEPT !.id = last + n])
    <2>1. DOMAIN values.rows[n] = RowColumns
        BY DEF NewRows, StoredRow, RowColumns
    <2> HIDE DEF last
    <2> QED
        BY <2>1 DEF SameFacts, RowColumns
<1> DEFINE f == [n \in DOMAIN values.rows |-> [values.rows[n] EXCEPT !.id = last + n]]
<1>4. new = {f[n] : n \in DOMAIN values.rows} /\ \A n \in DOMAIN values.rows : SameFacts(values.rows[n], f[n])
    BY <1>3 DEF Table
<1>5. \A g \in retired : g \in Groups /\ GroupInfo[g].kind # "none" /\ g # None
    BY GroupsAssumption DEF PassShares
<1>6. ASSUME NEW r \in kept, r.brand = b
      PROVE  r.group \in retired /\ r.key[1] = "model" /\ r.key[2] = r.group /\ ~ SharesOut(r.key)
    <2>1. r.group \in retired /\ r.group = ScopeInfo(r.key).group /\ r.group # None
        BY <1>1, <1>5, <1>6 DEF RowsInv, Placed
    <2>2. r.key[1] = "model" /\ r.key[2] = r.group
        BY <2>1 DEF ScopeInfo
    <2> QED
        BY <1>5, <2>1, <2>2 DEF SharesOut, NoModelKey
<1> HIDE DEF kept, new, last, retired, f
<1>7. ASSUME NEW r \in kept, NEW s \in new PROVE r.key # s.key
    <2>1. PICK n \in DOMAIN values.rows : SameFacts(values.rows[n], s)
        BY <1>4
    <2>2. s.brand = b /\ s.brand = BrandOf(s.key) /\ (s.key[1] = "model" => s.key[2] \notin retired)
        BY <1>2, <2>1 DEF SameFacts, Placed
    <2>3. r.brand = BrandOf(r.key)
        BY <1>1 DEF RowsInv, Placed
    <2> QED
        BY <1>6, <2>2, <2>3
<1>8. KeysApart(T)
    <2>1. \A r, s \in kept : r.key = s.key => r = s
        BY <1>1 DEF RowsInv, KeysApart
    <2>2. \A r, s \in new : r.key = s.key => r = s
        BY <1>2, <1>4 DEF SameFacts
    <2> QED
        BY <1>7, <2>1, <2>2 DEF KeysApart
<1>9. \A r \in T : Placed(r)
    <2>1. \A r \in kept : Placed(r)
        BY <1>1 DEF RowsInv
    <2>2. \A r \in new : Placed(r)
        BY <1>2, <1>4 DEF SameFacts, Placed
    <2> QED
        BY <2>1, <2>2
<1>10. \A s \in new : s.brand = b /\ s.key \in DOMAIN items /\ s.m = Counters(items[s.key], day)
    BY <1>2, <1>4 DEF SameFacts
<1>11. Tells(T, items, b, day)
    <2>1. ASSUME NEW r \in T, r.brand = b, SharesOut(r.key)
          PROVE  r.key \in DOMAIN items /\ r.m = Counters(items[r.key], day)
        BY <1>6, <1>10, <2>1
    <2>2. ASSUME NEW k \in DOMAIN items, SharesOut(k) PROVE \E r \in T : r.key = k /\ r.brand = b
        BY <1>2, <1>4, <1>10, <2>2 DEF SameFacts
    <2> QED
        BY <2>1, <2>2 DEF Tells
<1>12. ASSUME NEW c
       PROVE  \E is, d : ScopesOf(is, c) /\ Tells(T, is, c, d) /\ (c \in DOMAIN M => M[c] = MonthsOf(is, d))
    <2>1. CASE c = b
        BY <1>2, <1>11, <2>1
    <2>2. CASE c # b
        <3>1. PICK is, d : ScopesOf(is, c) /\ Tells(rows, is, c, d) /\ (c \in DOMAIN monthly => monthly[c] = MonthsOf(is, d))
            BY DEF RowsInv
        <3>2. Tells(T, is, c, d)
            <4>1. ASSUME NEW r \in T, r.brand = c, SharesOut(r.key)
                  PROVE  r.key \in DOMAIN is /\ r.m = Counters(is[r.key], d)
                BY <1>1, <1>10, <2>2, <3>1, <4>1 DEF Tells
            <4>2. ASSUME NEW k \in DOMAIN is, SharesOut(k) PROVE \E r \in T : r.key = k /\ r.brand = c
                BY <1>1, <2>2, <3>1, <4>2 DEF Tells
            <4> QED
                BY <4>1, <4>2 DEF Tells
        <3> QED
            BY <2>2, <3>1, <3>2
    <2> QED
        BY <2>1, <2>2
<1>13. RowsInv(T, M)
    BY <1>8, <1>9, <1>12 DEF RowsInv
<1> QED
    BY <1>13 DEF kept, new, last

LEMMA WriteBrandShares ==
    ASSUME RankingInv, SharesInv, NEW p \in Passes, WriteBrand(p)
    PROVE  SharesInv'
<1> DEFINE b == Head(pass[p].todo)
           values == pass[p].values
           kept == KeptRows(p)
           table == kept \cup Table(values.rows, LastId(kept))
           used == {r.id : r \in table} \cup UNION {HeldIds(q) : q \in Passes \ {p}}
           f == [r \in table |-> [r EXCEPT !.id = Cardinality({i \in used : i <= r.id})]]
<1>1. DOMAIN pass = Passes /\ StoredRows(rows) /\ \A q \in Passes : PassInv(pass[q])
    BY DEF RankingInv
<1>2. PassShares(pass[p]) /\ NewRows(values.rows) /\ Shares(values, b, pass[p].retired)
    BY <1>1 DEF SharesInv, PassShares, PassInv, WriteBrand
<1>3. monthly' = [monthly EXCEPT ![b] = values.months]
    BY DEF WriteBrand
<1>4. /\ DOMAIN monthly' = DOMAIN monthly
      /\ \A c \in DOMAIN monthly' : monthly'[c] = IF c = b THEN values.months ELSE monthly[c]
    BY <1>3
<1>5. RowsInv(table, monthly')
    <2> HIDE DEF b, values
    <2>1. RowsInv(rows, monthly) /\ b = Head(pass[p].todo)
        BY DEF SharesInv, b
    <2> QED
        BY <1>2, <1>4, <2>1, BrandIsReplaced
<1>6. StoredRows(table)
    <2>1. kept \in SUBSET rows
        BY DEF KeptRows
    <2> HIDE DEF kept, values
    <2>2. StoredRows(kept)
        BY <1>1, <2>1, FS_Subset DEF StoredRows
    <2> QED
        BY <1>2, <2>2, BrandTable
<1>7. /\ rows' = Numbered(table, used)
      /\ \E rest : pass' = [q \in Passes |->
            IF q = p THEN [Idle EXCEPT !.at = IF rest = <<>> THEN "rows" ELSE "groups", !.todo = rest,
                                       !.day = pass[p].day, !.full = pass[p].full]
            ELSE IF pass[q].at = "rank" THEN [pass[q] EXCEPT !.values = Numbered(@, used)] ELSE pass[q]]
    BY DEF WriteBrand, Renumbered, Numbered, Table
<1>8. UNCHANGED <<groups, assigned>>
    BY DEF WriteBrand
<1>9. rows' = {f[r] : r \in table}
    BY <1>7 DEF Numbered
<1> HIDE DEF table, used
<1>10. ASSUME NEW r \in table PROVE SameFacts(r, f[r])
    <2>1. DOMAIN r = RowColumns
        BY <1>6 DEF StoredRows, StoredRow, RowColumns
    <2>2. PICK x : f[r] = [r EXCEPT !.id = x]
        OBVIOUS
    <2> HIDE DEF f
    <2> QED
        BY <2>1, <2>2 DEF SameFacts, RowColumns
<1> HIDE DEF f
<1>11. RowsInv(rows', monthly')
    BY <1>5, <1>9, <1>10, FactsAreKept
<1>12. ASSUME NEW q \in Passes PROVE PassShares(pass'[q])
    <2>1. CASE q = p
        <3>1. PICK rest : pass'[q] = [Idle EXCEPT !.at = IF rest = <<>> THEN "rows" ELSE "groups", !.todo = rest,
                                       !.day = pass[p].day, !.full = pass[p].full]
            BY <1>7, <2>1
        <3>2. pass'[q].retired = {} /\ pass'[q].at \in {"rows", "groups"}
            BY <3>1 DEF Idle
        <3> QED
            BY <3>2 DEF PassShares
    <2>2. CASE q # p /\ pass[q].at = "rank"
        <3>1. pass'[q] = [pass[q] EXCEPT !.values = Numbered(pass[q].values, used)]
            BY <1>7, <2>2
        <3>2. PassShares(pass[q]) /\ DOMAIN pass[q] = PassFields
            BY <1>1 DEF SharesInv, PassInv
        <3>3. pass'[q].retired = pass[q].retired /\ pass'[q].at = "rank"
            BY <2>2, <3>1, <3>2 DEF PassFields
        <3> QED
            BY <3>2, <3>3 DEF PassShares
    <2>3. CASE q # p /\ pass[q].at # "rank"
        BY <1>7, <2>3 DEF SharesInv
    <2> QED
        BY <2>1, <2>2, <2>3
<1>13. \A q \in Passes : PassShares(pass[q])'
    BY <1>12 DEF PassShares, Shares, GroupsOf
<1>14. TypesFit' /\ DOMAIN assigned' = Ids /\ NoModelStays' /\ DOMAIN monthly' = {Ads[i].brand : i \in Ids}
    BY <1>4, <1>8 DEF SharesInv, TypesFit, NoModelStays
<1> QED
    BY <1>11, <1>13, <1>14 DEF SharesInv

LEMMA ReadsShare ==
    ASSUME RankingInv, SharesInv, NEW p \in Passes, ReadGroups(p) \/ ReadListings(p) \/ ReadRows(p)
    PROVE  SharesInv'
<1>1. DOMAIN pass[p] = PassFields /\ PassShares(pass[p])
    BY DEF RankingInv, PassInv, SharesInv
<1>2. UNCHANGED <<groups, assigned, rows, monthly>>
    BY DEF ReadGroups, ReadListings, ReadRows, tables
<1>3. /\ RowsInv(rows', monthly') /\ DOMAIN monthly' = DOMAIN monthly
      /\ TypesFit' /\ DOMAIN assigned' = Ids /\ NoModelStays'
    BY <1>2 DEF SharesInv, TypesFit, NoModelStays
<1>4. CASE ReadGroups(p)
    <2> DEFINE b == Head(pass[p].todo)
               of(states) == {g \in Groups : GroupInfo[g].brand = b /\ groups[g] \in states}
               known == of({"live", "retired"})
               retired == of({"retired"})
               q == [pass[p] EXCEPT !.at = "listings", !.groups = known, !.retired = retired]
    <2>1. pass' = [pass EXCEPT ![p].at = "listings", ![p].groups = known, ![p].retired = retired]
        BY <1>4 DEF ReadGroups
    <2>2. GroupsOf(known, b) /\ \A g \in retired : g \in Groups /\ GroupInfo[g].kind # "none"
        BY DEF SharesInv, NoModelStays, GroupsOf
    <2> HIDE DEF of, known, retired
    <2>3. pass' = [pass EXCEPT ![p] = q]
        BY <1>1, <2>1 DEF RankingInv
    <2>4. PassShares(q)
        BY <1>1, <2>2 DEF PassShares, PassFields
    <2> HIDE DEF q
    <2> QED
        BY <1>3, <2>3, <2>4, PassGoesOn
<1>5. CASE ReadListings(p)
    <2> DEFINE b == Head(pass[p].todo)
               values == BrandValues(Scoped(b, pass[p].day, pass[p].groups), Frozen(p), b, pass[p].day)
               q == [pass[p] EXCEPT !.at = "write", !.values = values]
    <2>1. pass' = [pass EXCEPT ![p].at = "write", ![p].values = values]
        BY <1>5 DEF ReadListings
    <2>2. Shares(values, b, pass[p].retired)
        <3>1. TypesFit /\ GroupsOf(pass[p].groups, b) /\ \A g \in pass[p].retired : GroupInfo[g].kind # "none"
            BY <1>1, <1>5 DEF SharesInv, PassShares, ReadListings
        <3> HIDE DEF b
        <3> QED
            BY <3>1, BrandShares DEF Frozen
    <2> HIDE DEF values
    <2>3. pass' = [pass EXCEPT ![p] = q]
        BY <1>1, <2>1 DEF RankingInv
    <2>4. PassShares(q)
        BY <1>1, <2>2 DEF PassShares, PassFields
    <2> HIDE DEF q
    <2> QED
        BY <1>3, <2>3, <2>4, PassGoesOn
<1>6. CASE ReadRows(p)
    <2>1. PICK values : pass' = [pass EXCEPT ![p].at = "rank", ![p].values = values]
        BY <1>6 DEF ReadRows
    <2> DEFINE q == [pass[p] EXCEPT !.at = "rank", !.values = values]
    <2>2. pass' = [pass EXCEPT ![p] = q]
        BY <1>1, <2>1 DEF RankingInv
    <2>3. PassShares(q)
        BY <1>1 DEF PassShares, PassFields
    <2> HIDE DEF q
    <2> QED
        BY <1>3, <2>2, <2>3, PassGoesOn
<1> QED
    BY <1>4, <1>5, <1>6

LEMMA WriteRankShares ==
    ASSUME RankingInv, SharesInv, NEW p \in Passes, WriteRank(p)
    PROVE  SharesInv'
<1> DEFINE p30(r) == {v \in pass[p].values : v.id = r.id}
           f == [r \in rows |-> IF p30(r) = {} THEN r ELSE [r EXCEPT !.p30 = (CHOOSE v \in p30(r) : TRUE).p30]]
           smoothed == {f[r] : r \in rows}
           q == [pass[p] EXCEPT !.at = "profiles", !.values = <<>>]
<1>1. DOMAIN pass[p] = PassFields /\ PassShares(pass[p]) /\ StoredRows(rows)
    BY DEF RankingInv, PassInv, SharesInv
<1>2. ASSUME NEW r \in rows PROVE SameFacts(r, f[r]) /\ StoredRow(f[r]) /\ f[r].id = r.id
    <2>1. StoredRow(r) /\ DOMAIN r = RowColumns
        BY <1>1 DEF StoredRows, StoredRow, RowColumns
    <2>2. CASE p30(r) = {}
        BY <2>1, <2>2 DEF SameFacts
    <2>3. CASE p30(r) # {}
        <3>1. PICK x : f[r] = [r EXCEPT !.p30 = x]
            BY <2>3
        <3> HIDE DEF f
        <3>2. /\ DOMAIN f[r] = DOMAIN r /\ f[r].score = r.score /\ f[r].id = r.id
              /\ f[r].key = r.key /\ f[r].scope = r.scope /\ f[r].type = r.type /\ f[r].line = r.line
              /\ f[r].kind = r.kind /\ f[r].m = r.m /\ f[r].brand = r.brand /\ f[r].group = r.group
            BY <2>1, <3>1 DEF RowColumns
        <3>3. r.id \in Int /\ (r.score # None => IsRanked(r, {}))
            BY <2>1 DEF StoredRow
        <3>4. StoredRow(f[r])
            BY <2>1, <3>2, <3>3, RowRewritten
        <3> QED
            BY <3>2, <3>4 DEF SameFacts
    <2> QED
        BY <2>2, <2>3
<1>3. rows' = Ranked(smoothed, EffectivePolicy(saved)) /\ UNCHANGED <<groups, assigned, monthly>>
    BY DEF WriteRank
<1>4. pass' = [pass EXCEPT ![p].at = "profiles", ![p].values = <<>>]
    BY DEF WriteRank
<1> HIDE DEF f
<1>5. StoredRows(smoothed)
    BY <1>1, <1>2, TableRewritten
<1>6. RowsInv(smoothed, monthly)
    <2>1. RowsInv(rows, monthly) /\ \A r \in rows : SameFacts(r, f[r])
        BY <1>2 DEF SharesInv
    <2> QED
        BY <2>1, FactsAreKept
<1> HIDE DEF smoothed
<1>7. RowsInv(rows', monthly')
    BY <1>3, <1>5, <1>6, RankedFacts
<1>8. pass' = [pass EXCEPT ![p] = q]
    BY <1>1, <1>4 DEF RankingInv
<1>9. PassShares(q)
    BY <1>1 DEF PassShares, PassFields
<1>10. DOMAIN monthly' = DOMAIN monthly /\ TypesFit' /\ DOMAIN assigned' = Ids /\ NoModelStays'
    BY <1>3 DEF SharesInv, TypesFit, NoModelStays
<1> HIDE DEF q
<1> QED
    BY <1>7, <1>8, <1>9, <1>10, PassGoesOn

LEMMA SharesStep == RankingInv /\ SharesInv /\ [Next]_vars => SharesInv'
<1> SUFFICES ASSUME RankingInv, SharesInv, [Next]_vars PROVE SharesInv'
    OBVIOUS
<1>1. /\ RowsInv(rows, monthly) /\ StoredRows(rows) /\ DOMAIN pass = Passes
      /\ TypesFit /\ DOMAIN assigned = Ids /\ NoModelStays /\ "run" \in Passes /\ "edit" \in Passes
    BY DEF RankingInv, SharesInv, Passes
<1>2. \A b, p : Begin(p, b) => /\ PassShares([Idle EXCEPT !.at = "groups", !.todo = b, !.day = today])
                               /\ pass' = [pass EXCEPT ![p] = [Idle EXCEPT !.at = "groups", !.todo = b, !.day = today]]
    BY DEF Begin, PassShares, Idle
<1>3. CASE (\E i \in Ids : Sell(i) \/ Withdraw(i)) \/ NextDay \/ UNCHANGED vars
    <2>1. UNCHANGED <<groups, assigned, rows, monthly, pass>>
        BY <1>3 DEF Sell, Withdraw, NextDay, vars, tables
    <2> QED
        BY <2>1 DEF SharesInv, TypesFit, NoModelStays, PassShares, Shares, GroupsOf
<1>4. CASE RunRecompute
    <2>1. /\ assigned' = [i \in Ids |-> IF assigned[i] = None THEN Home[i] ELSE assigned[i]]
          /\ groups' = [g \in Groups |-> IF \E i \in Ids : assigned'[i] = g THEN "live" ELSE groups[g]]
          /\ UNCHANGED <<rows, monthly>> /\ Begin("run", RunBrands)
        BY <1>4 DEF RunRecompute, tables
    <2>2. TypesFit' /\ DOMAIN assigned' = Ids
        BY <1>1, <2>1, GroupsAssumption DEF TypesFit
    <2>3. NoModelStays'
        BY <1>1, <2>1 DEF NoModelStays
    <2> QED
        BY <1>1, <1>2, <2>1, <2>2, <2>3, PassGoesOn
<1>5. ASSUME NEW i \in Ids, NEW g \in Groups, EditRecompute(i, g) PROVE SharesInv'
    <2> DEFINE placed == [assigned EXCEPT ![i] = g]
               taken == {placed[j] : j \in Ids}
               idle == {h \in Groups : /\ GroupInfo[h].brand = Ads[i].brand /\ h \notin taken
                                       /\ GroupInfo[h].kind # "none"}
               state(h) == CASE h \in taken -> "live"
                             [] h \in idle /\ groups[h] = "live" -> "retired" [] OTHER -> groups[h]
    <2>1. PICK expired \in SUBSET {h \in idle \cap Retired : FirstGroups[h] = "retired"} :
            /\ groups' = [h \in Groups |-> IF h \in expired THEN "absent" ELSE state(h)]
            /\ rows' = {r \in rows : r.group \notin expired}
        BY <1>5 DEF EditRecompute
    <2>2. /\ assigned' = placed /\ Begin("edit", <<Ads[i].brand>>) /\ UNCHANGED monthly
          /\ GroupInfo[g].type = Ads[i].type
        BY <1>5 DEF EditRecompute
    <2>3. \A h \in expired : h \in Groups /\ GroupInfo[h].kind # "none" /\ h # None
        BY GroupsAssumption
    <2>4. \A h \in Groups : GroupInfo[h].kind = "none" /\ groups[h] # "retired" => state(h) # "retired"
        OBVIOUS
    <2>5. NoModelStays'
        <3> HIDE DEF state
        <3> QED
            BY <1>1, <2>1, <2>4 DEF NoModelStays
    <2>6. TypesFit' /\ DOMAIN assigned' = Ids
        BY <1>1, <2>2 DEF TypesFit
    <2>7. \A r \in rows : SharesOut(r.key) => r.group \notin expired
        <3> SUFFICES ASSUME NEW r \in rows, SharesOut(r.key), r.group \in expired PROVE FALSE
            OBVIOUS
        <3>1. r.group = ScopeInfo(r.key).group
            BY <1>1 DEF RowsInv, Placed
        <3>2. r.key[1] = "model" /\ r.key[2] = r.group
            BY <2>3, <3>1 DEF ScopeInfo
        <3> QED
            BY <2>3, <3>2 DEF SharesOut, NoModelKey
    <2> HIDE DEF placed, taken, idle, state
    <2>8. RowsInv(rows', monthly')
        <3>1. rows' \in SUBSET rows /\ \A r \in rows : SharesOut(r.key) => r \in rows'
            BY <2>1, <2>7
        <3> QED
            BY <1>1, <2>2, <3>1, OthersMayGo
    <2> QED
        BY <1>1, <1>2, <2>2, <2>5, <2>6, <2>8, PassGoesOn
<1>6. ASSUME NEW policy, SavePolicy(policy) PROVE SharesInv'
    <2>1. UNCHANGED <<groups, assigned, monthly, pass>> /\ rows' = Ranked(rows, EffectivePolicy(policy))
        BY <1>6 DEF SavePolicy
    <2>2. RowsInv(rows', monthly')
        BY <1>1, <2>1, RankedFacts
    <2> QED
        BY <2>1, <2>2 DEF SharesInv, TypesFit, NoModelStays, PassShares, Shares, GroupsOf
<1>7. ASSUME NEW p \in Passes, Recompute(p) \/ Cut(p) PROVE SharesInv'
    <2>1. CASE ReadGroups(p) \/ ReadListings(p) \/ ReadRows(p)
        BY <2>1, ReadsShare
    <2>2. CASE WriteBrand(p)
        BY <2>2, WriteBrandShares
    <2>3. CASE WriteRank(p)
        BY <2>3, WriteRankShares
    <2>4. CASE WriteProfiles(p) \/ Breaks(p) \/ Cut(p)
        <3>1. UNCHANGED <<groups, assigned, rows, monthly>> /\ Stop(p)
            BY <2>4 DEF WriteProfiles, Breaks, Cut, tables
        <3>2. TypesFit' /\ DOMAIN assigned' = Ids /\ NoModelStays' /\ DOMAIN monthly' = DOMAIN monthly
            BY <1>1, <3>1 DEF TypesFit, NoModelStays
        <3> QED
            BY <1>1, <3>1, <3>2, IdleShares, PassGoesOn DEF Stop
    <2> QED
        BY <1>7, <2>1, <2>2, <2>3, <2>4 DEF Recompute
<1> QED
    BY <1>3, <1>4, <1>5, <1>6, <1>7 DEF Next

LEMMA SharesInit == Init => SharesInv
<1> SUFFICES ASSUME Init PROVE SharesInv
    OBVIOUS
<1>1. \A r \in rows : \E g \in Groups : /\ GroupInfo[g].kind # "none" /\ r.group = g
                                        /\ r.key = <<"model", g>> /\ r.brand = GroupInfo[g].brand
    BY FirstRowsAssumption, GroupsAssumption DEF Init
<1>2. \A r \in rows : Placed(r) /\ ~ SharesOut(r.key)
    <2> SUFFICES ASSUME NEW r \in rows PROVE Placed(r) /\ ~ SharesOut(r.key)
        OBVIOUS
    <2>1. PICK g \in Groups : /\ GroupInfo[g].kind # "none" /\ r.group = g
                              /\ r.key = <<"model", g>> /\ r.brand = GroupInfo[g].brand
        BY <1>1
    <2>2. r.key[1] = "model" /\ r.key[2] = g
        BY <2>1
    <2> QED
        BY <2>1, <2>2 DEF Placed, BrandOf, ScopeInfo, SharesOut, NoModelKey
<1>3. \A b : \E items, day : /\ ScopesOf(items, b) /\ Tells(rows, items, b, day)
                             /\ b \in DOMAIN monthly => monthly[b] = MonthsOf(items, day)
    <2> SUFFICES ASSUME NEW b
                 PROVE  LET items == [k \in {} |-> {}]
                        IN  /\ ScopesOf(items, b) /\ Tells(rows, items, b, 0)
                            /\ b \in DOMAIN monthly => monthly[b] = MonthsOf(items, 0)
        OBVIOUS
    <2> DEFINE items == [k \in {} |-> {}]
    <2>1. DOMAIN items = {}
        OBVIOUS
    <2>2. b \in DOMAIN monthly => monthly[b] = {}
        BY DEF Init
    <2> HIDE DEF items
    <2>3. ScopesOf(items, b) /\ Tells(rows, items, b, 0) /\ MonthsOf(items, 0) = {}
        BY <1>2, <2>1 DEF ScopesOf, Tells, MonthsOf
    <2> QED
        BY <2>2, <2>3 DEF items
<1>4. RowsInv(rows, monthly)
    BY <1>2, <1>3, FirstRowsAssumption DEF RowsInv, KeysApart, Init
<1>5. TypesFit /\ DOMAIN assigned = Ids /\ NoModelStays /\ DOMAIN monthly = {Ads[i].brand : i \in Ids}
    BY GroupsAssumption DEF Init, TypesFit, NoModelStays
<1>6. \A p \in Passes : PassShares(pass[p])
    BY IdleShares DEF Init
<1> QED
    BY <1>4, <1>5, <1>6 DEF SharesInv

(***************************************************************************)
(* The insert of a brand never meets a row with its scope key              *)
(* (GroupMetric.scope_key is unique): what the delete keeps and what is    *)
(* computed do not overlap, whatever an edit did to the groups between the *)
(* reads of a recompute and its commit (metrics/service.py).               *)
(***************************************************************************)
THEOREM ScopeKeysAreUnique == Spec => []ScopeKeysStayUnique
<1>1. SharesInv => ScopeKeysStayUnique
    BY DEF SharesInv, RowsInv, KeysApart, ScopeKeysStayUnique
<1> QED
    BY <1>1, RankingInit, RankingStep, SharesInit, SharesStep, PTL DEF Spec

------------------------------------------------------------------------------
(* The sums over the rows of a scope                                         *)

(* Parts with nothing in common count at most what they are parts of.        *)
LEMMA PartsWithin ==
    ASSUME NEW D, IsFiniteSet(D), NEW E, IsFiniteSet(E), NEW part,
           \A v \in D \cup E : IsFiniteSet(part[v]),
           \A v, w \in D : v # w => part[v] \cap part[w] = {},
           \A v, w \in E : v # w => part[v] \cap part[w] = {},
           \A v \in D : \E w \in E : part[v] \subseteq part[w],
           NEW val, \A v \in D : val[v] = Cardinality(part[v]), NEW g, Adds(g, D, val),
           NEW all, \A v \in E : all[v] = Cardinality(part[v]), NEW h, Adds(h, E, all)
    PROVE  g[D] <= h[E]
<1> DEFINE A == UNION {part[v] : v \in D}
           B == UNION {part[v] : v \in E}
           f == [v \in E |-> part[v]]
           parts == {f[v] : v \in E}
<1>1. g[D] = Cardinality(A) /\ h[E] = Cardinality(B)
    BY SumOfParts
<1>2. A \in SUBSET B
    OBVIOUS
<1>3. IsFiniteSet(B)
    <2>1. B = UNION parts /\ \A x \in parts : IsFiniteSet(x)
        OBVIOUS
    <2>2. IsFiniteSet(parts)
        <3> HIDE DEF f, parts
        <3>1. parts = {f[v] : v \in E}
            BY DEF parts
        <3> QED
            BY <3>1, FiniteImage
    <2> HIDE DEF parts
    <2> QED
        BY <2>1, <2>2, FS_UNION
<1> HIDE DEF A, B
<1> QED
    BY <1>1, <1>2, <1>3, FS_Subset

(* The three sums that are taken.                                            *)
LEMMA SalesOfMonths ==
    ASSUME NEW D, IsFiniteSet(D)
    PROVE  \E g : Adds(g, D, [s \in D |-> s.sold]) /\ MapThenSumSet(LAMBDA s : s.sold, D) = g[D]
<1> DEFINE Sum(g) == g = [s \in SUBSET D |-> IF s = {} THEN 0 ELSE Pick(s).sold + g[s \ {Pick(s)}]]
<1>1. \A g : Sum(g) <=> Adds(g, D, [s \in D |-> s.sold])
    BY PickIs DEF Adds
<1>2. MapThenSumSet(LAMBDA s : s.sold, D) = (CHOOSE g : Sum(g))[D]
    BY DEF MapThenSumSet, MapThenFoldSet, Pick
<1>3. \E g : Sum(g)
    <2>1. \A val : \E g : Adds(g, D, val)
        BY SumExists
    <2> HIDE DEF Sum
    <2> QED
        BY <1>1, <2>1
<1> HIDE DEF Sum
<1>4. Sum(CHOOSE g : Sum(g))
    BY <1>3
<1> QED
    BY <1>1, <1>2, <1>4

RowsIn(q, R, scope) == {r \in R : /\ InScope(q, r) /\ (HidesReview(q) => r.type # Review)
                                  /\ r.scope = scope /\ (scope = "model" => r.kind = "none")}

LEMMA ShareSums ==
    ASSUME NEW q, NEW t, IsFiniteSet(t.rows)
    PROVE  LET none == RowsIn(q, t.rows, "model")
               whole == RowsIn(q, t.rows, "type")
               count == [r \in t.rows |-> r.m.listings]
               sold == [r \in t.rows |-> SoldAndPrice(q, r, t).sold]
               of == NoModelShare(q, t)
           IN  /\ \E g : Adds(g, none, count) /\ of.listings = g[none]
               /\ \E g : Adds(g, whole, count) /\ of.totalListings = g[whole]
               /\ \E g : Adds(g, none, sold) /\ of.sold = g[none]
               /\ \E g : Adds(g, whole, sold) /\ of.totalSold = g[whole]
<1> DEFINE R == t.rows
           count == [r \in R |-> r.m.listings]
           sold == [r \in R |-> SoldAndPrice(q, r, t).sold]
           none == RowsIn(q, R, "model")
           whole == RowsIn(q, R, "type")
           Listings(D, g) == g = [s \in SUBSET D |-> IF s = {} THEN 0 ELSE Pick(s).m.listings + g[s \ {Pick(s)}]]
           Sold(D, g) ==
               g = [s \in SUBSET D |-> IF s = {} THEN 0 ELSE SoldAndPrice(q, Pick(s), t).sold + g[s \ {Pick(s)}]]
           of == NoModelShare(q, t)
<1>1. \A D \in SUBSET R : \A g : (Listings(D, g) <=> Adds(g, D, count)) /\ (Sold(D, g) <=> Adds(g, D, sold))
    <2> SUFFICES ASSUME NEW D \in SUBSET R
                 PROVE  \A g : (Listings(D, g) <=> Adds(g, D, count)) /\ (Sold(D, g) <=> Adds(g, D, sold))
        OBVIOUS
    <2>1. \A s \in SUBSET D : s # {} => Pick(s) \in R
        BY PickIs
    <2>2. \A s \in SUBSET D : s # {} => count[Pick(s)] = Pick(s).m.listings
        BY <2>1
    <2>3. \A s \in SUBSET D : s # {} => sold[Pick(s)] = SoldAndPrice(q, Pick(s), t).sold
        BY <2>1
    <2> HIDE DEF R, count, sold
    <2>4. \A g : Listings(D, g) <=> Adds(g, D, count)
        BY <2>2 DEF Adds
    <2>5. \A g : Sold(D, g) <=> Adds(g, D, sold)
        BY <2>3 DEF Adds
    <2> QED
        BY <2>4, <2>5
<1>2. /\ {r \in {x \in R : InScope(q, x) /\ (HidesReview(q) => x.type # Review)} : r.scope = "model" /\ r.kind = "none"} = none
      /\ {r \in {x \in R : InScope(q, x) /\ (HidesReview(q) => x.type # Review)} : r.scope = "type"} = whole
    BY DEF RowsIn
<1>3. /\ of.listings = (CHOOSE g : Listings(none, g))[none]
      /\ of.totalListings = (CHOOSE g : Listings(whole, g))[whole]
      /\ of.sold = (CHOOSE g : Sold(none, g))[none]
      /\ of.totalSold = (CHOOSE g : Sold(whole, g))[whole]
    <2> HIDE DEF none, whole
    <2> QED
        BY <1>2 DEF NoModelShare, MapThenSumSet, MapThenFoldSet, Pick
<1>4. none \in SUBSET R /\ whole \in SUBSET R /\ IsFiniteSet(none) /\ IsFiniteSet(whole)
    BY FS_Subset DEF RowsIn
<1> HIDE DEF Listings, Sold, none, whole, of, R, count, sold
<1>5. ASSUME NEW D \in SUBSET R, IsFiniteSet(D)
      PROVE  /\ Listings(D, CHOOSE g : Listings(D, g)) /\ Adds(CHOOSE g : Listings(D, g), D, count)
             /\ Sold(D, CHOOSE g : Sold(D, g)) /\ Adds(CHOOSE g : Sold(D, g), D, sold)
    <2>1. \A val : \E g : Adds(g, D, val)
        BY <1>5, SumExists
    <2>2. (\E g : Listings(D, g)) /\ \E g : Sold(D, g)
        BY <1>1, <2>1
    <2>3. Listings(D, CHOOSE g : Listings(D, g)) /\ Sold(D, CHOOSE g : Sold(D, g))
        BY <2>2
    <2> QED
        BY <1>1, <2>3
<1>6. /\ \E g : Adds(g, none, count) /\ of.listings = g[none]
      /\ \E g : Adds(g, whole, count) /\ of.totalListings = g[whole]
      /\ \E g : Adds(g, none, sold) /\ of.sold = g[none]
      /\ \E g : Adds(g, whole, sold) /\ of.totalSold = g[whole]
    BY <1>3, <1>4, <1>5
<1> QED
    BY <1>6 DEF none, whole, of, R, count, sold

(* The sales of a scope in a set of months.                                  *)
SoldBy(is, day) == {i \in is : i.status = "sold" /\ i.sold # None /\ i.sold <= day}
SoldInMonths(is, day, months) == {i \in SoldBy(is, day) : Month(i.sold) \in months}

SalesIn(is, day, m, b) == {i \in SoldBy(is, day) : Month(i.sold) = m /\ InBucket(i, b)}
MonthsSold(is, day) == {Month(i.sold) : i \in SoldBy(is, day)}

(* stat has what is stored of a month in a bucket.                            *)
AreMonthStats(stat, is, day) ==
    /\ MonthStats(is, day) =
           {stat[c] : c \in {d \in MonthsSold(is, day) \X Buckets : SalesIn(is, day, d[1], d[2]) # {}}}
    /\ \A c \in MonthsSold(is, day) \X Buckets :
           /\ stat[c].month = c[1] /\ stat[c].bucket = c[2]
           /\ stat[c].sold = Cardinality(SalesIn(is, day, c[1], c[2]))

LEMMA MonthStatsAre ==
    ASSUME NEW is, NEW day
    PROVE  \E stat : AreMonthStats(stat, is, day)
<1> DEFINE sales == SoldBy(is, day)
           of(m, b) == {i \in sales : Month(i.sold) = m /\ InBucket(i, b)}
           priced(m, b) == LET far == PriceOutliers(of(m, "all"), 30 * (m + 1))
                           IN  {i \in of(m, b) : i.usable /\ i.id \notin far}
           gmv(m, b) == MapThenSumSet(LAMBDA i : i.sale, priced(m, b))
           p50(m, b) == Percentile4(Ordered(priced(m, b), LAMBDA i : i.sale), 2)
           Pairs == {Month(i.sold) : i \in sales} \X Buckets
           stat == [c \in Pairs |-> [month |-> c[1], bucket |-> c[2], sold |-> Cardinality(of(c[1], c[2])),
                                     gmv |-> gmv(c[1], c[2]), p50 |-> p50(c[1], c[2])]]
<1>1. MonthStats(is, day) = {stat[c] : c \in {d \in Pairs : of(d[1], d[2]) # {}}}
    BY DEF MonthStats, SoldBy, SoldIn
<1>2. \A c \in Pairs : /\ stat[c].month = c[1] /\ stat[c].bucket = c[2]
                       /\ stat[c].sold = Cardinality(of(c[1], c[2]))
    <2> HIDE DEF Pairs, of, gmv, p50
    <2> QED
        OBVIOUS
<1> HIDE DEF stat
<1>3. AreMonthStats(stat, is, day)
    BY <1>1, <1>2 DEF AreMonthStats, SalesIn, MonthsSold
<1> QED
    BY <1>3

LEMMA PeriodSold ==
    ASSUME NEW is, IsFiniteSet(is), NEW day, NEW months
    PROVE  PeriodTotals(MonthStats(is, day), months, "all").sold = Cardinality(SoldInMonths(is, day, months))
<1> DEFINE sales == SoldBy(is, day)
           of(m, b) == SalesIn(is, day, m, b)
           Ms == MonthsSold(is, day)
           stats == MonthStats(is, day)
           chosen == {s \in stats : s.month \in months /\ s.bucket = "all"}
           part == [s \in chosen |-> of(s.month, "all")]
           val == [s \in chosen |-> s.sold]
<1>0. PICK stat : AreMonthStats(stat, is, day)
    BY MonthStatsAre
<1>1. /\ stats = {stat[c] : c \in {d \in Ms \X Buckets : of(d[1], d[2]) # {}}}
      /\ \A c \in Ms \X Buckets : /\ stat[c].month = c[1] /\ stat[c].bucket = c[2]
                                  /\ stat[c].sold = Cardinality(of(c[1], c[2]))
    BY <1>0 DEF AreMonthStats
<1>2. IsFiniteSet(sales)
    BY FS_Subset DEF SoldBy
<1>3. \A m, i : i \in of(m, "all") <=> i \in sales /\ Month(i.sold) = m
    BY DEF InBucket, SalesIn
<1>4. IsFiniteSet(Ms)
    <2> DEFINE f == [i \in sales |-> Month(i.sold)]
    <2>1. Ms = {f[i] : i \in sales}
        BY DEF MonthsSold
    <2> HIDE DEF f, Ms, sales
    <2> QED
        BY <1>2, <2>1, FiniteImage
<1> HIDE DEF sales, of, stats
<1>5. \A s \in chosen : \E m \in Ms : s = stat[<<m, "all">>] /\ s.month = m /\ s.sold = Cardinality(of(m, "all"))
    <2> SUFFICES ASSUME NEW s \in chosen
                 PROVE  \E m \in Ms : s = stat[<<m, "all">>] /\ s.month = m /\ s.sold = Cardinality(of(m, "all"))
        OBVIOUS
    <2>1. PICK c \in Ms \X Buckets : s = stat[c]
        BY <1>1
    <2>2. c[1] \in Ms /\ c[2] = "all" /\ c = <<c[1], c[2]>>
        BY <1>1, <2>1
    <2> QED
        BY <1>1, <2>1, <2>2
<1>6. IsFiniteSet(chosen)
    <2> DEFINE f == [m \in Ms |-> stat[<<m, "all">>]]
               images == {f[m] : m \in Ms}
    <2>1. chosen \in SUBSET images
        BY <1>5
    <2>2. IsFiniteSet(images)
        <3> HIDE DEF f, Ms
        <3> QED
            BY <1>4, FiniteImage
    <2> HIDE DEF images, chosen
    <2> QED
        BY <2>1, <2>2, FS_Subset
<1>7. \A s \in chosen : IsFiniteSet(part[s]) /\ val[s] = Cardinality(part[s])
    <2> SUFFICES ASSUME NEW s \in chosen PROVE IsFiniteSet(part[s]) /\ val[s] = Cardinality(part[s])
        OBVIOUS
    <2>1. s.sold = Cardinality(of(s.month, "all"))
        BY <1>5
    <2>2. of(s.month, "all") \in SUBSET sales
        BY <1>3
    <2>3. IsFiniteSet(of(s.month, "all"))
        BY <1>2, <2>2, FS_Subset
    <2> QED
        BY <2>1, <2>3
<1>8. \A s, t \in chosen : s # t => part[s] \cap part[t] = {}
    <2> SUFFICES ASSUME NEW s \in chosen, NEW t \in chosen, NEW i \in part[s] \cap part[t] PROVE s = t
        OBVIOUS
    <2>1. s.month = Month(i.sold) /\ t.month = Month(i.sold)
        BY <1>3
    <2> QED
        BY <1>5, <2>1
<1>9. UNION {part[s] : s \in chosen} = SoldInMonths(is, day, months)
    <2>1. ASSUME NEW s \in chosen, NEW i \in part[s] PROVE i \in SoldInMonths(is, day, months)
        BY <1>3, <2>1 DEF SoldInMonths, sales
    <2>2. ASSUME NEW i \in SoldInMonths(is, day, months) PROVE \E s \in chosen : i \in part[s]
        <3> DEFINE m == Month(i.sold)
                   s == stat[<<m, "all">>]
        <3>1. i \in sales /\ m \in Ms /\ m \in months
            BY DEF SoldInMonths, MonthsSold, sales
        <3> HIDE DEF m, Ms
        <3>2. i \in of(m, "all")
            BY <1>3, <3>1 DEF m
        <3>3. <<m, "all">> \in Ms \X Buckets
            BY <3>1 DEF Buckets
        <3>4. s \in stats /\ s.month = m /\ s.bucket = "all"
            BY <1>1, <3>2, <3>3
        <3> HIDE DEF s
        <3>5. s \in chosen
            BY <3>1, <3>4
        <3> QED
            BY <3>2, <3>4, <3>5
    <2> QED
        BY <2>1, <2>2
<1>10. PeriodTotals(stats, months, "all").sold = MapThenSumSet(LAMBDA s : s.sold, chosen)
    BY DEF PeriodTotals
<1> HIDE DEF chosen, part
<1>11. PICK g : Adds(g, chosen, val) /\ MapThenSumSet(LAMBDA s : s.sold, chosen) = g[chosen]
    BY <1>6, SalesOfMonths
<1>12. g[chosen] = Cardinality(UNION {part[s] : s \in chosen})
    <2> HIDE DEF val
    <2> QED
        BY <1>6, <1>7, <1>8, <1>11, SumOfParts
<1> QED
    BY <1>9, <1>10, <1>11, <1>12 DEF stats

------------------------------------------------------------------------------
(* The rows of types and of what has no model                                *)

(* Every such row has the listings of one read of its brand.                 *)
AreItems(of, day) ==
    /\ \A r \in rows : SharesOut(r.key) =>
           /\ IsFiniteSet(of[r]) /\ r.m = Counters(of[r], day[r])
           /\ StatsOf(r.key, Tables) = MonthStats(of[r], day[r])
    /\ \A r, s \in rows : SharesOut(r.key) /\ SharesOut(s.key) /\ r.key[1] = s.key[1] /\ r # s =>
           of[r] \cap of[s] = {}
    /\ \A r \in rows : NoModelKey(r.key) =>
           \E w \in rows : /\ w.key = <<"type", r.brand, GroupInfo[r.key[2]].type>>
                           /\ w.brand = r.brand /\ of[r] \subseteq of[w] /\ day[w] = day[r]

LEMMA RowsHaveItems ==
    ASSUME SharesInv
    PROVE  \E of, day : AreItems(of, day)
<1> DEFINE Good(b, s) == /\ ScopesOf(s.items, b) /\ Tells(rows, s.items, b, s.day)
                         /\ b \in DOMAIN monthly => monthly[b] = MonthsOf(s.items, s.day)
           shot(b) == CHOOSE s : Good(b, s)
           of == [r \in rows |-> shot(r.brand).items[r.key]]
           day == [r \in rows |-> shot(r.brand).day]
<1>1. \A b : Good(b, shot(b))
    <2> SUFFICES ASSUME NEW b PROVE \E s : Good(b, s)
        OBVIOUS
    <2>1. PICK items, moment : /\ ScopesOf(items, b) /\ Tells(rows, items, b, moment)
                               /\ b \in DOMAIN monthly => monthly[b] = MonthsOf(items, moment)
        BY DEF SharesInv, RowsInv
    <2>2. Good(b, [items |-> items, day |-> moment])
        BY <2>1
    <2> QED
        BY <2>2
<1>2. \A b : /\ ScopesOf(shot(b).items, b) /\ Tells(rows, shot(b).items, b, shot(b).day)
             /\ b \in DOMAIN monthly => monthly[b] = MonthsOf(shot(b).items, shot(b).day)
    BY <1>1
<1>3. \A r \in rows : of[r] = shot(r.brand).items[r.key] /\ day[r] = shot(r.brand).day
    OBVIOUS
<1> HIDE DEF shot, of, day, Good
<1>4. \A r \in rows : SharesOut(r.key) => r.key \in DOMAIN shot(r.brand).items
    BY <1>2 DEF Tells
<1>5. ASSUME NEW r \in rows, SharesOut(r.key)
      PROVE  /\ IsFiniteSet(of[r]) /\ r.m = Counters(of[r], day[r])
             /\ \A i \in of[r] : Ads[i.id].brand = r.brand
             /\ r.brand \in DOMAIN monthly
    <2>1. IsFiniteSet(of[r]) /\ of[r] # {} /\ \A i \in of[r] : i.id \in Ids /\ Ads[i.id].brand = r.brand
        BY <1>2, <1>3, <1>4, <1>5 DEF ScopesOf
    <2>2. r.m = Counters(of[r], day[r])
        BY <1>2, <1>3, <1>5 DEF Tells
    <2>3. r.brand \in DOMAIN monthly
        BY <2>1 DEF SharesInv
    <2> QED
        BY <2>1, <2>2, <2>3
<1>6. ASSUME NEW r \in rows, SharesOut(r.key)
      PROVE  StatsOf(r.key, Tables) = MonthStats(of[r], day[r])
    <2> DEFINE all == UNION {monthly[b] : b \in DOMAIN monthly}
               mine == {j \in all : j.key = r.key}
               row == [key |-> r.key, stats |-> MonthStats(of[r], day[r])]
    <2>1. row \in mine
        <3>1. row \in monthly[r.brand]
            BY <1>2, <1>3, <1>4, <1>5, <1>6 DEF MonthsOf
        <3> QED
            BY <1>5, <1>6, <3>1
    <2>2. ASSUME NEW j \in mine PROVE j = row
        <3>1. PICK b \in DOMAIN monthly : j \in monthly[b]
            OBVIOUS
        <3>2. PICK k \in DOMAIN shot(b).items :
                  j = [key |-> k, stats |-> MonthStats(shot(b).items[k], shot(b).day)]
            BY <1>2, <3>1 DEF MonthsOf
        <3>3. k = r.key
            BY <3>2
        <3>4. BrandOf(k) = b
            BY <1>2 DEF ScopesOf
        <3>5. BrandOf(r.key) = r.brand
            BY DEF SharesInv, RowsInv, Placed
        <3> QED
            BY <1>3, <3>2, <3>3, <3>4, <3>5
    <2>3. StatsOf(r.key, Tables) = UNION {k.stats : k \in mine}
        BY DEF StatsOf, Tables
    <2> HIDE DEF mine
    <2>4. mine = {row}
        BY <2>1, <2>2
    <2> QED
        BY <2>3, <2>4
<1>7. ASSUME NEW r \in rows, NEW s \in rows, SharesOut(r.key), SharesOut(s.key), r.key[1] = s.key[1], r # s
      PROVE  of[r] \cap of[s] = {}
    <2>1. CASE r.brand = s.brand
        <3>1. r.key # s.key
            BY <1>7 DEF SharesInv, RowsInv, KeysApart
        <3> QED
            BY <1>2, <1>3, <1>4, <1>7, <2>1, <3>1 DEF ScopesOf
    <2>2. CASE r.brand # s.brand
        BY <1>5, <1>7, <2>2
    <2> QED
        BY <2>1, <2>2
<1>8. ASSUME NEW r \in rows, NoModelKey(r.key)
      PROVE  \E w \in rows : /\ w.key = <<"type", r.brand, GroupInfo[r.key[2]].type>>
                             /\ w.brand = r.brand /\ of[r] \subseteq of[w] /\ day[w] = day[r]
    <2> DEFINE type == <<"type", r.brand, GroupInfo[r.key[2]].type>>
               items == shot(r.brand).items
    <2>1. SharesOut(r.key) /\ r.key \in DOMAIN items
        BY <1>4, <1>8 DEF SharesOut
    <2>2. type \in DOMAIN items /\ items[r.key] \subseteq items[type]
        BY <1>2, <1>8, <2>1 DEF ScopesOf
    <2>3. SharesOut(type)
        BY DEF SharesOut
    <2>4. PICK w \in rows : w.key = type /\ w.brand = r.brand
        <3> HIDE DEF type
        <3> QED
            BY <1>2, <2>2, <2>3 DEF Tells
    <2> QED
        BY <1>3, <2>2, <2>4
<1>9. AreItems(of, day)
    BY <1>5, <1>6, <1>7, <1>8 DEF AreItems
<1> QED
    BY <1>9

(* Both sums of the share of what has no model.                              *)
LEMMA SharesWithin ==
    ASSUME RankingInv, SharesInv, NEW q, NEW bs, NEW ts, NEW from, NEW to,
           q = [DefaultQuery EXCEPT !.brands = bs, !.types = ts, !.from = from, !.to = to]
    PROVE  LET share == NoModelShare(q, Tables)
           IN  share.listings <= share.totalListings /\ share.sold <= share.totalSold
<1> DEFINE none == RowsIn(q, rows, "model")
           whole == RowsIn(q, rows, "type")
           share == NoModelShare(q, Tables)
           count == [r \in rows |-> r.m.listings]
           sold == [r \in rows |-> SoldAndPrice(q, r, Tables).sold]
<1>1. q.section = "any" /\ q.window = 30 /\ q.condition = "all" /\ q.from = from /\ q.to = to
    BY DEF DefaultQuery
<1>2. IsFiniteSet(rows) /\ \A r \in rows : StoredRow(r)
    BY DEF RankingInv, StoredRows
<1>3. none \in SUBSET rows /\ whole \in SUBSET rows /\ IsFiniteSet(none) /\ IsFiniteSet(whole)
    BY <1>2, FS_Subset DEF RowsIn
<1>0. PICK of, day : AreItems(of, day)
    BY RowsHaveItems
<1>4. /\ \A r \in rows : SharesOut(r.key) =>
             /\ IsFiniteSet(of[r]) /\ r.m = Counters(of[r], day[r])
             /\ StatsOf(r.key, Tables) = MonthStats(of[r], day[r])
      /\ \A r, s \in rows : SharesOut(r.key) /\ SharesOut(s.key) /\ r.key[1] = s.key[1] /\ r # s =>
             of[r] \cap of[s] = {}
      /\ \A r \in rows : NoModelKey(r.key) =>
             \E w \in rows : /\ w.key = <<"type", r.brand, GroupInfo[r.key[2]].type>>
                             /\ w.brand = r.brand /\ of[r] \subseteq of[w] /\ day[w] = day[r]
    BY <1>0 DEF AreItems
<1>5. \A r \in none : r.key[1] = "model" /\ NoModelKey(r.key) /\ r.type = GroupInfo[r.key[2]].type
    BY <1>2 DEF RowsIn, StoredRow, ScopeInfo, NoModelKey
<1>6. \A r \in none : SharesOut(r.key)
    BY <1>5 DEF SharesOut
<1>7. \A r \in whole : r.key[1] = "type" /\ SharesOut(r.key)
    BY <1>2 DEF RowsIn, StoredRow, ScopeInfo, SharesOut
<1>8. \A r \in none : \E w \in whole : of[r] \subseteq of[w] /\ day[w] = day[r]
    <2> SUFFICES ASSUME NEW r \in none PROVE \E w \in whole : of[r] \subseteq of[w] /\ day[w] = day[r]
        OBVIOUS
    <2>1. PICK w \in rows : /\ w.key = <<"type", r.brand, GroupInfo[r.key[2]].type>>
                            /\ w.brand = r.brand /\ of[r] \subseteq of[w] /\ day[w] = day[r]
        BY <1>3, <1>4, <1>5
    <2>2. w.scope = "type" /\ w.type = r.type
        <3>1. w.key[1] = "type" /\ w.key[3] = r.type
            BY <1>5, <2>1
        <3> QED
            BY <1>2, <3>1 DEF StoredRow, ScopeInfo
    <2>3. w \in whole
        BY <1>1, <2>1, <2>2 DEF RowsIn, InScope
    <2> QED
        BY <2>1, <2>3
<1>9. /\ \E g : Adds(g, none, count) /\ share.listings = g[none]
      /\ \E g : Adds(g, whole, count) /\ share.totalListings = g[whole]
      /\ \E g : Adds(g, none, sold) /\ share.sold = g[none]
      /\ \E g : Adds(g, whole, sold) /\ share.totalSold = g[whole]
    <2>1. Tables.rows = rows
        BY DEF Tables
    <2> HIDE DEF none, whole, share, count, sold
    <2> QED
        BY <1>2, <2>1, ShareSums DEF none, whole, share, count, sold
<1>10. \A r \in none \cup whole : count[r] = Cardinality(of[r])
    <2> SUFFICES ASSUME NEW r \in none \cup whole PROVE count[r] = Cardinality(of[r])
        OBVIOUS
    <2>1. r \in rows /\ SharesOut(r.key)
        BY <1>3, <1>6, <1>7
    <2>2. r.m = Counters(of[r], day[r])
        BY <1>4, <2>1
    <2>3. r.m.listings = Cardinality(of[r])
        BY <2>2 DEF Counters, CountersBut
    <2> QED
        BY <2>1, <2>3
<1> DEFINE bought == [r \in rows |-> IF from = None THEN {i \in of[r] : SoldWithin(i, day[r], 30)}
                                     ELSE SoldInMonths(of[r], day[r], from..to)]
<1>11. \A r \in rows : bought[r] \in SUBSET of[r]
    BY DEF SoldInMonths, SoldBy
<1>12. \A r \in none \cup whole : sold[r] = Cardinality(bought[r])
    <2> SUFFICES ASSUME NEW r \in none \cup whole PROVE sold[r] = Cardinality(bought[r])
        OBVIOUS
    <2>1. r \in rows /\ SharesOut(r.key)
        BY <1>3, <1>6, <1>7
    <2>2. /\ IsFiniteSet(of[r]) /\ r.m = Counters(of[r], day[r])
          /\ StatsOf(r.key, Tables) = MonthStats(of[r], day[r])
        BY <1>4, <2>1
    <2>3. CASE from = None
        <3>1. SoldAndPrice(q, r, Tables).sold = r.m.sold30
            BY <1>1, <2>3 DEF SoldAndPrice, ByPeriod
        <3>2. r.m.sold30 = Cardinality({i \in of[r] : SoldWithin(i, day[r], 30)})
            BY <2>2 DEF Counters, CountersBut
        <3> QED
            BY <2>1, <2>3, <3>1, <3>2
    <2>4. CASE from # None
        <3>1. SoldAndPrice(q, r, Tables) = PeriodTotals(MonthStats(of[r], day[r]), from..to, "all")
            BY <1>1, <2>2, <2>4 DEF SoldAndPrice, ByPeriod
        <3>2. SoldAndPrice(q, r, Tables).sold = Cardinality(SoldInMonths(of[r], day[r], from..to))
            BY <2>2, <3>1, PeriodSold
        <3> QED
            BY <2>1, <2>4, <3>2
    <2> QED
        BY <2>3, <2>4
<1>13. \A v \in none \cup whole : IsFiniteSet(of[v]) /\ IsFiniteSet(bought[v])
    BY <1>3, <1>4, <1>6, <1>7, <1>11, FS_Subset
<1>14. \A v \in none : \E w \in whole : bought[v] \subseteq bought[w]
    <2> SUFFICES ASSUME NEW v \in none PROVE \E w \in whole : bought[v] \subseteq bought[w]
        OBVIOUS
    <2>1. PICK w \in whole : of[v] \subseteq of[w] /\ day[w] = day[v]
        BY <1>8
    <2>2. v \in rows /\ w \in rows
        BY <1>3
    <2>3. bought[v] \subseteq bought[w]
        <3> HIDE DEF none, whole
        <3> QED
            BY <2>1, <2>2 DEF SoldInMonths, SoldBy
    <2> QED
        BY <2>3
<1> HIDE DEF none, whole, share, count, sold, bought
<1>15. \A v, w \in none : v # w => of[v] \cap of[w] = {}
    BY <1>3, <1>4, <1>5, <1>6
<1>16. \A v, w \in whole : v # w => of[v] \cap of[w] = {}
    BY <1>3, <1>4, <1>7
<1>17. /\ \A v, w \in none : v # w => bought[v] \cap bought[w] = {}
       /\ \A v, w \in whole : v # w => bought[v] \cap bought[w] = {}
    BY <1>3, <1>11, <1>15, <1>16
<1>18. share.listings <= share.totalListings
    <2>1. PICK g, h : /\ Adds(g, none, count) /\ share.listings = g[none]
                      /\ Adds(h, whole, count) /\ share.totalListings = h[whole]
        BY <1>9
    <2>2. \A v \in none : \E w \in whole : of[v] \subseteq of[w]
        BY <1>8
    <2>3. g[none] <= h[whole]
        BY <1>3, <1>10, <1>13, <1>15, <1>16, <2>1, <2>2, PartsWithin
    <2> QED
        BY <2>1, <2>3
<1>19. share.sold <= share.totalSold
    <2>1. PICK g, h : /\ Adds(g, none, sold) /\ share.sold = g[none]
                      /\ Adds(h, whole, sold) /\ share.totalSold = h[whole]
        BY <1>9
    <2>2. g[none] <= h[whole]
        BY <1>3, <1>12, <1>13, <1>14, <1>17, <2>1, PartsWithin
    <2> QED
        BY <2>1, <2>2
<1> QED
    BY <1>18, <1>19 DEF share

(***************************************************************************)
(* In every scope of brands and types, over a window as over months, at    *)
(* most the listings and sales of the scope have no model                  *)
(* (api/trends.py), whatever sells, is edited or is recomputed between the *)
(* reads of a recompute and its commit, for every set of listings.         *)
(***************************************************************************)
THEOREM NoModelIsWithin == Spec => []NoModelWithinTheScope
<1>1. RankingInv /\ SharesInv => NoModelWithinTheScope
    <2> SUFFICES ASSUME RankingInv, SharesInv PROVE NoModelWithinTheScope
        OBVIOUS
    <2> QED
        BY SharesWithin DEF NoModelWithinTheScope
<1> QED
    BY <1>1, RankingInit, RankingStep, SharesInit, SharesStep, PTL DEF Spec

=============================================================================
