---------------------------- MODULE GroupsProofs ----------------------------
(* Proofs about a brand's groups, for every set of listings, titles and rules.

   A pass is a long chain of loops over a table: seeds, versions, mined phrases,
   lines, heirs.  The argument names what each of them keeps of the groups B that
   the pass read - Legit(B, G), where G is the table so far - and shows for every
   step of every loop that it keeps it; module Folding carries that through the
   loop.  What a pass leaves of B is Left; between passes GroupsInv holds.        *)
EXTENDS Groups, SequenceTheorems, FiniteSetTheorems, WellFoundedInduction, TLAPS

-----------------------------------------------------------------------------
(* The table a pass works on                                                 *)

GroupFields == {"type", "slug", "name", "aliases", "parent", "status", "source", "retired", "infer"}

IsTable(G) ==
    /\ IsFiniteSet(DOMAIN G) /\ DOMAIN G \subseteq Nat \ {0}
    /\ \A i \in DOMAIN G : DOMAIN G[i] = GroupFields

(* What a user ruled about a group still holds.                              *)
Ruled(b, g) ==
    /\ b.status = "ignored" => g.status = "ignored"
    /\ b.status = "confirmed" /\ b.source # "seed" =>
          g.status = "confirmed" /\ g.source # "seed" /\ (b.retired = 0 => g.retired = 0)

(* G is what a pass has made so far of the groups B.                         *)
Legit(B, G) ==
    /\ IsTable(G) /\ DOMAIN B \subseteq DOMAIN G
    /\ \A i \in DOMAIN B : Ruled(B[i], G[i])
    /\ \A i \in DOMAIN G \ DOMAIN B : \A j \in DOMAIN B : i > j
    /\ ~ Clashes(B) => ~ Clashes(G)

(* A pass may do what it likes with a group it found itself (Derived), but not with its slug;
   of any other it leaves the ruling.                                         *)
RowKept(g, h) ==
    /\ DOMAIN h = GroupFields /\ h.type = g.type /\ h.slug = g.slug
    /\ \/ Derived(g)
       \/ h.status = g.status /\ h.source = g.source /\ h.retired \in {g.retired, 0}

TableGood(c, k, G) == Legit(c.base, G)

(* The saved lines.                                                          *)
ParentStep(c, G, i) == ApplyParent(c.parents, G, i)
Parents == INSTANCE Folding WITH Op <- ParentStep, Good <- TableGood

-----------------------------------------------------------------------------
(* Finite sets                                                               *)

\* What is computed for the members of a finite set is a finite set.
LEMMA FiniteImage ==
    ASSUME NEW S, IsFiniteSet(S), NEW f, NEW T, T = {f[x] : x \in S}
    PROVE  IsFiniteSet(T)
<1> DEFINE g == [x \in S |-> f[x]]
<1>1. g \in Surjection(S, T)
    BY DEF Surjection
<1> HIDE DEF g
<1> QED
    BY <1>1, FS_Surjection

\* A finite set of natural numbers that is not empty has a largest member.
LEMMA MaxOfFinite ==
    ASSUME NEW S \in SUBSET Nat, IsFiniteSet(S), S # {}
    PROVE  Max(S) \in S /\ \A y \in S : Max(S) >= y
<1> DEFINE above(a) == {b \in S : b > a}
           size == [x \in S |-> Cardinality(above(x))]
           T == {size[x] : x \in S}
<1>1. \A x \in S : size[x] \in Nat
    BY FS_Subset, FS_CardinalityType
<1>2. PICK x \in S : \A y \in S : size[x] <= size[y]
    <2>1. T \in SUBSET Nat /\ T # {}
        BY <1>1
    <2> HIDE DEF T
    <2>2. PICK m \in T : \A k \in T : m <= k
        BY <2>1, Parents!LeastNatural
    <2> USE DEF T
    <2> HIDE DEF size
    <2> QED
        BY <2>2
<1>3. ASSUME NEW y \in S, y > x PROVE FALSE
    <2>1. above(y) \subseteq above(x) /\ y \in above(x) /\ y \notin above(y)
        <3>1. \A z \in S : z \in Nat
            OBVIOUS
        <3>2. x \in Nat /\ y \in Nat /\ y \in S
            BY <1>3, <3>1
        <3> HIDE DEF size, T
        <3>3. \A z \in above(y) : z \in above(x)
            BY <1>3, <3>1, <3>2
        <3>4. y \in above(x)
            BY <1>3, <3>2
        <3>5. y \notin above(y)
            BY <3>2
        <3> HIDE DEF above
        <3> QED
            BY <3>3, <3>4, <3>5
    <2>2. IsFiniteSet(above(x))
        BY FS_Subset
    <2>3. Cardinality(above(y)) <= Cardinality(above(x)) /\ Cardinality(above(y)) # Cardinality(above(x))
        <3> HIDE DEF above
        <3> QED
            BY <2>1, <2>2, FS_Subset
    <2>4. size[y] <= size[x] /\ size[y] # size[x]
        BY <2>3
    <2> HIDE DEF size
    <2> QED
        BY <1>1, <1>2, <2>4
<1>4. \A y \in S : x >= y
    BY <1>3
<1>5. \A z \in S : (\A y \in S : z >= y) => z = x
    BY <1>4
<1> HIDE DEF above, size
<1> QED
    BY <1>4, <1>5 DEF Max

\* The members of a finite set can be listed.
LEMMA SequenceOf ==
    ASSUME NEW S, IsFiniteSet(S)
    PROVE  \E n \in Nat : DOMAIN SetToSeq(S) = 1..n /\ \A k \in 1..n : SetToSeq(S)[k] \in S
<1>1. PICK f \in Bijection(1..Cardinality(S), S) : TRUE
    BY FS_CardinalityType DEF ExistsBijection
<1>2. f \in [1..Cardinality(S) -> S] /\ IsInjective(f)
    BY <1>1 DEF Bijection, Injection, IsInjective
<1>3. SetToSeq(S) \in [1..Cardinality(S) -> S]
    BY <1>2 DEF SetToSeq
<1> QED
    BY <1>3, FS_CardinalityType

-----------------------------------------------------------------------------
(* The rows of a table                                                     *)

\* A table whose rows are kept is as legitimate as the one it was made from.
LEMMA RowsKept ==
    ASSUME NEW B, NEW G, Legit(B, G), NEW H, DOMAIN H = DOMAIN G,
           \A i \in DOMAIN G : RowKept(G[i], H[i])
    PROVE  Legit(B, H)
<1>1. IsTable(H)
    BY DEF Legit, IsTable, RowKept
<1>2. \A i \in DOMAIN B : Ruled(B[i], H[i])
    BY DEF Legit, Ruled, RowKept, Derived
<1>3. ~ Clashes(G) => ~ Clashes(H)
    BY DEF Clashes, RowKept
<1> QED
    BY <1>1, <1>2, <1>3 DEF Legit

\* Find returns the group of a type and a slug, and 0 when there is none.
LEMMA FindIs ==
    ASSUME NEW G, IsTable(G), NEW t, NEW s
    PROVE  /\ Find(G, t, s) # 0 => /\ Find(G, t, s) \in DOMAIN G
                                   /\ G[Find(G, t, s)].type = t /\ G[Find(G, t, s)].slug = s
           /\ Find(G, t, s) = 0 => \A i \in DOMAIN G : ~ (G[i].type = t /\ G[i].slug = s)
BY DEF Find, IsTable

\* The next id is larger than every id of the table.
LEMMA NextIdIsFree ==
    ASSUME NEW G, IsTable(G)
    PROVE  NextId(G) \in Nat \ {0} /\ NextId(G) \notin DOMAIN G /\ \A j \in DOMAIN G : NextId(G) > j
<1>1. CASE DOMAIN G = {}
    BY <1>1 DEF NextId
<1>2. CASE DOMAIN G # {}
    <2>1. Max(DOMAIN G) \in DOMAIN G /\ \A y \in DOMAIN G : Max(DOMAIN G) >= y
        BY <1>2, MaxOfFinite DEF IsTable
    <2>2. NextId(G) = Max(DOMAIN G) + 1
        BY <1>2 DEF NextId
    <2> QED
        BY <2>1, <2>2 DEF IsTable
<1> QED
    BY <1>1, <1>2

\* A row under a fresh id and a slug nobody has keeps the table legitimate.
LEMMA RowAdded ==
    ASSUME NEW B, NEW G, Legit(B, G), NEW g, DOMAIN g = GroupFields, NEW id, id \in Nat \ {0}, id \notin DOMAIN G,
           \A j \in DOMAIN G : id > j,
           \A i \in DOMAIN G : ~ (G[i].type = g.type /\ G[i].slug = g.slug)
    PROVE  Legit(B, Put(G, id, g))
<1> DEFINE H == Put(G, id, g)
<1>1. DOMAIN H = {id} \cup DOMAIN G /\ H[id] = g /\ \A i \in DOMAIN G : H[i] = G[i]
    BY DEF Put
<1> HIDE DEF H
<1>2. IsFiniteSet(DOMAIN H)
    BY <1>1, FS_AddElement DEF Legit, IsTable
<1>3. IsTable(H)
    BY <1>1, <1>2 DEF Legit, IsTable
<1>4. ~ Clashes(G) => ~ Clashes(H)
    BY <1>1 DEF Clashes
<1>5. DOMAIN B \subseteq DOMAIN H /\ \A i \in DOMAIN B : Ruled(B[i], H[i])
    BY <1>1 DEF Legit
<1>6. \A i \in DOMAIN H \ DOMAIN B : \A j \in DOMAIN B : i > j
    BY <1>1 DEF Legit
<1> QED
    BY <1>3, <1>4, <1>5, <1>6 DEF Legit, H

\* A new group has the columns of the table.
LEMMA NewRow ==
    ASSUME NEW type, NEW slug, NEW name, NEW aliases, NEW parent, NEW status, NEW source
    PROVE  LET g == NewGroup(type, slug, name, aliases, parent, status, source)
           IN  DOMAIN g = GroupFields /\ g.type = type /\ g.slug = slug
BY DEF NewGroup, GroupFields

\* So does a new group whose slug is looked up first.
LEMMA GroupAdded ==
    ASSUME NEW B, NEW G, Legit(B, G), NEW g, DOMAIN g = GroupFields, Find(G, g.type, g.slug) = 0
    PROVE  Legit(B, AddGroup(G, g))
<1>1. IsTable(G)
    BY DEF Legit
<1>2. NextId(G) \in Nat \ {0} /\ NextId(G) \notin DOMAIN G /\ \A j \in DOMAIN G : NextId(G) > j
    BY <1>1, NextIdIsFree
<1>3. \A i \in DOMAIN G : ~ (G[i].type = g.type /\ G[i].slug = g.slug)
    BY <1>1, FindIs
<1> QED
    BY <1>2, <1>3, RowAdded DEF AddGroup

(* A row of the table changes.                                               *)
LEMMA RowChanged ==
    ASSUME NEW B, NEW G, Legit(B, G), NEW i, NEW h, i \in DOMAIN G => RowKept(G[i], h)
    PROVE  Legit(B, [G EXCEPT ![i] = h])
<1> DEFINE H == [G EXCEPT ![i] = h]
<1>1. DOMAIN H = DOMAIN G /\ \A j \in DOMAIN G : H[j] = IF j = i THEN h ELSE G[j]
    OBVIOUS
<1>2. \A j \in DOMAIN G : RowKept(G[j], G[j])
    BY DEF Legit, IsTable, RowKept
<1> HIDE DEF H
<1>3. Legit(B, H)
    BY <1>1, <1>2, RowsKept
<1> QED
    BY <1>3 DEF H

\* A row under another line is kept, and so is one that is in use again.
LEMMA HungRow ==
    ASSUME NEW g, DOMAIN g = GroupFields, NEW p
    PROVE  RowKept(g, [g EXCEPT !.parent = p])
BY DEF RowKept, GroupFields

LEMMA RevivedRow ==
    ASSUME NEW g, DOMAIN g = GroupFields
    PROVE  RowKept(g, [g EXCEPT !.retired = 0])
BY DEF RowKept, GroupFields

\* A group may change its line, or come back into use, at any time.
LEMMA ParentChanged ==
    ASSUME NEW B, NEW G, Legit(B, G), NEW i, NEW p
    PROVE  Legit(B, [G EXCEPT ![i].parent = p])
<1>1. i \in DOMAIN G => RowKept(G[i], [G[i] EXCEPT !.parent = p])
    BY HungRow DEF Legit, IsTable
<1> QED
    BY <1>1, RowChanged

LEMMA RowRevived ==
    ASSUME NEW B, NEW G, Legit(B, G), NEW i
    PROVE  Legit(B, [G EXCEPT ![i].retired = 0])
<1>1. i \in DOMAIN G => RowKept(G[i], [G[i] EXCEPT !.retired = 0])
    BY RevivedRow DEF Legit, IsTable
<1> QED
    BY <1>1, RowChanged

-----------------------------------------------------------------------------
(* Steps that go through a table                                             *)

\* A finite set of numbers has an ascending order with a place for each of them.
LEMMA Places ==
    ASSUME NEW S, IsFiniteSet(S)
    PROVE  \E n \in Nat : DOMAIN Ascending(S) = 1..n
BY FS_CardinalityType DEF Ascending, Arranged

\* One saved line is applied (_apply_parents).
LEMMA ApplyParentKeeps ==
    ASSUME NEW B, NEW G, Legit(B, G), NEW P, NEW i
    PROVE  Legit(B, ApplyParent(P, G, i))
BY ParentChanged DEF ApplyParent

\* All of them are.
LEMMA ApplyParentsKeeps ==
    ASSUME NEW B, NEW G, Legit(B, G), NEW P, IsFiniteSet(DOMAIN P)
    PROVE  Legit(B, ApplyParents(G, P))
<1> DEFINE c == [base |-> B, parents |-> P]
           seq == Ascending(DOMAIN P)
<1>1. PICK n \in Nat : DOMAIN seq = 1..n
    BY Places
<1>2. ASSUME NEW k \in 1..n, NEW a, TableGood(c, k - 1, a) PROVE TableGood(c, k, ParentStep(c, a, seq[k]))
    BY <1>2, ApplyParentKeeps DEF TableGood, ParentStep
<1>3. TableGood(c, 0, G)
    BY DEF TableGood
<1> HIDE DEF c, seq
<1>4. TableGood(c, n, Parents!Fold(c, G, seq))
    BY <1>1, <1>2, <1>3, Parents!FoldKeeps
<1>5. Parents!Fold(c, G, seq) = ApplyParents(G, P)
    BY DEF Parents!Fold, Parents!FoldLeft, Parents!MapThenFoldSet, Parents!Max, ApplyParents, FoldLeft,
           MapThenFoldSet, Max, ParentStep, c, seq
<1> QED
    BY <1>4, <1>5 DEF TableGood, c

(* Versions of a line, the groups for no model, the system's lines.          *)
VersionStep(c, G, v) == AddVersion(G, v)
VersionLines == INSTANCE Folding WITH Op <- VersionStep, Good <- TableGood

\* One version of a line is added or revived (_assign).
LEMMA AddVersionKeeps ==
    ASSUME NEW B, NEW G, Legit(B, G), NEW v
    PROVE  Legit(B, AddVersion(G, v))
<1> DEFINE g == NewGroup(v.type, v.phrase, v.phrase, {}, v.line, "auto", "mined")
<1>1. DOMAIN g = GroupFields /\ g.type = v.type /\ g.slug = v.phrase
    BY NewRow
<1> HIDE DEF g
<1>2. Find(G, v.type, v.phrase) = 0 => Legit(B, AddGroup(G, g))
    BY <1>1, GroupAdded
<1> QED
    BY <1>2, RowRevived DEF AddVersion, g

\* All of them are.
LEMMA WithVersionsKeeps ==
    ASSUME NEW B, NEW G, Legit(B, G), NEW wanted, IsFiniteSet(wanted)
    PROVE  Legit(B, WithVersions(G, wanted))
<1> DEFINE c == [base |-> B]
           seq == SetToSeq(wanted)
<1>1. PICK n \in Nat : DOMAIN seq = 1..n
    BY SequenceOf
<1>2. ASSUME NEW k \in 1..n, NEW a, TableGood(c, k - 1, a) PROVE TableGood(c, k, VersionStep(c, a, seq[k]))
    BY <1>2, AddVersionKeeps DEF TableGood, VersionStep
<1>3. TableGood(c, 0, G)
    BY DEF TableGood
<1> HIDE DEF c, seq
<1>4. TableGood(c, n, VersionLines!Fold(c, G, seq))
    BY <1>1, <1>2, <1>3, VersionLines!FoldKeeps
<1>5. VersionLines!Fold(c, G, seq) = WithVersions(G, wanted)
    BY DEF VersionLines!Fold, VersionLines!FoldLeft, VersionLines!MapThenFoldSet, VersionLines!Max, WithVersions, FoldLeft,
           MapThenFoldSet, Max, VersionStep, seq
<1> QED
    BY <1>4, <1>5 DEF TableGood, c

BucketStep(c, G, t) == AddBucket(G, t)
Buckets == INSTANCE Folding WITH Op <- BucketStep, Good <- TableGood

\* The group for the listings of one type without a model is there.
LEMMA AddBucketKeeps ==
    ASSUME NEW B, NEW G, Legit(B, G), NEW t
    PROVE  Legit(B, AddBucket(G, t))
<1> DEFINE g == NewGroup(t, NoneSlug, <<>>, {}, 0, "confirmed", "system")
<1>1. DOMAIN g = GroupFields /\ g.type = t /\ g.slug = NoneSlug
    BY NewRow
<1> HIDE DEF g
<1>2. Find(G, t, NoneSlug) = 0 => Legit(B, AddGroup(G, g))
    BY <1>1, GroupAdded
<1> QED
    BY <1>2 DEF AddBucket, g

\* The groups of all types are.
LEMMA WithBucketsKeeps ==
    ASSUME NEW B, NEW G, Legit(B, G), NEW types, IsFiniteSet(types)
    PROVE  Legit(B, WithBuckets(G, types))
<1> DEFINE c == [base |-> B]
           seq == SetToSeq(types)
<1>1. PICK n \in Nat : DOMAIN seq = 1..n
    BY SequenceOf
<1>2. ASSUME NEW k \in 1..n, NEW a, TableGood(c, k - 1, a) PROVE TableGood(c, k, BucketStep(c, a, seq[k]))
    BY <1>2, AddBucketKeeps DEF TableGood, BucketStep
<1>3. TableGood(c, 0, G)
    BY DEF TableGood
<1> HIDE DEF c, seq
<1>4. TableGood(c, n, Buckets!Fold(c, G, seq))
    BY <1>1, <1>2, <1>3, Buckets!FoldKeeps
<1>5. Buckets!Fold(c, G, seq) = WithBuckets(G, types)
    BY DEF Buckets!Fold, Buckets!FoldLeft, Buckets!MapThenFoldSet, Buckets!Max, WithBuckets, FoldLeft,
           MapThenFoldSet, Max, BucketStep, seq
<1> QED
    BY <1>4, <1>5 DEF TableGood, c

LineStep(c, G, x) == AddLine(G, x)
Lines == INSTANCE Folding WITH Op <- LineStep, Good <- TableGood

\* One line of the system is added or revived.
LEMMA AddLineKeeps ==
    ASSUME NEW B, NEW G, Legit(B, G), NEW x
    PROVE  Legit(B, AddLine(G, x))
<1> DEFINE g == NewGroup(x[1], x[2], Tail(x[2]), {}, 0, "auto", "system")
<1>1. DOMAIN g = GroupFields /\ g.type = x[1] /\ g.slug = x[2]
    BY NewRow
<1> HIDE DEF g
<1>2. Find(G, x[1], x[2]) = 0 => Legit(B, AddGroup(G, g))
    BY <1>1, GroupAdded
<1> QED
    BY <1>2, RowRevived DEF AddLine, g

\* All of them are.
LEMMA WithLinesKeeps ==
    ASSUME NEW B, NEW G, Legit(B, G), NEW lines, IsFiniteSet(lines)
    PROVE  Legit(B, WithLines(G, lines))
<1> DEFINE c == [base |-> B]
           seq == SetToSeq(lines)
<1>1. PICK n \in Nat : DOMAIN seq = 1..n
    BY SequenceOf
<1>2. ASSUME NEW k \in 1..n, NEW a, TableGood(c, k - 1, a) PROVE TableGood(c, k, LineStep(c, a, seq[k]))
    BY <1>2, AddLineKeeps DEF TableGood, LineStep
<1>3. TableGood(c, 0, G)
    BY DEF TableGood
<1> HIDE DEF c, seq
<1>4. TableGood(c, n, Lines!Fold(c, G, seq))
    BY <1>1, <1>2, <1>3, Lines!FoldKeeps
<1>5. Lines!Fold(c, G, seq) = WithLines(G, lines)
    BY DEF Lines!Fold, Lines!FoldLeft, Lines!MapThenFoldSet, Lines!Max, WithLines, FoldLeft,
           MapThenFoldSet, Max, LineStep, seq
<1> QED
    BY <1>4, <1>5 DEF TableGood, c

(* The lines of what was mined.                                              *)
PutStep(c, G, x) == PutUnder(c.lines, G, x)
Puts == INSTANCE Folding WITH Op <- PutStep, Good <- TableGood
LiftStep(c, G, x) == LiftLine(G, x)
Lifts == INSTANCE Folding WITH Op <- LiftStep, Good <- TableGood

\* What was mined goes under its line, and a line of a line is lifted.
LEMMA HangKeeps ==
    ASSUME NEW B, NEW G, Legit(B, G), NEW touched, NEW n \in Nat, DOMAIN touched = 1..n, NEW lines
    PROVE  Legit(B, Hang(G, touched, lines))
<1> DEFINE c == [base |-> B, lines |-> lines]
           put == Puts!Fold(c, G, touched)
<1>1. ASSUME NEW k \in 1..n, NEW a, TableGood(c, k - 1, a) PROVE TableGood(c, k, PutStep(c, a, touched[k]))
    BY <1>1, ParentChanged DEF TableGood, PutStep, PutUnder
<1>2. ASSUME NEW k \in 1..n, NEW a, TableGood(c, k - 1, a) PROVE TableGood(c, k, LiftStep(c, a, touched[k]))
    BY <1>2, ParentChanged DEF TableGood, LiftStep, LiftLine
<1>3. TableGood(c, 0, G)
    BY DEF TableGood
<1> HIDE DEF c
<1>4. TableGood(c, n, put)
    BY <1>1, <1>3, Puts!FoldKeeps
<1> HIDE DEF put
<1>5. TableGood(c, 0, put)
    BY <1>4 DEF TableGood
<1>6. TableGood(c, n, Lifts!Fold(c, put, touched))
    BY <1>2, <1>5, Lifts!FoldKeeps
<1>7. put = FoldLeft(LAMBDA acc, x : PutUnder(lines, acc, x), G, touched)
    BY DEF Puts!Fold, Puts!FoldLeft, Puts!MapThenFoldSet, Puts!Max, FoldLeft, MapThenFoldSet, Max, PutStep, c, put
<1>8. Lifts!Fold(c, put, touched) = FoldLeft(LiftLine, put, touched)
    BY DEF Lifts!Fold, Lifts!FoldLeft, Lifts!MapThenFoldSet, Lifts!Max, FoldLeft, MapThenFoldSet, Max, LiftStep
<1>9. Hang(G, touched, lines) = Lifts!Fold(c, put, touched)
    BY <1>7, <1>8 DEF Hang
<1> QED
    BY <1>6, <1>9 DEF TableGood, c

IsSequence(s) == \E S : s \in Seq(S)

\* A sequence is indexed from 1 to its length.
LEMMA SequenceIs ==
    ASSUME NEW s, IsSequence(s)
    PROVE  Len(s) \in Nat /\ DOMAIN s = 1..Len(s)
<1>1. PICK S : s \in Seq(S)
    BY DEF IsSequence
<1> QED
    BY <1>1, LenProperties

\* A longer sequence is a sequence.
LEMMA Appended ==
    ASSUME NEW s, IsSequence(s), NEW e
    PROVE  IsSequence(Append(s, e))
<1>1. PICK S : s \in Seq(S)
    BY DEF IsSequence
<1> DEFINE T == S \cup {e}
<1>2. s \in Seq(T) /\ e \in T
    BY <1>1, SeqMonotonic
<1> HIDE DEF T
<1>3. Append(s, e) \in Seq(T)
    BY <1>2, AppendProperties
<1> QED
    BY <1>3 DEF IsSequence

\* The empty sequence is one.
LEMMA EmptySequence == IsSequence(<<>>)
BY EmptySeq DEF IsSequence

(* Seeds                                                                     *)
Seeding(B, acc) == {"groups", "changed", "made"} = DOMAIN acc /\ Legit(B, acc.groups) /\ IsSequence(acc.made)

\* A seed makes its group, takes over a found one, or revives its own, and nothing else.
LEMMA SeedOneKeeps ==
    ASSUME NEW B, NEW acc, Seeding(B, acc), NEW x
    PROVE  Seeding(B, SeedOne(acc, x))
<1> DEFINE i == Find(acc.groups, x.type, x.seed.name)
           g == acc.groups[i]
           extra == x.seed.phrases \ (g.aliases \cup {g.name, x.seed.name})
           made == [NewGroup(x.type, x.seed.name, x.seed.name, x.seed.phrases, 0, "confirmed", "seed")
                       EXCEPT !.infer = x.seed.infer = x.type]
           taken == [made EXCEPT !.aliases = (@ \cup Phrases(g)) \ {x.seed.name}]
           added == [acc EXCEPT !.groups = AddGroup(@, made), !.changed = TRUE,
                                !.made = Append(@, <<NextId(acc.groups), x.seed.parent>>)]
           over == [acc EXCEPT !.groups[i] = taken, !.changed = TRUE,
                               !.made = Append(@, <<i, x.seed.parent>>)]
           back == [acc EXCEPT !.groups[i].retired = 0, !.groups[i].aliases = @ \cup extra,
                               !.changed = @ \/ g.retired # 0 \/ extra # {}]
<1>1. DOMAIN made = GroupFields /\ made.type = x.type /\ made.slug = x.seed.name
    BY DEF NewGroup, GroupFields
<1>2. DOMAIN taken = GroupFields /\ taken.type = x.type /\ taken.slug = x.seed.name
    <2> HIDE DEF made
    <2> QED
        BY <1>1 DEF GroupFields
<1> HIDE DEF made, taken
<1>3. i # 0 => i \in DOMAIN acc.groups /\ g.type = x.type /\ g.slug = x.seed.name
    BY FindIs DEF Seeding, Legit
<1>4. CASE i = 0
    <2>1. Legit(B, AddGroup(acc.groups, made))
        BY <1>1, <1>4, GroupAdded DEF Seeding
    <2>2. Seeding(B, added)
        BY <2>1, Appended DEF Seeding
    <2>3. SeedOne(acc, x) = added
        BY <1>4 DEF SeedOne, made
    <2> QED
        BY <2>2, <2>3
<1>5. CASE i # 0 /\ Derived(g)
    <2>1. RowKept(g, taken)
        BY <1>2, <1>3, <1>5 DEF RowKept
    <2>2. Legit(B, [acc.groups EXCEPT ![i] = taken])
        BY <2>1, RowChanged DEF Seeding
    <2>3. Seeding(B, over)
        BY <2>2, Appended DEF Seeding
    <2>4. SeedOne(acc, x) = over
        BY <1>5 DEF SeedOne, made, taken
    <2> QED
        BY <2>3, <2>4
<1>6. CASE i # 0 /\ ~ Derived(g) /\ g.source = "seed" /\ g.status # "ignored"
    <2>1. DOMAIN g = GroupFields
        BY <1>3, <1>6 DEF Seeding, Legit, IsTable
    <2>2. RowKept(g, [g EXCEPT !.retired = 0, !.aliases = @ \cup extra])
        <3> HIDE DEF g, extra
        <3> QED
            BY <2>1 DEF RowKept, GroupFields
    <2>3. Legit(B, [acc.groups EXCEPT ![i] = [g EXCEPT !.retired = 0, !.aliases = @ \cup extra]])
        BY <2>2, RowChanged DEF Seeding
    <2>4. Seeding(B, back)
        <3>1. back.groups = [acc.groups EXCEPT ![i] = [g EXCEPT !.retired = 0, !.aliases = @ \cup extra]]
            <4> HIDE DEF extra
            <4> QED
                BY <1>3, <1>6 DEF Seeding
        <3>2. back.made = acc.made /\ DOMAIN back = DOMAIN acc
            BY DEF Seeding
        <3> HIDE DEF back
        <3> QED
            BY <2>3, <3>1, <3>2 DEF Seeding
    <2>5. SeedOne(acc, x) = back
        BY <1>6 DEF SeedOne, made, taken
    <2> QED
        BY Zenon, <2>4, <2>5
<1>7. CASE i # 0 /\ ~ Derived(g) /\ ~ (g.source = "seed" /\ g.status # "ignored")
    BY <1>7 DEF SeedOne
<1> QED
    BY <1>4, <1>5, <1>6, <1>7

SeedingGood(c, k, acc) == Seeding(c.base, acc)
SeedOneStep(c, acc, type) == SeedOne(acc, [seed |-> c.seed, type |-> type])
SeedOnes == INSTANCE Folding WITH Op <- SeedOneStep, Good <- SeedingGood
SeedStep(c, acc, x) == SeedIn(acc, x)
Seeds == INSTANCE Folding WITH Op <- SeedStep, Good <- SeedingGood
HangSeedStep(c, G, m) == HangSeed(G, m)
SeedLines == INSTANCE Folding WITH Op <- HangSeedStep, Good <- TableGood

\* A seed does so in every type it is wanted in.
LEMMA SeedInKeeps ==
    ASSUME NEW B, NEW acc, Seeding(B, acc), NEW x, IsFiniteSet(x.types)
    PROVE  Seeding(B, SeedIn(acc, x))
<1> DEFINE c == [base |-> B, seed |-> x.seed]
           seq == SetToSeq(x.types)
<1>1. PICK n \in Nat : DOMAIN seq = 1..n
    BY SequenceOf
<1>2. ASSUME NEW k \in 1..n, NEW a, SeedingGood(c, k - 1, a) PROVE SeedingGood(c, k, SeedOneStep(c, a, seq[k]))
    BY <1>2, SeedOneKeeps DEF SeedingGood, SeedOneStep
<1>3. SeedingGood(c, 0, acc)
    BY DEF SeedingGood
<1> HIDE DEF c, seq
<1>4. SeedingGood(c, n, SeedOnes!Fold(c, acc, seq))
    BY <1>1, <1>2, <1>3, SeedOnes!FoldKeeps
<1>5. SeedOnes!Fold(c, acc, seq) = SeedIn(acc, x)
    BY DEF SeedOnes!Fold, SeedOnes!FoldLeft, SeedOnes!MapThenFoldSet, SeedOnes!Max, SeedIn, FoldLeft,
           MapThenFoldSet, Max, SeedOneStep, c, seq
<1> QED
    BY <1>4, <1>5 DEF SeedingGood, c

\* A seeded group goes under its line.
LEMMA HangSeedKeeps ==
    ASSUME NEW B, NEW G, Legit(B, G), NEW m
    PROVE  Legit(B, HangSeed(G, m))
BY ParentChanged DEF HangSeed

\* Seeding keeps the table legitimate.
LEMMA SeedKeeps ==
    ASSUME NEW B, NEW G, Legit(B, G), NEW seeds, NEW n \in Nat, DOMAIN seeds = 1..n, NEW wanted,
           \A k \in 1..n : IsFiniteSet(wanted[k])
    PROVE  Legit(B, Seed(G, seeds, wanted).groups)
<1> DEFINE c == [base |-> B]
           base == [groups |-> G, changed |-> FALSE, made |-> <<>>]
           seq == [k \in DOMAIN seeds |-> [seed |-> seeds[k], types |-> wanted[k]]]
           seeded == Seeds!Fold(c, base, seq)
           hung == SeedLines!Fold(c, seeded.groups, seeded.made)
<1>1. ASSUME NEW k \in 1..n, NEW a, SeedingGood(c, k - 1, a) PROVE SeedingGood(c, k, SeedStep(c, a, seq[k]))
    <2>1. IsFiniteSet(seq[k].types)
        OBVIOUS
    <2> HIDE DEF seq
    <2> QED
        BY <1>1, <2>1, SeedInKeeps DEF SeedingGood, SeedStep
<1>2. SeedingGood(c, 0, base)
    BY EmptySequence DEF SeedingGood, Seeding
<1>3. DOMAIN seq = 1..n
    OBVIOUS
<1> HIDE DEF c, seq, base
<1>4. SeedingGood(c, n, seeded)
    BY <1>1, <1>2, <1>3, Seeds!FoldKeeps
<1>5. seeded = FoldLeft(SeedIn, base, seq)
    BY DEF Seeds!Fold, Seeds!FoldLeft, Seeds!MapThenFoldSet, Seeds!Max, FoldLeft, MapThenFoldSet, Max, SeedStep
<1> HIDE DEF seeded
<1>6. Legit(B, seeded.groups) /\ IsSequence(seeded.made)
    BY <1>4 DEF SeedingGood, Seeding, c
<1>7. Legit(B, hung)
    <2> DEFINE m == Len(seeded.made)
    <2>1. m \in Nat /\ DOMAIN seeded.made = 1..m
        BY <1>6, SequenceIs
    <2>2. ASSUME NEW k \in 1..m, NEW a, TableGood(c, k - 1, a)
          PROVE  TableGood(c, k, HangSeedStep(c, a, seeded.made[k]))
        BY <2>2, HangSeedKeeps DEF TableGood, HangSeedStep
    <2>3. TableGood(c, 0, seeded.groups)
        BY <1>6 DEF TableGood, c
    <2> HIDE DEF m
    <2>4. TableGood(c, m, hung)
        BY <2>1, <2>2, <2>3, SeedLines!FoldKeeps
    <2> QED
        BY <2>4 DEF TableGood, c
<1>8. hung = FoldLeft(HangSeed, seeded.groups, seeded.made)
    BY DEF SeedLines!Fold, SeedLines!FoldLeft, SeedLines!MapThenFoldSet, SeedLines!Max, FoldLeft, MapThenFoldSet,
           Max, HangSeedStep
<1>9. Seed(G, seeds, wanted).groups = FoldLeft(HangSeed, seeded.groups, seeded.made)
    BY <1>5 DEF Seed, base, seq
<1> QED
    BY <1>7, <1>8, <1>9

(* What a pass may read.                                                     *)
Readable(x) ==
    /\ IsTable(x.groups)
    /\ IsFiniteSet(DOMAIN x.parents)
    /\ IsFiniteSet(DOMAIN x.titles) /\ DOMAIN x.titles \subseteq Nat
    /\ \A l \in DOMAIN x.titles : IsSequence(x.titles[l])
    /\ IsSequence(Policies[x.policy])
    /\ \A k \in DOMAIN Policies[x.policy] : IsFiniteSet(Policies[x.policy][k].types)

\* What a pass read is where it starts.
LEMMA TableIsLegit ==
    ASSUME NEW B, IsTable(B)
    PROVE  Legit(B, B)
BY DEF Legit, IsTable, Ruled

\* The listings of a pass are finitely many,
LEMMA RowsAreFew ==
    ASSUME NEW x, Readable(x)
    PROVE  IsFiniteSet(Rows(x))
BY FS_Subset DEF Readable, Rows

\* and so are the types a seed is needed in.
LEMMA NeededAreFew ==
    ASSUME NEW seeds, NEW titled, IsFiniteSet(titled), NEW k \in DOMAIN seeds
    PROVE  IsFiniteSet(Needed(seeds, titled)[k])
<1> DEFINE any == SeedTypes(seeds, titled)
<1>1. IsFiniteSet(any[k])
    <2>1. \E S : S \subseteq titled /\ any[k] = {x[1] : x \in S}
        BY DEF SeedTypes
    <2>2. PICK S : S \subseteq titled /\ any[k] = {x[1] : x \in S}
        BY <2>1
    <2> DEFINE f == [x \in S |-> x[1]]
    <2>3. IsFiniteSet(S)
        BY <2>2, FS_Subset
    <2>4. any[k] = {f[x] : x \in S}
        BY <2>2
    <2> HIDE DEF f, any
    <2> QED
        BY <2>3, <2>4, FiniteImage
<1> HIDE DEF any
<1>2. Needed(seeds, titled)[k] = IF seeds[k].types = {} THEN any[k] ELSE {}
    BY DEF Needed, any
<1> QED
    BY <1>1, <1>2, FS_EmptySet

\* After the rules and the seeds the table is legitimate, and what is idle are seeds.
LEMMA SeededKeeps ==
    ASSUME NEW x, Readable(x), NEW full
    PROVE  LET p == Seeded(x, full)
           IN  /\ Legit(x.groups, p.groups)
               /\ \A i \in p.idle : p.groups[i].source = "seed" /\ p.groups[i].status = "confirmed"
               /\ p.norm = [l \in Rows(x) |-> Normalize(x.titles[l])]
<1> DEFINE seeds == Policies[x.policy]
           n == Len(seeds)
           norm == [l \in Rows(x) |-> Normalize(x.titles[l])]
           plain == [l \in Rows(x) |-> ClassifyType(Listings[l].rule, norm[l], NoModels)]
           titled == {<<plain[l].type, norm[l].tokens>> : l \in {k \in Rows(x) : plain[k].type # Review}}
           first == Seed(x.groups, seeds, Fixed(seeds)).groups
           hung == ApplyParents(first, x.parents)
           needed == Needed(seeds, titled)
           any == Seed(hung, seeds, needed)
           last == IF any.changed THEN ApplyParents(any.groups, x.parents) ELSE any.groups
           p == Seeded(x, full)
<1>1. n \in Nat /\ DOMAIN seeds = 1..n /\ IsFiniteSet(DOMAIN x.parents)
    BY SequenceIs DEF Readable
<1>2. Legit(x.groups, first)
    <2>1. \A k \in 1..n : IsFiniteSet(Fixed(seeds)[k])
        BY <1>1 DEF Fixed, Readable
    <2>2. Legit(x.groups, x.groups)
        BY TableIsLegit DEF Readable
    <2> HIDE DEF seeds, n
    <2> QED
        BY <1>1, <2>1, <2>2, SeedKeeps
<1>3. Legit(x.groups, hung)
    <2> HIDE DEF first
    <2> QED
        BY <1>1, <1>2, ApplyParentsKeeps
<1>4. IsFiniteSet(titled)
    <2> DEFINE S == {k \in Rows(x) : plain[k].type # Review}
               f == [l \in S |-> <<plain[l].type, norm[l].tokens>>]
    <2>1. IsFiniteSet(S)
        BY RowsAreFew, FS_Subset
    <2>2. titled = {f[l] : l \in S}
        <3> HIDE DEF plain, norm
        <3> QED
            OBVIOUS
    <2> HIDE DEF S, f, titled
    <2> QED
        BY <2>1, <2>2, FiniteImage
<1>5. Legit(x.groups, any.groups)
    <2>1. \A k \in 1..n : IsFiniteSet(needed[k])
        <3> HIDE DEF titled, seeds, n
        <3> QED
            BY <1>1, <1>4, NeededAreFew
    <2> HIDE DEF hung, needed, seeds, n
    <2> QED
        BY <1>1, <1>3, <2>1, SeedKeeps
<1>6. Legit(x.groups, last)
    <2> HIDE DEF any
    <2> QED
        BY <1>1, <1>5, ApplyParentsKeeps
<1>7. /\ p.groups = last /\ p.norm = norm
      /\ p.idle = IdleSeeds(last, seeds, needed, x.overrides, x.parents)
    BY Zenon DEF Seeded
<1> HIDE DEF p, last
<1>8. \A i \in p.idle : last[i].source = "seed" /\ last[i].status = "confirmed"
    BY <1>7 DEF IdleSeeds
<1>9. \A i \in p.idle : p.groups[i].source = "seed" /\ p.groups[i].status = "confirmed"
    BY <1>7, <1>8
<1> QED
    BY <1>6, <1>7, <1>9 DEF p

\* Assigning adds versions and leaves a result for each listing.
LEMMA AssignKeeps ==
    ASSUME NEW B, NEW G, Legit(B, G), NEW rows, IsFiniteSet(rows), NEW types, NEW norm, NEW O, NEW D
    PROVE  LET a == Assign(G, rows, types, norm, O, D)
           IN  Legit(B, a.groups) /\ DOMAIN a.results = rows
<1> DEFINE a == Assign(G, rows, types, norm, O, D)
           bound == {l \in rows : l \in DOMAIN O /\ O[l] \in DOMAIN G}
           match == [l \in rows \ bound |-> IF types[l] = Review THEN NoHit ELSE Match(D, types[l], norm[l].tokens)]
           versioned == {l \in DOMAIN match : match[l] # NoHit /\ match[l].version # <<>>}
           known(l) == {e \in OfType(D, types[l]) : match[l].version \in e.phrases}
           of(v) == {l \in versioned : <<types[l], match[l].version>> = v}
           line(v) == match[CHOOSE l \in of(v) : TRUE].entry.key
           wanted == {<<types[l], match[l].version>> : l \in {x \in versioned : known(x) = {}}}
           steps == {[type |-> v[1], phrase |-> v[2], line |-> line(v)] : v \in wanted}
           versions == WithVersions(G, steps)
           version(l) == IF known(l) # {} THEN Owner(OfType(D, types[l]), match[l].version).key
                         ELSE Find(versions, types[l], match[l].version)
           rejected == {l \in versioned : known(l) = {} /\ versions[version(l)].status = "ignored"}
           nameless == {l \in DOMAIN match : match[l] = NoHit} \cup rejected
           without == {types[l] : l \in nameless}
<1>1. a.groups = WithBuckets(versions, without) /\ DOMAIN a.results = rows
    BY Zenon DEF Assign
<1>2. IsFiniteSet(steps)
    <2> DEFINE S == {x \in versioned : known(x) = {}}
               f == [l \in S |-> <<types[l], match[l].version>>]
               g == [v \in wanted |-> [type |-> v[1], phrase |-> v[2], line |-> line(v)]]
    <2>1. S \subseteq rows
        <3> HIDE DEF known
        <3> QED
            OBVIOUS
    <2>2. IsFiniteSet(S)
        BY <2>1, FS_Subset
    <2> HIDE DEF S
    <2>3. wanted = {f[l] : l \in S}
        <3> HIDE DEF match
        <3> QED
            BY DEF S
    <2> HIDE DEF f, wanted
    <2>4. IsFiniteSet(wanted)
        BY <2>2, <2>3, FiniteImage
    <2>5. steps = {g[v] : v \in wanted}
        <3> HIDE DEF line
        <3> QED
            OBVIOUS
    <2> HIDE DEF g, steps
    <2> QED
        BY <2>4, <2>5, FiniteImage
<1>3. IsFiniteSet(without)
    <2> DEFINE f == [l \in nameless |-> types[l]]
    <2>1. nameless \subseteq rows
        <3> HIDE DEF versions, known, version
        <3> QED
            OBVIOUS
    <2> HIDE DEF nameless
    <2>2. IsFiniteSet(nameless)
        BY <2>1, FS_Subset
    <2>3. without = {f[l] : l \in nameless}
        OBVIOUS
    <2> HIDE DEF f, without
    <2> QED
        BY <2>2, <2>3, FiniteImage
<1> HIDE DEF steps, without
<1>4. Legit(B, versions)
    BY <1>2, WithVersionsKeeps
<1> HIDE DEF versions
<1>5. Legit(B, WithBuckets(versions, without))
    BY <1>3, <1>4, WithBucketsKeeps
<1> QED
    BY <1>1, <1>5

\* Listings that go to lines of their slugs need only those lines.
LEMMA OnLinesKeeps ==
    ASSUME NEW B, NEW acc, Legit(B, acc.groups), IsFiniteSet(DOMAIN acc.results), DOMAIN acc = {"groups", "results"},
           NEW placed, placed \subseteq DOMAIN acc.results, NEW slug, NEW method
    PROVE  LET a == OnLines(acc, placed, slug, method)
           IN  Legit(B, a.groups) /\ DOMAIN a.results = DOMAIN acc.results /\ DOMAIN a = DOMAIN acc
<1> DEFINE f == [l \in placed |-> <<acc.results[l].type, slug[l]>>]
           lines == {f[l] : l \in placed}
           G == WithLines(acc.groups, lines)
           result(l) == IF l \notin placed THEN acc.results[l]
                        ELSE Decision(acc.results[l].type, Find(G, acc.results[l].type, slug[l]), method)
           results == [l \in DOMAIN acc.results |-> result(l)]
           a == [acc EXCEPT !.groups = G, !.results = results]
<1>1. OnLines(acc, placed, slug, method) = a
    <2>1. lines = {<<acc.results[l].type, slug[l]>> : l \in placed}
        OBVIOUS
    <2> HIDE DEF lines
    <2> QED
        BY Zenon, <2>1 DEF OnLines
<1>2. IsFiniteSet(lines)
    <2>1. IsFiniteSet(placed)
        BY FS_Subset
    <2> HIDE DEF f
    <2> QED
        BY <2>1, FiniteImage
<1> HIDE DEF lines
<1>3. Legit(B, G)
    BY <1>2, WithLinesKeeps
<1>4. DOMAIN results = DOMAIN acc.results
    OBVIOUS
<1> HIDE DEF G, results
<1> QED
    BY <1>1, <1>3, <1>4

\* The lines the system makes keep the table legitimate.
LEMMA SystemLinesKeeps ==
    ASSUME NEW B, NEW acc, Legit(B, acc.groups), IsFiniteSet(DOMAIN acc.results), DOMAIN acc = {"groups", "results"},
           NEW norm, NEW method, NEW Slug(_, _)
    PROVE  LET a == SystemLines(acc, norm, method, Slug)
           IN  Legit(B, a.groups) /\ DOMAIN a.results = DOMAIN acc.results /\ DOMAIN a = DOMAIN acc
<1> DEFINE free == {l \in DOMAIN acc.results : acc.results[l].method = "none"}
           slug == [l \in free |-> Slug(norm[l], acc.results[l].type)]
           accepts(i) == i # 0 => acc.groups[i].status # "ignored"
           placed == {l \in free : slug[l] # <<>> /\ accepts(Find(acc.groups, acc.results[l].type, slug[l]))}
<1>1. SystemLines(acc, norm, method, Slug) = OnLines(acc, placed, slug, method)
    BY Zenon DEF SystemLines
<1>2. placed \subseteq DOMAIN acc.results
    <2> HIDE DEF accepts, slug
    <2> QED
        OBVIOUS
<1> HIDE DEF placed, slug
<1> QED
    BY <1>1, <1>2, OnLinesKeeps

\* So does deciding each listing; what a delta looks at are listings of the pass.
LEMMA DecidedKeeps ==
    ASSUME NEW x, Readable(x), NEW p, Legit(x.groups, p.groups)
    PROVE  LET d == Decided(x, p)
           IN  /\ Legit(x.groups, d.groups) /\ DOMAIN d.results = Rows(x)
               /\ d.targets \subseteq Rows(x)
<1> DEFINE targets == {l \in Rows(x) : \/ ~ p.delta \/ x.assigned[l].group = 0
                                    \/ x.assigned[l].title # x.titles[l] \/ l \in DOMAIN x.overrides}
           D == Entries(p.groups, p.weight, LAMBDA i : Standing(p, p.groups, i))
           types == [l \in Rows(x) |->
                       IF p.plain[l].method # "fallback" THEN p.plain[l].type
                       ELSE ClassifyType(Listings[l].rule, p.norm[l], LAMBDA c, t : InferType(D, c, t)).type]
           a == Assign(p.groups, targets, types, p.norm, x.overrides, D)
<1>1. targets \subseteq Rows(x)
    OBVIOUS
<1>2. /\ Decided(x, p).groups = a.groups /\ DOMAIN Decided(x, p).results = Rows(x)
      /\ Decided(x, p).targets = targets
    BY DEF Decided
<1> HIDE DEF targets, D, types
<1>3. IsFiniteSet(targets)
    BY <1>1, RowsAreFew, FS_Subset
<1>4. Legit(x.groups, a.groups)
    BY <1>3, AssignKeeps
<1> QED
    BY <1>1, <1>2, <1>4

\* A title has finitely many phrases,
LEMMA GramsAreFew ==
    ASSUME NEW t, IsSequence(t)
    PROVE  IsFiniteSet(Grams(t))
<1> DEFINE n == Len(t)
           places == (1..n) \X (1..n)
           f == [k \in places |-> SubSeq(t, k[1], k[2])]
           T == {f[k] : k \in places}
<1>1. n \in Nat
    BY SequenceIs
<1> HIDE DEF n
<1>2. IsFiniteSet(1..n)
    BY <1>1, FS_Interval
<1>3. IsFiniteSet(places)
    BY <1>2, FS_Product
<1>4. Grams(t) \subseteq T
    <2>1. ASSUME NEW g \in Grams(t) PROVE g \in T
        <3>1. PICK i \in 1..n, j \in 1..n : g = SubSeq(t, i, j)
            BY DEF Grams, n
        <3>2. <<i, j>> \in places /\ f[<<i, j>>] = g
            BY <3>1
        <3> QED
            BY <3>2
    <2> QED
        BY <2>1
<1> HIDE DEF places, f
<1>5. IsFiniteSet(T)
    <2> HIDE DEF T
    <2> QED
        BY <1>3, FiniteImage DEF T
<1> QED
    BY <1>4, <1>5, FS_Subset

\* a phrase finitely many spellings,
LEMMA SpelledAreFew ==
    ASSUME NEW uses, IsFiniteSet(DOMAIN uses), NEW excluded, NEW known, NEW kept, NEW accepted
    PROVE  IsFiniteSet(Spelled(uses, excluded, known, kept, accepted))
<1>1. \E S, f : S \subseteq DOMAIN uses /\ Spelled(uses, excluded, known, kept, accepted) = {f[g] : g \in S}
    <2> DEFINE
        beaten(a, b) == \E k \in 1..4 : a[k] < b[k] /\ \A j \in 1..(k - 1) : a[j] = b[j]
        spellings(g) == {h \in DOMAIN uses \ excluded : Join(h) = Join(g)}
        rank(g) == <<Sellers(uses[g]), IF g \in kept THEN 1 ELSE 0, Len(g), g[1]>>
        wins(g) == \A h \in (spellings(g) \cap accepted) \ {g} : beaten(rank(h), rank(g))
        name(g, others, total) ==
            [tokens |-> g, support |-> Sellers(uses[g]), variants |-> others,
             fragment |-> 2 * Min({total, OwnInAll(uses, known, accepted, g, others)}) < total]
        row(g) == name(g, spellings(g) \ {g}, Sellers(UNION {uses[h] : h \in spellings(g) \cup {g}}))
        S == {h \in DOMAIN uses : h \in accepted /\ wins(h)}
        f == [g \in S |-> row(g)]
    <2>1. Spelled(uses, excluded, known, kept, accepted) = {row(g) : g \in S}
        BY DEF Spelled
    <2> HIDE DEF row, S
    <2>2. {row(g) : g \in S} = {f[g] : g \in S}
        OBVIOUS
    <2>3. S \subseteq DOMAIN uses
        BY DEF S
    <2> HIDE DEF f
    <2>4. Spelled(uses, excluded, known, kept, accepted) = {f[g] : g \in S}
        BY <2>1, <2>2
    <2> QED
        BY <2>3, <2>4
<1>2. PICK S, f : S \subseteq DOMAIN uses /\ Spelled(uses, excluded, known, kept, accepted) = {f[g] : g \in S}
    BY <1>1
<1> QED
    BY <1>2, FS_Subset, FiniteImage

\* and a set of titles yields finitely many models.
LEMMA MinedAreFew ==
    ASSUME NEW samples, IsFiniteSet(samples), \A s \in samples : IsSequence(s.tokens),
           NEW excluded, NEW P, NEW kept, NEW floor, NEW solid
    PROVE  IsFiniteSet(MinePhrases(samples, excluded, P, kept, floor, solid))
<1> DEFINE grams == {Grams(s.tokens) : s \in samples}
           all == {g \in UNION grams : Eligible(g, P)}
           used == {h \in all : Uses(h, samples, P) # {}}
           uses == [g \in used |-> Uses(g, samples, P)]
<1>1. IsFiniteSet(UNION grams)
    <2> DEFINE f == [s \in samples |-> Grams(s.tokens)]
    <2>1. grams = {f[s] : s \in samples}
        OBVIOUS
    <2>2. \A T \in grams : IsFiniteSet(T)
        BY GramsAreFew
    <2> HIDE DEF f, grams
    <2>3. IsFiniteSet(grams)
        BY <2>1, FiniteImage
    <2> QED
        BY <2>2, <2>3, FS_UNION
<1>2. used \subseteq UNION grams
    <2> HIDE DEF grams
    <2> QED
        OBVIOUS
<1>3. IsFiniteSet(DOMAIN uses)
    <2> HIDE DEF used, grams
    <2> QED
        BY <1>1, <1>2, FS_Subset
<1>4. \E known, accepted :
         MinePhrases(samples, excluded, P, kept, floor, solid) = Spelled(uses, excluded, known, kept, accepted)
    <2> DEFINE
        collocates(g, support) ==
            \A part \in {Tail(g), Front(g)} \cap DOMAIN support : 2 * support[g] >= support[part]
        candidates(support, known) ==
            {g \in DOMAIN support \ known :
                support[g] >= Threshold(g, kept, floor) /\ (Len(g) > 1 => collocates(g, support))}
        respelled(S) == {g \in S : Len(g) > 1 /\ ToSet(Join(g)) \subseteq solid}
        known == (excluded \cup respelled(DOMAIN uses)) \cap DOMAIN uses
        accepted == Accepted(uses, known, candidates([g \in DOMAIN uses |-> Sellers(uses[g])], known), kept, floor)
    <2>1. MinePhrases(samples, excluded, P, kept, floor, solid) = Spelled(uses, excluded, known, kept, accepted)
        BY Zenon DEF MinePhrases
    <2> HIDE DEF known, accepted, uses
    <2> QED
        BY <2>1
<1> HIDE DEF uses
<1> QED
    BY <1>3, <1>4, SpelledAreFew

\* They are mined in an order.
LEMMA MiningIsOrdered ==
    ASSUME NEW found, IsFiniteSet(found), NEW kept
    PROVE  \E n \in Nat : DOMAIN MiningOrder(found, kept) = 1..n
<1>1. DOMAIN MiningOrder(found, kept) = 1..Cardinality(found)
    BY DEF MiningOrder, Arranged
<1> QED
    BY <1>1, FS_CardinalityType

MiningFields == {"groups", "derived", "fresh", "before", "touched", "fragments", "taken"}

(* What mining has made so far.                                              *)
MiningState(B, acc) ==
    /\ DOMAIN acc = MiningFields
    /\ Legit(B, acc.groups)
    /\ IsSequence(acc.touched)
    /\ acc.fresh \subseteq DOMAIN acc.groups \ DOMAIN B

(* Within one type: the found groups a phrase may come back to are as they were.*)
TypeState(B, before, acc) ==
    /\ MiningState(B, acc)
    /\ acc.before = before
    /\ DOMAIN before \subseteq DOMAIN acc.groups
    /\ \A i \in DOMAIN before \ acc.derived : acc.groups[i] = before[i]

\* The slug a found group gets back is one of its phrases.
LEMMA SmallestOf ==
    ASSUME NEW S \in SUBSET Nat, S # {}
    PROVE  Min(S) \in S
<1>1. PICK m \in S : \A k \in S : m <= k
    BY Parents!LeastNatural
<1> QED
    BY <1>1 DEF Min

\* A found group that is spelled as it is found now is kept but for its slug.
LEMMA RowRespelled ==
    ASSUME NEW B, NEW G, Legit(B, G), NEW i \in DOMAIN G, Derived(G[i]), NEW h, DOMAIN h = GroupFields,
           h.type = G[i].type, h.slug # G[i].slug => \A j \in DOMAIN G : ~ (G[j].type = h.type /\ G[j].slug = h.slug)
    PROVE  Legit(B, [G EXCEPT ![i] = h])
<1> DEFINE H == [G EXCEPT ![i] = h]
<1>1. DOMAIN H = DOMAIN G /\ \A j \in DOMAIN G : H[j] = IF j = i THEN h ELSE G[j]
    OBVIOUS
<1> HIDE DEF H
<1>2. IsTable(H)
    BY <1>1 DEF Legit, IsTable
<1>3. \A j \in DOMAIN B : Ruled(B[j], H[j])
    BY <1>1 DEF Legit, Ruled, Derived
<1>4. ~ Clashes(G) => ~ Clashes(H)
    BY <1>1 DEF Clashes
<1> QED
    BY <1>1, <1>2, <1>3, <1>4 DEF Legit, H

\* A phrase comes back to a found group of its type that still is as it was read.
LEMMA ReusedIs ==
    ASSUME NEW acc, DOMAIN acc.before \subseteq Nat, NEW mined, mined \subseteq DOMAIN acc.before, NEW m, NEW taken
    PROVE  LET reused == Reused(acc, mined, m, taken)
           IN  /\ reused \subseteq mined \ acc.derived
               /\ \A i \in reused : acc.before[i].slug = m.tokens \/ m.tokens \notin taken
<1> DEFINE bySlug(p) == {i \in mined : acc.before[i].slug = p}
           byAlias == {i \in mined : m.tokens \in acc.before[i].aliases}
           variants == SelectSeq(SetToSeq(m.variants), LAMBDA p : bySlug(p) # {})
           second == bySlug(variants[1])
           found == IF bySlug(m.tokens) # {} THEN bySlug(m.tokens)
                    ELSE IF m.tokens \in taken THEN {}
                    ELSE IF byAlias # {} THEN {Min(byAlias)}
                    ELSE IF variants # <<>> THEN second ELSE {}
<1>1. Reused(acc, mined, m, taken) = found \ acc.derived
    BY Zenon DEF Reused
<1>2. byAlias # {} => Min(byAlias) \in mined
    <2>1. byAlias \in SUBSET Nat /\ byAlias \subseteq mined
        OBVIOUS
    <2> HIDE DEF byAlias
    <2> QED
        BY <2>1, SmallestOf
<1>3. second \subseteq mined
    <2> HIDE DEF variants
    <2> QED
        OBVIOUS
<1> HIDE DEF variants, second, byAlias
<1>4. /\ found \subseteq mined
      /\ \A i \in found : acc.before[i].slug = m.tokens \/ m.tokens \notin taken
    BY <1>2, <1>3
<1> HIDE DEF found
<1> QED
    BY <1>1, <1>4

\* A mined phrase goes to the group it came from, to one that has its slug, or to a new one.
LEMMA MinePhraseKeeps ==
    ASSUME NEW B, NEW before, NEW acc, TypeState(B, before, acc), DOMAIN before \subseteq Nat,
           NEW type, NEW mined, mined \subseteq DOMAIN before,
           \A i \in mined : Derived(before[i]) /\ before[i].type = type,
           NEW m
    PROVE  TypeState(B, before, MinePhrase(acc, mined, type, m))
<1> DEFINE G == acc.groups
           slugs == {G[i].slug : i \in {j \in DOMAIN G : G[j].type = type}}
           taken == slugs \cup acc.taken
           reused == Reused(acc, mined, m, taken)
           i == CHOOSE j \in reused : TRUE
           g == G[i]
           respelled == IF g.slug = m.tokens THEN [g EXCEPT !.aliases = @ \cup m.variants]
                        ELSE [g EXCEPT !.aliases = ((@ \cup {g.name, g.slug}) \ {m.tokens}) \cup m.variants,
                                       !.slug = m.tokens, !.name = m.tokens]
           h == [respelled EXCEPT !.retired = 0]
           id == NextId(G)
           new == NewGroup(type, m.tokens, m.tokens, m.variants, 0, "auto", "mined")
           r == MinePhrase(acc, mined, type, m)
<1>1. /\ Legit(B, G) /\ IsTable(G) /\ acc.before = before
      /\ \A j \in DOMAIN before \ acc.derived : j \in DOMAIN G /\ G[j] = before[j]
    BY DEF TypeState, MiningState, Legit
<1>2. CASE reused # {}
    <2>1. i \in mined \ acc.derived /\ (before[i].slug = m.tokens \/ m.tokens \notin taken)
        <3>1. i \in reused
            BY <1>2
        <3> HIDE DEF reused, i, taken
        <3> QED
            BY <1>1, <3>1, ReusedIs DEF reused
    <2>2. i \in DOMAIN G /\ g = before[i] /\ Derived(g) /\ g.type = type
        BY <1>1, <2>1
    <2>3. DOMAIN g = GroupFields
        BY <1>1, <2>2 DEF IsTable
    <2>4. DOMAIN h = GroupFields /\ h.type = type /\ h.slug = m.tokens
        <3> HIDE DEF g
        <3> QED
            BY <2>2, <2>3 DEF GroupFields
    <2>5. m.tokens # g.slug => \A j \in DOMAIN G : ~ (G[j].type = type /\ G[j].slug = m.tokens)
        BY <2>1, <2>2
    <2> HIDE DEF h
    <2>6. Legit(B, [G EXCEPT ![i] = h])
        <3> HIDE DEF G, i
        <3> QED
            BY <1>1, <2>2, <2>4, <2>5, RowRespelled DEF g
    <2>7. /\ DOMAIN r = DOMAIN acc
          /\ r.groups = [G EXCEPT ![i] = h]
          /\ r.derived = acc.derived \cup {i}
          /\ r.touched = Append(acc.touched, [tokens |-> m.tokens, id |-> i])
          /\ r.fresh = acc.fresh /\ r.before = before
        <3> DEFINE
            to(H) == [acc EXCEPT !.groups = H, !.derived = @ \cup {i},
                                 !.touched = Append(@, [tokens |-> m.tokens, id |-> i]),
                                 !.fragments = IF m.fragment THEN @ \cup {i} ELSE @]
            back == [to([acc.groups EXCEPT ![i] = [respelled EXCEPT !.retired = 0]]) EXCEPT !.taken = @ \cup {G[i].slug}]
        <3>1. r = back
            BY <1>2 DEF MinePhrase
        <3> HIDE DEF i, r
        <3> QED
            BY <1>1, <3>1 DEF TypeState, MiningState, MiningFields, h
    <2> HIDE DEF r, i, reused, g
    <2>8. Legit(B, r.groups) /\ IsSequence(r.touched) /\ DOMAIN r = MiningFields
        BY <2>6, <2>7, Appended DEF TypeState, MiningState
    <2>9. /\ r.fresh \subseteq DOMAIN r.groups \ DOMAIN B
          /\ DOMAIN before \subseteq DOMAIN r.groups
        BY <2>7 DEF TypeState, MiningState
    <2>10. \A j \in DOMAIN before \ r.derived : r.groups[j] = before[j]
        BY <1>1, <2>7
    <2>11. TypeState(B, before, r)
        BY <2>7, <2>8, <2>9, <2>10 DEF TypeState, MiningState
    <2> QED
        BY <2>11 DEF r
<1>3. CASE reused = {} /\ m.tokens \in taken
    BY Zenon, <1>3 DEF MinePhrase
<1>4. CASE reused = {} /\ m.tokens \notin taken
    <2>1. /\ DOMAIN r = DOMAIN acc
          /\ r.groups = Put(G, id, new)
          /\ r.derived = acc.derived \cup {id}
          /\ r.touched = Append(acc.touched, [tokens |-> m.tokens, id |-> id])
          /\ r.fresh = acc.fresh \cup {id} /\ r.before = before
        <3> DEFINE
            to(H) == [acc EXCEPT !.groups = H, !.derived = @ \cup {id},
                                 !.touched = Append(@, [tokens |-> m.tokens, id |-> id]),
                                 !.fragments = IF m.fragment THEN @ \cup {id} ELSE @]
            made == [to(Put(acc.groups, id, new)) EXCEPT !.fresh = @ \cup {id}]
        <3>1. r = made
            BY Zenon, <1>4 DEF MinePhrase
        <3> HIDE DEF id, r, new
        <3> QED
            BY <1>1, <3>1 DEF TypeState, MiningState, MiningFields
    <2>2. id \in Nat \ {0} /\ id \notin DOMAIN G /\ \A j \in DOMAIN G : id > j
        BY <1>1, NextIdIsFree
    <2>3. DOMAIN new = GroupFields /\ new.type = type /\ new.slug = m.tokens
        BY NewRow
    <2>4. \A j \in DOMAIN G : ~ (G[j].type = type /\ G[j].slug = m.tokens)
        BY <1>4
    <2> HIDE DEF id, new, r, G
    <2>5. Legit(B, Put(G, id, new))
        BY <1>1, <2>2, <2>3, <2>4, RowAdded
    <2>6. DOMAIN Put(G, id, new) = {id} \cup DOMAIN G /\ \A j \in DOMAIN G : Put(G, id, new)[j] = G[j]
        BY <2>2 DEF Put
    <2> HIDE DEF reused, taken
    <2>7. r.fresh \subseteq DOMAIN r.groups \ DOMAIN B
        BY <1>1, <2>1, <2>2, <2>6 DEF TypeState, MiningState, Legit, G
    <2>8. \A j \in DOMAIN before \ r.derived : r.groups[j] = before[j]
        BY <1>1, <2>1, <2>2, <2>6
    <2>9. DOMAIN before \subseteq DOMAIN r.groups
        BY <2>1, <2>6 DEF TypeState, G
    <2>10. IsSequence(r.touched)
        BY <2>1, Appended DEF TypeState, MiningState
    <2>11. Legit(B, r.groups) /\ DOMAIN r = MiningFields /\ r.before = before
        BY <2>1, <2>5 DEF TypeState, MiningState
    <2>12. MiningState(B, r)
        BY <2>7, <2>10, <2>11 DEF MiningState
    <2>13. TypeState(B, before, r)
        BY <2>8, <2>9, <2>11, <2>12 DEF TypeState
    <2> QED
        BY <2>13 DEF r
<1> QED
    BY <1>2, <1>3, <1>4

PhraseStep(c, acc, m) == MinePhrase(acc, c.mined, c.type, m)
PhraseGood(c, k, acc) == TypeState(c.base, c.before, acc)
MinedPhrases == INSTANCE Folding WITH Op <- PhraseStep, Good <- PhraseGood

\* All phrases of a type do.
LEMMA MineFoundKeeps ==
    ASSUME NEW B, NEW before, NEW acc, TypeState(B, before, acc), DOMAIN before \subseteq Nat,
           NEW type, NEW mined, mined \subseteq DOMAIN before,
           \A i \in mined : Derived(before[i]) /\ before[i].type = type,
           NEW order, NEW n \in Nat, DOMAIN order = 1..n
    PROVE  TypeState(B, before, MineFound(acc, mined, type, order))
<1> DEFINE c == [base |-> B, before |-> before, mined |-> mined, type |-> type]
<1>1. ASSUME NEW k \in 1..n, NEW a, PhraseGood(c, k - 1, a) PROVE PhraseGood(c, k, PhraseStep(c, a, order[k]))
    BY <1>1, MinePhraseKeeps DEF PhraseGood, PhraseStep
<1>2. PhraseGood(c, 0, acc)
    BY DEF PhraseGood
<1> HIDE DEF c
<1>3. PhraseGood(c, n, MinedPhrases!Fold(c, acc, order))
    BY <1>1, <1>2, MinedPhrases!FoldKeeps
<1>4. MinedPhrases!Fold(c, acc, order) = MineFound(acc, mined, type, order)
    BY DEF MinedPhrases!Fold, MinedPhrases!FoldLeft, MinedPhrases!MapThenFoldSet, MinedPhrases!Max, MineFound,
           FoldLeft, MapThenFoldSet, Max, PhraseStep, c
<1> QED
    BY <1>3, <1>4 DEF PhraseGood, c

(* What is mined in: finite sets of titles.                                  *)
Samples(x) ==
    /\ IsFiniteSet(DOMAIN x.samples)
    /\ \A type \in DOMAIN x.samples : /\ IsFiniteSet(x.samples[type])
                                      /\ \A s \in x.samples[type] : IsSequence(s.tokens)

\* Mining one type keeps what the pass read.
LEMMA MineTypeKeeps ==
    ASSUME NEW B, NEW acc, MiningState(B, acc), NEW x, Samples(x), NEW type \in DOMAIN x.samples
    PROVE  MiningState(B, MineType(acc, type, x))
<1> DEFINE
    G == acc.groups
    inType == {i \in DOMAIN G : /\ G[i].type = type
                                /\ ~ IsDescriptor(G[i].slug) /\ ~ IsCollab(G[i].slug)}
    mined == {i \in inType : Derived(G[i])}
    known == {i \in inType : \/ ~ Derived(G[i])
                             \/ i \in x.protected
                             \/ ~ x.full /\ G[i].retired = 0}
    names(i) == Phrases(G[i]) \cup {G[i].slug}
    fixed == {i \in known : G[i].status \in {"confirmed", "ignored"}}
    solid == {p[1] : p \in {q \in UNION {names(i) : i \in fixed} : Len(q) = 1}}
    kept == {G[i].slug : i \in {j \in mined : G[j].retired = 0 /\ G[j].parent = 0}}
    found == MinePhrases(x.samples[type], UNION {names(i) : i \in known},
                         x.blocks \cup DescriptorPhrases(type),
                         kept, KeepSellers, solid)
    wanted == {m \in found : m.tokens \in x.scope[type]}
    order == MiningOrder(wanted, kept)
    lines == {[tokens |-> G[i].name, id |-> i] :
                i \in {j \in known : /\ G[j].parent = 0 /\ ~ IsUnused(G[j])
                                     /\ G[j].slug # NoneSlug /\ G[j].name # <<>>}}
    base == [acc EXCEPT !.before = G, !.touched = <<>>, !.fragments = {}, !.taken = {}]
    step == MineFound(base, mined, type, order)
    candidates == {y \in lines \cup ToSet(step.touched) : y.id \notin step.fragments}
    hung == [step EXCEPT !.groups = Hang(step.groups, step.touched, candidates)]
<1>1. MineType(acc, type, x) = hung
    BY DEF MineType
<1>2. IsFiniteSet(wanted)
    <2>1. IsFiniteSet(found)
        <3> HIDE DEF kept, solid, known, names
        <3> QED
            BY MinedAreFew DEF Samples
    <2> HIDE DEF found
    <2> QED
        BY <2>1, FS_Subset
<1>3. PICK n \in Nat : DOMAIN order = 1..n
    <2> HIDE DEF wanted, kept
    <2> QED
        BY <1>2, MiningIsOrdered
<1>4. /\ mined \subseteq DOMAIN G /\ DOMAIN G \subseteq Nat
      /\ \A i \in mined : Derived(G[i]) /\ G[i].type = type
    BY DEF MiningState, Legit, IsTable
<1>5. TypeState(B, G, base)
    BY EmptySequence DEF TypeState, MiningState, MiningFields
<1> HIDE DEF order, mined, base
<1>6. TypeState(B, G, step)
    <2> HIDE DEF G
    <2> QED
        BY <1>3, <1>4, <1>5, MineFoundKeeps
<1> HIDE DEF step, candidates
<1>7. Legit(B, Hang(step.groups, step.touched, candidates))
    BY <1>6, SequenceIs, HangKeeps DEF TypeState, MiningState
<1>8. DOMAIN step.groups \subseteq DOMAIN Hang(step.groups, step.touched, candidates)
    <2>1. Legit(step.groups, step.groups)
        BY <1>6, TableIsLegit DEF TypeState, MiningState, Legit
    <2>2. Legit(step.groups, Hang(step.groups, step.touched, candidates))
        BY <1>6, <2>1, SequenceIs, HangKeeps DEF TypeState, MiningState
    <2> QED
        BY <2>2 DEF Legit
<1>9. MiningState(B, hung)
    BY <1>6, <1>7, <1>8 DEF TypeState, MiningState, MiningFields
<1> QED
    BY <1>1, <1>9

MineStep(c, acc, type) == MineType(acc, type, c.input)
MineGood(c, k, acc) == MiningState(c.base, acc)
MinedTypes == INSTANCE Folding WITH Op <- MineStep, Good <- MineGood

\* Mining all types does.
LEMMA MineKeeps ==
    ASSUME NEW B, NEW G, Legit(B, G), NEW x, Samples(x)
    PROVE  MiningState(B, Mine(G, x))
<1> DEFINE c == [base |-> B, input |-> x]
           base == [groups |-> G, derived |-> {}, fresh |-> {}, before |-> G, touched |-> <<>>,
                    fragments |-> {}, taken |-> {}]
           seq == SetToSeq(DOMAIN x.samples)
<1>1. PICK n \in Nat : DOMAIN seq = 1..n /\ \A k \in 1..n : seq[k] \in DOMAIN x.samples
    BY SequenceOf DEF Samples
<1>2. ASSUME NEW k \in 1..n, NEW a, MineGood(c, k - 1, a) PROVE MineGood(c, k, MineStep(c, a, seq[k]))
    <2> HIDE DEF seq
    <2> QED
        BY <1>1, <1>2, MineTypeKeeps DEF MineGood, MineStep
<1>3. MineGood(c, 0, base)
    BY EmptySequence DEF MineGood, MiningState, MiningFields
<1> HIDE DEF c, seq, base
<1>4. MineGood(c, n, MinedTypes!Fold(c, base, seq))
    BY <1>1, <1>2, <1>3, MinedTypes!FoldKeeps
<1>5. MinedTypes!Fold(c, base, seq) = Mine(G, x)
    BY DEF MinedTypes!Fold, MinedTypes!FoldLeft, MinedTypes!MapThenFoldSet, MinedTypes!Max, Mine, FoldLeft,
           MapThenFoldSet, Max, MineStep, c, seq, base
<1> QED
    BY <1>4, <1>5 DEF MineGood, c

TakeStep(c, acc, i) == TakeOut(c.phrases, c.text, acc, i)
TakeGood(c, k, acc) == DOMAIN acc = {"kept", "found", "skip"} /\ IsSequence(acc.kept)
Takes == INSTANCE Folding WITH Op <- TakeStep, Good <- TakeGood

\* A title without the phrases that are taken out is a sequence,
LEMMA KeptIsSequence ==
    ASSUME NEW P, NEW t, IsSequence(t)
    PROVE  IsSequence(Strip(P, t).kept)
<1> DEFINE c == [phrases |-> P, text |-> t]
           base == [kept |-> <<>>, found |-> <<>>, skip |-> 0]
           seq == [i \in DOMAIN t |-> i]
           n == Len(t)
<1>1. n \in Nat /\ DOMAIN seq = 1..n
    BY SequenceIs
<1>2. ASSUME NEW k \in 1..n, NEW a, TakeGood(c, k - 1, a) PROVE TakeGood(c, k, TakeStep(c, a, seq[k]))
    <2> DEFINE i == seq[k]
               p == LongestAt(P, t, i)
    <2>1. TakeStep(c, a, i) = IF a.skip > 0 THEN [a EXCEPT !.skip = @ - 1]
                              ELSE IF p = <<>> THEN [a EXCEPT !.kept = Append(@, t[i])]
                              ELSE [a EXCEPT !.found = Append(@, p), !.skip = Len(p) - 1]
        BY DEF TakeStep, TakeOut
    <2> HIDE DEF c, i, p
    <2>2. IsSequence(a.kept) /\ IsSequence(Append(a.kept, t[i]))
        BY <1>2, Appended DEF TakeGood
    <2>3. TakeGood(c, k, TakeStep(c, a, i))
        BY <1>2, <2>1, <2>2 DEF TakeGood
    <2> QED
        BY <2>3 DEF i
<1>3. TakeGood(c, 0, base)
    BY EmptySequence DEF TakeGood
<1> HIDE DEF c, seq, base, n
<1>4. TakeGood(c, n, Takes!Fold(c, base, seq))
    BY <1>1, <1>2, <1>3, Takes!FoldKeeps
<1>5. Takes!Fold(c, base, seq) = Strip(P, t)
    BY DEF Takes!Fold, Takes!FoldLeft, Takes!MapThenFoldSet, Takes!Max, Strip, FoldLeftDomain, FoldLeft,
           MapThenFoldSet, Max, TakeStep, c, seq, base
<1> QED
    BY <1>4, <1>5 DEF TakeGood

\* and so are the tokens of a title.
LEMMA TokensAreSequence ==
    ASSUME NEW t, IsSequence(t)
    PROVE  IsSequence(Normalize(t).tokens)
<1> DEFINE lexed == Strip(DOMAIN Lexicon, Strip(BrandTerms, t).kept)
           typesOf(phrases) == [i \in DOMAIN phrases |-> Lexicon[phrases[i]].type]
           types(kind) == typesOf(SelectSeq(lexed.found, LAMBDA p : Lexicon[p].kind = kind))
           strong == types("strong")
           weak == types("weak")
<1>1. Normalize(t) = [tokens |-> lexed.kept, spelled |-> t, strong |-> strong, weak |-> weak]
    BY Zenon DEF Normalize
<1> HIDE DEF strong, weak, lexed
<1>2. Normalize(t).tokens = lexed.kept
    BY <1>1
<1>3. IsSequence(lexed.kept)
    BY KeptIsSequence DEF lexed
<1> QED
    BY <1>2, <1>3

\* Mining the listings no rule placed keeps the table legitimate.
LEMMA MinedKeeps ==
    ASSUME NEW x, Readable(x), NEW p, p.norm = [l \in Rows(x) |-> Normalize(x.titles[l])],
           NEW B, NEW d, Legit(B, d.groups)
    PROVE  MiningState(B, Mined(x, p, d))
<1> DEFINE free == {l \in Rows(x) : d.results[l].method \in NoModel}
           retail == {l \in free : Listings[l].seller \notin WholesaleSellers(Rows(x))}
           sample(l) == [id |-> l, tokens |-> p.norm[l].tokens,
                         seller |-> IF Listings[l].seller = 0 THEN -l ELSE Listings[l].seller]
           these(t) == {k \in retail : d.results[k].type = t}
           samples(t) == {sample(l) : l \in these(t)}
           scope(t) == UNION {Grams(p.norm[l].tokens) :
                              l \in {k \in free : d.results[k].type = t /\ (p.delta => k \in d.targets)}}
           types == {d.results[l].type : l \in retail}
           some == [samples |-> [t \in types |-> samples(t)], scope |-> [t \in types |-> scope(t)],
                    protected |-> p.protected, full |-> ~ p.delta, blocks |-> x.blocks]
           none == [samples |-> <<>>]
<1>1. IsFiniteSet(retail) /\ retail \subseteq Rows(x)
    <2>1. retail \subseteq Rows(x)
        OBVIOUS
    <2> HIDE DEF retail
    <2> QED
        BY <2>1, RowsAreFew, FS_Subset
<1>2. IsFiniteSet(types)
    <2> DEFINE f == [l \in retail |-> d.results[l].type]
    <2>1. types = {f[l] : l \in retail}
        <3> HIDE DEF retail
        <3> QED
            OBVIOUS
    <2> HIDE DEF f, types
    <2> QED
        BY <1>1, <2>1, FiniteImage
<1>3. ASSUME NEW t
      PROVE  IsFiniteSet(samples(t)) /\ \A s \in samples(t) : IsSequence(s.tokens)
    <2> DEFINE S == these(t)
               f == [l \in S |-> sample(l)]
               T == samples(t)
    <2>1. S \subseteq Rows(x) /\ IsFiniteSet(S)
        <3> HIDE DEF retail
        <3> QED
            BY <1>1, FS_Subset
    <2>2. \A l \in S : IsSequence(sample(l).tokens)
        <3>1. \A l \in S : p.norm[l] = Normalize(x.titles[l]) /\ l \in DOMAIN x.titles
            BY <2>1 DEF Rows
        <3> HIDE DEF S
        <3> QED
            BY <3>1, TokensAreSequence DEF Readable
    <2>3. T = {f[l] : l \in S}
        <3> HIDE DEF retail, sample
        <3> QED
            OBVIOUS
    <2> HIDE DEF S, f, sample
    <2>4. \A s \in T : IsSequence(s.tokens)
        BY <2>2, <2>3 DEF f
    <2> HIDE DEF T
    <2>5. IsFiniteSet(T)
        BY <2>1, <2>3, FiniteImage
    <2> QED
        BY <2>4, <2>5 DEF T
<1>4. Samples(some)
    <2> HIDE DEF samples, scope, types
    <2> QED
        BY <1>2, <1>3 DEF Samples
<1>5. Samples(none)
    <2>1. DOMAIN none.samples = {}
        OBVIOUS
    <2> QED
        BY <2>1, FS_EmptySet DEF Samples
<1>6. Mined(x, p, d) = Mine(d.groups, IF d.targets = {} THEN none ELSE some)
    BY DEF Mined
<1> HIDE DEF some, none
<1> QED
    BY <1>4, <1>5, <1>6, MineKeeps

\* Placing them in what was mined does.
LEMMA PlacedKeeps ==
    ASSUME NEW x, Readable(x), NEW p, NEW d, DOMAIN d.results = Rows(x), NEW B, NEW m, Legit(B, m.groups)
    PROVE  LET a == Placed(x, p, d, m)
           IN  /\ DOMAIN a = {"groups", "results", "fresh", "claimed"}
               /\ Legit(B, a.groups) /\ a.fresh = m.fresh
               /\ DOMAIN a.results = Rows(x)
<1> DEFINE free == {l \in Rows(x) : d.results[l].method \in NoModel}
           weight(G) == [i \in DOMAIN G |-> IF i \in DOMAIN p.weight THEN p.weight[i] ELSE 0]
           entries(G) == Entries(G, weight(G),
                                 LAMBDA i : i \notin p.idle /\ (Standing(p, G, i) \/ i \in m.derived))
           hung == ApplyParents(m.groups, x.parents)
           again == Assign(hung, free, d.types, p.norm, x.overrides, entries(hung))
           second == [groups |-> again.groups,
                      results |-> [l \in Rows(x) |-> IF l \in free THEN again.results[l] ELSE d.results[l]]]
           first == [groups |-> m.groups, results |-> d.results]
           matched == IF m.derived = {} THEN first ELSE second
           collabs == IF Partners = {} THEN matched ELSE SystemLines(matched, p.norm, "collab", CollabSlug)
           lines == SystemLines(collabs, p.norm, "descriptor", DescriptorSlug)
           a == Placed(x, p, d, m)
<1>1. a = [groups |-> lines.groups, results |-> lines.results, fresh |-> m.fresh, claimed |-> {}]
    BY DEF Placed
<1>2. Legit(B, hung)
    BY ApplyParentsKeeps DEF Readable
<1>3. IsFiniteSet(Rows(x)) /\ IsFiniteSet(free)
    BY RowsAreFew, FS_Subset
<1>4. Legit(B, again.groups)
    <2> HIDE DEF hung, entries, free
    <2> QED
        BY <1>2, <1>3, AssignKeeps
<1> HIDE DEF again
<1>5. /\ Legit(B, matched.groups) /\ DOMAIN matched.results = Rows(x)
      /\ DOMAIN matched = {"groups", "results"}
    BY <1>4
<1> HIDE DEF matched
<1>6. /\ Legit(B, collabs.groups) /\ DOMAIN collabs.results = Rows(x)
      /\ DOMAIN collabs = {"groups", "results"}
    BY <1>3, <1>5, SystemLinesKeeps
<1> HIDE DEF collabs
<1>7. Legit(B, lines.groups) /\ DOMAIN lines.results = Rows(x)
    BY <1>3, <1>6, SystemLinesKeeps
<1> HIDE DEF lines, a
<1> QED
    BY <1>1, <1>7 DEF a

(* The groups that are left: no row of B is gone, one that was found may be taken over. *)
LEMMA RowHanded ==
    ASSUME NEW B, NEW G, Legit(B, G), NEW new \in DOMAIN G \ DOMAIN B, NEW old \in DOMAIN G, old # new,
           Derived(G[old]), NEW H, DOMAIN H = DOMAIN G \ {new},
           DOMAIN H[old] = GroupFields, H[old].type = G[new].type, H[old].slug = G[new].slug,
           \A i \in DOMAIN H \ {old} : RowKept(G[i], H[i])
    PROVE  Legit(B, H)
<1>1. IsTable(H)
    <2>1. IsFiniteSet(DOMAIN H)
        BY FS_Subset DEF Legit, IsTable
    <2> QED
        BY <2>1 DEF Legit, IsTable, RowKept
<1>2. \A i \in DOMAIN B : Ruled(B[i], H[i])
    <2> SUFFICES ASSUME NEW i \in DOMAIN B PROVE Ruled(B[i], H[i])
        OBVIOUS
    <2>1. i \in DOMAIN G /\ i # new /\ Ruled(B[i], G[i])
        BY DEF Legit
    <2>2. CASE i = old
        BY <2>1, <2>2 DEF Ruled, Derived
    <2>3. CASE i # old
        BY <2>1, <2>3 DEF Ruled, RowKept, Derived
    <2> QED
        BY <2>2, <2>3
<1>3. ~ Clashes(G) => ~ Clashes(H)
    <2> SUFFICES ASSUME ~ Clashes(G), NEW i \in DOMAIN H, NEW j \in DOMAIN H, i # j,
                        H[i].type = H[j].type, H[i].slug = H[j].slug
                 PROVE  FALSE
        BY DEF Clashes
    <2> DEFINE from(k) == IF k = old THEN new ELSE k
    <2>1. from(i) \in DOMAIN G /\ from(j) \in DOMAIN G /\ from(i) # from(j)
        OBVIOUS
    <2>2. \A k \in DOMAIN H : H[k].type = G[from(k)].type /\ H[k].slug = G[from(k)].slug
        BY DEF RowKept
    <2> QED
        BY <2>1, <2>2 DEF Clashes
<1> QED
    BY <1>1, <1>2, <1>3 DEF Legit

(* A finite set in which one member comes first: a larger size, or an equal one and a smaller first. *)
Ranked(S, size, first) ==
    /\ IsFiniteSet(S) /\ S # {}
    /\ \A i \in S : size[i] \in Nat /\ first[i] \in Nat
    /\ \A i, j \in S : first[i] = first[j] => i = j

IsBest(S, size, first, i) ==
    \A j \in S \ {i} : size[i] > size[j] \/ (size[i] = size[j] /\ first[i] < first[j])

\* A finite set that is not empty has one.
LEMMA BestExists ==
    ASSUME NEW S, NEW size, NEW first, Ranked(S, size, first)
    PROVE  \E i \in S : IsBest(S, size, first, i)
<1> USE DEF Ranked
<1> DEFINE T == {size[i] : i \in S}
           n == Max(T)
           U == {first[i] : i \in {j \in S : size[j] = n}}
<1>1. n \in T /\ \A k \in T : n >= k
    <2>1. T \in SUBSET Nat /\ T # {}
        OBVIOUS
    <2>2. IsFiniteSet(T)
        BY FiniteImage
    <2> HIDE DEF T
    <2> QED
        BY <2>1, <2>2, MaxOfFinite
<1> HIDE DEF n
<1>2. PICK m \in U : \A k \in U : m <= k
    <2>1. U \in SUBSET Nat
        OBVIOUS
    <2>2. U # {}
        BY <1>1
    <2> HIDE DEF U
    <2> QED
        BY <2>1, <2>2, Parents!LeastNatural
<1>3. PICK i \in S : size[i] = n /\ first[i] = m
    OBVIOUS
<1>4. ASSUME NEW j \in S \ {i}
      PROVE  size[i] > size[j] \/ (size[i] = size[j] /\ first[i] < first[j])
    <2>1. size[j] <= n /\ size[j] \in Nat /\ first[j] \in Nat /\ first[i] \in Nat /\ n \in Nat
        BY <1>1, <1>3
    <2>2. size[j] = n => m <= first[j]
        BY <1>2
    <2>3. first[i] # first[j]
        BY <1>3
    <2> QED
        BY <1>3, <2>1, <2>2, <2>3
<1> QED
    BY <1>4 DEF IsBest

InheritState(B, rows, acc) ==
    /\ DOMAIN acc = {"groups", "results", "fresh", "claimed"}
    /\ Legit(B, acc.groups)
    /\ acc.fresh \subseteq DOMAIN acc.groups \ DOMAIN B
    /\ DOMAIN acc.results = rows

\* A new group hands its slug to the group it succeeds, and is gone (_inherit).
LEMMA InheritOneKeeps ==
    ASSUME NEW B, NEW rows \in SUBSET Nat, IsFiniteSet(rows), NEW acc, InheritState(B, rows, acc),
           NEW x, DOMAIN x.results = rows, NEW new
    PROVE  InheritState(B, rows, InheritOne(acc, new, x))
<1> DEFINE
    G == acc.groups
    forbidden(p) == Covered(p, Generic, x.blocks \cup DescriptorPhrases(G[new].type))
    from(i) == {l \in DOMAIN acc.results : x.results[l].group = new /\ x.old[l] = i}
    used(i) == Cardinality({l \in DOMAIN x.results : x.results[l].group = i})
    olds == {x.old[l] : l \in {k \in DOMAIN x.results : x.results[k].group = new}} \ {0, new}
    fits == {i \in (olds \cap DOMAIN G) \ (acc.claimed \cup acc.fresh \cup x.protected) :
                /\ new \in acc.fresh /\ Derived(G[i]) /\ used(i) = 0
                /\ G[i].type = G[new].type
                /\ ~ forbidden(G[i].name)}
    best(i) == \A j \in fits \ {i} :
                  \/ Cardinality(from(i)) > Cardinality(from(j))
                  \/ Cardinality(from(i)) = Cardinality(from(j)) /\ Min(from(i)) < Min(from(j))
    old == CHOOSE i \in fits : best(i)
    few == 2 * Cardinality(from(old)) < used(new)
    kept == {p \in (G[old].aliases \cup {G[old].name, G[old].slug} \cup G[new].aliases) \ {G[new].name} :
                ~ forbidden(p)}
    renamed == [G[new] EXCEPT !.aliases = kept, !.parent = IF @ = old THEN 0 ELSE @,
                              !.infer = G[old].infer, !.retired = 0]
    moved == [i \in DOMAIN G \ {new} |->
                IF i = old THEN renamed
                ELSE IF G[i].parent = new THEN [G[i] EXCEPT !.parent = old] ELSE G[i]]
    results == [l \in DOMAIN acc.results |-> IF acc.results[l].group = new
                                             THEN [acc.results[l] EXCEPT !.group = old] ELSE acc.results[l]]
    given == [acc EXCEPT !.groups = moved, !.fresh = @ \ {new}, !.claimed = @ \cup {old}, !.results = results]
    r == InheritOne(acc, new, x)
<1>1. r = IF fits = {} \/ few THEN acc ELSE given
    BY ZenonT(40) DEF InheritOne
<1>2. CASE fits = {} \/ few
    <2> HIDE DEF fits, few, r
    <2> QED
        BY Zenon, <1>1, <1>2 DEF r
<1>3. CASE fits # {} /\ ~ few
    <2>1. \A i \in fits : i \in DOMAIN G /\ i \in olds /\ i \notin acc.fresh /\ new \in acc.fresh /\ Derived(G[i])
        <3> HIDE DEF forbidden, olds, used
        <3> QED
            OBVIOUS
    <2>2. \A i \in olds : from(i) # {} /\ from(i) \in SUBSET Nat /\ IsFiniteSet(from(i))
        <3> SUFFICES ASSUME NEW i \in olds PROVE from(i) # {} /\ from(i) \in SUBSET Nat /\ IsFiniteSet(from(i))
            OBVIOUS
        <3>1. from(i) \subseteq rows /\ from(i) # {}
            BY DEF InheritState
        <3> HIDE DEF from
        <3> QED
            BY <3>1, FS_Subset
    <2>3. \A i, j \in olds : from(i) \cap from(j) # {} => i = j
        OBVIOUS
    <2>4. old \in fits
        <3> DEFINE size == [i \in fits |-> Cardinality(from(i))]
                   first == [i \in fits |-> Min(from(i))]
        <3>1. IsFiniteSet(fits)
            <4>1. fits \subseteq DOMAIN G
                BY <2>1
            <4> HIDE DEF fits
            <4> QED
                BY <4>1, FS_Subset DEF InheritState, Legit, IsTable
        <3> HIDE DEF fits, from, olds
        <3>2. \A i \in fits : first[i] \in from(i) /\ first[i] \in Nat /\ size[i] \in Nat
            BY <2>1, <2>2, SmallestOf, FS_CardinalityType
        <3>3. \A i, j \in fits : first[i] = first[j] => i = j
            BY <2>1, <2>3, <3>2
        <3>4. \A i \in fits : size[i] = Cardinality(from(i)) /\ first[i] = Min(from(i))
            OBVIOUS
        <3> HIDE DEF size, first
        <3>5. \E i \in fits : IsBest(fits, size, first, i)
            <4>1. Ranked(fits, size, first)
                BY <1>3, <3>1, <3>2, <3>3 DEF Ranked
            <4> QED
                BY <4>1, BestExists
        <3>6. \E i \in fits : best(i)
            BY <3>4, <3>5 DEF IsBest
        <3> HIDE DEF best
        <3> QED
            BY <3>6
    <2>5. /\ old \in DOMAIN G /\ Derived(G[old]) /\ old # new
          /\ new \in acc.fresh /\ new \in DOMAIN G \ DOMAIN B
        <3> HIDE DEF fits, old
        <3> QED
            BY <2>1, <2>4 DEF InheritState
    <2>6. DOMAIN moved = DOMAIN G \ {new} /\ moved[old] = renamed
        <3> HIDE DEF old, renamed
        <3> QED
            BY <2>5
    <2>7. DOMAIN renamed = GroupFields /\ renamed.type = G[new].type /\ renamed.slug = G[new].slug
        <3>1. DOMAIN G[new] = GroupFields
            BY Zenon, <2>5 DEF InheritState, Legit, IsTable
        <3> HIDE DEF kept, old, G
        <3> QED
            BY <3>1 DEF GroupFields
    <2>8. \A i \in DOMAIN moved \ {old} : RowKept(G[i], moved[i])
        <3> SUFFICES ASSUME NEW i \in DOMAIN G, i # new, i # old PROVE RowKept(G[i], moved[i])
            BY Zenon, <2>6
        <3>1. DOMAIN G[i] = GroupFields
            BY DEF InheritState, Legit, IsTable
        <3> HIDE DEF old, renamed, G
        <3>2. moved[i] = IF G[i].parent = new THEN [G[i] EXCEPT !.parent = old] ELSE G[i]
            OBVIOUS
        <3> HIDE DEF moved
        <3> QED
            BY <3>1, <3>2, HungRow DEF RowKept
    <2> HIDE DEF old, moved, renamed, few
    <2>9. Legit(B, moved)
        <3> HIDE DEF G
        <3> QED
            BY <2>5, <2>6, <2>7, <2>8, RowHanded DEF InheritState, G
    <2>10. r = given
        <3> HIDE DEF fits, r, given
        <3> QED
            BY <1>1, <1>3
    <2>11. DOMAIN results = rows
        BY DEF InheritState
    <2> HIDE DEF r, results, fits
    <2>12. /\ DOMAIN r = {"groups", "results", "fresh", "claimed"}
           /\ r.groups = moved /\ r.fresh = acc.fresh \ {new} /\ r.results = results
        BY <2>10 DEF InheritState
    <2>13. r.fresh \subseteq DOMAIN r.groups \ DOMAIN B
        BY <2>6, <2>12 DEF InheritState
    <2>14. InheritState(B, rows, r)
        BY <2>9, <2>11, <2>12, <2>13 DEF InheritState
    <2> QED
        BY <2>14 DEF r
<1> QED
    BY <1>2, <1>3

InheritStep(c, acc, new) == InheritOne(acc, new, c.input)
InheritGood(c, k, acc) == InheritState(c.base, c.rows, acc)
Heirs == INSTANCE Folding WITH Op <- InheritStep, Good <- InheritGood

\* All new groups do.
LEMMA InheritKeeps ==
    ASSUME NEW B, NEW rows \in SUBSET Nat, IsFiniteSet(rows), NEW acc, InheritState(B, rows, acc),
           NEW x, "results" \in DOMAIN x
    PROVE  InheritState(B, rows, Inherit(acc, x))
<1> DEFINE given == [x EXCEPT !.results = acc.results]
           c == [base |-> B, rows |-> rows, input |-> given]
           seq == InheritOrder(acc)
           n == Cardinality(acc.fresh)
<1>1. DOMAIN seq = 1..n
    BY DEF InheritOrder, Arranged
<1>2. n \in Nat
    BY FS_Subset, FS_CardinalityType DEF InheritState, Legit, IsTable
<1>3. DOMAIN given.results = rows
    BY DEF InheritState
<1>4. ASSUME NEW k \in 1..n, NEW a, InheritGood(c, k - 1, a) PROVE InheritGood(c, k, InheritStep(c, a, seq[k]))
    <2> HIDE DEF given
    <2> QED
        BY <1>3, <1>4, InheritOneKeeps DEF InheritGood, InheritStep
<1>5. InheritGood(c, 0, acc)
    BY DEF InheritGood
<1> HIDE DEF c, seq, n, given
<1>6. InheritGood(c, n, Heirs!Fold(c, acc, seq))
    BY <1>1, <1>2, <1>4, <1>5, Heirs!FoldKeeps
<1>7. Heirs!Fold(c, acc, seq) = Inherited(acc, given, seq)
    BY DEF Heirs!Fold, Heirs!FoldLeft, Heirs!MapThenFoldSet, Heirs!Max, Inherited, FoldLeft, MapThenFoldSet, Max,
           InheritStep, c
<1>8. InheritState(B, rows, Inherited(acc, given, seq))
    BY <1>6, <1>7 DEF InheritGood, c
<1> QED
    BY <1>8 DEF Inherit, given, seq

(* What a pass leaves of the groups B it read.                               *)
Left(B, G) ==
    /\ IsTable(G)
    /\ \A i \in DOMAIN G \ DOMAIN B : \A j \in DOMAIN B : i > j
    /\ ~ Clashes(B) => ~ Clashes(G)
    /\ \A i \in DOMAIN B : B[i].status = "ignored" \/ (B[i].status = "confirmed" /\ B[i].source # "seed") =>
                              i \in DOMAIN G /\ Ruled(B[i], G[i])

\* Retiring and deleting what is idle touches found groups and idle seeds only (_settle).
LEMMA SettleKeeps ==
    ASSUME NEW B, NEW acc, Legit(B, acc.groups), NEW was, NEW full, NEW protected, NEW now, NEW idle,
           \A i \in idle \cap DOMAIN B : ~ (B[i].status = "ignored" \/ (B[i].status = "confirmed" /\ B[i].source # "seed"))
    PROVE  Left(B, Settle(acc, was, full, protected, idle, now))
<1> DEFINE
    G == acc.groups
    direct == {acc.results[l].group : l \in DOMAIN acc.results}
    used == direct \cup {G[i].parent : i \in direct}
    judged == {i \in DOMAIN G \ protected : Derived(G[i]) \/ SystemMade(G[i]) \/ i \in idle}
    before(i) == IF i \in DOMAIN was THEN was[i].retired ELSE 0
    retired(i) == IF i \in used THEN 0
                  ELSE IF before(i) # 0 THEN before(i)
                  ELSE IF full \/ i \in acc.fresh THEN now ELSE G[i].retired
    settled == [i \in DOMAIN G |-> IF i \in judged THEN [G[i] EXCEPT !.retired = retired(i)] ELSE G[i]]
    doomed == {i \in judged \ used : full /\ settled[i].retired # 0 /\ now - settled[i].retired >= RetireTTL}
    left == [i \in DOMAIN G \ doomed |->
                IF settled[i].parent \in doomed THEN [settled[i] EXCEPT !.parent = 0] ELSE settled[i]]
<1>1. Settle(acc, was, full, protected, idle, now) = left
    BY DEF Settle
<1>2. doomed \subseteq judged
    <2> HIDE DEF judged, settled, used
    <2> QED
        OBVIOUS
<1>3. \A i \in DOMAIN G : /\ DOMAIN settled[i] = GroupFields
                          /\ settled[i].type = G[i].type /\ settled[i].slug = G[i].slug
                          /\ settled[i].status = G[i].status /\ settled[i].source = G[i].source
                          /\ i \notin judged => settled[i].retired = G[i].retired
    <2>1. \A i \in DOMAIN G : DOMAIN G[i] = GroupFields
        BY DEF Legit, IsTable
    <2> HIDE DEF judged, retired, G
    <2> QED
        BY <2>1 DEF GroupFields
<1> HIDE DEF settled, doomed
<1>4. /\ DOMAIN left \subseteq DOMAIN G
      /\ \A i \in DOMAIN left : /\ DOMAIN left[i] = GroupFields
                                /\ left[i].type = G[i].type /\ left[i].slug = G[i].slug
                                /\ left[i].status = G[i].status /\ left[i].source = G[i].source
                                /\ i \notin judged => left[i].retired = G[i].retired
    <2> HIDE DEF G, judged
    <2> QED
        BY <1>3 DEF GroupFields
<1>5. DOMAIN left = DOMAIN G \ doomed
    OBVIOUS
<1> HIDE DEF left
<1>6. IsTable(left)
    <2>1. IsFiniteSet(DOMAIN left)
        BY <1>4, FS_Subset DEF Legit, IsTable
    <2> HIDE DEF judged
    <2> QED
        BY <1>4, <2>1 DEF Legit, IsTable
<1>7. \A i \in DOMAIN left \ DOMAIN B : \A j \in DOMAIN B : i > j
    BY <1>4 DEF Legit
<1>8. ~ Clashes(B) => ~ Clashes(left)
    <2> HIDE DEF judged
    <2> QED
        BY <1>4 DEF Legit, Clashes
<1>9. ASSUME NEW i \in DOMAIN B, B[i].status = "ignored" \/ (B[i].status = "confirmed" /\ B[i].source # "seed")
      PROVE  i \in DOMAIN left /\ Ruled(B[i], left[i])
    <2>1. i \in DOMAIN G /\ Ruled(B[i], G[i])
        BY DEF Legit
    <2>2. i \notin judged
        BY <1>9, <2>1 DEF Ruled, Derived, SystemMade
    <2> HIDE DEF judged, G
    <2> QED
        BY <1>2, <1>4, <1>5, <2>1, <2>2 DEF Ruled
<1> QED
    BY <1>1, <1>6, <1>7, <1>8, <1>9 DEF Left

\* A pass, delta or full, leaves of what it read what Left says.
LEMMA RegroupKeeps ==
    ASSUME NEW x, Readable(x), NEW full
    PROVE  Left(x.groups, Regroup(x, full).groups)
<1> DEFINE
    B == x.groups
    p == Seeded(x, full)
    d == Decided(x, p)
    m == Mined(x, p, d)
    a == Placed(x, p, d, m)
    rules == [results |-> <<>>, old |-> [l \in Rows(x) |-> x.assigned[l].group],
              protected |-> p.protected, blocks |-> x.blocks]
    b == IF p.delta THEN a ELSE Inherit(a, rules)
<1>1. Regroup(x, full).groups = Settle(b, B, ~ p.delta, p.protected, p.idle, x.day)
    BY DEF Regroup
<1>2. /\ Legit(B, p.groups) /\ p.norm = [l \in Rows(x) |-> Normalize(x.titles[l])]
      /\ \A i \in p.idle : p.groups[i].source = "seed" /\ p.groups[i].status = "confirmed"
    BY SeededKeeps
<1>3. \A i \in p.idle \cap DOMAIN B :
         ~ (B[i].status = "ignored" \/ (B[i].status = "confirmed" /\ B[i].source # "seed"))
    <2> HIDE DEF p
    <2> QED
        BY <1>2 DEF Legit, Ruled
<1> HIDE DEF p
<1>4. Legit(B, d.groups) /\ DOMAIN d.results = Rows(x)
    BY <1>2, DecidedKeeps
<1> HIDE DEF d
<1>5. MiningState(B, m)
    BY <1>2, <1>4, MinedKeeps
<1> HIDE DEF m
<1>6. Legit(m.groups, m.groups) /\ Legit(B, m.groups) /\ m.fresh \subseteq DOMAIN m.groups \ DOMAIN B
    BY <1>5, TableIsLegit DEF MiningState, Legit
<1>7. /\ DOMAIN a = {"groups", "results", "fresh", "claimed"}
      /\ Legit(B, a.groups) /\ Legit(m.groups, a.groups)
      /\ a.fresh = m.fresh /\ DOMAIN a.results = Rows(x)
    <2>1. \A S : Legit(S, m.groups) =>
              /\ DOMAIN a = {"groups", "results", "fresh", "claimed"}
              /\ Legit(S, a.groups) /\ a.fresh = m.fresh /\ DOMAIN a.results = Rows(x)
        <3> SUFFICES ASSUME NEW S, Legit(S, m.groups)
                     PROVE  /\ DOMAIN a = {"groups", "results", "fresh", "claimed"}
                            /\ Legit(S, a.groups) /\ a.fresh = m.fresh /\ DOMAIN a.results = Rows(x)
            OBVIOUS
        <3>1. DOMAIN d.results = Rows(x)
            BY <1>4
        <3> HIDE DEF rules, b, B
        <3> QED
            BY <3>1, PlacedKeeps
    <2> HIDE DEF a
    <2> QED
        BY <1>6, <2>1
<1> HIDE DEF a
<1>8. InheritState(B, Rows(x), a)
    BY <1>6, <1>7 DEF InheritState, Legit
<1>9. Legit(B, b.groups)
    <2>1. IsFiniteSet(Rows(x)) /\ Rows(x) \in SUBSET Nat
        BY RowsAreFew DEF Readable, Rows
    <2>2. "results" \in DOMAIN rules
        OBVIOUS
    <2> HIDE DEF rules
    <2>3. InheritState(B, Rows(x), Inherit(a, rules))
        BY <1>8, <2>1, <2>2, InheritKeeps
    <2> QED
        BY <1>7, <2>3 DEF InheritState
<1> HIDE DEF b
<1> QED
    BY <1>1, <1>3, <1>9, SettleKeeps

RowsAreGroups(T) == \A i \in DOMAIN T : DOMAIN T[i] = GroupFields

(* What holds whenever no pass is being written.                             *)
GroupsInv ==
    /\ IsTable(groups)
    /\ IsFiniteSet(DOMAIN parents)
    /\ DOMAIN titles = DOMAIN Listings /\ \A l \in DOMAIN Listings : titles[l] \in Seq(Int)
    /\ policy \in DOMAIN Policies
    /\ RowsAreGroups(request.stale)
    /\ pass # NoPass => IsTable(pass.base.groups) /\ Left(pass.base.groups, pass.result.groups)

\* What the database holds, with what a session has in memory, is fit to be read.
LEMMA SnapshotIsReadable ==
    ASSUME IsTable(groups), IsFiniteSet(DOMAIN parents),
           DOMAIN titles = DOMAIN Listings, \A l \in DOMAIN Listings : titles[l] \in Seq(Int),
           policy \in DOMAIN Policies, NEW stale, RowsAreGroups(stale)
    PROVE  Readable(Snapshot(stale))
<1> DEFINE x == Snapshot(stale)
           G == [i \in DOMAIN groups |-> IF i \in DOMAIN stale THEN stale[i] ELSE groups[i]]
           seeds == Policies[policy]
<1>1. /\ x.groups = G /\ x.parents = parents /\ x.titles = titles /\ x.policy = policy
    BY DEF Snapshot
<1>2. IsTable(G)
    BY DEF IsTable, RowsAreGroups
<1>3. IsSequence(seeds) /\ \A k \in DOMAIN seeds : IsFiniteSet(seeds[k].types)
    <2>1. seeds \in ToSet(Policies)
        BY DEF ToSet
    <2> HIDE DEF seeds
    <2>2. \A k \in DOMAIN seeds : seeds[k] \in ToSet(seeds)
        BY DEF ToSet
    <2> QED
        BY <2>1, <2>2, PoliciesAssumption DEF IsSequence
<1>4. IsFiniteSet(DOMAIN titles) /\ DOMAIN titles \subseteq Nat /\ \A l \in DOMAIN titles : IsSequence(titles[l])
    BY ListingsAssumption DEF IsSequence
<1> HIDE DEF G, x, seeds
<1>5. Readable(x)
    BY <1>1, <1>2, <1>3, <1>4 DEF Readable, seeds
<1> QED
    BY <1>5 DEF x

\* A pass that starts will leave it so.
LEMMA StartedIsLeft ==
    ASSUME NEW x, Readable(x), NEW start
    PROVE  LET p == Started(x, start)
           IN  IsTable(p.base.groups) /\ Left(p.base.groups, p.result.groups)
<1>1. Started(x, start).base = x /\ Started(x, start).result = Regroup(x, start.full)
    BY DEF Started
<1>2. Left(x.groups, Regroup(x, start.full).groups) /\ IsTable(x.groups)
    BY RegroupKeeps DEF Readable
<1> QED
    BY <1>1, <1>2

(* A pass's own ids are later than those it read, and stay free when they are given. *)
LEMMA StoredIsTable ==
    ASSUME GroupsInv, pass # NoPass
    PROVE  IsTable(Stored)
<1> DEFINE
    B == pass.base.groups
    R == pass.result.groups
    read == DOMAIN B
    made == DOMAIN R \ read
    gone == read \ DOMAIN R
    ids == (DOMAIN groups \ gone) \cup {Id(j) : j \in made}
    row(i) == IF i \in DOMAIN groups
              THEN IF i \in read THEN [c \in DOMAIN groups[i] |-> Column(i, c)] ELSE groups[i]
              ELSE R[CHOOSE j \in made : Id(j) = i]
    parent(i) == IF i \in DOMAIN groups THEN row(i).parent ELSE Id(row(i).parent)
    S == [i \in ids |-> [row(i) EXCEPT !.parent = IF parent(i) \in ids THEN parent(i) ELSE 0]]
<1>1. Stored = S
    BY DEF Stored
<1>2. IsTable(groups) /\ IsTable(B) /\ IsTable(R) /\ \A i \in made : \A j \in read : i > j
    BY DEF GroupsInv, Left
<1>3. \A j \in made : Id(j) \in Nat \ {0}
    <2> SUFFICES ASSUME NEW j \in made PROVE Id(j) \in Nat \ {0}
        OBVIOUS
    <2> DEFINE T == {0} \cup read
               U == {0} \cup DOMAIN groups
    <2>1. IsFiniteSet(T) /\ IsFiniteSet(U) /\ T \in SUBSET Nat /\ U \in SUBSET Nat /\ 0 \in T /\ 0 \in U
        <3>1. IsFiniteSet(read \cup {0}) /\ IsFiniteSet(DOMAIN groups \cup {0})
            BY <1>2, FS_AddElement DEF IsTable
        <3>2. T = read \cup {0} /\ U = DOMAIN groups \cup {0}
            OBVIOUS
        <3>3. T \in SUBSET Nat /\ U \in SUBSET Nat
            BY <1>2 DEF IsTable
        <3> HIDE DEF read, made
        <3> QED
            BY <3>1, <3>2, <3>3
    <2>2. j \in Nat /\ j \notin T /\ \A i \in T : j > i
        <3>1. j \in Nat \ {0} /\ j \notin read /\ \A i \in read : j > i
            BY <1>2 DEF IsTable
        <3> HIDE DEF made, read
        <3> QED
            BY <3>1
    <2>3. Id(j) = j + Max(U) - Max(T)
        BY <2>2 DEF Id
    <2> HIDE DEF T, U
    <2>4. Max(T) \in T /\ Max(U) \in Nat
        BY <2>1, MaxOfFinite
    <2>5. Max(T) \in Nat /\ j > Max(T)
        BY <2>1, <2>2, <2>4
    <2>6. j + Max(U) - Max(T) \in Nat \ {0}
        BY <2>2, <2>4, <2>5
    <2> QED
        BY <2>3, <2>6
<1>4. IsFiniteSet(ids) /\ ids \subseteq Nat \ {0}
    <2> DEFINE f == [j \in made |-> Id(j)]
               T == {Id(j) : j \in made}
    <2>1. IsFiniteSet(made)
        BY <1>2, FS_Subset DEF IsTable
    <2>2. T = {f[j] : j \in made}
        <3> HIDE DEF made
        <3> QED
            OBVIOUS
    <2> HIDE DEF f, made
    <2>3. T \subseteq Nat \ {0}
        BY <1>3
    <2> HIDE DEF T
    <2>4. IsFiniteSet(T)
        BY <2>1, <2>2, FiniteImage
    <2>5. IsFiniteSet(DOMAIN groups \ gone) /\ DOMAIN groups \ gone \subseteq Nat \ {0}
        BY <1>2, FS_Subset DEF IsTable
    <2> HIDE DEF gone
    <2>6. IsFiniteSet(ids)
        BY <2>4, <2>5, FS_Union DEF T
    <2> QED
        BY <2>3, <2>5, <2>6 DEF T
<1>5. ASSUME NEW i \in ids PROVE DOMAIN row(i) = GroupFields
    <2>1. CASE i \in DOMAIN groups
        BY <1>2, <2>1 DEF IsTable
    <2>2. CASE i \notin DOMAIN groups
        <3>1. (CHOOSE j \in made : Id(j) = i) \in made
            BY <2>2
        <3> QED
            BY <1>2, <2>2, <3>1 DEF IsTable
    <2> QED
        BY <2>1, <2>2
<1>6. \A i \in DOMAIN S : DOMAIN S[i] = GroupFields
    <2> HIDE DEF row, parent, ids
    <2> QED
        BY <1>5
<1>7. DOMAIN S = ids
    OBVIOUS
<1> HIDE DEF S, ids
<1>8. IsTable(S)
    BY <1>4, <1>6, <1>7 DEF IsTable
<1> QED
    BY <1>1, <1>8

\* No groups are a table.
LEMMA NothingIsTable == IsTable(Nothing) /\ DOMAIN Nothing = {} /\ RowsAreGroups(Nothing)
<1>1. DOMAIN Nothing = {}
    BY DEF Nothing
<1> QED
    BY <1>1, FS_EmptySet DEF IsTable, RowsAreGroups

\* GroupsInv holds before the first pass commits.
LEMMA InitIsGood == ASSUME Init PROVE GroupsInv
<1>1. IsTable(groups) /\ IsFiniteSet(DOMAIN parents)
    BY NothingIsTable, FS_EmptySet DEF Init
<1>2. DOMAIN titles = DOMAIN Listings /\ \A l \in DOMAIN Listings : titles[l] \in Seq(Int)
    BY TitlesAssumption DEF Init
<1>3. policy \in DOMAIN Policies
    <2>1. policy = 1 /\ Policies \in Seq(ToSet(Policies)) /\ Policies # <<>>
        BY PoliciesAssumption DEF Init
    <2>2. Len(Policies) \in Nat \ {0} /\ DOMAIN Policies = 1..Len(Policies)
        BY <2>1, EmptySeq, LenProperties
    <2> QED
        BY <2>1, <2>2
<1>4. RowsAreGroups(request.stale)
    BY NothingIsTable DEF Init, NoRequest
<1>5. pass = Started(Snapshot(Nothing), Delta)
    BY DEF Init
<1>6. IsTable(pass.base.groups) /\ Left(pass.base.groups, pass.result.groups)
    BY <1>1, <1>2, <1>3, <1>5, NothingIsTable, SnapshotIsReadable, StartedIsLeft
<1> QED
    BY <1>1, <1>2, <1>3, <1>4, <1>6 DEF GroupsInv

\* An edit that leaves a table keeps it; one lemma for each edit follows.
LEMMA EditKeeps ==
    ASSUME GroupsInv, NEW G, IsTable(G), NEW O, NEW P, IsFiniteSet(DOMAIN P), NEW B, NEW ids, ids \subseteq DOMAIN G,
           Edit(G, O, P, B, ids)
    PROVE  GroupsInv'
<1>1. groups' = G /\ parents' = P /\ request'.stale = Restrict(G, ids)
    BY DEF Edit
<1>2. RowsAreGroups(Restrict(G, ids))
    BY DEF IsTable, RowsAreGroups, Restrict
<1>3. UNCHANGED <<titles, policy, pass>>
    BY DEF Edit
<1> QED
    BY <1>1, <1>2, <1>3 DEF GroupsInv, RowsAreGroups, IsTable

(* One row of the table changes, its columns stay.                           *)
LEMMA TableWithRow ==
    ASSUME NEW G, IsTable(G), NEW i \in DOMAIN G, NEW g, DOMAIN g = GroupFields
    PROVE  IsTable([G EXCEPT ![i] = g]) /\ DOMAIN [G EXCEPT ![i] = g] = DOMAIN G
BY DEF IsTable

\* update_group
LEMMA RenameKeeps ==
    ASSUME GroupsInv, NEW i \in DOMAIN groups, NEW name, Rename(i, name)
    PROVE  GroupsInv'
<1> DEFINE g == [groups[i] EXCEPT !.aliases = @ \cup {groups[i].name}, !.name = name,
                                  !.status = "confirmed", !.source = IF @ = "mined" THEN "user" ELSE @]
           G == [groups EXCEPT ![i] = g]
<1>1. Edit(G, overrides, parents, blocks, {i})
    BY DEF Rename
<1>2. IsTable(groups) /\ IsFiniteSet(DOMAIN parents) /\ DOMAIN groups[i] = GroupFields
    BY DEF GroupsInv, IsTable
<1>3. DOMAIN g = GroupFields
    BY <1>2
<1> HIDE DEF g
<1>4. IsTable(G) /\ {i} \subseteq DOMAIN G
    BY <1>2, <1>3, TableWithRow
<1> HIDE DEF G
<1> QED
    BY <1>1, <1>2, <1>4, EditKeeps

\* update_group
LEMMA ConfirmKeeps ==
    ASSUME GroupsInv, NEW i \in DOMAIN groups, Confirm(i)
    PROVE  GroupsInv'
<1> DEFINE G == [groups EXCEPT ![i].status = "confirmed"]
<1>1. Edit(G, overrides, parents, blocks, {i})
    BY DEF Confirm
<1>2. IsTable(G) /\ {i} \subseteq DOMAIN G /\ IsFiniteSet(DOMAIN parents)
    BY DEF GroupsInv, IsTable
<1> HIDE DEF G
<1> QED
    BY <1>1, <1>2, EditKeeps

\* _set_parent
LEMMA SetParentKeeps ==
    ASSUME GroupsInv, NEW i \in DOMAIN groups, NEW p, SetParent(i, p)
    PROVE  GroupsInv'
<1> DEFINE G == [groups EXCEPT ![i].parent = p]
           P == Put(parents, i, p)
<1>1. Edit(G, overrides, P, blocks, {i})
    BY DEF SetParent
<1>2. IsTable(G) /\ {i} \subseteq DOMAIN G
    BY DEF GroupsInv, IsTable
<1>3. IsFiniteSet(DOMAIN P)
    <2>1. DOMAIN P = DOMAIN parents \cup {i}
        BY DEF Put
    <2> QED
        BY <2>1, FS_AddElement DEF GroupsInv
<1> HIDE DEF G, P
<1> QED
    BY <1>1, <1>2, <1>3, EditKeeps

\* merge_groups: both groups keep their rows.
LEMMA MergeKeeps ==
    ASSUME GroupsInv, NEW i \in DOMAIN groups, NEW j \in DOMAIN groups, Merge(i, j)
    PROVE  GroupsInv'
<1> DEFINE line == IF groups[j].parent = 0 THEN j ELSE groups[j].parent
           moved == [k \in DOMAIN groups |->
                       IF groups[k].parent # i THEN groups[k]
                       ELSE [groups[k] EXCEPT !.parent = IF line = i THEN 0 ELSE line]]
           G == [moved EXCEPT ![j].aliases = (@ \cup Phrases(groups[i])) \ {groups[j].name},
                              ![j].status = "confirmed",
                              ![i].status = "ignored", ![i].parent = 0]
           O == [l \in DOMAIN overrides |-> IF overrides[l] = i THEN j ELSE overrides[l]]
<1>1. Edit(G, O, parents, blocks, {i, j})
    BY DEF Merge
<1>2. DOMAIN moved = DOMAIN groups /\ \A k \in DOMAIN groups : DOMAIN moved[k] = GroupFields
    BY DEF GroupsInv, IsTable
<1> HIDE DEF moved
<1>3. DOMAIN G = DOMAIN groups /\ \A k \in DOMAIN groups : DOMAIN G[k] = GroupFields
    BY <1>2
<1> HIDE DEF G, O
<1>4. IsTable(G) /\ {i, j} \subseteq DOMAIN G /\ IsFiniteSet(DOMAIN parents)
    BY <1>3 DEF GroupsInv, IsTable
<1> QED
    BY <1>1, <1>4, EditKeeps

\* split_group: the new row has a fresh id, or the old one comes back.
LEMMA SplitKeeps ==
    ASSUME GroupsInv, NEW i \in DOMAIN groups, NEW phrase, NEW asVersion, Split(i, phrase, asVersion)
    PROVE  GroupsInv'
<1> DEFINE type == groups[i].type
           old == Find(groups, type, phrase)
           line == IF ~ asVersion \/ IsService(groups[i].slug) THEN 0
                   ELSE IF groups[i].parent # 0 THEN groups[i].parent ELSE i
           new == NextId(groups)
           made == NewGroup(type, phrase, phrase, {}, line, "confirmed", "user")
           revived == [groups[old] EXCEPT !.status = "confirmed", !.source = "user", !.name = phrase,
                                          !.parent = line, !.retired = 0]
           G == IF old = 0 THEN AddGroup(groups, made) ELSE [groups EXCEPT ![old] = revived]
           id == IF old = 0 THEN new ELSE old
<1>1. Edit(G, overrides, parents, blocks, {i, id})
    BY DEF Split
<1>2. IsTable(groups) /\ IsFiniteSet(DOMAIN parents)
    BY DEF GroupsInv
<1>3. IsTable(G) /\ {i, id} \subseteq DOMAIN G
    <2>1. CASE old = 0
        <3>1. new \in Nat \ {0}
            BY <1>2, NextIdIsFree
        <3>2. DOMAIN made = GroupFields
            BY NewRow
        <3> HIDE DEF made, new
        <3> DEFINE H == Put(groups, new, made)
        <3>3. DOMAIN H = DOMAIN groups \cup {new} /\ \A k \in DOMAIN H : H[k] = IF k = new THEN made ELSE groups[k]
            BY DEF Put
        <3> HIDE DEF H
        <3>4. IsTable(H)
            BY <1>2, <3>1, <3>2, <3>3, FS_AddElement DEF IsTable
        <3>5. G = H
            BY <2>1 DEF AddGroup, H, made, new
        <3> HIDE DEF G, old
        <3> QED
            BY <2>1, <3>3, <3>4, <3>5
    <2>2. CASE old # 0
        <3>1. old \in DOMAIN groups
            BY <1>2, <2>2, FindIs
        <3>2. DOMAIN revived = GroupFields
            BY <1>2, <3>1 DEF IsTable
        <3> HIDE DEF revived, old, made
        <3> QED
            BY <1>2, <2>2, <3>1, <3>2, TableWithRow
    <2> QED
        BY <2>1, <2>2
<1> HIDE DEF G, id
<1> QED
    BY <1>1, <1>2, <1>3, EditKeeps

\* mark_not_model
LEMMA NotModelKeeps ==
    ASSUME GroupsInv, NEW i \in DOMAIN groups, NotModel(i)
    PROVE  GroupsInv'
<1> DEFINE H == [k \in DOMAIN groups |-> IF groups[k].parent = i THEN [groups[k] EXCEPT !.parent = 0]
                                         ELSE groups[k]]
           G == [H EXCEPT ![i].status = "ignored", ![i].parent = 0]
<1>1. Edit(G, overrides, parents, blocks \cup Phrases(groups[i]), {i})
    BY DEF NotModel
<1>2. DOMAIN H = DOMAIN groups /\ \A k \in DOMAIN groups : DOMAIN H[k] = GroupFields
    BY DEF GroupsInv, IsTable
<1> HIDE DEF H
<1>3. DOMAIN G = DOMAIN groups /\ \A k \in DOMAIN groups : DOMAIN G[k] = GroupFields
    BY <1>2
<1> HIDE DEF G
<1>4. IsTable(G) /\ {i} \subseteq DOMAIN G /\ IsFiniteSet(DOMAIN parents)
    BY <1>3 DEF GroupsInv, IsTable
<1> QED
    BY <1>1, <1>4, EditKeeps

\* What a pass stores is a table; the rules about what it deleted are gone.
LEMMA CommitKeeps ==
    ASSUME GroupsInv, Commit
    PROVE  GroupsInv'
<1>1. IsTable(Stored)
    BY StoredIsTable DEF Commit
<1>2. /\ groups' = Stored /\ pass' = NoPass
      /\ request' = IF pass.by = "request" THEN NoRequest ELSE request
      /\ titles' = titles /\ policy' = policy
    BY DEF Commit
<1>3. IsFiniteSet(DOMAIN parents')
    <2>1. DOMAIN parents' \subseteq DOMAIN parents
        BY DEF Commit, Restrict
    <2> QED
        BY <2>1, FS_Subset DEF GroupsInv
<1>4. RowsAreGroups(request'.stale)
    BY <1>2, NothingIsTable DEF GroupsInv, NoRequest
<1> QED
    BY <1>1, <1>2, <1>3, <1>4 DEF GroupsInv, IsTable

\* A pass reads a table.
LEMMA StartKeeps ==
    ASSUME GroupsInv, Start
    PROVE  GroupsInv'
<1>1. PICK start \in {Delta, Full} : pass' = Started(Snapshot(start.stale), start)
    BY DEF Start
<1>2. RowsAreGroups(start.stale)
    BY NothingIsTable DEF GroupsInv, Delta, Full
<1>3. IsTable(pass'.base.groups) /\ Left(pass'.base.groups, pass'.result.groups)
    BY <1>1, <1>2, SnapshotIsReadable, StartedIsLeft DEF GroupsInv
<1>4. UNCHANGED <<groups, titles, parents, policy, request>>
    BY DEF Start
<1> QED
    BY <1>3, <1>4 DEF GroupsInv, IsTable, RowsAreGroups

\* Every step keeps GroupsInv.
LEMMA StepKeeps ==
    ASSUME GroupsInv, [Next]_vars
    PROVE  GroupsInv'
<1> USE DEF GroupsInv
<1>1. ASSUME NEW l \in DOMAIN Listings, NEW t \in TitleTexts[l], Collect(l, t) PROVE GroupsInv'
    <2>1. /\ DOMAIN titles' = DOMAIN Listings
          /\ \A k \in DOMAIN Listings : titles'[k] \in Seq(Int)
        BY <1>1, TitlesAssumption DEF Collect
    <2>2. UNCHANGED <<groups, parents, policy, pass, request>>
        BY <1>1 DEF Collect
    <2> QED
        BY <2>1, <2>2 DEF IsTable, RowsAreGroups
<1>2. CASE NextDay
    BY <1>2 DEF NextDay, IsTable, RowsAreGroups
<1>3. CASE Deploy
    <2>1. policy' \in DOMAIN Policies
        <3>1. DOMAIN Policies = 1..Len(Policies) /\ Len(Policies) \in Nat
            BY PoliciesAssumption, LenProperties
        <3> QED
            BY <1>3, <3>1 DEF Deploy
    <2>2. pass' = NoPass /\ RowsAreGroups(request'.stale)
        BY <1>3, NothingIsTable DEF Deploy, NoRequest
    <2>3. UNCHANGED <<groups, parents, titles>>
        BY <1>3 DEF Deploy
    <2> QED
        BY <2>1, <2>2, <2>3 DEF IsTable
<1>4. CASE RollBack
    <2>1. pass' = NoPass /\ RowsAreGroups(request'.stale)
        BY <1>4, NothingIsTable DEF RollBack, NoRequest
    <2>2. UNCHANGED <<groups, parents, titles, policy>>
        BY <1>4 DEF RollBack
    <2> QED
        BY <2>1, <2>2 DEF IsTable
<1>5. CASE RegroupButton
    <2>1. IsTable(groups) /\ IsFiniteSet(DOMAIN parents) /\ {} \subseteq DOMAIN groups
        OBVIOUS
    <2> QED
        BY <1>5, <2>1, EditKeeps DEF RegroupButton
<1>6. ASSUME NEW l \in DOMAIN Listings, NEW i \in DOMAIN groups, MoveListing(l, i) PROVE GroupsInv'
    <2>1. IsTable(groups) /\ IsFiniteSet(DOMAIN parents) /\ {i} \subseteq DOMAIN groups
        OBVIOUS
    <2> QED
        BY <1>6, <2>1, EditKeeps DEF MoveListing
<1>7. ASSUME NEW l \in DOMAIN Listings, UnbindListing(l) PROVE GroupsInv'
    <2>1. IsTable(groups) /\ IsFiniteSet(DOMAIN parents) /\ {} \subseteq DOMAIN groups
        OBVIOUS
    <2> QED
        BY <1>7, <2>1, EditKeeps DEF UnbindListing
<1>8. CASE UNCHANGED vars
    BY <1>8 DEF vars, IsTable, RowsAreGroups
<1> QED
    BY <1>1, <1>2, <1>3, <1>4, <1>5, <1>6, <1>7, <1>8, StartKeeps, CommitKeeps, RenameKeeps, ConfirmKeeps,
       SetParentKeeps, MergeKeeps, SplitKeeps, NotModelKeeps
    DEF Next

\* Whatever passes and edits do, and in whatever order they commit, the groups are a table
\* with finitely many rows under positive ids, and the pass that runs will leave what it read
\* as Left says: every table the program reads back can be regrouped (regroup_brand, _write).
THEOREM GroupsAreATable == Spec => []GroupsInv
<1>1. Init => GroupsInv
    BY InitIsGood
<1>2. GroupsInv /\ [Next]_vars => GroupsInv'
    BY StepKeeps
<1> QED
    BY <1>1, <1>2, PTL DEF Spec

\* A pass never makes two groups of one type and slug, whatever is seeded, mined, revived or
\* handed over in it, so its commit cannot break the unique key of brand, type and slug.
THEOREM SlugsStayApart == Spec => []PassKeepsSlugsApart
<1>1. GroupsInv => PassKeepsSlugsApart
    BY DEF GroupsInv, Left, PassKeepsSlugsApart
<1> QED
    BY <1>1, GroupsAreATable, PTL

\* What a user rejected stays rejected and what a user confirmed stays, through seeding, mining,
\* inheriting and settling (_seed, _mine, _inherit, _settle).
THEOREM RulingsAreKept == Spec => []RulingsSurvive
<1>1. GroupsInv => RulingsSurvive
    BY DEF GroupsInv, Left, Ruled, RulingsSurvive
<1> QED
    BY <1>1, GroupsAreATable, PTL
=============================================================================
