------------------------------- MODULE Mining -------------------------------
(***************************************************************************)
(* Model names found in titles (grouping/mining.py): the phrases enough    *)
(* sellers use, cut down to those that stand on their own; and the chains  *)
(* of listings one seller reposted (grouping/relists.py).                  *)
(***************************************************************************)
EXTENDS Titles

CONSTANTS
    MaxWords,       \* MAX_WORDS
    MinSellers,     \* MIN_SELLERS
    RelistWindow,   \* RELIST_WINDOW, in days
    Tolerance       \* OBSERVATION_TOLERANCE, in days

ASSUME MiningAssumption == MaxWords \in Nat /\ MinSellers \in Nat \ {0}
ASSUME RelistAssumption == RelistWindow \in Nat /\ Tolerance \in Nat

---------------------------------------------------------------------------
(* Samples are records [id, seller, tokens]                                *)

Grams(t) == {SubSeq(t, i, j) : i \in 1..Len(t), j \in 1..Len(t)} \ {<<>>}

\* The places of a title that belong to a generic word or to a forbidden phrase.
Masked(t, P) == {k \in 1..Len(t) : \/ t[k] \in Generic
                                   \/ \E i \in 1..k : \E p \in P : At(t, p, i) /\ k < i + Len(p)}

Eligible(g, P) == /\ Len(g) <= MaxWords
                  /\ ToSet(g) \cap Numbers = {}
                  /\ ~ Covered(g, Generic, P)
                  /\ Len(g) = 1 => g[1] \notin Unfit

\* The samples that use a phrase at a place that is not all forbidden.
Uses(g, samples, P) ==
    {s \in samples : \E i \in 1..Len(s.tokens) :
        At(s.tokens, g, i) /\ ~ (i..(i + Len(g) - 1) \subseteq Masked(s.tokens, P))}

Sellers(samples) == Cardinality({s.seller : s \in samples})

\* One name written as one word or apart.
Join(g) == IF g \in DOMAIN Glued THEN <<Glued[g]>> ELSE g

Inside(g, longer) == Len(g) < Len(longer) /\ Occurs(g, longer)

\* The sellers of a phrase that do not use it in a longer one.
Residual(uses, g, longer) ==
    Sellers(uses[g] \ UNION {uses[l] : l \in {x \in longer : Inside(g, x)}})

Own(uses, known, accepted, g) ==
    IF g \in accepted THEN Residual(uses, g, known \cup {l \in accepted : Len(l) > Len(g)}) ELSE 0

\* The sellers a name has of its own in all its spellings.
OwnInAll(uses, known, accepted, g, others) ==
    FoldSet(LAMBDA h, n : n + Own(uses, known, accepted, h), Own(uses, known, accepted, g), others)

\* The accepted phrases under their best spelling: the one with more sellers, then one
\* that exists, then the one apart.
Spelled(uses, excluded, known, kept, accepted) ==
    LET beaten(a, b) == \E k \in 1..4 : a[k] < b[k] /\ \A j \in 1..(k - 1) : a[j] = b[j]
        spellings(g) == {h \in DOMAIN uses \ excluded : Join(h) = Join(g)}
        rank(g) == <<Sellers(uses[g]), IF g \in kept THEN 1 ELSE 0, Len(g), g[1]>>
        wins(g) == \A h \in (spellings(g) \cap accepted) \ {g} : beaten(rank(h), rank(g))
        name(g, others, total) ==
            [tokens |-> g, support |-> Sellers(uses[g]), variants |-> others,
             fragment |-> 2 * Min({total, OwnInAll(uses, known, accepted, g, others)}) < total]
    IN  {name(g, spellings(g) \ {g}, Sellers(UNION {uses[h] : h \in spellings(g) \cup {g}})) :
            g \in {h \in DOMAIN uses : h \in accepted /\ wins(h)}}

\* A phrase of a group that exists already needs only floor sellers.
Threshold(g, kept, floor) == IF g \in kept THEN Min({floor, MinSellers}) ELSE MinSellers

\* Longer phrases first; a shorter one needs sellers of its own.
Accepted(uses, known, candidates, kept, floor) ==
    FoldLeft(LAMBDA acc, n : acc \cup {g \in candidates :
                Len(g) = n /\ Residual(uses, g, known \cup acc) >= Threshold(g, kept, floor)},
             {}, [n \in 1..MaxWords |-> MaxWords + 1 - n])

\* mine_phrases: kept are phrases of groups that exist already; solid are one-word names
\* that already own their spelling apart.
MinePhrases(samples, excluded, P, kept, floor, solid) ==
    LET \* A longer phrase is a name only if most uses of its parts come with it.
        collocates(g, support) ==
            \A part \in {Tail(g), Front(g)} \cap DOMAIN support : 2 * support[g] >= support[part]
        candidates(support, known) ==
            {g \in DOMAIN support \ known :
                support[g] >= Threshold(g, kept, floor) /\ (Len(g) > 1 => collocates(g, support))}
        respelled(grams) == {g \in grams : Len(g) > 1 /\ ToSet(Join(g)) \subseteq solid}
        named(uses, known) ==
            Spelled(uses, excluded, known, kept,
                    Accepted(uses, known, candidates([g \in DOMAIN uses |-> Sellers(uses[g])], known), kept, floor))
        used(uses) == named(uses, (excluded \cup respelled(DOMAIN uses)) \cap DOMAIN uses)
        all == {g \in UNION {Grams(s.tokens) : s \in samples} : Eligible(g, P)}
    IN  used([g \in {h \in all : Uses(h, samples, P) # {}} |-> Uses(g, samples, P)])

\* parent_line: the longest of the lines (records [tokens, id]) a phrase starts with,
\* after leading modifiers; 0 if there is none.
ParentLine(p, lines) ==
    LET starts == {i \in 1..Len(p) : \A j \in 1..(i - 1) : p[j] \in Modifiers}
        fits == {x \in lines \X starts : Len(x[1].tokens) < Len(p) /\ At(p, x[1].tokens, x[2])}
        better(x, y) == \/ Len(x[1].tokens) > Len(y[1].tokens)
                        \/ Len(x[1].tokens) = Len(y[1].tokens) /\ x[2] > y[2]
    IN  IF fits = {} THEN 0 ELSE (CHOOSE x \in fits : \A y \in fits : ~ better(y, x))[1].id

---------------------------------------------------------------------------
(* Relists: rows are records [id, seller, group, status, created, seen,    *)
(* repost], repost the id of the listing Grailed says this one reposts     *)

Older(x, y) == x.created < y.created \/ (x.created = y.created /\ x.id < y.id)

\* The listing of the same seller and model that a listing continues: the last one that
\* ended shortly before it, with no sale in between.
Continues(rows, predecessor, x) ==
    LET earlier == {y \in rows : y.seller = x.seller /\ y.group = x.group /\ Older(y, x)}
        since == {y \in earlier : ~ \E z \in earlier : z.status = "sold" /\ (z = y \/ Older(y, z))}
        fits == {y \in since : /\ y.id \notin Range(predecessor)
                               /\ y.status \in {"removed", "removed_pending"}
                               /\ y.seen - Tolerance <= x.created
                               /\ x.created <= y.seen + RelistWindow}
    IN  {y \in fits : \A z \in fits : ~ Older(y, z)}

Predecessors(rows) ==
    LET linked == {x \in rows : \E y \in rows : y.id = x.repost /\ y.id # x.id /\ y.status # "sold"}
        links == [i \in {x.id : x \in linked} |-> (CHOOSE x \in linked : x.id = i).repost]
        next(acc, x) ==
            IF x.id \in DOMAIN acc \/ x.seller = 0 \/ Continues(rows, acc, x) = {} THEN acc
            ELSE [i \in {x.id} \cup DOMAIN acc |->
                    IF i = x.id THEN (CHOOSE y \in Continues(rows, acc, x) : TRUE).id ELSE acc[i]]
    IN  FoldLeft(next, links, SetToSortSeq(rows, Older))

\* detect_relists: listing -> the first listing of its chain.
DetectRelists(rows) ==
    LET walk(predecessor, acc) ==
            IF acc.root \in DOMAIN predecessor /\ predecessor[acc.root] \notin acc.past
            THEN [root |-> predecessor[acc.root], past |-> acc.past \cup {predecessor[acc.root]}]
            ELSE acc
        roots(predecessor) ==
            [i \in DOMAIN predecessor |->
                FoldSet(LAMBDA n, acc : walk(predecessor, acc), [root |-> i, past |-> {i}],
                        DOMAIN predecessor).root]
    IN  roots(Predecessors(rows))
=============================================================================
