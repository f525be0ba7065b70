------------------------------- MODULE Titles -------------------------------
(***************************************************************************)
(* What grouping reads in a title: its model words and its product type,   *)
(* the model that names it, the phrases that are mined from many titles    *)
(* and the chain of listings a seller reposted (services/grouping).        *)
(*                                                                         *)
(* A word is a number (their order is the order of the strings), a phrase  *)
(* a sequence of words.  What depends on the letters of a word is given:   *)
(* which two words are a third one when written together, which words      *)
(* rapidfuzz takes for one another, which are too short to be a name.      *)
(***************************************************************************)
EXTENDS Integers, FiniteSets, Sequences, SequencesExt

CONSTANTS
    Glued,          \* <<first, second>> -> the word they give written as one
    Typos,          \* {<<written, meant>>} with a ratio of at least FUZZY_SCORE
    Modifiers,      \* "mega", "mini": words.protected_modifiers
    Numbers,        \* "2".."4", "#5": words.version_numbers
    Generic,        \* words.generic
    Unfit,          \* words that are no name: numbers and short words
    BrandTerms,     \* phrases of the brand and of its collaborations
    Lexicon,        \* phrase -> [kind, type] of type words, colors, noise, sizes
    Taxonomy        \* type -> [section, family]

ASSUME GluedAssumption == Glued \in [DOMAIN Glued -> Int]
ASSUME TyposAssumption == \A p \in Typos : p[1] # p[2]

NoHit == [length |-> 0]
Review == "review"

---------------------------------------------------------------------------
(* Phrases (text.py, mining.py)                                            *)

At(t, p, i) == i + Len(p) - 1 <= Len(t) /\ SubSeq(t, i, i + Len(p) - 1) = p

Occurs(p, t) == \E i \in 1..Len(t) : At(t, p, i)

\* PhraseIndex.longest_at: the longest of the phrases P that starts at i.
LongestAt(P, t, i) ==
    LET here == {p \in P : p # <<>> /\ At(t, p, i)}
    IN  IF here = {} THEN <<>> ELSE CHOOSE p \in here : \A q \in here : Len(q) <= Len(p)

\* The longest phrase of P in t, the leftmost at a tie; Ok(p, i) may refuse one.
LongestIn(P, t, Ok(_, _)) ==
    LET longest(hits) ==
            IF hits = {} THEN <<>>
            ELSE (CHOOSE h \in hits : \A g \in hits \ {h} :
                     \/ Len(h[1]) > Len(g[1])
                     \/ Len(h[1]) = Len(g[1]) /\ h[2] < g[2])[1]
    IN  longest({h \in P \X (1..Len(t)) : h[1] # <<>> /\ At(t, h[1], h[2]) /\ Ok(h[1], h[2])})

\* True if the phrase splits entirely into the words W and the phrases P.
Covered(p, W, P) ==
    LET piece(i, j) == SubSeq(p, i + 1, j)
        reachable[j \in 0..Len(p)] ==
            j = 0 \/ \E i \in 0..(j - 1) :
                        reachable[i] /\ (piece(i, j) \in P \/ (j = i + 1 /\ p[j] \in W))
    IN  p # <<>> /\ reachable[Len(p)]

\* At a place of t: a phrase of P is taken out, its other words are passed by.
TakeOut(P, t, acc, i) ==
    LET p == LongestAt(P, t, i)
    IN  IF acc.skip > 0 THEN [acc EXCEPT !.skip = @ - 1]
        ELSE IF p = <<>> THEN [acc EXCEPT !.kept = Append(@, t[i])]
        ELSE [acc EXCEPT !.found = Append(@, p), !.skip = Len(p) - 1]

\* The phrase with the words of P taken out, longest first, and what was found.
Strip(P, t) ==
    FoldLeftDomain(LAMBDA acc, i : TakeOut(P, t, acc, i), [kept |-> <<>>, found |-> <<>>, skip |-> 0], t)

---------------------------------------------------------------------------
(* A title (normalize.py) and its product type (assign.py)                 *)

\* Brand terms go first, then type words, colors, sizes and noise; the words of
\* types are remembered, the others are dropped.
Normalize(spelled) ==
    LET typesOf(phrases) == [i \in DOMAIN phrases |-> Lexicon[phrases[i]].type]
        types(found, kind) == typesOf(SelectSeq(found, LAMBDA p : Lexicon[p].kind = kind))
        of(lexed) == [tokens |-> lexed.kept, spelled |-> spelled,
                      strong |-> types(lexed.found, "strong"), weak |-> types(lexed.found, "weak")]
    IN  of(Strip(DOMAIN Lexicon, Strip(BrandTerms, spelled).kept))

FirstIn(s, S) == LET i == SelectInSeq(s, LAMBDA x : x \in S) IN IF i = 0 THEN "" ELSE s[i]

\* classify_type: the category first, then the words of the title, then the models
\* of the dictionary, which Infer reads; a contradiction goes to review.
ClassifyType(rule, title, Infer(_, _)) ==
    LET strong == ToSet(title.strong)
        related(t) == \E s \in strong : Taxonomy[s].family = Taxonomy[t].family
                                        \/ Taxonomy[s].section = Taxonomy[t].section
        candidates == IF rule.any # <<>> THEN rule.any
                      ELSE IF title.strong # <<>> THEN title.strong ELSE title.weak
        named == FirstIn(candidates, strong)
        hinted == FirstIn(candidates, ToSet(title.weak))
        inferred == Infer(candidates, title.tokens)
        decided(t, method) == [type |-> t, method |-> method]
    IN  IF rule.fixed # ""
        THEN IF strong = {} \/ rule.fixed \in strong \cup ToSet(title.weak) \/ related(rule.fixed)
             THEN decided(rule.fixed, "category") ELSE decided(Review, "conflict")
        ELSE IF named # "" THEN decided(named, "title")
        ELSE IF strong # {} /\ rule.any # <<>>
                /\ \A s \in strong : Taxonomy[s].section # Taxonomy[rule.fallback].section
             THEN decided(Review, "conflict")
        ELSE IF hinted # "" THEN decided(hinted, "weak")
        ELSE IF inferred # "" THEN decided(inferred, "model")
        ELSE decided(rule.fallback, "fallback")

NoModels(candidates, tokens) == ""

---------------------------------------------------------------------------
(* The dictionary of models (assign.py): a set of entries                  *)
(* [key, type, phrases, parent, status, infer, weight]                     *)

OfType(D, t) == {e \in D : e.type = t}

\* A confirmed model comes before a found one, then the older one.
Before(e, f) == \/ e.status = "confirmed" /\ f.status # "confirmed"
                \/ (e.status = "confirmed") = (f.status = "confirmed") /\ e.key < f.key

Owner(D, p) == CHOOSE e \in D : p \in e.phrases
                  /\ \A f \in D \ {e} : p \in f.phrases => Before(e, f)

\* The best phrase of the title: the longest, then the better entry, then the first.
BestHit(D, t) ==
    LET phrases == UNION {e.phrases : e \in D}
        at == {h \in phrases \X (1..Len(t)) : At(t, h[1], h[2])}
        better(h, g) == \/ h.length > g.length
                        \/ h.length = g.length /\ h.entry # g.entry /\ Before(h.entry, g.entry)
                        \/ h.length = g.length /\ h.entry = g.entry /\ h.start < g.start
        best(hits) == IF hits = {} THEN NoHit
                      ELSE CHOOSE h \in hits : \A g \in hits \ {h} : better(h, g)
    IN  best({[start |-> h[2], length |-> Len(h[1]), entry |-> Owner(D, h[1])] : h \in at})

\* One-word names of confirmed models: two words of a title may be glued into them.
Solid(D) == {w \in Range(Glued) : \E e \in D : e.status = "confirmed" /\ <<w>> \in e.phrases}

Glue(solid, t) ==
    LET glues(i) == i < Len(t) /\ <<t[i], t[i + 1]>> \in DOMAIN Glued /\ Glued[<<t[i], t[i + 1]>>] \in solid
        next(acc, i) ==
            IF acc.skip THEN [acc EXCEPT !.skip = FALSE]
            ELSE IF glues(i)
                 THEN [words |-> Append(acc.words, Glued[<<t[i], t[i + 1]>>]),
                       widths |-> Append(acc.widths, 2), skip |-> TRUE]
                 ELSE [acc EXCEPT !.words = Append(@, t[i]), !.widths = Append(@, 1)]
    IN  FoldLeftDomain(next, [words |-> <<>>, widths |-> <<>>, skip |-> FALSE], t)

\* _search: as written, or glued where that covers more words of the title.
Search(D, t) ==
    LET width(h, widths) ==
            IF h = NoHit THEN 0 ELSE FoldLeft(+, 0, SubSeq(widths, h.start, h.start + h.length - 1))
        better(best, other, words, covered) ==
            IF Len(words) < Len(t) /\ covered > best.length
            THEN [hit |-> other, tokens |-> words, covered |-> covered]
            ELSE [hit |-> best, tokens |-> t, covered |-> best.length]
        compare(other, glued) == better(BestHit(D, t), other, glued.words, width(other, glued.widths))
        against(glued) == compare(BestHit(D, glued.words), glued)
    IN  against(Glue(Solid(D), t))

\* _correct: a word the dictionary does not have becomes the one it is a typo of.
Correct(D, w) ==
    LET vocabulary == UNION {ToSet(p) : p \in UNION {e.phrases : e \in D}}
        meant == {v \in vocabulary : <<w, v>> \in Typos}
    IN  IF w \in vocabulary \/ meant = {} THEN w ELSE Max(meant)

\* _version: modifiers before the name of a line and a number after it.
Version(found) ==
    LET h == found.hit   t == found.tokens
        end == h.start + h.length
        modifiers == SelectSeq(SubSeq(t, Max({1, h.start - 2}), h.start - 1), LAMBDA w : w \in Modifiers)
        number == IF end <= Len(t) /\ t[end] \in Numbers THEN <<t[end]>> ELSE <<>>
    IN  IF h.entry.parent # 0 \/ modifiers \o number = <<>> THEN <<>>
        ELSE modifiers \o SubSeq(t, h.start, end - 1) \o number

\* ModelDictionary.match
Match(D, type, t) ==
    LET mine == OfType(D, type)
        named(found, fuzzy) ==
            IF found.hit = NoHit THEN NoHit
            ELSE [length |-> found.hit.length, entry |-> found.hit.entry,
                  fuzzy |-> fuzzy, version |-> Version(found)]
        corrected == [i \in DOMAIN t |-> Correct(mine, t[i])]
        of(written) == IF written.hit # NoHit THEN named(written, FALSE)
                       ELSE named(Search(mine, corrected), TRUE)
    IN  of(Search(mine, t))

\* ModelDictionary.infer_type: a model that hints at its type first, then the heavier,
\* then the one that covers more of the title, then the order of the candidates.
InferType(D, candidates, t) ==
    LET rank(h, i) == <<IF h.hit.entry.infer THEN 0 ELSE 1, -h.hit.entry.weight, -h.covered, i>>
        less(a, b) == \E k \in 1..4 : a[k] < b[k] /\ \A j \in 1..(k - 1) : a[j] = b[j]
        best(h) ==
            LET found == {i \in DOMAIN h : h[i].hit # NoHit}
            IN  IF found = {} THEN ""
                ELSE candidates[CHOOSE i \in found :
                        \A j \in found \ {i} : less(rank(h[i], i), rank(h[j], j))]
    IN  best([i \in DOMAIN candidates |-> Search(OfType(D, candidates[i]), t)])

\* seed_types: the product types whose titles name the seed of "any" type; titles is a
\* set of <<type, tokens>>.
SeedTypes(seeds, titles) ==
    LET entries == {[key |-> i, type |-> "*", phrases |-> seeds[i].phrases, parent |-> 0,
                     status |-> "confirmed", infer |-> FALSE, weight |-> 0] :
                        i \in {j \in DOMAIN seeds : seeds[j].types = {}}}
        is(m, i) == m # NoHit /\ m.entry.key = i
        named(i, tokens) == is(Match(entries, "*", tokens), i)
    IN  [i \in DOMAIN seeds |-> {x[1] : x \in {y \in titles : named(i, y[2])}}]
=============================================================================
