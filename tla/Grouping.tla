------------------------------ MODULE Grouping ------------------------------
(***************************************************************************)
(* One regroup of a brand (services/grouping/service.py): what a pass      *)
(* makes of the listings, groups and manual rules it reads.                *)
(*                                                                         *)
(* A slug is a phrase; the first word of a service group's is not          *)
(* positive.  Group id 0 is none, a group's retired day is 0 while it is   *)
(* in use.                                                                 *)
(***************************************************************************)
EXTENDS Mining, Orders

CONSTANTS
    Listings,       \* listing -> [seller, rule, created, seen, status, repost]
    Policies,       \* releases of config/: each a sequence of seeds
    Descriptions,   \* the descriptors: records [slug, phrases, types, except]
    Partners,       \* the whitelisted collaborations: [slug, phrases, types, stops]
    KeepSellers,    \* ceil(keep_ratio * MIN_SELLERS)
    RetireTTL,      \* retire_ttl_days
    Wholesale       \* mining.wholesale_listings

ASSUME ListingsAssumption ==
    /\ IsFiniteSet(DOMAIN Listings)
    /\ \A l \in DOMAIN Listings : l \in Nat \ {0} /\ Listings[l].seller \in Nat

ASSUME PoliciesAssumption ==
    /\ Policies \in Seq(ToSet(Policies)) /\ Policies # <<>>
    /\ \A seeds \in ToSet(Policies) : /\ seeds \in Seq(ToSet(seeds))
                                     /\ \A seed \in ToSet(seeds) : IsFiniteSet(seed.types)

NoneSlug == <<0>>
Descriptor(p) == <<-1>> \o p
Collab(p) == <<-2>> \o p
IsDescriptor(slug) == slug[1] = -1
IsCollab(slug) == slug[1] = -2
IsService(slug) == slug[1] <= 0

NewGroup(type, slug, name, aliases, parent, status, source) ==
    [type |-> type, slug |-> slug, name |-> name, aliases |-> aliases \ {name}, parent |-> parent,
     status |-> status, source |-> source, retired |-> 0, infer |-> FALSE]

\* Mutant: a group that was found stays one after a user confirmed it.
Derived_Source(g) == g.source = "mined"

Derived(g) == g.status = "auto" /\ g.source = "mined"

SystemMade(g) == g.status = "auto" /\ (IsDescriptor(g.slug) \/ IsCollab(g.slug))

\* Mutant: a tombstone counts as in use.
IsUnused_Retired(g) == g.retired # 0

IsUnused(g) == g.status = "ignored" \/ g.retired # 0

Phrases(g) == {p \in g.aliases \cup {g.name} : p # <<>>}

Find(G, type, slug) ==
    IF \E i \in DOMAIN G : G[i].type = type /\ G[i].slug = slug
    THEN CHOOSE i \in DOMAIN G : G[i].type = type /\ G[i].slug = slug ELSE 0

\* SQLite gives the highest id + 1.
NextId(G) == IF DOMAIN G = {} THEN 1 ELSE Max(DOMAIN G) + 1
Put(f, k, v) == [i \in {k} \cup DOMAIN f |-> IF i = k THEN v ELSE f[i]]
AddGroup(G, g) == Put(G, NextId(G), g)
Ascending(S) == Arranged(S, <)

\* _apply_parents: the saved lines, one after the other; one that no longer fits is skipped.
ApplyParent(P, acc, i) ==
    LET p == P[i]
        fits == /\ p \in DOMAIN acc /\ p # i
                /\ acc[p].type = acc[i].type
                /\ acc[p].parent = 0 /\ acc[p].status # "ignored"
    IN  IF i \in DOMAIN acc /\ (p # 0 => fits) THEN [acc EXCEPT ![i].parent = p] ELSE acc

ApplyParents(G, P) ==
    FoldLeft(LAMBDA acc, i : ApplyParent(P, acc, i), G, Ascending(DOMAIN P))

---------------------------------------------------------------------------
(* Seeds: records [name, phrases, types, parent, infer]                    *)

\* One seed in one type: created, taken over from a found group, or brought up to date.
SeedOne(acc, x) ==
    LET i == Find(acc.groups, x.type, x.seed.name)
        g == acc.groups[i]
        extra == x.seed.phrases \ (g.aliases \cup {g.name, x.seed.name})
        made == [NewGroup(x.type, x.seed.name, x.seed.name, x.seed.phrases, 0, "confirmed", "seed")
                    EXCEPT !.infer = x.seed.infer = x.type]
    IN  IF i = 0
        THEN [acc EXCEPT !.groups = AddGroup(@, made), !.changed = TRUE,
                         !.made = Append(@, <<NextId(acc.groups), x.seed.parent>>)]
        ELSE IF Derived(g)
        THEN [acc EXCEPT !.groups[i] = [made EXCEPT !.aliases = (@ \cup Phrases(g)) \ {x.seed.name}],
                         !.changed = TRUE, !.made = Append(@, <<i, x.seed.parent>>)]
        ELSE IF g.source = "seed" /\ g.status # "ignored"
        THEN [acc EXCEPT !.groups[i].retired = 0, !.groups[i].aliases = @ \cup extra,
                         !.changed = @ \/ g.retired # 0 \/ extra # {}]
        ELSE acc

\* The seeds of fixed types, or those of any type in the types that need them.
Fixed(seeds) == [k \in DOMAIN seeds |-> seeds[k].types]
Needed(seeds, titled) == LET any == SeedTypes(seeds, titled)
                         IN  [k \in DOMAIN seeds |-> IF seeds[k].types = {} THEN any[k] ELSE {}]

\* The line a seed names, when it is there and a line itself.
HangSeed(acc, m) ==
    LET lines == {i \in DOMAIN acc : acc[i].type = acc[m[1]].type /\ acc[i].name = m[2]}
    IN  IF m[2] = <<>> \/ lines = {} \/ Max(lines) = m[1] \/ acc[Max(lines)].parent # 0 THEN acc
        ELSE [acc EXCEPT ![m[1]].parent = Max(lines)]

\* One seed in each type it is wanted in.
SeedIn(acc, x) ==
    FoldLeft(LAMBDA a, type : SeedOne(a, [seed |-> x.seed, type |-> type]), acc, SetToSeq(x.types))

\* _seed: the seeds one after the other in the types wanted; then their lines.
Seed(G, seeds, wanted) ==
    LET hung(seeded) ==
            [groups |-> FoldLeft(HangSeed, seeded.groups, seeded.made), changed |-> seeded.changed]
    IN  hung(FoldLeft(SeedIn, [groups |-> G, changed |-> FALSE, made |-> <<>>],
                      [k \in DOMAIN seeds |-> [seed |-> seeds[k], types |-> wanted[k]]]))

\* _protected: found groups that manual rules, or groups that are not found, point at.
Protected(G, O, P) ==
    LET ids == Range(O) \cup DOMAIN P \cup Range(P)
               \cup {G[i].parent : i \in {j \in DOMAIN G : ~ Derived(G[j]) /\ G[j].status # "ignored"}}
    IN  {i \in ids \cap DOMAIN G : Derived(G[i])}

\* _idle_seeds: groups of "any" seeds in a type where no title names the seed any more.
IdleSeeds(G, seeds, needed, O, P) ==
    LET pinned == Range(O) \cup DOMAIN P \cup Range(P)
                  \cup {G[i].parent : i \in {j \in DOMAIN G : G[j].status # "ignored" /\ ~ Derived(G[j])}}
        any == {k \in DOMAIN seeds : seeds[k].types = {}}
    IN  {i \in DOMAIN G \ pinned :
            /\ G[i].source = "seed" /\ G[i].status = "confirmed"
            /\ \E k \in any : seeds[k].name = G[i].slug /\ G[i].type \notin needed[k]}

\* _dictionary
Entries(G, weight, Include(_)) ==
    {[key |-> i, type |-> G[i].type, phrases |-> Phrases(G[i]), parent |-> G[i].parent,
      status |-> G[i].status, infer |-> G[i].infer, weight |-> weight[i]] :
        i \in {j \in DOMAIN G : ~ IsUnused(G[j]) /\ ~ IsService(G[j].slug) /\ Include(j)}}

---------------------------------------------------------------------------
(* _assign: a manual binding, a model, a version of one, or no model       *)

Decision(type, group, method) == [type |-> type, group |-> group, method |-> method]

\* The version of a line, v = [type, phrase, line]; a rejected one stays as it is.
AddVersion(acc, v) ==
    LET i == Find(acc, v.type, v.phrase)
    IN  IF i = 0 THEN AddGroup(acc, NewGroup(v.type, v.phrase, v.phrase, {}, v.line, "auto", "mined"))
        ELSE IF acc[i].status = "ignored" THEN acc
        ELSE [acc EXCEPT ![i].retired = 0]

\* The group of a type's listings without a model.
AddBucket(acc, t) ==
    IF Find(acc, t, NoneSlug) # 0 THEN acc
    ELSE AddGroup(acc, NewGroup(t, NoneSlug, <<>>, {}, 0, "confirmed", "system"))

WithVersions(G, wanted) == FoldLeft(AddVersion, G, SetToSeq(wanted))
WithBuckets(G, types) == FoldLeft(AddBucket, G, SetToSeq(types))

Assign(G, rows, types, norm, O, D) ==
    LET bound == {l \in rows : l \in DOMAIN O /\ O[l] \in DOMAIN G}
        place(match) ==
            LET versioned == {l \in DOMAIN match : match[l] # NoHit /\ match[l].version # <<>>}
                known(l) == {e \in OfType(D, types[l]) : match[l].version \in e.phrases}
                of(v) == {l \in versioned : <<types[l], match[l].version>> = v}
                line(v) == match[CHOOSE l \in of(v) : TRUE].entry.key
                wanted == {<<types[l], match[l].version>> : l \in {x \in versioned : known(x) = {}}}
                versions == WithVersions(G, {[type |-> v[1], phrase |-> v[2], line |-> line(v)] : v \in wanted})
                version(G1, l) == IF known(l) # {} THEN Owner(OfType(D, types[l]), match[l].version).key
                                  ELSE Find(G1, types[l], match[l].version)
                rejected(G1) == {l \in versioned : known(l) = {} /\ G1[version(G1, l)].status = "ignored"}
                decide(G1, G2, nameless, l) ==
                    IF l \in bound THEN Decision(G[O[l]].type, O[l], "override")
                    ELSE IF l \in nameless
                    THEN Decision(types[l], Find(G2, types[l], NoneSlug),
                                  IF types[l] = Review THEN "review" ELSE "none")
                    ELSE IF l \in versioned THEN Decision(types[l], version(G1, l), "version")
                    ELSE Decision(types[l], match[l].entry.key, IF match[l].fuzzy THEN "fuzzy" ELSE "phrase")
                decided(G1, G2, nameless) ==
                    [groups |-> G2, results |-> [l \in rows |-> decide(G1, G2, nameless, l)]]
                bucketed(G1, nameless) ==
                    decided(G1, WithBuckets(G1, {types[l] : l \in nameless}), nameless)
                named(G1) == bucketed(G1, {l \in DOMAIN match : match[l] = NoHit} \cup rejected(G1))
            IN  named(versions)
    IN  place([l \in rows \ bound |->
                 IF types[l] = Review THEN NoHit ELSE Match(D, types[l], norm[l].tokens)])

AddLine(G, x) ==
    LET i == Find(G, x[1], x[2])
    IN  IF i = 0 THEN AddGroup(G, NewGroup(x[1], x[2], Tail(x[2]), {}, 0, "auto", "system"))
        ELSE [G EXCEPT ![i].retired = 0]

WithLines(G, lines) == FoldLeft(AddLine, G, SetToSeq(lines))

\* The placed listings go to the lines of their slugs.
OnLines(acc, placed, slug, method) ==
    LET G == WithLines(acc.groups, {<<acc.results[l].type, slug[l]>> : l \in placed})
        result(l) == IF l \notin placed THEN acc.results[l]
                     ELSE Decision(acc.results[l].type, Find(G, acc.results[l].type, slug[l]), method)
    IN  [acc EXCEPT !.groups = G, !.results = [l \in DOMAIN acc.results |-> result(l)]]

\* _system_lines: listings with no model go to the line Slug names, made on demand.
SystemLines(acc, norm, method, Slug(_, _)) ==
    LET free == {l \in DOMAIN acc.results : acc.results[l].method = "none"}
        slug == [l \in free |-> Slug(norm[l], acc.results[l].type)]
        accepts(i) == i # 0 => acc.groups[i].status # "ignored"
        placed == {l \in free : slug[l] # <<>> /\ accepts(Find(acc.groups, acc.results[l].type, slug[l]))}
    IN  OnLines(acc, placed, slug, method)

Applies(d, type) == (d.types = {} \/ type \in d.types) /\ type \notin d.except
DescriptorPhrases(type) == UNION {d.phrases : d \in {e \in Descriptions : Applies(e, type)}}

\* DescriptorIndex.find, on the words that are left of a title.
DescriptorSlug(title, type) ==
    LET p == LongestIn(DescriptorPhrases(type), title.tokens, LAMBDA q, i : TRUE)
    IN  IF p = <<>> THEN <<>>
        ELSE Descriptor((CHOOSE d \in Descriptions : Applies(d, type) /\ p \in d.phrases).slug)

\* CollabIndex.find, on all its words: a stop word after the phrase cancels it.
CollabSlug(title, type) ==
    LET t == title.spelled
        partner(p) == CHOOSE c \in Partners : p \in c.phrases
        counts(p, i) == /\ partner(p).types = {} \/ type \in partner(p).types
                        /\ i + Len(p) <= Len(t) => t[i + Len(p)] \notin partner(p).stops
        p == LongestIn(UNION {c.phrases : c \in Partners}, t, counts)
    IN  IF p = <<>> THEN <<>> ELSE Collab(partner(p).slug)

---------------------------------------------------------------------------
(* _mine: groups found in the titles that have no model                    *)

NoModel == {"none", "descriptor", "collab"}

\* _wholesale_sellers
WholesaleSellers(rows) ==
    {s \in {Listings[l].seller : l \in rows} \ {0} :
        Cardinality({l \in rows : Listings[l].seller = s}) >= Wholesale}

\* The slug of the group that takes a mined phrase: found by slug, alias or spelling.
Reused(acc, mined, m, taken) ==
    LET bySlug(p) == {i \in mined : acc.before[i].slug = p}
        byAlias == {i \in mined : m.tokens \in acc.before[i].aliases}
        variants == SelectSeq(SetToSeq(m.variants), LAMBDA p : bySlug(p) # {})
        found == IF bySlug(m.tokens) # {} THEN bySlug(m.tokens)
                 ELSE IF m.tokens \in taken THEN {}
                 ELSE IF byAlias # {} THEN {Min(byAlias)}
                 ELSE IF variants # <<>> THEN bySlug(variants[1]) ELSE {}
    IN  found \ acc.derived

\* Mutant: a phrase makes a group without a look for its old one.
MinePhrase_New(acc, mined, type, m) ==
    LET id == NextId(acc.groups)
    IN  [acc EXCEPT !.groups = AddGroup(@, NewGroup(type, m.tokens, m.tokens, m.variants, 0, "auto", "mined")),
                    !.derived = @ \cup {id}, !.fresh = @ \cup {id},
                    !.touched = Append(@, [tokens |-> m.tokens, id |-> id])]

\* One phrase: its group comes back, spelled as the rules spell it now, or is made.
MinePhrase(acc, mined, type, m) ==
    LET slugs == {acc.groups[i].slug : i \in {j \in DOMAIN acc.groups : acc.groups[j].type = type}}
        touch(i, G) == [acc EXCEPT !.groups = G, !.derived = @ \cup {i},
                            !.touched = Append(@, [tokens |-> m.tokens, id |-> i]),
                            !.fragments = IF m.fragment THEN @ \cup {i} ELSE @]
        respelled(g) == IF g.slug = m.tokens THEN [g EXCEPT !.aliases = @ \cup m.variants]
                        ELSE [g EXCEPT !.aliases = ((@ \cup {g.name, g.slug}) \ {m.tokens}) \cup m.variants,
                                       !.slug = m.tokens, !.name = m.tokens]
        revived(i) ==
            [touch(i, [acc.groups EXCEPT ![i] = [respelled(@) EXCEPT !.retired = 0]])
                EXCEPT !.taken = @ \cup {acc.groups[i].slug}]
        made(id) ==
            [touch(id, Put(acc.groups, id, NewGroup(type, m.tokens, m.tokens, m.variants, 0, "auto", "mined")))
                EXCEPT !.fresh = @ \cup {id}]
        taken(reused, slug) ==
            IF reused # {} THEN revived(CHOOSE i \in reused : TRUE)
            ELSE IF m.tokens \in slug THEN acc ELSE made(NextId(acc.groups))
        among(slug) == taken(Reused(acc, mined, m, slug), slug)
    IN  among(slugs \cup acc.taken)

MineFound(acc, mined, type, order) ==
    FoldLeft(LAMBDA a, m : MinePhrase(a, mined, type, m), acc, order)

\* The line each touched group hangs under, then a line's own line instead.
PutUnder(lines, acc, x) ==
    [acc EXCEPT ![x.id].parent = ParentLine(x.tokens, {y \in lines : y.id # x.id})]

LiftLine(acc, x) ==
    LET p == acc[x.id].parent
    IN  IF p # 0 /\ p \in DOMAIN acc /\ acc[p].parent # 0
        THEN [acc EXCEPT ![x.id].parent = acc[p].parent] ELSE acc

Hang(G, touched, lines) ==
    FoldLeft(LiftLine, FoldLeft(LAMBDA acc, x : PutUnder(lines, acc, x), G, touched), touched)

\* The phrases of groups that exist first, then those more sellers use, then in their own order.
MiningOrder(found, kept) ==
    LET earlier(p, q) ==
            \/ IsStrictPrefix(p, q)
            \/ \E k \in DOMAIN p \cap DOMAIN q : p[k] < q[k] /\ SubSeq(p, 1, k - 1) = SubSeq(q, 1, k - 1)
    IN  Arranged(found, LAMBDA m, n :
            \/ m.tokens \in kept /\ n.tokens \notin kept
            \/ /\ (m.tokens \in kept) = (n.tokens \in kept)
               /\ \/ m.support > n.support
                  \/ m.support = n.support /\ earlier(m.tokens, n.tokens))

\* One product type; x.samples are its listings without a model, x.scope the phrases of
\* the listings a delta pass looks at.
MineType(acc, type, x) ==
    LET G == acc.groups
        inType == {i \in DOMAIN G : /\ G[i].type = type
                                    /\ ~ IsDescriptor(G[i].slug) /\ ~ IsCollab(G[i].slug)}
        mined == {i \in inType : Derived(G[i])}
        known == {i \in inType : \/ ~ Derived(G[i])
                                 \/ i \in x.protected
                                 \/ ~ x.full /\ G[i].retired = 0}
        names(i) == Phrases(G[i]) \cup {G[i].slug}
        fixed == {i \in known : G[i].status \in {"confirmed", "ignored"}}
        solid == {p[1] : p \in {q \in UNION {names(i) : i \in fixed} : Len(q) = 1}}
        kept == {G[i].slug : i \in {j \in mined : G[j].retired = 0 /\ G[j].parent = 0}}
        found == MinePhrases(x.samples[type], UNION {names(i) : i \in known},
                             x.blocks \cup DescriptorPhrases(type),
                             kept, KeepSellers, solid)
        order == MiningOrder({m \in found : m.tokens \in x.scope[type]}, kept)
        lines == {[tokens |-> G[i].name, id |-> i] :
                    i \in {j \in known : /\ G[j].parent = 0 /\ ~ IsUnused(G[j])
                                         /\ G[j].slug # NoneSlug /\ G[j].name # <<>>}}
        hung(step) ==
            LET candidates == {y \in lines \cup ToSet(step.touched) : y.id \notin step.fragments}
            IN  [step EXCEPT !.groups = Hang(@, step.touched, candidates)]
    IN  hung(MineFound([acc EXCEPT !.before = G, !.touched = <<>>, !.fragments = {}, !.taken = {}],
                       mined, type, order))

Mine(G, x) ==
    FoldLeft(LAMBDA acc, type : MineType(acc, type, x),
             [groups |-> G, derived |-> {}, fresh |-> {}, before |-> G, touched |-> <<>>,
              fragments |-> {}, taken |-> {}],
             SetToSeq(DOMAIN x.samples))

---------------------------------------------------------------------------
(* _inherit: a new group that took most listings of one that vanished      *)
(* keeps its id (full pass only)                                           *)

InheritOne(acc, new, x) ==
    LET forbidden(p) == Covered(p, Generic, x.blocks \cup DescriptorPhrases(acc.groups[new].type))
        from(old) == {l \in DOMAIN acc.results : x.results[l].group = new /\ x.old[l] = old}
        used(i) == Cardinality({l \in DOMAIN x.results : x.results[l].group = i})
        olds == {x.old[l] : l \in {k \in DOMAIN x.results : x.results[k].group = new}} \ {0, new}
        fits == {i \in (olds \cap DOMAIN acc.groups) \ (acc.claimed \cup acc.fresh \cup x.protected) :
                    /\ new \in acc.fresh /\ Derived(acc.groups[i]) /\ used(i) = 0
                    /\ acc.groups[i].type = acc.groups[new].type
                    /\ ~ forbidden(acc.groups[i].name)}
        best(among) == CHOOSE i \in among : \A j \in among \ {i} :
                    \/ Cardinality(from(i)) > Cardinality(from(j))
                    \/ Cardinality(from(i)) = Cardinality(from(j)) /\ Min(from(i)) < Min(from(j))
        kept(g, h) == {p \in (h.aliases \cup {h.name, h.slug} \cup g.aliases) \ {g.name} :
                          ~ forbidden(p)}
        renamed(g, h, old) == [g EXCEPT !.aliases = kept(g, h), !.parent = IF @ = old THEN 0 ELSE @,
                                        !.infer = h.infer, !.retired = 0]
        moved(old) == [i \in DOMAIN acc.groups \ {new} |->
                    IF i = old THEN renamed(acc.groups[new], acc.groups[old], old)
                    ELSE IF acc.groups[i].parent = new THEN [acc.groups[i] EXCEPT !.parent = old]
                    ELSE acc.groups[i]]
        given(old) ==
            IF 2 * Cardinality(from(old)) < used(new) THEN acc
            ELSE [acc EXCEPT !.groups = moved(old), !.fresh = @ \ {new}, !.claimed = @ \cup {old},
                     !.results = [l \in DOMAIN @ |-> IF @[l].group = new THEN [@[l] EXCEPT !.group = old]
                                                     ELSE @[l]]]
        inherited(among) == IF among = {} THEN acc ELSE given(best(among))
    IN  inherited(fits)

\* The new groups, those with most listings first.
InheritOrder(acc) ==
    LET used(i) == Cardinality({l \in DOMAIN acc.results : acc.results[l].group = i})
    IN  Arranged(acc.fresh, LAMBDA i, j : used(i) > used(j) \/ (used(i) = used(j) /\ i < j))

Inherited(acc, x, order) == FoldLeft(LAMBDA a, new : InheritOne(a, new, x), acc, order)

Inherit(acc, x) ==
    IF acc.fresh = {} THEN acc ELSE Inherited(acc, [x EXCEPT !.results = acc.results], InheritOrder(acc))

---------------------------------------------------------------------------
(* _settle: groups nothing is left of retire, and go when their time is up *)

Settle(acc, was, full, protected, idle, now) ==
    LET G == acc.groups
        direct == {acc.results[l].group : l \in DOMAIN acc.results}
        used == direct \cup {G[i].parent : i \in direct}
        judged == {i \in DOMAIN G \ protected : Derived(G[i]) \/ SystemMade(G[i]) \/ i \in idle}
        before(i) == IF i \in DOMAIN was THEN was[i].retired ELSE 0
        retired(i) == IF i \in used THEN 0
                      ELSE IF before(i) # 0 THEN before(i)
                      ELSE IF full \/ i \in acc.fresh THEN now ELSE G[i].retired
        settled == [i \in DOMAIN G |-> IF i \in judged THEN [G[i] EXCEPT !.retired = retired(i)] ELSE G[i]]
        doomed == {i \in judged \ used : full /\ settled[i].retired # 0 /\ now - settled[i].retired >= RetireTTL}
    IN  [i \in DOMAIN G \ doomed |->
            IF settled[i].parent \in doomed THEN [settled[i] EXCEPT !.parent = 0] ELSE settled[i]]

---------------------------------------------------------------------------
(* regroup_brand                                                           *)

Unassigned == [group |-> 0, method |-> "", type |-> "", relist |-> 0, title |-> <<>>]

\* Mutant: the digest covers what the pass is about to rewrite.
RulesHash_Assigned(G, x) ==
    [policy |-> x.policy, blocks |-> x.blocks, overrides |-> x.overrides, parents |-> x.parents,
     groups |-> G, assigned |-> x.assigned]

\* What _rules_hash digests.
RulesHash(G, x) ==
    [policy |-> x.policy, blocks |-> x.blocks, overrides |-> x.overrides, parents |-> x.parents,
     groups |-> [i \in DOMAIN G |-> [G[i] EXCEPT !.retired = IF @ # 0 THEN 1 ELSE 0]]]

\* _write: what a pass leaves of its decisions.
Written(results, norm, x) ==
    LET rows == {[id |-> l, seller |-> Listings[l].seller, group |-> results[l].group,
                  status |-> Listings[l].status, created |-> Listings[l].created,
                  seen |-> Listings[l].seen, repost |-> Listings[l].repost] : l \in DOMAIN results}
        write(relist) ==
            [l \in DOMAIN x.assigned |->
                IF l \notin DOMAIN results THEN x.assigned[l]
                ELSE [group |-> results[l].group, method |-> results[l].method, type |-> results[l].type,
                      relist |-> IF l \in DOMAIN relist THEN relist[l] ELSE 0, title |-> x.titles[l]]]
    IN  write(DetectRelists(rows))

Rows(x) == {l \in DOMAIN x.titles : x.titles[l] # <<>>}

\* The first half: the seeds of fixed types, the types the titles say by themselves, the
\* seeds those types need, and whether anything but listings changed since the last pass.
Seeded(x, full) ==
    LET seeds == Policies[x.policy]
        plain(norm) == [l \in Rows(x) |-> ClassifyType(Listings[l].rule, norm[l], NoModels)]
        known(norm, types) == {<<types[l].type, norm[l].tokens>> : l \in {k \in Rows(x) : types[k].type # Review}}
        prepared(s, G, needed, changed) ==
            [norm |-> s.norm, plain |-> s.plain, groups |-> G,
             idle |-> IdleSeeds(G, seeds, needed, x.overrides, x.parents),
             delta |-> ~ full /\ x.hash = RulesHash(s.groups, x) /\ ~ changed,
             protected |-> Protected(s.groups, x.overrides, x.parents),
             weight |-> [i \in DOMAIN G |-> Cardinality({l \in Rows(x) : x.assigned[l].group = i})]]
        seeded(s, any, needed) ==
            prepared(s, IF any.changed THEN ApplyParents(any.groups, x.parents) ELSE any.groups,
                     needed, any.changed)
        any(s, needed) == seeded(s, Seed(s.groups, seeds, needed), needed)
        fixed(s) == any(s, Needed(seeds, known(s.norm, s.plain)))
        titled(norm, G) == fixed([norm |-> norm, plain |-> plain(norm), groups |-> G])
    IN  titled([l \in Rows(x) |-> Normalize(x.titles[l])],
               ApplyParents(Seed(x.groups, seeds, Fixed(seeds)).groups, x.parents))

\* The groups a title is matched against before anything is mined.
Standing(p, G, i) == i \notin p.idle /\ (p.delta \/ ~ Derived(G[i]) \/ i \in p.protected)

\* The types, with the models' help, and the models of the listings the pass looks at.
Decided(x, p) ==
    LET targets == {l \in Rows(x) : \/ ~ p.delta \/ x.assigned[l].group = 0
                                    \/ x.assigned[l].title # x.titles[l] \/ l \in DOMAIN x.overrides}
        type(l, D) == IF p.plain[l].method # "fallback" THEN p.plain[l].type
                      ELSE ClassifyType(Listings[l].rule, p.norm[l], LAMBDA c, t : InferType(D, c, t)).type
        old(l) == Decision(x.assigned[l].type, x.assigned[l].group, x.assigned[l].method)
        merged(types, a) ==
            [types |-> types, targets |-> targets, groups |-> a.groups,
             results |-> [l \in Rows(x) |-> IF l \in targets THEN a.results[l] ELSE old(l)]]
        decided(types, D) == merged(types, Assign(p.groups, targets, types, p.norm, x.overrides, D))
        using(D) == decided([l \in Rows(x) |-> type(l, D)], D)
    IN  using(Entries(p.groups, p.weight, LAMBDA i : Standing(p, p.groups, i)))

\* What is mined in the titles without a model.
Mined(x, p, d) ==
    LET free == {l \in Rows(x) : d.results[l].method \in NoModel}
        retail == {l \in free : Listings[l].seller \notin WholesaleSellers(Rows(x))}
        samples(t) == {[id |-> l, tokens |-> p.norm[l].tokens,
                        seller |-> IF Listings[l].seller = 0 THEN -l ELSE Listings[l].seller] :
                           l \in {k \in retail : d.results[k].type = t}}
        scope(t) == UNION {Grams(p.norm[l].tokens) :
                              l \in {k \in free : d.results[k].type = t /\ (p.delta => k \in d.targets)}}
        types == {d.results[l].type : l \in retail}
    IN  Mine(d.groups,
             IF d.targets = {} THEN [samples |-> <<>>]
             ELSE [samples |-> [t \in types |-> samples(t)], scope |-> [t \in types |-> scope(t)],
                   protected |-> p.protected, full |-> ~ p.delta, blocks |-> x.blocks])

\* The listings without a model once more, with what was mined; then the system's lines.
Placed(x, p, d, m) ==
    LET free == {l \in Rows(x) : d.results[l].method \in NoModel}
        merged(again) == [groups |-> again.groups,
                          results |-> [l \in Rows(x) |-> IF l \in free THEN again.results[l] ELSE d.results[l]]]
        weight(G) == [i \in DOMAIN G |-> IF i \in DOMAIN p.weight THEN p.weight[i] ELSE 0]
        entries(G) == Entries(G, weight(G),
                              LAMBDA i : i \notin p.idle /\ (Standing(p, G, i) \/ i \in m.derived))
        second(G) == merged(Assign(G, free, d.types, p.norm, x.overrides, entries(G)))
        matched == IF m.derived = {} THEN [groups |-> m.groups, results |-> d.results]
                   ELSE second(ApplyParents(m.groups, x.parents))
        lines(acc) == SystemLines(IF Partners = {} THEN acc ELSE SystemLines(acc, p.norm, "collab", CollabSlug),
                                  p.norm, "descriptor", DescriptorSlug)
        placed(acc) == [groups |-> acc.groups, results |-> acc.results, fresh |-> m.fresh, claimed |-> {}]
    IN  placed(lines(matched))

\* x is what the pass reads of the database when it starts.
Regroup(x, full) ==
    LET rules(p) == [results |-> <<>>, old |-> [l \in Rows(x) |-> x.assigned[l].group],
                     protected |-> p.protected, blocks |-> x.blocks]
        done(p, acc, settled) ==
            [groups |-> settled, assigned |-> Written(acc.results, p.norm, x),
             hash |-> RulesHash(settled, x), full |-> ~ p.delta]
        settled(p, acc) == done(p, acc, Settle(acc, x.groups, ~ p.delta, p.protected, p.idle, x.day))
        inherited(p, acc) == settled(p, IF p.delta THEN acc ELSE Inherit(acc, rules(p)))
        mined(p, d) == inherited(p, Placed(x, p, d, Mined(x, p, d)))
        decided(p) == mined(p, Decided(x, p))
    IN  decided(Seeded(x, full))
=============================================================================
