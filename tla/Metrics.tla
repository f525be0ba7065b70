------------------------------ MODULE Metrics ------------------------------
(***************************************************************************)
(* The recompute of group metrics (services/per_brand.py,                  *)
(* metrics/service.py) next to everything that may run at the same time:   *)
(* the recompute that follows a run is outside the grouping lock, so an    *)
(* edit on the Groups page regroups and recomputes meanwhile, and the      *)
(* liquidity settings rank on their own (api/liquidity.py).                *)
(*                                                                         *)
(* Reads of SQLite see the last commit and hold nothing; the first write   *)
(* of a transaction takes the only write lock, kept until the commit.  So  *)
(* a step is either one read or one transaction from its first write on.   *)
(*                                                                         *)
(* Listings are sold and withdrawn by the collector (module Listings),     *)
(* groups are filled and retired by regroups (module Groups): here both    *)
(* are single commits.                                                     *)
(***************************************************************************)
EXTENDS Trends

CONSTANTS
    Ads,                \* listing -> its fixed columns
    FirstMarket,        \* listing -> [status, created, sold, checked] at first
    GroupInfo,          \* group -> [brand, type, parent, kind], kind "model", "none" or "description"
    FirstGroups,        \* group -> "absent", "live" or "retired" at first
    FirstRows,          \* rows of groups retired earlier
    Home,               \* listing -> the group a regroup gives it
    SectionOf,          \* type -> its section
    Policies,           \* the liquidity policies a user may save
    FirstSaved,         \* what app_settings may hold at first
    DefaultPolicy,      \* config/liquidity.yaml
    KnownSections,
    RunBrands,          \* the brands of a parser run, in order
    FirstDay,
    MaxDay,             \* bound: the last day
    MaxChanges          \* bound: sales, withdrawals, edits, saves of settings, faults and new days

VARIABLES
    today,
    market,             \* listing -> [status, created, sold, checked]
    assigned,           \* listing -> its group, or None
    groups,             \* group -> "absent", "live" or "retired"
    rows,               \* the table group_metrics
    daily,              \* the table group_metrics_daily
    monthly,            \* brand -> its rows of group_month_stats
    profiles,           \* [day, rows] of season_profiles, or <<>>
    saved,              \* the saved policy, or <<>>
    pass,               \* "run" or "edit" -> the recompute it is in
    left                \* changes and days still allowed

vars == <<today, market, assigned, groups, rows, daily, monthly, profiles, saved, pass, left>>

Ids == DOMAIN Ads
Groups == DOMAIN GroupInfo
Passes == {"run", "edit"}
Idle == [at |-> "idle", todo |-> <<>>, day |-> None, full |-> FALSE, groups |-> {}, retired |-> {}, values |-> <<>>]

Init ==
    /\ today = FirstDay
    /\ market = FirstMarket
    /\ assigned = [i \in Ids |-> None]
    /\ groups = FirstGroups
    /\ rows = FirstRows /\ daily = {} /\ profiles = <<>> /\ saved \in FirstSaved
    /\ monthly = [b \in {Ads[i].brand : i \in Ids} |-> {}]
    /\ pass = [p \in Passes |-> Idle]
    /\ left = MaxChanges

Spend == left > 0 /\ left' = left - 1

-----------------------------------------------------------------------------
(* The world *)

tables == <<rows, daily, monthly, profiles>>

Sell(i) ==
    /\ market[i].status = "active" /\ Spend
    /\ market' = [market EXCEPT ![i].status = "sold", ![i].sold = today]
    /\ UNCHANGED <<today, assigned, groups, tables, saved, pass>>

Withdraw(i) ==
    /\ market[i].status = "active" /\ Spend
    /\ market' = [market EXCEPT ![i].status = "removed_pending", ![i].checked = today]
    /\ UNCHANGED <<today, assigned, groups, tables, saved, pass>>

NextDay ==
    /\ today < MaxDay /\ Spend
    /\ today' = today + 1
    /\ UNCHANGED <<market, assigned, groups, tables, saved, pass>>

-----------------------------------------------------------------------------
(* The listings of a brand by scope *)

Row(i) ==
    LET ad == Ads[i]
    IN  [id |-> i, status |-> market[i].status, created |-> market[i].created, sold |-> market[i].sold,
         checked |-> market[i].checked, brand |-> ad.brand, type |-> ad.type, price |-> ad.price,
         soldPrice |-> ad.soldPrice, exact |-> ad.exact, flags |-> ad.flags, size |-> ad.size, root |-> ad.root,
         new |-> ad.new, seller |-> ad.seller, bumped |-> ad.bumped, initial |-> ad.initial,
         updated |-> ad.updated, department |-> ad.department, likes |-> ad.likes]
RowsOf(b) == {Row(i) : i \in {j \in Ids : Ads[j].brand = b}}

\* The scopes of a listing by place, given the groups that were read.
KeysOf(i, known) ==
    LET g == assigned[i]
        parent == IF g \in known THEN GroupInfo[g].parent ELSE None
        type == IF Ads[i].type = "none" /\ g \in known THEN GroupInfo[g].type ELSE Ads[i].type
        has == <<g \in known, parent \in known, type # "none", type # Review>>
        key == <<<<"model", g>>, <<"model", parent>>, <<"type", Ads[i].brand, type>>, <<"brand", Ads[i].brand>>>>
    IN  [n \in {m \in 1..4 : has[m]} |-> key[n]]

\* The items of every scope, and its turn: scopes come in the order in which they are named.
Scoped(b, day, known) ==
    LET items == Items(RowsOf(b), day)
        named == {c \in items \X (1..4) : c[2] \in DOMAIN KeysOf(c[1].id, known)}
        key(c) == KeysOf(c[1].id, known)[c[2]]
        of(k) == {c \in named : key(c) = k}
        keys == {key(c) : c \in named}
    IN  [items |-> [k \in keys |-> {c[1] : c \in of(k)}],
         turn |-> [k \in keys |-> Min({4 * c[1].id + c[2] : c \in of(k)})]]

\* What a row says of its scope.
ScopeInfo(key) ==
    LET model == key[1] = "model"
        type == IF model THEN GroupInfo[key[2]].type ELSE IF key[1] = "type" THEN key[3] ELSE "none"
    IN  [scope |-> key[1], type |-> type,
         section |-> IF type \in DOMAIN SectionOf THEN SectionOf[type] ELSE "none",
         group |-> IF model THEN key[2] ELSE None,
         line |-> model /\ GroupInfo[key[2]].parent = None,
         kind |-> IF model THEN GroupInfo[key[2]].kind ELSE "none"]

MetricRow(key, b, items, day) ==
    LET of == ScopeInfo(key)
    IN  [key |-> key, id |-> None, brand |-> b, scope |-> of.scope, type |-> of.type, section |-> of.section,
         group |-> of.group, line |-> of.line, kind |-> of.kind,
         m |-> Counters(items, day), period |-> <<>>, p30 |-> None, score |-> None, badges |-> {}]

\* A row of the table: only a scope that may be ranked has a score.
StoredRow(r) ==
    LET of == ScopeInfo(r.key)
    IN  /\ DOMAIN r = {"key", "id", "brand", "scope", "type", "section", "group", "line", "kind",
                       "m", "period", "p30", "score", "badges"}
        /\ r.id \in Int /\ r.m.sold30 \in Nat
        /\ r.scope \in {"model", "type", "brand"} /\ r.scope = of.scope
        /\ r.type = of.type /\ r.line = of.line /\ r.kind = of.kind
        /\ r.score # None => IsRanked(r, {})

StoredRows(table) ==
    /\ IsFiniteSet(table)
    /\ \A r \in table : StoredRow(r)
    /\ \A r, s \in table : r.id = s.id => r = s

ASSUME AdsAssumption == IsFiniteSet(Ids) /\ Ids \subseteq Nat

\* A listing without a type has its group's, and no other differs from it.  A "No model"
\* group is of a type, never retires and has no versions (service.py: _assign, _system_made;
\* api/groups.py: _editable).
ASSUME GroupsAssumption ==
    /\ None \notin Groups
    /\ \A i \in Ids : Ads[i].type \in {"none", GroupInfo[Home[i]].type}
    /\ \A g \in Groups : GroupInfo[g].kind = "none" =>
           /\ GroupInfo[g].type # "none" /\ FirstGroups[g] # "retired"
           /\ \A h \in Groups : GroupInfo[h].parent # g

ASSUME FirstRowsAssumption ==
    /\ StoredRows(FirstRows)
    /\ \A r, s \in FirstRows : r.key = s.key => r = s
    /\ \A r \in FirstRows : \E g \in Groups :
           /\ FirstGroups[g] = "retired" /\ r.group = g
           /\ r.key = <<"model", g>> /\ r.brand = GroupInfo[g].brand

\* The rows of the scopes that are not frozen, in their order.
ScopeRows(scopes, frozen, b, day) ==
    LET row(k) == MetricRow(k, b, scopes.items[k], day)
        open == Arranged(DOMAIN scopes.items \ frozen, LAMBDA j, k : scopes.turn[j] < scopes.turn[k])
    IN  [n \in DOMAIN open |-> row(open[n])]

-----------------------------------------------------------------------------
(* A recompute *)

Stop(p) == pass' = [pass EXCEPT ![p] = Idle]

ReadGroups(p) ==
    LET b == Head(pass[p].todo)
        of(states) == {g \in Groups : GroupInfo[g].brand = b /\ groups[g] \in states}
    IN  /\ pass[p].at = "groups"
        /\ pass' = [pass EXCEPT ![p].at = "listings", ![p].groups = of({"live", "retired"}),
                                ![p].retired = of({"retired"})]
        /\ UNCHANGED <<today, market, assigned, groups, tables, saved, left>>

\* Retired groups are frozen: they are neither computed nor deleted.
Frozen(p) == {<<"model", g>> : g \in pass[p].retired}

\* Mutant: a row starts without its last ranking.
WithLastRanking_Lost(b, row) == row

\* The last cross-brand values of a scope are kept until the next ranking.
WithLastRanking(b, row) ==
    LET last == {r \in rows : r.brand = b /\ r.key = row.key}
    IN  IF last = {} THEN row
        ELSE LET r == CHOOSE r \in last : TRUE
             IN  [row EXCEPT !.p30 = r.p30, !.score = r.score, !.badges = r.badges]

Carried(b, new) == [n \in DOMAIN new |-> WithLastRanking(b, new[n])]

\* The new rows and months of a brand.
BrandValues(scopes, frozen, b, day) ==
    [rows |-> Carried(b, ScopeRows(scopes, frozen, b, day)),
     months |-> {[key |-> k, stats |-> MonthStats(scopes.items[k], day)] : k \in DOMAIN scopes.items}]

ReadListings(p) ==
    LET b == Head(pass[p].todo)
    IN  /\ pass[p].at = "listings"
        /\ pass' = [pass EXCEPT ![p].at = "write",
               ![p].values = BrandValues(Scoped(b, pass[p].day, pass[p].groups), Frozen(p), b, pass[p].day)]
        /\ UNCHANGED <<today, market, assigned, groups, tables, saved, left>>

\* What the delete leaves: other brands, and the groups that were retired when read.
KeptRows(p) == {r \in rows : r.brand # Head(pass[p].todo) \/ r.group \in pass[p].retired}

LastId(S) == Max({0} \cup {r.id : r \in S})

Snapshot(r, day) ==
    [key |-> r.key, day |-> day, brand |-> r.brand, sold30 |-> r.m.sold30, active |-> r.m.active,
     p30 |-> None, score |-> None]

\* Row ids only grow; they are counted anew from one, together with the ids a pass holds.
HeldIds(p) == IF pass[p].at = "rank" THEN {v.id : v \in pass[p].values} ELSE {}
Renumbered(p, table) ==
    LET used == {r.id : r \in table} \cup UNION {HeldIds(q) : q \in Passes \ {p}}
        number(S) == {[r EXCEPT !.id = Cardinality({i \in used : i <= r.id})] : r \in S}
    IN  /\ rows' = number(table)
        /\ pass' = [q \in Passes |->
               IF q = p THEN LET rest == Tail(pass[p].todo)
                             IN  [Idle EXCEPT !.at = IF rest = <<>> THEN "rows" ELSE "groups", !.todo = rest,
                                              !.day = pass[p].day, !.full = pass[p].full]
               ELSE IF pass[q].at = "rank" THEN [pass[q] EXCEPT !.values = number(@)] ELSE pass[q]]

\* One brand's commit: its rows, its snapshot of the day and its months.
WriteBrand(p) ==
    LET b == Head(pass[p].todo)
        values == pass[p].values.rows
        new == {[values[n] EXCEPT !.id = LastId(KeptRows(p)) + n] : n \in DOMAIN values}
        seen == {r \in new : Watched(r.scope, r.m)}
        kept == {d \in daily : d.brand # b \/ d.day # pass[p].day}
    IN  /\ pass[p].at = "write"
        /\ Renumbered(p, KeptRows(p) \cup new)
        /\ daily' = kept \cup {Snapshot(r, pass[p].day) : r \in seen}
        /\ monthly' = [monthly EXCEPT ![b] = pass[p].values.months]
        /\ UNCHANGED <<today, market, assigned, groups, profiles, saved, left>>

Retired == {g \in Groups : groups[g] = "retired"}

ReadRows(p) ==
    LET live == {r \in rows : r.group \notin Retired}
    IN  /\ pass[p].at = "rows"
        /\ pass' = [pass EXCEPT ![p].at = "rank",
               ![p].values = {[id |-> r.id, key |-> r.key, p30 |-> SmoothedP30(r, live)] : r \in live}]
        /\ UNCHANGED <<today, market, assigned, groups, tables, saved, left>>

EffectivePolicy(policy) ==
    IF policy # <<>> /\ ValidPolicy(policy, KnownSections) THEN policy ELSE DefaultPolicy

Scored(rs, scores, period) ==
    {[r EXCEPT !.score = ScoreIn(r, scores), !.period = Candidate(r, period)] : r \in rs}

WithBadges(rs, badges) ==
    {[r EXCEPT !.badges = IF r.id \in DOMAIN badges THEN badges[r.id] ELSE @] : r \in rs}
Badged(rs) == WithBadges(rs, AssignBadges({r \in rs : r.scope = "model" /\ r.group \notin Retired}))

\* The rows after MetricsService.rank: period columns and scores of all, badges of live models.
Ranked(rs, policy) == Badged(Scored(rs, LiquidityScores(rs, Retired, policy), policy.period))

ScoreOf(key, rs) == IF \E r \in rs : r.key = key THEN (CHOOSE r \in rs : r.key = key).score ELSE None
CopyScores(ds, day, rs) == {IF d.day = day THEN [d EXCEPT !.score = ScoreOf(d.key, rs)] ELSE d : d \in ds}

\* The rows that were read are still there: P30 is written by their ids.
Matches(p) == {v.id : v \in pass[p].values} \subseteq {r.id : r \in rows}

\* The ranking commit: P30 by row id, then the scores under the saved policy.
WriteRank(p) ==
    LET p30(r) == {v \in pass[p].values : v.id = r.id}
        smoothed == {IF p30(r) = {} THEN r ELSE [r EXCEPT !.p30 = (CHOOSE v \in p30(r) : TRUE).p30] : r \in rows}
        of(d) == {v \in pass[p].values : v.key = d.key /\ d.day = pass[p].day}
        snapshots == {IF of(d) = {} THEN d ELSE [d EXCEPT !.p30 = (CHOOSE v \in of(d) : TRUE).p30] : d \in daily}
    IN  /\ pass[p].at = "rank" /\ Matches(p)
        /\ rows' = Ranked(smoothed, EffectivePolicy(saved))
        /\ daily' = CopyScores(snapshots, pass[p].day, rows')
        /\ pass' = [pass EXCEPT ![p].at = "profiles", ![p].values = <<>>]
        /\ UNCHANGED <<today, market, assigned, groups, monthly, profiles, saved, left>>

\* A row vanished under the pass: the error ends it and rolls its transaction back.
Breaks(p) ==
    /\ pass[p].at = "rank" /\ ~Matches(p)
    /\ Stop(p)
    /\ UNCHANGED <<today, market, assigned, groups, tables, saved, left>>

LoadSales ==
    LET group(g) == IF g # None /\ groups[g] = "live" /\ GroupInfo[g].kind # "none" THEN g ELSE None
    IN  {[id |-> i, brand |-> Ads[i].brand, type |-> Ads[i].type, department |-> Ads[i].department,
          group |-> group(assigned[i]), day |-> market[i].sold] : i \in {j \in Ids : market[j].status = "sold"}}

ProfilesDue(day) == profiles = <<>> \/ day > profiles.day

\* Profiles span all brands: a partial recompute leaves them alone for a day.
WriteProfiles(p) ==
    /\ pass[p].at = "profiles"
    /\ profiles' = IF pass[p].full \/ ProfilesDue(pass[p].day)
                   THEN [day |-> pass[p].day, rows |-> ProfileRows(LoadSales, pass[p].day)] ELSE profiles
    /\ Stop(p)
    /\ UNCHANGED <<today, market, assigned, groups, rows, daily, monthly, saved, left>>

-----------------------------------------------------------------------------
(* What starts and ends a recompute *)

Begin(p, brands) ==
    pass' = [pass EXCEPT ![p] = [Idle EXCEPT !.at = "groups", !.todo = brands, !.day = today]]

\* A parser run: a delta regroup under the lock, then its recompute without it.
RunRecompute ==
    LET placed == [i \in Ids |-> IF assigned[i] = None THEN Home[i] ELSE assigned[i]]
    IN  /\ pass["run"].at = "idle" /\ pass["edit"].at = "idle"
        /\ assigned' = placed
        /\ groups' = [g \in Groups |-> IF \E i \in Ids : placed[i] = g THEN "live" ELSE groups[g]]
        /\ Begin("run", RunBrands)
        /\ UNCHANGED <<today, market, tables, saved, left>>

\* An edit on the Groups page: a full regroup of the brand, then its recompute, both under
\* the lock.  Groups without listings retire; some that retired long ago have expired.
EditRecompute(i, g) ==
    LET placed == [assigned EXCEPT ![i] = g]
        used == {placed[j] : j \in Ids}
        idle == {h \in Groups : /\ GroupInfo[h].brand = Ads[i].brand /\ h \notin used
                                /\ GroupInfo[h].kind # "none"}
        state(h) == CASE h \in used -> "live" [] h \in idle /\ groups[h] = "live" -> "retired" [] OTHER -> groups[h]
    IN  /\ pass["edit"].at = "idle" /\ Spend
        /\ assigned[i] # None /\ assigned[i] # g
        /\ GroupInfo[g].brand = Ads[i].brand /\ GroupInfo[g].type = Ads[i].type /\ groups[g] # "absent"
        /\ assigned' = placed
        /\ \E expired \in SUBSET {h \in idle \cap Retired : FirstGroups[h] = "retired"} :
               /\ groups' = [h \in Groups |-> IF h \in expired THEN "absent" ELSE state(h)]
               /\ rows' = {r \in rows : r.group \notin expired}
        /\ Begin("edit", <<Ads[i].brand>>)
        /\ UNCHANGED <<today, market, daily, monthly, profiles, saved>>

\* PUT and DELETE /settings/liquidity: the policy and its ranking are one commit.
SavePolicy(policy) ==
    /\ Spend
    /\ policy # <<>> => ValidPolicy(policy, KnownSections)
    /\ saved' = policy
    /\ rows' = Ranked(rows, EffectivePolicy(policy))
    /\ daily' = CopyScores(daily, today, rows')
    /\ UNCHANGED <<today, market, assigned, groups, monthly, profiles, pass>>

\* A restart, or a database that stays busy.
Cut(p) ==
    /\ pass[p].at # "idle" /\ Spend
    /\ Stop(p)
    /\ UNCHANGED <<today, market, assigned, groups, tables, saved>>

Recompute(p) ==
    \/ ReadGroups(p) \/ ReadListings(p) \/ WriteBrand(p)
    \/ ReadRows(p) \/ WriteRank(p) \/ WriteProfiles(p) \/ Breaks(p)

Next ==
    \/ \E i \in Ids : Sell(i) \/ Withdraw(i)
    \/ NextDay
    \/ RunRecompute
    \/ \E i \in Ids, g \in Groups : EditRecompute(i, g)
    \/ \E policy \in Policies \cup {<<>>} : SavePolicy(policy)
    \/ \E p \in Passes : Recompute(p) \/ Cut(p)

Spec == Init /\ [][Next]_vars
\* Runs come back (the scheduler starts one a day), and a recompute ends one way or another.
FairSpec == Spec /\ WF_vars(RunRecompute) /\ \A p \in Passes : []<>(pass[p].at = "idle")

-----------------------------------------------------------------------------
(* Properties *)

TypeOK ==
    /\ today \in FirstDay..MaxDay
    /\ assigned \in [Ids -> Groups \cup {None}]
    /\ groups \in [Groups -> {"absent", "live", "retired"}]
    /\ StoredRows(rows)
    /\ \A p \in Passes : pass[p].at \in
           {"idle", "groups", "listings", "write", "rows", "rank", "profiles"}

\* The insert of a brand never meets a row with its scope key (GroupMetric.scope_key is
\* unique): what the delete keeps and what is computed do not overlap, whatever an edit did
\* to the groups between the pass's reads and its commit.
ScopeKeysStayUnique == \A r, s \in rows : r.key = s.key => r = s

\* The rows a recompute of today's data would leave: counters of every scope that is not
\* frozen, P30 and scores over all of them.
Expected(b) ==
    LET known == {g \in Groups : GroupInfo[g].brand = b /\ groups[g] # "absent"}
    IN  ToSet(ScopeRows(Scoped(b, today, known), {<<"model", g>> : g \in Retired}, b, today))

IsCurrent ==
    LET live == {r \in rows : r.group \notin Retired}
    IN  /\ \A r \in live : r.p30 = SmoothedP30(r, live)
        /\ {<<r.id, r.score>> : r \in rows} =
               {<<r.id, r.score>> : r \in Ranked(rows, EffectivePolicy(saved))}
        /\ \A b \in ToSet(RunBrands) :
               {<<r.key, r.m>> : r \in {q \in live : q.brand = b}} = {<<r.key, r.m>> : r \in Expected(b)}

\* Once nothing changes any more the stored rows become and stay what the data says, though
\* a recompute that read earlier may have committed over a later one.
MetricsCatchUp == <>[]IsCurrent

\* The scores of a pool average fifty points: a score is the share of the pool a row beats,
\* ties by half, under any weights.
ScoresAverageFifty ==
    \A policy \in {p \in Policies : ValidPolicy(p, KnownSections)} :
        LET scores == Scores(rows, policy)
            n == Cardinality(DOMAIN scores)
        IN  Distance(MapThenSumSet(LAMBDA id : scores[id], DOMAIN scores), 5000 * n) <= n

\* The tables as the trends list finds them.
Tables == [rows |-> rows, months |-> UNION {monthly[b] : b \in DOMAIN monthly}, retired |-> Retired,
           ignored |-> {}, watchlist |-> {}, parent |-> [g \in Groups |-> GroupInfo[g].parent],
           profiles |-> IF profiles = <<>> THEN <<>> ELSE profiles.rows]

\* What has no model is part of its scope: in every scope of brands and types, and over a
\* window as over months, at most the listings and sales of the scope have none.  The rows of
\* a brand are replaced together, and both sums leave the review type out or neither does.
NoModelWithinTheScope ==
    \A bs \in {{b} : b \in ToSet(RunBrands)} \cup {{}}, ts \in {{t} : t \in DOMAIN SectionOf} \cup {{}},
       from \in {None, Month(today) - 1} :
        LET q == [DefaultQuery EXCEPT !.brands = bs, !.types = ts, !.from = from,
                                      !.to = IF from = None THEN None ELSE Month(today)]
            of == NoModelShare(q, Tables)
        IN  of.listings <= of.totalListings /\ of.sold <= of.totalSold

\* The ranking scores the rows the trends list shows (service._ranked_rows): a scored row is
\* on the default list of its level, or its group has retired since.
ScoredAreListed ==
    \A r \in rows : r.score # None =>
        r.group \in Retired \/ r \in Listed([DefaultQuery EXCEPT !.level = r.scope], Tables)
=============================================================================
