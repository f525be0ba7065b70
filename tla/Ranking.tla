------------------------------ MODULE Ranking ------------------------------
(***************************************************************************)
(* What is computed over the rows of every brand together: P30 smoothed    *)
(* towards its parents (metrics/ranking.py), the liquidity score under a   *)
(* policy (metrics/liquidity.py) and the badges (metrics/badges.py).       *)
(*                                                                         *)
(* A score has two decimals, as stored: 100 points are 10000.  Weights and *)
(* P30 are in ten-thousandths.                                             *)
(***************************************************************************)
EXTENDS Scopes

CONSTANTS
    ReferenceMinSales,      \* REFERENCE_MIN_SALES
    ReferenceMinModels,     \* REFERENCE_MIN_MODELS
    HotMinSales,            \* HOT_MIN_SALES
    StableMinSales          \* STABLE_MIN_SALES

Review == "review"

-----------------------------------------------------------------------------
(* P30 *)

Smooth(sold, cohort, parent) == Round(Share * sold + 20 * parent, cohort + 20)

SumOf(rows, F(_)) == MapThenSumSet(F, rows)

Overall(rows) ==
    LET brands == {r \in rows : r.scope = "brand"}
        cohort == SumOf(brands, LAMBDA r : r.m.p30Cohort)
    IN  IF cohort = 0 THEN 0 ELSE Round(Share * SumOf(brands, LAMBDA r : r.m.p30Sold), cohort)

\* The level of a type over all brands, or the overall one.
Across(rows, type) ==
    LET same == {r \in rows : r.scope = "type" /\ r.type = type}
    IN  IF same = {} THEN Overall(rows)
        ELSE Smooth(SumOf(same, LAMBDA r : r.m.p30Sold), SumOf(same, LAMBDA r : r.m.p30Cohort), Overall(rows))

Parent(row, rows) ==
    LET own == {r \in rows : r.scope = "type" /\ r.brand = row.brand /\ r.type = row.type}
    IN  CASE row.scope = "brand" -> Overall(rows)
          [] row.scope = "type" \/ own = {} -> Across(rows, row.type)
          [] OTHER -> LET r == CHOOSE r \in own : TRUE
                      IN  Smooth(r.m.p30Sold, r.m.p30Cohort, Across(rows, row.type))

SmoothedP30(row, rows) == Smooth(row.m.p30Sold, row.m.p30Cohort, Parent(row, rows))

-----------------------------------------------------------------------------
(* The liquidity score *)

WeightNames == <<"sales", "speed", "likes", "price">>

\* The shares of the weights; the largest takes what the rounding leaves.
Weights(raw) ==
    LET names == DOMAIN raw
        total == SumOf(names, LAMBDA n : raw[n])
        shares == [n \in names |-> Round(Share * raw[n], total)]
        first == CHOOSE k \in DOMAIN WeightNames :
                     /\ \A n \in names : shares[n] <= shares[WeightNames[k]]
                     /\ \A j \in 1..(k - 1) : shares[WeightNames[j]] < shares[WeightNames[k]]
    IN  [shares EXCEPT ![WeightNames[first]] = @ + Share - SumOf(names, LAMBDA n : shares[n])]

ValidPolicy(p, sections) ==
    /\ p.period \in Periods
    /\ p.minSales >= 0 /\ p.minPrice >= 0
    /\ p.excluded \subseteq sections
    /\ DOMAIN p.raw = ToSet(WeightNames)
    /\ \A n \in DOMAIN p.raw : p.raw[n] >= 0
    /\ \E n \in DOMAIN p.raw : p.raw[n] > 0

\* A row over the policy's period.
Candidate(row, period) ==
    LET none == [sold |-> 0, price |-> None, days |-> None, likes |-> None]
    IN  IF period \in DOMAIN row.m.windows THEN row.m.windows[period] ELSE none

IsEligible(row, policy) ==
    LET c == Candidate(row, policy.period)
    IN  /\ c.sold > 0
        /\ 30 * c.sold >= policy.minSales * policy.period
        /\ c.price # None /\ c.price >= 2 * policy.minPrice
        /\ c.days # None
        /\ row.section \notin policy.excluded

\* Mutant: ties count in full.
Standing_Ties(v, pool, F(_)) == 2 * Cardinality({r \in pool : F(r) <= v})

\* Twice the number of worse values, ties counting half.
Standing(v, pool, F(_)) ==
    2 * Cardinality({r \in pool : F(r) < v}) + Cardinality({r \in pool : F(r) = v})

\* The weighted share of the pool a row beats.
Points(r, pool, w, period) ==
    LET sold(q) == Candidate(q, period).sold
        slow(q) == -Candidate(q, period).days
        liked(q) == Candidate(q, period).likes
        price(q) == Candidate(q, period).price
    IN  Round(w["sales"] * Standing(sold(r), pool, sold) + w["speed"] * Standing(slow(r), pool, slow)
              + w["likes"] * Standing(liked(r), pool, liked) + w["price"] * Standing(price(r), pool, price),
              2 * Cardinality(pool))

PoolScores(pool, w, period) ==
    [id \in {r.id : r \in pool} |-> Points(CHOOSE r \in pool : r.id = id, pool, w, period)]

Scores(rows, policy) ==
    PoolScores({r \in rows : IsEligible(r, policy)}, Weights(policy.raw), policy.period)

\* Mutant: the review type is ranked.
IsRanked_Review(row, retired) ==
    row.scope = "model" => row.line /\ row.kind = "model" /\ row.group \notin retired

\* Model rows are live lines with a name of their own; the review type is never ranked.
IsRanked(row, retired) ==
    /\ row.scope = "model" => row.line /\ row.kind = "model" /\ row.group \notin retired
    /\ row.scope # "brand" => row.type # Review

\* The scores of every scope's pool, by row id.
LiquidityScores(rows, retired, policy) ==
    [scope \in {"model", "type", "brand"} |->
        Scores({r \in rows : r.scope = scope /\ IsRanked(r, retired)}, policy)]

ScoreIn(r, scores) == IF r.id \in DOMAIN scores[r.scope] THEN scores[r.scope][r.id] ELSE None

-----------------------------------------------------------------------------
(* Badges *)

\* d times the n/d quantile.
Quantile(s, n, d) ==
    LET at == n * (Len(s) - 1)
        low == at \div d + 1
        high == IF low < Len(s) THEN low + 1 ELSE low
    IN  IF s = <<>> THEN None ELSE d * s[low] + (s[high] - s[low]) * (at % d)

Saturation(r) == IF r.m.sold90 <= 0 THEN None ELSE Round(Share * 3 * r.m.fresh, r.m.sold90)

Level(sample, F(_), n, d) == Quantile(Ordered({r \in sample : F(r) # None}, F), n, d)

Thresholds(sample) ==
    [hot |-> Level(sample, LAMBDA r : r.score, 9, 10),
     days |-> Level(sample, LAMBDA r : r.m.days, 3, 4),
     p30 |-> Level(sample, LAMBDA r : r.p30, 1, 4),
     saturated |-> Level(sample, Saturation, 4, 5)]

\* Zero never earns a badge.
Reaches(v, d, limit) == v > 0 /\ limit # None /\ d * v >= limit

IsStable(r) ==
    /\ r.m.sold90 >= StableMinSales
    /\ r.m.pricing["all"].p50 > 0 /\ 100 * (r.m.pricing["all"].p75 - r.m.pricing["all"].p25) <= 35 * r.m.pricing["all"].p50

BadgesOf(r, limits) ==
    IF r.m.sold90 < ReferenceMinSales THEN {"low_data"}
    ELSE {b \in {"hot", "stable", "slow", "saturated"} :
            CASE b = "hot" -> r.m.sold90 >= HotMinSales /\ Reaches(r.score, 10, limits.hot)
              [] b = "stable" -> IsStable(r)
              [] b = "slow" -> /\ Reaches(r.m.days, 4, limits.days)
                               /\ r.p30 # None /\ limits.p30 # None /\ 4 * r.p30 <= limits.p30
              [] OTHER -> Reaches(Saturation(r), 5, limits.saturated)}

\* A section with enough models is its own reference.
AssignBadges(rows) ==
    LET models == {r \in rows : r.kind # "none"}
        sample == {r \in models : r.m.sold90 >= ReferenceMinSales}
        own(r) == {q \in sample : q.section = r.section}
        reference(r) == IF Cardinality(own(r)) >= ReferenceMinModels THEN own(r) ELSE sample
    IN  [id \in {r.id : r \in rows} |->
            LET r == CHOOSE q \in rows : q.id = id
            IN  IF r \in models THEN BadgesOf(r, Thresholds(reference(r))) ELSE {}]
=============================================================================
