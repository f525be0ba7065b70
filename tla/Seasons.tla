------------------------------ MODULE Seasons ------------------------------
(***************************************************************************)
(* The seasonal profiles of sales (metrics/seasonality.py and              *)
(* season_profiles.py) and the calendar periods of the trends list         *)
(* (api/trend_periods.py).                                                 *)
(*                                                                         *)
(* Months are numbered from the first one of the data; month m is the      *)
(* calendar month m % 12.  A calendar month is covered at most three       *)
(* times, so six times its mean is whole.  Indices are in ten-thousandths, *)
(* as stored.                                                              *)
(***************************************************************************)
EXTENDS Scopes

CONSTANTS
    BrandMinSalesYear,      \* BRAND_MIN_SALES_YEAR
    ModelMinSalesYear,      \* MODEL_MIN_SALES_YEAR
    BlendPrior,             \* MODEL_BLEND_PRIOR
    SeasonMinSales          \* SEASON_MIN_SALES

Calendar(m) == m % 12
SeasonMonths == [autumn |-> {8, 9, 10}, winter |-> {11, 0, 1}, spring |-> {2, 3, 4}, summer |-> {5, 6, 7}]

\* Months after the one of the first sale and before the running one.
CompleteMonths(first, today) == (Month(first) + 1)..(Month(today) - 1)

Coverage(sales, today) ==
    [b \in {s.brand : s \in sales} |-> CompleteMonths(Min({s.day : s \in {t \in sales : t.brand = b}}), today)]

Counted(sales, covered) == {s \in sales : Month(s.day) \in covered[s.brand]}
In(sales, m) == Cardinality({s \in sales : Month(s.day) = m})

\* Six times the mean sales of a calendar month over the covered months.
Mean6(sales, months, c) ==
    LET years == {m \in months : Calendar(m) = c}
    IN  (6 * MapThenSumSet(LAMBDA m : In(sales, m), years)) \div Cardinality(years)

Correlates(sales, months) ==
    LET recent == (Max(months) - 23)..(Max(months) - 12)
        x(m) == In(sales, m)
        y(m) == In(sales, m + 12)
        sum(F(_)) == MapThenSumSet(F, recent)
        cov == 12 * sum(LAMBDA m : x(m) * y(m)) - sum(x) * sum(y)
        var(F(_)) == 12 * sum(LAMBDA m : F(m) * F(m)) - sum(F) * sum(F)
    IN  IF Cardinality(months) < 24 \/ var(x) * var(y) = 0 THEN "unknown"
        ELSE IF cov > 0 /\ 4 * cov * cov >= var(x) * var(y) THEN "stable" ELSE "unstable"

MeanOf(S, F(_)) ==
    LET known == {i \in S : F(i) # None}
    IN  IF known = {} THEN None ELSE Round(MapThenSumSet(F, known), Cardinality(known))

SeasonsOf(points) ==
    [s \in DOMAIN SeasonMonths |->
        LET present == SeasonMonths[s] \cap DOMAIN points
            sales == MapThenSumSet(LAMBDA c : points[c].sales, present)
        IN  IF present = {} \/ sales < 6 * SeasonMinSales THEN <<>>
            ELSE <<[sales |-> sales, abs |-> MeanOf(present, LAMBDA c : points[c].abs),
                    rel |-> MeanOf(present, LAMBDA c : points[c].rel)]>>]

Means(sales, months) == [c \in {Calendar(m) : m \in months} |-> Mean6(sales, months, c)]
Total(mean) == MapThenSumSet(LAMBDA c : mean[c], DOMAIN mean)

\* Indices of the calendar months by their means, in themselves and against all sales.
Indices(mean, total, all, whole) ==
    [c \in DOMAIN mean |->
        [sales |-> mean[c],
         abs |-> IF total = 0 THEN None ELSE Round(Share * mean[c] * Cardinality(DOMAIN mean), total),
         rel |-> IF total = 0 \/ all[c] = 0 THEN None
                 ELSE Round(Share * mean[c] * whole, total * all[c])]]

ProfileWith(points, months, total, stable) ==
    [points |-> points, seasons |-> SeasonsOf(points), covered |-> Cardinality(months),
     year |-> IF months = {} THEN 0 ELSE Round(12 * total, 6 * Cardinality(DOMAIN points)),
     stable |-> stable, weight |-> None]

ProfileOf(mean, total, all, months, stable) ==
    ProfileWith(Indices(mean, total, all, Total(all)), months, total, stable)

BuildProfile(sales, months, market) ==
    LET mean == Means(sales, months)
    IN  ProfileOf(mean, Total(mean), Means(market, months), months,
                  IF months = {} THEN "unknown" ELSE Correlates(sales, months))

\* A model's indices pulled towards its type's; the sales stay its own.
Blend(own, parent) ==
    LET mix(a, b) == IF a = None \/ b = None THEN a
                     ELSE Round(own.year * a + BlendPrior * b, own.year + BlendPrior)
        points == [c \in DOMAIN own.points |->
            IF c \notin DOMAIN parent.points THEN own.points[c]
            ELSE [own.points[c] EXCEPT !.abs = mix(@, parent.points[c].abs),
                                       !.rel = mix(@, parent.points[c].rel)]]
    IN  [own EXCEPT !.points = points, !.seasons = SeasonsOf(points),
                    !.weight = Round(Share * own.year, own.year + BlendPrior)]

\* The sales a profile is about.
OfType(typed, k) == {s \in typed : s.type = k[2] /\ k[3] \in {None, s.department}}
OfBrand(typed, k) == {s \in typed : s.brand = k[2] /\ s.type = k[3]}
OfModel(typed, k) == {s \in typed : s.group = k[2]}

TypeKeys(typed) ==
    {<<"type", s.type, None>> : s \in typed} \cup {<<"type", s.type, s.department>> : s \in typed}
ModelKeys(typed) == {<<"model", s.group, None>> : s \in {t \in typed : t.group # None}}

\* A profile per key: of all sales of a type, or of a brand's in the months it covers.
Profiles(typed, market, covered, months) ==
    LET of(k) == CASE k[1] = "market" -> market
                   [] k[1] = "type" -> OfType(typed, k)
                   [] k[1] = "brand" -> OfBrand(typed, k)
                   [] OTHER -> OfModel(typed, k)
        when(k) == CASE k[1] = "brand" -> covered[k[2]]
                     [] k[1] = "model" -> covered[(CHOOSE s \in OfModel(typed, k) : TRUE).brand]
                     [] OTHER -> months
    IN  [k \in {<<"market", None, None>>} \cup TypeKeys(typed)
               \cup {<<"brand", s.brand, s.type>> : s \in typed} \cup ModelKeys(typed) |->
            BuildProfile(of(k), when(k), market)]

\* The type a model's indices are pulled towards.
ParentOf(of) == <<"type", (CHOOSE s \in of : TRUE).type, Majority(of, LAMBDA s : s.department)>>

\* What is kept: brands and models with enough sales, and models blended.
Kept(profiles, typed) ==
    [k \in {j \in DOMAIN profiles :
                /\ j[1] = "brand" => profiles[j].year >= BrandMinSalesYear
                /\ j[1] = "model" => profiles[j].year >= ModelMinSalesYear} |->
        IF k[1] = "model" THEN Blend(profiles[k], profiles[ParentOf(OfModel(typed, k))]) ELSE profiles[k]]

ProfilesOver(market, typed, covered) ==
    Kept(Profiles(typed, market, covered, UNION {covered[b] : b \in DOMAIN covered}), typed)

ProfilesIn(market, covered) == ProfilesOver(market, {s \in market : s.type # "none"}, covered)

\* Every profile of the known sales, by its key.
ProfileRows(sales, today) ==
    LET covered == Coverage(sales, today)
    IN  ProfilesIn(Counted(sales, covered), covered)

\* Expected sales of thirty days in the target months.
ForecastSales(sold30, si, target, today) ==
    LET known(S) == {c \in S : c \in DOMAIN si}
        overlapped == known({Calendar(m) : m \in Month(today - 30)..Month(today)})
        around == known({Calendar(Month(today) + 11), Calendar(Month(today) + 1)})
        window == IF overlapped # {} THEN overlapped ELSE around
        sum(S) == MapThenSumSet(LAMBDA c : si[c], S)
        wanted == known(target)
    IN  IF wanted = {} \/ sum(window) = 0 THEN None
        ELSE Round(sold30 * sum(wanted) * Cardinality(window), Cardinality(wanted) * sum(window))

-----------------------------------------------------------------------------
(* Periods of the trends list *)

\* Sales of the months in one bucket; the price weighs the months' medians by sales.
PeriodTotals(stats, months, bucket) ==
    LET chosen == {s \in stats : s.month \in months /\ s.bucket = bucket}
        priced == {s \in chosen : s.p50 # None}
        sold(S) == MapThenSumSet(LAMBDA s : s.sold, S)
    IN  [sold |-> sold(chosen),
         price |-> IF sold(priced) = 0 THEN None
                   ELSE Round(MapThenSumSet(LAMBDA s : s.p50 * s.sold, priced), sold(priced))]

\* The months outside the collected data, and the days it has of those it cuts.
MonthCoverage(months, from, to) ==
    LET missing == {m \in months : from = None \/ to = None \/ 30 * m + 29 < from \/ m > Month(to)}
        first(m) == IF m = Month(from) THEN from % 30 ELSE 0
        last(m) == IF m = Month(to) THEN to % 30 ELSE 29
    IN  [missing |-> missing,
         partial |-> {<<m, first(m), last(m)>> : m \in {k \in months \ missing : first(k) > 0 \/ last(k) < 29}}]

LateBrands(months, firsts) ==
    LET start == Later(Min(months), Month(Min(firsts)))
    IN  IF firsts = {} THEN 0 ELSE Cardinality({d \in firsts : Month(d) > start})
=============================================================================
