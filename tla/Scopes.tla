------------------------------- MODULE Scopes -------------------------------
(***************************************************************************)
(* What the metrics of one scope say of its listings (services/metrics:    *)
(* service.scopes, calculator, supply, p30, pricing, history): the sales   *)
(* of a window, supply, the share sold within thirty days, quartiles and   *)
(* discounts, outliers, sizes, the sales of a month.                       *)
(*                                                                         *)
(* Time is counted in days and a month has thirty of them.  Shares have    *)
(* four digits for the code's six; medians are kept doubled and quartiles  *)
(* times four, so neither is rounded.  Prices are powers of three: their   *)
(* logarithms are whole multiples of ln 3, the least distance of an        *)
(* outlier.  A size or a department is already folded to its spelling.     *)
(***************************************************************************)
EXTENDS Orders, SequencesExt, FiniteSetsExt

CONSTANTS
    Periods,                \* PERIODS
    WholesaleMinActive,     \* WHOLESALE_MIN_ACTIVE
    OutlierMinSales,        \* OUTLIER_MIN_SALES
    MinPriceSales,          \* MIN_PRICE_SALES
    HotSizeMin,             \* HOT_SIZE_MIN_LISTINGS
    SnapshotMinActive       \* SNAPSHOT_MIN_ACTIVE

\* A size is hot from a number of listings on.
ASSUME SizesAssumption == HotSizeMin \in Nat

None == -1
Share == 10000
Buckets == {"all", "new", "used"}
RemovedStates == {"removed", "removed_pending"}

Round(a, b) == (2 * a + b) \div (2 * b)

\* The values F takes on S, in ascending order.
Ordered(S, F(_)) ==
    LET values == {F(i) : i \in S}
        upTo(v) == Cardinality({i \in S : F(i) <= v})
        under(v) == Cardinality({i \in S : F(i) < v})
    IN  [k \in 1..Cardinality(S) |-> CHOOSE v \in values : k > under(v) /\ k <= upTo(v)]

Median2(s) ==
    LET n == Len(s)
    IN  IF n = 0 THEN None ELSE s[(n + 1) \div 2] + s[n \div 2 + 1]

\* Four times the k-th quartile.
Percentile4(s, k) ==
    LET at == k * (Len(s) - 1)
        low == at \div 4 + 1
        high == IF low < Len(s) THEN low + 1 ELSE low
    IN  IF s = <<>> THEN None ELSE 4 * s[low] + (s[high] - s[low]) * (at % 4)

\* The most common known value, the first of them on a tie.
Majority(S, F(_)) ==
    LET counted(v) == Cardinality({i \in S : F(i) = v})
        known == {F(i) : i \in S} \ {None}
    IN  IF known = {} THEN None
        ELSE CHOOSE v \in known : \A w \in known \ {v} :
                 counted(v) > counted(w) \/ (counted(v) = counted(w) /\ v < w)

-----------------------------------------------------------------------------
(* The listings of a scope *)

\* Mutant: a withdrawal is not placed in time.
StatusAt_Now(l, day) ==
    IF l.created > day THEN "unlisted"
    ELSE IF l.status = "sold" /\ l.sold > day THEN "active" ELSE l.status

\* The status l had on day.
StatusAt(l, day) ==
    CASE l.created > day -> "unlisted"
      [] l.created <= day /\ l.status = "sold" /\ l.sold > day -> "active"
      [] l.created <= day /\ l.status \in RemovedStates /\ l.checked > day -> "active"
      [] OTHER -> l.status

StateAt(l, day) ==
    [l EXCEPT !.status = StatusAt(l, day),
              !.sold = IF StatusAt(l, day) = "sold" THEN @ ELSE None,
              !.bumped = IF @ <= day THEN @ ELSE None,
              !.updated = IF @ <= day THEN @ ELSE None]

History(ls, day) == {StateAt(l, day) : l \in {k \in ls : StatusAt(k, day) # "unlisted"}}

SoldWithin(l, today, days) == l.status = "sold" /\ l.sold # None /\ today - l.sold \in 0..days

DormantWholesalers(ls, today) ==
    LET active(s) == Cardinality({l \in ls : l.seller = s /\ l.status = "active"})
        sold(s) == Cardinality({l \in ls : l.seller = s /\ SoldWithin(l, today, 365)})
    IN  {s \in {l.seller : l \in ls} \ {None} :
             active(s) >= WholesaleMinActive /\ 100 * sold(s) < sold(s) + active(s)}

Later(a, b) == IF a > b THEN a ELSE b

\* MetricListing: born is the day the item was first listed, by any link of its chain.
ItemOf(l, ls, dormant) ==
    [id |-> l.id, status |-> l.status, price |-> l.price,
     sale |-> IF l.soldPrice > 0 THEN l.soldPrice ELSE l.price, soldPrice |-> l.soldPrice,
     born |-> IF \E r \in ls : r.id = l.root THEN (CHOOSE r \in ls : r.id = l.root).created ELSE l.created,
     listed |-> l.created, sold |-> l.sold, exact |-> l.exact,
     usable |-> l.flags \cap {"price_outlier", "lot_or_bundle"} = {}, root |-> l.root, size |-> l.size,
     new |-> l.new, effective |-> "lot_or_bundle" \notin l.flags /\ l.seller \notin dormant,
     fresh |-> Later(l.created, l.bumped), initial |-> l.initial, updated |-> l.updated,
     department |-> l.department, likes |-> l.likes]

Items(ls, today) ==
    LET dormant == DormantWholesalers(ls, today)
    IN  {ItemOf(l, ls, dormant) : l \in {k \in ls : "possible_replica" \notin k.flags}}

-----------------------------------------------------------------------------
(* Supply and P30 *)

Active(is) == {i \in is : i.status = "active"}
Effective(is) == {i \in Active(is) : i.effective}
Fresh(is, today) == {i \in Effective(is) : i.fresh >= today - 60}

Cohort(is, today) ==
    {i.id : i \in {k \in is : k.root = None /\ k.effective /\ today - k.listed \in 30..120}}
Chain(i) == IF i.root = None THEN i.id ELSE i.root
SoldChains(is, today) ==
    Cohort(is, today) \cap
        {Chain(i) : i \in {k \in is : /\ k.status = "sold" /\ k.sold # None
                                      /\ k.sold <= today /\ k.sold - k.born <= 30}}
P30Counts(is, today) ==
    [sold |-> Cardinality(SoldChains(is, today)), cohort |-> Cardinality(Cohort(is, today))]

\* Mutant: a link is counted with its own size.
RootOf_Own(i, is) == i

\* The item a link is counted with: its chain's root if the scope has it.
RootOf(i, is) == IF \E r \in is : r.id = i.root THEN CHOOSE r \in is : r.id = i.root ELSE i

P30By(is, today, F(_)) ==
    [v \in {F(RootOf(i, is)) : i \in is} |-> P30Counts({i \in is : F(RootOf(i, is)) = v}, today)]

Rate(c) == IF c.cohort <= 0 THEN None ELSE Round(Share * c.sold, c.cohort)

-----------------------------------------------------------------------------
(* Prices *)

Log3(p) == CHOOSE e \in 0..10 : 3 ^ e = p
Distance(a, b) == IF a > b THEN a - b ELSE b - a

\* 4 x 1.4826 robust deviations, and never less than ln 3.
PriceOutliers(is, today) ==
    LET sales == {i \in is : SoldWithin(i, today, 90) /\ i.usable /\ i.sale > 0}
        center == Median2(Ordered(sales, LAMBDA i : Log3(i.sale)))
        off(i) == Distance(2 * Log3(i.sale), center)
        mad == Median2(Ordered(sales, off))
    IN  IF Cardinality(sales) < OutlierMinSales THEN {}
        ELSE {i.id : i \in {k \in sales : 20000 * off(k) > 59304 * mad /\ off(k) > 2}}

DaysToSell(i) == IF i.sold > i.born THEN i.sold - i.born ELSE 0
Prices2(is) == Median2(Ordered(is, LAMBDA i : i.sale))
Days2(is) == Median2(Ordered({i \in is : i.exact}, DaysToSell))

\* Sales of every period; a period without a sale is left out.
Windows(is, today) ==
    LET sold(days) == {i \in is : SoldWithin(i, today, days)}
    IN  [days \in {d \in Periods : sold(d) # {}} |->
            [sold |-> Cardinality(sold(days)), price |-> Prices2({i \in sold(days) : i.usable}),
             days |-> Days2(sold(days)), likes |-> Median2(Ordered(sold(days), LAMBDA i : i.likes))]]

InBucket(i, bucket) == bucket = "all" \/ i.new = (bucket = "new")

\* The doubled median of a measure known for enough of the sales.
Measured(sales, Known(_), F(_)) ==
    LET known == {i \in sales : Known(i)}
    IN  IF Cardinality(known) >= MinPriceSales THEN Median2(Ordered(known, F)) ELSE None

Off(part, whole) == Share - Round(Share * part, whole)

Bucket(sales, asks) ==
    LET quartile(k, S, F(_)) == IF Cardinality(S) >= MinPriceSales THEN Percentile4(Ordered(S, F), k) ELSE None
        sale(i) == i.sale
        ask == quartile(2, asks, LAMBDA i : i.price)
        middle == quartile(2, sales, sale)
    IN  [n |-> Cardinality(sales), gmv |-> MapThenSumSet(sale, sales),
         p25 |-> quartile(1, sales, sale), p50 |-> middle, p75 |-> quartile(3, sales, sale),
         offer |-> Measured(sales, LAMBDA i : i.soldPrice # None, LAMBDA i : Off(i.soldPrice, i.price)),
         markdown |-> Measured(sales, LAMBDA i : i.initial > 0, LAMBDA i : Off(i.sale, i.initial)),
         final |-> Measured(sales, LAMBDA i : i.exact /\ i.updated # None /\ i.updated <= i.sold,
                            LAMBDA i : i.sold - i.updated),
         asks |-> Cardinality(asks), ask |-> ask,
         premium |-> IF ask # None /\ middle > 0 THEN Round(Share * ask, middle) - Share ELSE None]

PriceStats(is, today, outliers) ==
    LET sales == {i \in is : SoldWithin(i, today, 90) /\ i.usable /\ i.id \notin outliers}
        asks == {i \in Fresh(is, today) : i.usable}
    IN  [b \in Buckets |-> Bucket({i \in sales : InBucket(i, b)}, {i \in asks : InBucket(i, b)})]

-----------------------------------------------------------------------------
(* Sizes *)

SizeSales(is, size) ==
    LET of(status) == Cardinality({i \in is : i.size = size /\ i.status = status})
    IN  [value |-> size, sold |-> of("sold"), active |-> of("active")]

\* Best sellers first; a better sell-through, then the name, breaks a tie.
BetterSize(a, b) ==
    LET through(x, y) == x.sold * (y.sold + y.active)
    IN  \/ a.sold > b.sold
        \/ a.sold = b.sold /\ through(a, b) > through(b, a)
        \/ a.sold = b.sold /\ through(a, b) = through(b, a) /\ a.value < b.value

VariantRows(is) ==
    LET rows == {SizeSales(is, s) : s \in {i.size : i \in is} \ {None}}
    IN  SubSeq(Arranged(rows, BetterSize), 1, Min({12, Cardinality(rows)}))

SizeRows(is, today) ==
    LET shown == {i \in is : i.status = "active" \/ SoldWithin(i, today, 90)}
        by == P30By(is, today, LAMBDA i : i.size)
        whole == Rate(P30Counts(is, today))
        counts(size) == IF size \in DOMAIN by THEN by[size] ELSE [sold |-> 0, cohort |-> 0]
        rows == VariantRows(shown)
    IN  [k \in DOMAIN rows |->
            LET c == counts(rows[k].value)
            IN  [row |-> rows[k], p30 |-> Rate(c),
                 hot |-> c.cohort >= HotSizeMin /\ Rate(c) # None /\ whole # None /\ Rate(c) >= whole]]

-----------------------------------------------------------------------------
(* A scope's row, its snapshot and its months *)

\* What the passes over all brands, the snapshots and the trends list read of a row.
CountersBut(is, today, outliers) ==
    LET sold(days) == {i \in is : SoldWithin(i, today, days)}
        usual(days) == {i \in sold(days) : i.usable /\ i.id \notin outliers}
        prices(days) == IF usual(days) = {} THEN None ELSE 2 * Prices2(usual(days))
        p30 == P30Counts(is, today)
    IN  [listings |-> Cardinality(is), active |-> Cardinality(Active(is)),
         effective |-> Cardinality(Effective(is)), fresh |-> Cardinality(Fresh(is, today)),
         sold30 |-> Cardinality(sold(30)), sold90 |-> Cardinality(sold(90)), days |-> Days2(sold(30)),
         windows |-> Windows(is, today), p30Sold |-> p30.sold, p30Cohort |-> p30.cohort,
         price30 |-> prices(30), price90 |-> prices(90), pricing |-> PriceStats(is, today, outliers),
         department |-> Majority(is, LAMBDA i : i.department)]
Counters(is, today) == CountersBut(is, today, PriceOutliers(is, today))

\* What only the screens read of it.
Details(is, today) ==
    LET sold(days) == {i \in is : SoldWithin(i, today, days)}
    IN  [new |-> Cardinality({i \in is : i.root = None /\ today - i.listed <= 14}),
         before30 |-> Cardinality(sold(60) \ sold(30)),
         weeks |-> [w \in 1..12 |-> Cardinality({i \in sold(90) : (today - i.sold) \div 7 = 12 - w})],
         sizes |-> SizeRows(is, today)]

Month(day) == day \div 30

SoldIn(i, m) == Month(i.sold) = m

\* Sales of every month in every bucket; lots and the month's outliers have no price.
MonthStats(is, today) ==
    LET sales == {i \in is : i.status = "sold" /\ i.sold # None /\ i.sold <= today}
        within(m, b) == {i \in sales : SoldIn(i, m) /\ InBucket(i, b)}
        priced(m, b) == LET far == PriceOutliers(within(m, "all"), 30 * (m + 1))
                        IN  {i \in within(m, b) : i.usable /\ i.id \notin far}
        stat(m, b) == [month |-> m, bucket |-> b, sold |-> Cardinality(within(m, b)),
                       gmv |-> MapThenSumSet(LAMBDA i : i.sale, priced(m, b)),
                       p50 |-> Percentile4(Ordered(priced(m, b), LAMBDA i : i.sale), 2)]
    IN  {stat(c[1], c[2]) : c \in {d \in {Month(i.sold) : i \in sales} \X Buckets : within(d[1], d[2]) # {}}}

\* The snapshot leaves quiet models out.
Watched(scope, row) == scope # "model" \/ row.sold90 >= 1 \/ row.active >= SnapshotMinActive
=============================================================================
