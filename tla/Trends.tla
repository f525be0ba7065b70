------------------------------- MODULE Trends -------------------------------
(***************************************************************************)
(* What the screens read of the metrics: the trends list, its export and   *)
(* the card of a model (api/trends.py, trend_query.py, trend_fields.py,    *)
(* trend_card_history.py, trend_export.py), and the listing catalog with   *)
(* its cursors (api/listings.py, api/cursors.py).                          *)
(*                                                                         *)
(* Readers change nothing: these are functions of the tables they read.    *)
(* Text search, the seven-day window and the columns that are copied are   *)
(* left out.  Prices are times four.                                       *)
(***************************************************************************)
EXTENDS Ranking, Seasons

LowDataSales == 5
MaxPeriodMonths == 24
CardMonthCount == 12

\* Tables as a reader finds them: rows, months (key -> its month stats), retired and ignored
\* groups, the parent of a group, the watchlist, the profiles.
StatsOf(key, tables) == UNION {k.stats : k \in {j \in tables.months : j.key = key}}

-----------------------------------------------------------------------------
(* The list *)

DefaultQuery ==
    [level |-> "model", brands |-> {}, section |-> "any", types |-> {}, window |-> 30,
     from |-> None, to |-> None, priceMin |-> None, priceMax |-> None, minSales |-> 0,
     condition |-> "all", department |-> None, hideLowData |-> FALSE, fallback |-> FALSE,
     descriptions |-> FALSE, unranked |-> FALSE, watched |-> FALSE, sort |-> "liquidity", desc |-> TRUE]

ByPeriod(q) == q.from # None

ValidQuery(q) ==
    /\ q.window \in {30, 90}
    /\ q.from = None <=> q.to = None
    /\ ByPeriod(q) => q.from <= q.to /\ q.to - q.from < MaxPeriodMonths

\* Sales and price of a row: of the months when the query has them, else of the window.
SoldAndPrice(q, r, tables) ==
    CASE ByPeriod(q) -> PeriodTotals(StatsOf(r.key, tables), q.from..q.to, q.condition)
      [] ~ByPeriod(q) /\ q.window = 30 -> [sold |-> r.m.sold30, price |-> r.m.price30]
      [] OTHER -> [sold |-> r.m.sold90, price |-> r.m.price90]

InScope(q, r) ==
    /\ q.brands # {} => r.brand \in q.brands
    /\ q.types # {} => r.type \in q.types
    /\ q.section # "any" => r.section = q.section

\* The review type is shown to who asks for types.
HidesReview(q) == q.types = {}

OnLevel(q, r, tables) ==
    /\ r.scope = q.level
    /\ q.level = "model" => /\ r.line /\ r.group \notin tables.retired
                            /\ r.kind = "none" => q.fallback
                            /\ r.kind = "description" => q.descriptions
                            /\ q.watched => r.group \in tables.watchlist
    /\ HidesReview(q) /\ q.level # "brand" => r.type # Review

\* Scored rows, unless others are asked for.
RankedOrAsked(q, r) ==
    \/ q.unranked \/ r.score # None
    \/ q.level = "model" /\ \/ q.watched
                            \/ q.fallback /\ r.kind = "none"
                            \/ q.descriptions /\ r.kind = "description"

HasValues(q, r, tables) ==
    LET of == SoldAndPrice(q, r, tables)
    IN  /\ q.priceMin # None => of.price # None /\ of.price >= 4 * q.priceMin
        /\ q.priceMax # None => of.price # None /\ of.price <= 4 * q.priceMax
        /\ of.sold >= q.minSales
        /\ q.hideLowData => r.m.sold90 >= LowDataSales
        /\ q.department # None => r.m.department = q.department
        /\ q.condition # "all" => IF ByPeriod(q) THEN of.sold > 0 ELSE r.m.pricing[q.condition].n > 0

Listed(q, tables) ==
    {r \in tables.rows : InScope(q, r) /\ OnLevel(q, r, tables) /\ RankedOrAsked(q, r) /\ HasValues(q, r, tables)}

SortValue(q, r, tables) ==
    CASE q.sort = "liquidity" -> r.score
      [] q.sort = "likes" -> IF r.period = <<>> THEN None ELSE r.period.likes
      [] q.sort = "sales" -> SoldAndPrice(q, r, tables).sold
      [] q.sort = "price" -> SoldAndPrice(q, r, tables).price
      [] q.sort = "supply" -> r.m.active
      [] q.sort = "p30" -> r.p30
      [] q.sort = "speed" -> r.m.days

\* Unknown values are last whatever the direction; the fastest have the fewest days.
Precedes(q, a, b, tables) ==
    LET x == SortValue(q, a, tables)
        y == SortValue(q, b, tables)
        ascending == q.desc <=> q.sort = "speed"
        next == a.m.sold30 > b.m.sold30 \/ (a.m.sold30 = b.m.sold30 /\ a.id < b.id)
    IN  IF x = y THEN next ELSE y = None \/ (x # None /\ (ascending <=> x < y))

TrendList(q, tables) == Arranged(Listed(q, tables), LAMBDA a, b : Precedes(q, a, b, tables))

Page(list, limit, offset) == SubSeq(list, offset + 1, Min({offset + limit, Len(list)}))

-----------------------------------------------------------------------------
(* A row of the list *)

\* The scope whose prices stand in for a model's: its type within the brand.
ParentKey(r) == <<"type", r.brand, r.type>>

\* A bucket without a median borrows its parent's medians, and its premium is over those.
PriceBucket(own, parent) ==
    LET borrowed == [own EXCEPT !.p25 = parent.p25, !.p50 = parent.p50, !.p75 = parent.p75,
                         !.offer = parent.offer, !.markdown = parent.markdown, !.final = parent.final,
                         !.premium = IF own.ask = None THEN @ ELSE Round(Share * own.ask, parent.p50) - Share]
    IN  CASE own.n = 0 /\ own.asks = 0 -> <<>>
          [] own.n + own.asks > 0 /\ own.p50 = None /\ parent # <<>> /\ parent.p50 > 0 -> <<borrowed>>
          [] OTHER -> <<own>>

\* Versions with metrics, neither ignored nor retired.
VersionCount(g, tables) ==
    Cardinality({r \in tables.rows : /\ r.scope = "model" /\ tables.parent[r.group] = g
                                     /\ r.group \notin tables.retired \cup tables.ignored})

RowView(q, r, tables) ==
    LET above == {p \in tables.rows : r.scope = "model" /\ p.key = ParentKey(r)}
        parent == IF above = {} THEN <<>> ELSE (CHOOSE p \in above : TRUE).m.pricing[q.condition]
    IN  [row |-> r, of |-> SoldAndPrice(q, r, tables), raw |-> Rate([sold |-> r.m.p30Sold, cohort |-> r.m.p30Cohort]),
         versions |-> IF r.scope = "model" THEN VersionCount(r.group, tables) ELSE 0,
         price |-> PriceBucket(r.m.pricing[q.condition], parent)]

ListTrends(q, limit, offset, tables) ==
    LET page == Page(TrendList(q, tables), limit, offset)
    IN  [k \in DOMAIN page |-> RowView(q, page[k], tables)]

\* The export is the list cut at its greatest length.
ExportTrends(q, most, tables) == ListTrends(q, most, 0, tables)

\* Mutant: only the whole leaves the review type out.
NoModelShare_Review(q, tables) ==
    LET sum(S, F(_)) == MapThenSumSet(F, S)
        sold(r) == SoldAndPrice(q, r, tables).sold
        none == {r \in tables.rows : InScope(q, r) /\ r.scope = "model" /\ r.kind = "none"}
        whole == {r \in tables.rows : InScope(q, r) /\ r.scope = "type" /\ (HidesReview(q) => r.type # Review)}
        count(r) == r.m.listings
    IN  [listings |-> sum(none, count), totalListings |-> sum(whole, count),
         sold |-> sum(none, sold), totalSold |-> sum(whole, sold)]

\* Listings and sales without a model against those of the types: each is in one type.
NoModelShare(q, tables) ==
    LET scope == {r \in tables.rows : InScope(q, r) /\ (HidesReview(q) => r.type # Review)}
        none == {r \in scope : r.scope = "model" /\ r.kind = "none"}
        whole == {r \in scope : r.scope = "type"}
        sum(S, F(_)) == MapThenSumSet(F, S)
        count(r) == r.m.listings
        sold(r) == SoldAndPrice(q, r, tables).sold
    IN  [listings |-> sum(none, count), totalListings |-> sum(whole, count),
         sold |-> sum(none, sold), totalSold |-> sum(whole, sold)]

ShareOf(part, total) == IF total = 0 THEN None ELSE Round(Share * part, total)

-----------------------------------------------------------------------------
(* The card of a model *)

CardMonths(today) == (Month(today) - (CardMonthCount - 1))..Month(today)

MonthPoints(stats, today) ==
    LET found(m, b) == {s \in stats : s.month = m /\ s.bucket = b}
        point(m, b) == IF found(m, b) = {} THEN [sold |-> 0, p50 |-> None]
                       ELSE LET s == CHOOSE s \in found(m, b) : TRUE IN [sold |-> s.sold, p50 |-> s.p50]
    IN  [m \in CardMonths(today) |-> [partial |-> m = Month(today), of |-> [b \in Buckets |-> point(m, b)]]]

\* The department's profile of the type, else the type's over all of them.
TypeOverlay(type, department, profiles) ==
    LET keys == <<<<"type", type, department>>, <<"type", type, None>>>>
        known == {k \in DOMAIN keys : keys[k] \in DOMAIN profiles /\ (k = 1 => department # None)}
        of(p) == [months |-> [c \in 0..11 |-> IF c \in DOMAIN p.points THEN p.points[c].abs ELSE None],
                  covered |-> p.covered, stable |-> p.stable]
    IN  IF type = "none" \/ known = {} THEN <<>> ELSE <<of(profiles[keys[Min(known)]])>>

\* The last sales or the newest offers of a model and its versions.
SaleRows(items, sold, limit) ==
    LET when(i) == IF sold THEN i.sold ELSE i.listed
        shown == {i \in items : i.status = IF sold THEN "sold" ELSE "active"}
        list == Arranged(shown, LAMBDA a, b : when(a) > when(b) \/ (when(a) = when(b) /\ a.id > b.id))
        row(i) == [id |-> i.id, price |-> i.sale, relisted |-> i.root # None,
                   days |-> IF sold /\ i.sold # None /\ i.exact THEN DaysToSell(i) ELSE None]
    IN  [k \in 1..Min({limit, Len(list)}) |-> row(list[k])]

TrendCard(g, type, items, q, today, tables) ==
    LET versions == {h \in DOMAIN tables.parent : tables.parent[h] = g}
        of(key) == {r \in tables.rows : r.key = key}
        view(rs) == {RowView(q, r, tables) : r \in rs}
        own == of(<<"model", g>>)
        lines == UNION {of(<<"model", h>>) : h \in versions}
        sold(v) == v.row.m.sold90
        better(a, b) == sold(a) > sold(b) \/ (sold(a) = sold(b) /\ a.row.group < b.row.group)
    IN  [metrics |-> view(own), typeMetrics |-> UNION {view(of(ParentKey(r))) : r \in own},
         versions |-> Arranged(view(lines), better),
         recent |-> SaleRows(items, TRUE, 25), active |-> SaleRows(items, FALSE, 12),
         months |-> MonthPoints(StatsOf(<<"model", g>>, tables), today),
         overlay |-> TypeOverlay(type, IF own = {} THEN None ELSE (CHOOSE r \in own : TRUE).m.department,
                                 tables.profiles)]

-----------------------------------------------------------------------------
(* The listing catalog *)

\* A cursor is good for the query it was made for.
ValidCursor(cursor, query) == cursor = <<>> \/ cursor[1].query = query

\* Mutant: the row that tells of a further page is not fetched.
Fetched_Limit(ids, limit) == SubSeq(ids, 1, Min({limit, Len(ids)}))

\* One row more than the page shows whether there is another page.
Fetched(ids, limit) == SubSeq(ids, 1, Min({limit + 1, Len(ids)}))

\* The next page of the listings that match, newest first; all are the ids of the table.
CatalogPage(all, matching, query, limit, cursor) ==
    LET max == IF cursor = <<>> THEN Max({0} \cup all) ELSE cursor[1].max
        open == {i \in matching : i <= max /\ (cursor # <<>> => i < cursor[1].last)}
        found == Fetched(Arranged(open, LAMBDA a, b : a > b), limit)
        shown == SubSeq(found, 1, Min({limit, Len(found)}))
    IN  [ids |-> shown,
         next |-> IF Len(found) > limit THEN <<[max |-> max, last |-> Last(shown), query |-> query]>> ELSE <<>>]

\* Sold and active listings of every group on the page.
CatalogCounts(groups, listings) ==
    LET of(g, status) == Cardinality({l \in listings : l.group = g /\ l.status = status})
    IN  [g \in groups |-> [sold |-> of(g, "sold"), active |-> of(g, "active")]]

DaysOnMarket(l, now) ==
    LET since(day) == IF day > l.created THEN day - l.created ELSE 0
    IN  CASE l.status = "active" -> since(now)
          [] l.status # "active" /\ l.onMarket # None -> l.onMarket
          [] l.status = "sold" /\ l.onMarket = None -> IF l.sold = None THEN None ELSE since(l.sold)
          [] OTHER -> since(l.seen)
=============================================================================
