------------------------------ MODULE Readers ------------------------------
(***************************************************************************)
(* The stored listings over time next to those who read them: a metric     *)
(* scope, the months of the trends list, the season profiles, the past     *)
(* that the backtest rebuilds, and a reader of the catalog who asks for    *)
(* one page after another while listings come and change.                  *)
(*                                                                         *)
(* How listings get into the store is modelled in Listings; here each      *)
(* change is one commit, and time passes in steps of DayStep.              *)
(***************************************************************************)
EXTENDS Trends

CONSTANTS
    Offers,             \* the listings to come, in order: [brand, size, price, new, department]
    MaxCommits,         \* bound: sales, withdrawals and returns
    DayStep,
    LastDay,            \* bound: the last day
    PageSizes           \* limits a reader asks for

\* Time goes on, and GET /listings refuses a limit below one.
ASSUME ReadersAssumption == DayStep \in Nat \ {0} /\ PageSizes \subseteq Nat \ {0}

VARIABLES
    now,
    listings,           \* the table, by row id
    reader,             \* the catalog's reader: <<>>, or what was asked and shown
    commits             \* changes still allowed

readersVars == <<now, listings, reader, commits>>

Rows == {listings[i] : i \in DOMAIN listings}
Matching(ls) == {i \in DOMAIN ls : ls[i].status = "active"}

ReadersInit == now = 0 /\ listings = <<>> /\ reader = <<>> /\ commits = MaxCommits

\* What still matches after a change matched all along.
Changed(ls) ==
    /\ listings' = ls
    /\ reader' = IF reader = <<>> THEN reader ELSE [reader EXCEPT !.kept = @ \cap Matching(ls)]

NewListing(offer, root) ==
    [id |-> Len(listings) + 1, status |-> "active", created |-> now, sold |-> None, checked |-> None,
     root |-> root, soldPrice |-> 0, exact |-> TRUE, flags |-> {}, seller |-> None, bumped |-> now,
     initial |-> offer.price, updated |-> now, likes |-> 0, type |-> "coats", brand |-> offer.brand,
     size |-> offer.size, price |-> offer.price, new |-> offer.new, department |-> offer.department]

\* A relist points to the first link of its chain.
Appear ==
    \E root \in {None} \cup {l.id : l \in {r \in Rows : r.root = None}} :
        LET offer == Offers[Len(listings) + 1]
        IN  /\ Len(listings) < Len(Offers)
            /\ root # None => listings[root].brand = offer.brand
            /\ Changed(Append(listings, NewListing(offer, root)))
            /\ UNCHANGED <<now, commits>>

SellListing ==
    \E i \in Matching(listings) :
        /\ Changed([listings EXCEPT ![i].status = "sold", ![i].sold = now])
        /\ commits > 0 /\ commits' = commits - 1
        /\ UNCHANGED now

WithdrawListing ==
    \E i \in Matching(listings) :
        /\ Changed([listings EXCEPT ![i].status = "removed_pending", ![i].checked = now])
        /\ commits > 0 /\ commits' = commits - 1
        /\ UNCHANGED now

\* A withdrawn listing is seen again.
Return ==
    \E i \in DOMAIN listings :
        /\ listings[i].status = "removed_pending"
        /\ Changed([listings EXCEPT ![i].status = "active", ![i].checked = None])
        /\ commits > 0 /\ commits' = commits - 1
        /\ UNCHANGED now

Advance ==
    /\ now + DayStep <= LastDay
    /\ now' = now + DayStep
    /\ UNCHANGED <<listings, reader, commits>>

Shown(page, limit, all, kept, before) ==
    [cursor |-> page.next, limit |-> limit, all |-> all, kept |-> kept, shown |-> before \o page.ids]

OpenCatalog ==
    \E limit \in PageSizes :
        LET all == DOMAIN listings
            page == CatalogPage(all, Matching(listings), "active", limit, <<>>)
        IN  /\ reader = <<>>
            /\ reader' = Shown(page, limit, all, Matching(listings), <<>>)
            /\ UNCHANGED <<now, listings, commits>>

NextPage ==
    /\ reader # <<>> /\ reader.cursor # <<>>
    /\ ValidCursor(reader.cursor, "active")
    /\ LET page == CatalogPage(DOMAIN listings, Matching(listings), "active", reader.limit, reader.cursor)
       IN  reader' = Shown(page, reader.limit, reader.all, reader.kept, reader.shown)
    /\ UNCHANGED <<now, listings, commits>>

ReadersNext == Appear \/ SellListing \/ WithdrawListing \/ Return \/ Advance \/ OpenCatalog \/ NextPage

ReadersSpec == ReadersInit /\ [][ReadersNext]_readersVars

-----------------------------------------------------------------------------
(* Properties *)

\* A listing is placed in the past as it was there (supply.status_at): selling or withdrawing
\* it today changes nothing the backtest rebuilds of an earlier day.  Only a listing that
\* comes back takes its withdrawal with it.
Past(ls, day) == {[l EXCEPT !.checked = None] : l \in History({ls[i] : i \in DOMAIN ls}, day)}
CameBack(i) == listings[i].status = "removed_pending" /\ listings'[i].status = "active"
PastStandsStill ==
    [][(\A i \in DOMAIN listings : ~CameBack(i)) =>
           \A day \in 0..(now - 1) : Past(listings', day) = Past(listings, day)]_listings

\* The sizes of a scope share its P30 out: every chain is counted with one size, its root's,
\* and never twice, however its links were relisted and whichever of them the scope has.  So
\* when every size is shown, one of them is at least as fast as the whole.
ChainsCountOnce ==
    \A items \in SUBSET Items(Rows, now) :
        LET by == P30By(items, now, LAMBDA i : i.size)
            whole == P30Counts(items, now)
            sizes == SizeRows(items, now)
            shown == {sizes[k].row.value : k \in DOMAIN sizes}
        IN  /\ whole.sold = MapThenSumSet(LAMBDA v : by[v].sold, DOMAIN by)
            /\ whole.cohort = MapThenSumSet(LAMBDA v : by[v].cohort, DOMAIN by)
            /\ whole.cohort > 0 /\ HotSizeMin <= 1 /\ {i.size : i \in items} \subseteq shown =>
                   \E k \in DOMAIN sizes : sizes[k].hot

\* A closed month is closed: nothing that happens later changes the sales and medians that
\* the trends list and the cards show of it.
ClosedMonths(ls, today2) ==
    {s \in MonthStats(Items({ls[i] : i \in DOMAIN ls}, today2), today2) : s.month < Month(today2)}
ClosedMonthsStand ==
    [][ClosedMonths(listings', now) = ClosedMonths(listings, now)]_listings

\* A season profile counts whole months: the sales of the running one change no profile, and
\* the months it counts are whole on the trends list as well.
SalesOf(ls) ==
    {[id |-> ls[i].id, brand |-> ls[i].brand, type |-> ls[i].type, department |-> ls[i].department,
      group |-> 1, day |-> ls[i].sold] : i \in {j \in DOMAIN ls : ls[j].status = "sold"}}
ProfilesCountWholeMonths ==
    [][/\ ProfileRows(SalesOf(listings'), now) = ProfileRows(SalesOf(listings), now)
       /\ \A s \in SalesOf(listings) : \A m \in CompleteMonths(s.day, now) :
              MonthCoverage({m}, s.day, now) = [missing |-> {}, partial |-> {}]]_listings

\* Following the cursors of the catalog shows every listing that matches all along, once and
\* in order, and none that came later, whatever is stored or changes status between the pages.
CatalogPagesMissNothing ==
    reader # <<>> =>
        /\ reader.cursor = <<>> => reader.kept \subseteq ToSet(reader.shown)
        /\ ToSet(reader.shown) \subseteq reader.all
        /\ \A j, k \in DOMAIN reader.shown : j < k => reader.shown[j] > reader.shown[k]
=============================================================================
