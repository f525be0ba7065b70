------------------------------ MODULE DealScan ------------------------------
(***************************************************************************)
(* services/deals/scan.py: one pass of the deal scanner after another.     *)
(* Sellers create and reprice listings; the source's index shows a change  *)
(* a moment later.  A pass asks the index, brand by brand, for what        *)
(* changed since the brand's cursor, stores it, groups the brands with new *)
(* listings, judges what it stored and only then moves the cursors.  Every *)
(* step awaits the network or the database, may fail, and the process may  *)
(* stop between any two.                                                   *)
(*                                                                         *)
(* A pass holds the market lock, so a collection stores listings only      *)
(* between passes; a regroup from the Groups page may come at any time.    *)
(***************************************************************************)
EXTENDS Naturals, FiniteSetsExt

CONSTANTS
    Listings,         \* the source's listings, numbered
    Brands,           \* tracked brands, numbered; a scan visits them in order
    BrandOf(_),       \* the brand a listing is found under
    LOOKBACK,         \* 24 h
    OVERLAP,          \* 5 min
    Lag,              \* how late the index may show a change
    Readable,         \* hits of a brand a pass can always read
    FAILURE_STREAK,
    Broken,           \* brands whose fetch always fails
    Horizon,          \* bound: the clock stops here
    MaxFaults         \* bound: failures that are not a broken brand's, and crashes

ASSUME DealScanAssumption ==
    /\ Listings \subseteq Nat /\ Brands \subseteq Nat /\ Broken \subseteq Brands
    /\ \A l \in Listings : BrandOf(l) \in Brands
    /\ {LOOKBACK, Lag, Readable, Horizon, MaxFaults} \subseteq Nat
    /\ {OVERLAP, FAILURE_STREAK} \subseteq Nat \ {0}
    /\ Lag <= OVERLAP

VARIABLES
    now,         \* the wall clock; 0 is before every change
    market,      \* market[l]: when l was created and last repriced, 0 for not yet
    index,       \* the same, as a search shows it
    stored,      \* stored[l]: the latest change of l the database holds
    grouped,     \* the listings with a ListingModelAssignment
    scanned_to,  \* deal_scans.scanned_to, 0 when the brand has no row
    pass,        \* the pass in progress
    judged,      \* history: the latest change of l that was judged
    missed,      \* history: why a change of l was given up
    faults       \* history: failures and crashes so far

vars == <<now, market, index, stored, grouped, scanned_to, pass, judged, missed, faults>>

Times == 0..Horizon
Never == [created |-> 0, repriced |-> 0]
changed(doc) == Max({doc.created, doc.repriced})
Of(b) == {l \in Listings : BrandOf(l) = b}

(* todo: brands to fetch; done, failed: brands whose row is to be written;   *)
(* touched, inserted: brands with stored, with new listings; seen: what the  *)
(* pass stored; _Pass of the code.                                           *)
Idle == [pc |-> "idle", started |-> 0, since |-> [b \in Brands |-> 0], todo |-> {},
         streak |-> 0, touched |-> {}, inserted |-> {}, seen |-> {}, done |-> {},
         failed |-> {}]

minus(a, b) == IF a > b THEN a - b ELSE 0
Foremost(b, set) == b \in set /\ \A c \in set : b <= c

------------------------------------------------------------------------------
(* The source. *)

(* A seller creates a listing or changes its price.                          *)
Change(l) ==
    /\ now > 0
    /\ changed(market[l]) < now
    /\ market' = [market EXCEPT ![l] =
                    IF @.created = 0 THEN [@ EXCEPT !.created = now]
                                     ELSE [@ EXCEPT !.repriced = now]]
    /\ missed' = [missed EXCEPT ![l] = "no"]
    /\ UNCHANGED <<now, index, stored, grouped, scanned_to, pass, judged, faults>>

Index(l) ==
    /\ index[l] # market[l]
    /\ index' = [index EXCEPT ![l] = market[l]]
    /\ UNCHANGED <<now, market, stored, grouped, scanned_to, pass, judged, missed, faults>>

(* Time passes, but never so that a change stays out of the index past Lag.  *)
Tick ==
    /\ now < Horizon
    /\ \A l \in Listings : index[l] = market[l] \/ now + 1 < changed(market[l]) + Lag
    /\ now' = now + 1
    /\ UNCHANGED <<market, index, stored, grouped, scanned_to, pass, judged, missed, faults>>

------------------------------------------------------------------------------
(* The pass. *)

(* Mutant: the window starts where the last one ended.                       *)
since_NoOverlap(b) ==
    IF scanned_to[b] = 0 THEN minus(now, LOOKBACK)
    ELSE Max({scanned_to[b], minus(now, LOOKBACK)})

(* Where the brand's window starts.                                          *)
since(b) ==
    IF scanned_to[b] = 0 THEN minus(now, LOOKBACK)
    ELSE Max({minus(scanned_to[b], OVERLAP), minus(now, LOOKBACK)})

(* What no pass will judge any more, and why: for the properties.            *)
GivenUp(set, why) ==
    [l \in Listings |-> IF l \in set /\ judged[l] < changed(market[l]) /\ missed[l] = "no"
                        THEN why ELSE missed[l]]
Old == {l \in Listings : changed(market[l]) <= minus(now, LOOKBACK)}

(* brands_in_scope and targets: which brands are in scope is read anew by    *)
(* every pass.  A change from before LOOKBACK is out of this and every       *)
(* later scan's reach.                                                       *)
Start(scope) ==
    /\ pass.pc = "idle"
    /\ now > 0
    /\ scope # {}
    /\ pass' = [Idle EXCEPT !.pc = "collect", !.started = now, !.todo = scope,
                            !.since = [b \in Brands |-> IF b \in scope THEN since(b) ELSE 0]]
    /\ missed' = GivenUp(Old, "old")
    /\ UNCHANGED <<now, market, index, stored, grouped, scanned_to, judged, faults>>

(* fetch: created_at_i or price_updated_at_i in (since, started].            *)
Window(b) ==
    {l \in Of(b) : \E t \in {index[l].created, index[l].repriced} :
                        t \in (pass.since[b] + 1)..pass.started}

Fault == faults < MaxFaults /\ faults' = faults + 1

(* fetch and store, one commit: an upsert inserts what the database lacks.   *)
(* Of a window that halving did not make readable some hits are left.        *)
FetchAndStore(b) ==
    LET new(found) == {l \in found : stored[l] = 0}
        Without(set, found) == IF found = {} THEN set ELSE set \union {b}
    IN  /\ pass.pc = "collect" /\ Foremost(b, pass.todo)
        /\ b \notin Broken
        /\ \E found \in SUBSET Window(b) :
            /\ found = Window(b) \/ Cardinality(found) >= Readable
            /\ stored' = [l \in Listings |-> IF l \in found THEN changed(index[l]) ELSE stored[l]]
            /\ pass' = [pass EXCEPT
                    !.todo = @ \ {b}, !.streak = 0,
                    !.touched = Without(@, found), !.inserted = Without(@, new(found)),
                    !.seen = @ \union found, !.done = @ \union {b}]
            /\ missed' = GivenUp(Window(b) \ found, "truncated")
        /\ UNCHANGED <<now, market, index, grouped, scanned_to, judged, faults>>

(* _mark without a time: a brand with no row gets one a day back.            *)
mark_failed(b) ==
    IF scanned_to[b] = 0 THEN minus(now, LOOKBACK) ELSE scanned_to[b]

(* Mutant: one failing brand ends the pass.                                  *)
aborts_AtOnce(streak) == TRUE

aborts(streak) == streak >= FAILURE_STREAK

(* The brand's fetch or store fails; _record writes its error, or fails too. *)
BrandFails(b) ==
    /\ pass.pc = "collect" /\ Foremost(b, pass.todo)
    /\ IF b \in Broken THEN faults' = faults ELSE Fault
    /\ pass' = [pass EXCEPT !.todo = IF aborts(pass.streak + 1) THEN {} ELSE @ \ {b},
                            !.streak = @ + 1]
    /\ scanned_to' \in {scanned_to, [scanned_to EXCEPT ![b] = mark_failed(b)]}
    /\ missed' = GivenUp(Old, "old")
    /\ UNCHANGED <<now, market, index, stored, grouped, judged>>

(* The brands are fetched: nothing to judge, or the new ones are grouped.    *)
Collected ==
    /\ pass.pc = "collect" /\ pass.todo = {}
    /\ pass' = [pass EXCEPT !.pc = IF pass.touched = {} THEN "record" ELSE "judge",
                            !.todo = pass.inserted]
    /\ UNCHANGED <<now, market, index, stored, grouped, scanned_to, judged, missed, faults>>

(* regroup_brands, under the grouping lock and committed: incrementally, it  *)
(* gives every listing of the brand without a model one.                     *)
Regroup(b) ==
    /\ pass.pc = "judge" /\ Foremost(b, pass.todo)
    /\ grouped' = grouped \union {l \in Of(b) : stored[l] # 0}
    /\ pass' = [pass EXCEPT !.todo = @ \ {b}]
    /\ UNCHANGED <<now, market, index, stored, scanned_to, judged, missed, faults>>

(* _rows: the listings seen since the pass started, joined to their models.  *)
examined == pass.seen \intersect grouped

(* find_deals.  A listing without a model is not looked at.                  *)
FindDeals ==
    /\ pass.pc = "judge" /\ pass.todo = {}
    /\ judged' = [l \in Listings |-> IF l \in examined THEN stored[l] ELSE judged[l]]
    /\ missed' = GivenUp({l \in pass.seen \ grouped : stored[l] = changed(market[l])}, "no model")
    /\ pass' = [pass EXCEPT !.pc = "record"]
    /\ UNCHANGED <<now, market, index, stored, grouped, scanned_to, faults>>

(* The brands taken out of done when the judgement fails.                    *)
undone(brands) == brands

(* The grouping of a brand or find_deals fails.                              *)
JudgeFails ==
    /\ pass.pc = "judge"
    /\ Fault
    /\ pass' = [pass EXCEPT !.pc = "record", !.todo = {}, !.failed = undone(pass.touched),
                            !.done = @ \ undone(pass.touched)]
    /\ UNCHANGED <<now, market, index, stored, grouped, scanned_to, judged, missed>>

Wrote(b) == pass' = [pass EXCEPT !.failed = @ \ {b}, !.done = @ \ {b}]

(* _record, the failed brands first: the cursor moves to where the pass      *)
(* started, or stays; a write that fails is only logged.                     *)
Record(b) ==
    /\ pass.pc = "record"
    /\ Foremost(b, IF pass.failed # {} THEN pass.failed ELSE pass.done)
    /\ scanned_to' = [scanned_to EXCEPT ![b] = IF b \in pass.failed THEN mark_failed(b)
                                                                    ELSE pass.started]
    /\ missed' = IF b \in pass.failed THEN GivenUp(Old, "old") ELSE missed
    /\ Wrote(b)
    /\ UNCHANGED <<now, market, index, stored, grouped, judged, faults>>

RecordFails(b) ==
    /\ pass.pc = "record" /\ b \in pass.failed \union pass.done
    /\ Fault
    /\ Wrote(b)
    /\ UNCHANGED <<now, market, index, stored, grouped, scanned_to, judged, missed>>

PassEnds ==
    /\ pass.pc = "record" /\ pass.failed \union pass.done = {}
    /\ pass' = Idle
    /\ UNCHANGED <<now, market, index, stored, grouped, scanned_to, judged, missed, faults>>

(* The app stops or is shut down: what the pass held in memory is gone.      *)
Crash ==
    /\ pass.pc # "idle"
    /\ Fault
    /\ pass' = Idle
    /\ UNCHANGED <<now, market, index, stored, grouped, scanned_to, judged, missed>>

------------------------------------------------------------------------------
(* The other writers of these tables. *)

(* A collection's page of one brand; the run groups its brands in the end    *)
(* unless it is cancelled or dies.                                           *)
Collects(found) ==
    /\ pass.pc = "idle"
    /\ found # {}
    /\ \A l \in found : index[l] # Never
    /\ stored' = [l \in Listings |-> IF l \in found THEN changed(index[l]) ELSE stored[l]]
    /\ grouped' \in {grouped, grouped \union found}
    /\ UNCHANGED <<now, market, index, scanned_to, pass, judged, missed, faults>>

(* A regroup from the Groups page or the command line.                       *)
RegroupElsewhere(b) ==
    /\ grouped' = grouped \union {l \in Of(b) : stored[l] # 0}
    /\ UNCHANGED <<now, market, index, stored, scanned_to, pass, judged, missed, faults>>

------------------------------------------------------------------------------
Init ==
    /\ now = 0
    /\ market = [l \in Listings |-> Never]
    /\ index = [l \in Listings |-> Never]
    /\ stored = [l \in Listings |-> 0]
    /\ grouped = {}
    /\ scanned_to = [b \in Brands |-> 0]
    /\ pass = Idle
    /\ judged = [l \in Listings |-> 0]
    /\ missed = [l \in Listings |-> "no"]
    /\ faults = 0

PassStep ==
    \/ Collected \/ FindDeals \/ PassEnds
    \/ \E b \in Brands : FetchAndStore(b) \/ (b \in Broken /\ BrandFails(b)) \/ Regroup(b)
                            \/ Record(b)

Failure ==
    \/ JudgeFails \/ Crash
    \/ \E b \in Brands : (b \notin Broken /\ BrandFails(b)) \/ RecordFails(b)

Next ==
    \/ \E l \in Listings : Change(l) \/ Index(l)
    \/ Tick
    \/ \E scope \in SUBSET Brands : Start(scope)
    \/ PassStep
    \/ Failure
    \/ \E found \in SUBSET Listings : Collects(found)
    \/ \E b \in Brands : RegroupElsewhere(b)

Spec == Init /\ [][Next]_vars

(* The scanner's loop starts a pass again and again, and every brand is in   *)
(* scope time and again; its coroutine is run until it ends; the index       *)
(* catches up.                                                               *)
FairSpec ==
    /\ Spec
    /\ SF_vars(Start(Brands))
    /\ WF_vars(PassStep)
    /\ \A l \in Listings : WF_vars(Index(l))

------------------------------------------------------------------------------
(* Properties. *)

TypeOK ==
    /\ now \in Times /\ faults \in 0..MaxFaults
    /\ market \in [Listings -> [created : Times, repriced : Times]]
    /\ index \in [Listings -> [created : Times, repriced : Times]]
    /\ stored \in [Listings -> Times] /\ judged \in [Listings -> Times]
    /\ scanned_to \in [Brands -> Times]
    /\ grouped \subseteq Listings
    /\ missed \in [Listings -> {"no", "old", "truncated", "no model"}]
    /\ pass.pc \in {"idle", "collect", "judge", "record"}
    /\ pass.started \in Times /\ pass.since \in [Brands -> Times]
    /\ pass.streak \in 0..FAILURE_STREAK
    /\ {pass.todo, pass.touched, pass.inserted, pass.done, pass.failed} \subseteq SUBSET Brands
    /\ pass.seen \subseteq Listings

(* A change made well before a brand's cursor was judged, unless it was      *)
(* given up for a known reason: it was over a day old when a pass first      *)
(* looked, the window held more than can be read, or the listing had no      *)
(* model (scan.py:6-7).  However the index lags, whichever step failed and   *)
(* wherever the process stopped, the cursor leaves nothing else behind.      *)
NothingSkipped ==
    \A l \in Listings :
        changed(market[l]) # 0 /\ changed(market[l]) + OVERLAP <= scanned_to[BrandOf(l)]
            => judged[l] = changed(market[l]) \/ missed[l] # "no"

(* A new price of a listing that has a model is judged in the end, unless it *)
(* is given up: broken brands, fewer than it takes to end a pass, hold up    *)
(* only their own listings (scan.py:295-299).                                *)
PricesAreJudged ==
    \A l \in Listings :
        (/\ BrandOf(l) \notin Broken /\ l \in grouped
         /\ judged[l] < changed(market[l]))
        ~> (judged[l] = changed(market[l]) \/ missed[l] # "no")

(* scan.py:320: "A new listing is judged by its model, so it needs one       *)
(* first."  A pass never passes over a listing it stored for want of a model. *)
NewListingsGetAModel == \A l \in Listings : missed[l] # "no model"
=============================================================================
