---------------------------- MODULE DealScanProofs ----------------------------
(***************************************************************************)
(* For any brands, listings, times and failures: a brand's cursor leaves   *)
(* no change behind, but those that were given up for a known reason.      *)
(***************************************************************************)
EXTENDS DealScan, TLAPS

DocType == [created : Nat, repriced : Nat]
PassType == [pc : {"idle", "collect", "judge", "record"}, started : Nat,
             since : [Brands -> Nat], todo : SUBSET Brands, streak : Nat,
             touched : SUBSET Brands, inserted : SUBSET Brands, seen : SUBSET Listings,
             done : SUBSET Brands, failed : SUBSET Brands]

TypeInv ==
    /\ now \in Nat
    /\ market \in [Listings -> DocType] /\ index \in [Listings -> DocType]
    /\ stored \in [Listings -> Nat] /\ judged \in [Listings -> Nat]
    /\ scanned_to \in [Brands -> Nat]
    /\ missed \in [Listings -> {"no", "old", "truncated", "no model"}]
    /\ pass \in PassType

c(l) == changed(market[l])

(* Nothing knows a change before it was made, and the index shows one before *)
(* it is older than the overlap.                                             *)
Known(l) ==
    /\ c(l) <= now /\ market[l].created <= now /\ market[l].repriced <= now
    /\ judged[l] <= stored[l] /\ stored[l] <= changed(index[l]) /\ changed(index[l]) <= c(l)
    /\ index[l] # market[l] => now < c(l) + OVERLAP

KnownInv == \A l \in Listings : Known(l)

CursorInv ==
    /\ \A b \in Brands : scanned_to[b] <= now
    /\ pass.pc # "idle" => pass.started <= now

Settled(l) == judged[l] = c(l) \/ missed[l] # "no"

(* A change a cursor at t must not leave behind.                             *)
Owed(l, t) == c(l) # 0 /\ c(l) + OVERLAP <= t

CursorsSettle == \A l \in Listings : Owed(l, scanned_to[BrandOf(l)]) => Settled(l)

(* What the pass has not read is in its window, and what it has read is      *)
(* settled or waits for its judgement.                                       *)
Reading(l) ==
    BrandOf(l) \in pass.todo =>
        /\ scanned_to[BrandOf(l)] <= pass.started
        /\ Owed(l, pass.started) /\ c(l) <= pass.since[BrandOf(l)] => Settled(l)
        /\ l \notin pass.seen

Seen(l) ==
    l \in pass.seen =>
        /\ BrandOf(l) \in pass.touched
        /\ scanned_to[BrandOf(l)] <= pass.started
        /\ Owed(l, pass.started) => stored[l] = c(l)

Judging(l) ==
    BrandOf(l) \in pass.done /\ Owed(l, pass.started) => Settled(l) \/ l \in pass.seen

Recording(l) == BrandOf(l) \in pass.done /\ Owed(l, pass.started) => Settled(l)

PassInv ==
    \A l \in Listings :
        /\ pass.pc = "collect" => Reading(l) /\ Seen(l) /\ Judging(l)
        /\ pass.pc = "judge" => Seen(l) /\ Judging(l)
        /\ pass.pc = "record" => Recording(l)

ScanInv == TypeInv /\ KnownInv /\ CursorInv /\ CursorsSettle /\ PassInv

------------------------------------------------------------------------------
(* Operators. *)

LEMMA Constants ==
    /\ LOOKBACK \in Nat /\ Lag \in Nat /\ OVERLAP \in Nat /\ OVERLAP > 0 /\ Lag <= OVERLAP
    /\ Brands \subseteq Nat /\ \A l \in Listings : BrandOf(l) \in Brands
  <1>1. /\ {LOOKBACK, Lag, Readable, Horizon, MaxFaults} \subseteq Nat
        /\ {OVERLAP, FAILURE_STREAK} \subseteq Nat \ {0} /\ Lag <= OVERLAP
        /\ Brands \subseteq Nat /\ \A l \in Listings : BrandOf(l) \in Brands
    BY DealScanAssumption
  <1>2. QED
    BY <1>1

LEMMA LaterOfTwo ==
    ASSUME NEW x \in Nat, NEW y \in Nat
    PROVE  Max({x, y}) \in {x, y} /\ Max({x, y}) >= x /\ Max({x, y}) >= y
  <1>1. \E m \in {x, y} : \A z \in {x, y} : m >= z
    <2>1. x >= y \/ y >= x
      OBVIOUS
    <2>2. QED
      BY <2>1
  <1>2. QED
    BY <1>1 DEF Max

LEMMA ChangedIsLast ==
    ASSUME NEW doc \in DocType
    PROVE  /\ changed(doc) \in Nat /\ changed(doc) \in {doc.created, doc.repriced}
           /\ changed(doc) >= doc.created /\ changed(doc) >= doc.repriced
  BY LaterOfTwo DEF changed, DocType

LEMMA MinusIsNat ==
    ASSUME NEW a \in Nat, NEW b \in Nat
    PROVE  minus(a, b) \in Nat /\ minus(a, b) <= a
  BY DEF minus

LEMMA SinceIsNat ==
    ASSUME TypeInv, NEW b \in Brands
    PROVE  since(b) \in Nat /\ since(b) \in {minus(scanned_to[b], OVERLAP), minus(now, LOOKBACK)}
           /\ (scanned_to[b] = 0 => since(b) = minus(now, LOOKBACK))
  <1>1. minus(now, LOOKBACK) \in Nat /\ minus(scanned_to[b], OVERLAP) \in Nat
    BY Constants, MinusIsNat DEF TypeInv
  <1>2. QED
    BY <1>1, LaterOfTwo DEF since

LEMMA Given ==
    ASSUME TypeInv, NEW set, NEW why \in {"old", "truncated", "no model"}
    PROVE  /\ GivenUp(set, why) \in [Listings -> {"no", "old", "truncated", "no model"}]
           /\ \A l \in Listings :
                 /\ missed[l] # "no" => GivenUp(set, why)[l] # "no"
                 /\ l \in set /\ judged[l] < changed(market[l]) => GivenUp(set, why)[l] # "no"
  BY DEF GivenUp, TypeInv

LEMMA IdleIsAPass == Idle \in PassType
  BY DEF Idle, PassType

------------------------------------------------------------------------------
(* Types. *)

PassSteps(b) ==
    FetchAndStore(b) \/ BrandFails(b) \/ Regroup(b) \/ Record(b) \/ RecordFails(b)

LEMMA StepKinds ==
    ASSUME [Next]_vars
    PROVE  \/ UNCHANGED vars \/ Tick \/ Collected \/ FindDeals \/ PassEnds \/ JudgeFails \/ Crash
           \/ \E l \in Listings : Change(l) \/ Index(l)
           \/ \E scope \in SUBSET Brands : Start(scope)
           \/ \E b \in Brands : PassSteps(b) \/ RegroupElsewhere(b)
           \/ \E found \in SUBSET Listings : Collects(found)
  BY DEF Next, PassStep, Failure, PassSteps

LEMMA PassTyped ==
    ASSUME TypeInv, [Next]_vars PROVE pass' \in PassType
  <1>0. pass \in PassType /\ now \in Nat
    BY DEF TypeInv
  <1>1. CASE UNCHANGED pass
    BY <1>0, <1>1
  <1>2. ASSUME NEW scope \in SUBSET Brands, Start(scope) PROVE pass' \in PassType
    <2> DEFINE sinces == [b \in Brands |-> IF b \in scope THEN since(b) ELSE 0]
    <2>1. sinces \in [Brands -> Nat]
      BY SinceIsNat
    <2>2. pass' = [Idle EXCEPT !.pc = "collect", !.started = now, !.todo = scope,
                               !.since = sinces]
      BY <1>2 DEF Start
    <2> HIDE DEF sinces
    <2>3. QED
      BY <1>0, <2>1, <2>2 DEF Idle, PassType
  <1>3. ASSUME NEW b \in Brands, FetchAndStore(b) PROVE pass' \in PassType
    <2> DEFINE new(found) == {l \in found : stored[l] = 0}
               Without(set, found) == IF found = {} THEN set ELSE set \cup {b}
    <2>1. PICK found \in SUBSET Window(b) :
             pass' = [pass EXCEPT
                        !.todo = @ \ {b}, !.streak = 0,
                        !.touched = Without(@, found), !.inserted = Without(@, new(found)),
                        !.seen = @ \cup found, !.done = @ \cup {b}]
      BY <1>3 DEF FetchAndStore
    <2> DEFINE touched == Without(pass.touched, found)
               inserted == Without(pass.inserted, new(found))
    <2>2. found \subseteq Listings
      BY DEF Window, Of
    <2>3. touched \in SUBSET Brands /\ inserted \in SUBSET Brands
      BY <1>0 DEF PassType
    <2>4. pass' = [pass EXCEPT !.todo = @ \ {b}, !.streak = 0, !.touched = touched,
                               !.inserted = inserted, !.seen = @ \cup found, !.done = @ \cup {b}]
      BY <1>0, <2>1 DEF PassType
    <2> HIDE DEF touched, inserted
    <2>5. QED
      BY <1>0, <2>2, <2>3, <2>4 DEF PassType
  <1>4. ASSUME NEW b \in Brands, BrandFails(b) PROVE pass' \in PassType
    <2> DEFINE todo == IF aborts(pass.streak + 1) THEN {} ELSE pass.todo \ {b}
    <2>1. todo \in SUBSET Brands
      BY <1>0 DEF PassType
    <2> DEFINE streak == pass.streak + 1
    <2>2. streak \in Nat
      BY <1>0 DEF PassType
    <2>3. pass' = [pass EXCEPT !.todo = todo, !.streak = streak]
      BY <1>0, <1>4 DEF BrandFails, PassType
    <2> HIDE DEF todo, streak
    <2>4. QED
      BY <1>0, <2>1, <2>2, <2>3 DEF PassType
  <1>5. ASSUME NEW b \in Brands, Regroup(b) \/ Record(b) \/ RecordFails(b) PROVE pass' \in PassType
    <2>1. \/ pass' = [pass EXCEPT !.todo = @ \ {b}]
          \/ pass' = [pass EXCEPT !.failed = @ \ {b}, !.done = @ \ {b}]
      BY <1>5 DEF Regroup, Record, RecordFails, Wrote
    <2>2. CASE pass' = [pass EXCEPT !.todo = @ \ {b}]
      BY <1>0, <2>2 DEF PassType
    <2>3. CASE pass' = [pass EXCEPT !.failed = @ \ {b}, !.done = @ \ {b}]
      BY <1>0, <2>3 DEF PassType
    <2>4. QED
      BY <2>1, <2>2, <2>3
  <1>6. CASE Collected \/ FindDeals \/ JudgeFails
    <2>1. CASE Collected
      <3> DEFINE pc == IF pass.touched = {} THEN "record" ELSE "judge"
      <3>1. pass' = [pass EXCEPT !.pc = pc, !.todo = pass.inserted] /\ pc \in {"record", "judge"}
        BY <2>1 DEF Collected
      <3> HIDE DEF pc
      <3>2. QED
        BY <1>0, <3>1 DEF PassType
    <2>2. CASE FindDeals
      <3>1. pass' = [pass EXCEPT !.pc = "record"]
        BY <2>2 DEF FindDeals
      <3>2. QED
        BY <1>0, <3>1 DEF PassType
    <2>3. CASE JudgeFails
      <3>1. pass' = [pass EXCEPT !.pc = "record", !.todo = {}, !.failed = pass.touched,
                                 !.done = @ \ pass.touched]
        BY <2>3 DEF JudgeFails, undone
      <3>2. QED
        BY <1>0, <3>1 DEF PassType
    <2>4. QED
      BY <1>6, <2>1, <2>2, <2>3
  <1>7. CASE PassEnds \/ Crash
    BY <1>7, IdleIsAPass DEF PassEnds, Crash
  <1>8. \/ UNCHANGED pass \/ Collected \/ FindDeals \/ JudgeFails \/ PassEnds \/ Crash
        \/ \E scope \in SUBSET Brands : Start(scope)
        \/ \E b \in Brands : PassSteps(b)
    BY StepKinds DEF vars, Tick, Change, Index, Collects, RegroupElsewhere
  <1>9. QED
    BY <1>1, <1>2, <1>3, <1>4, <1>5, <1>6, <1>7, <1>8 DEF PassSteps

LEMMA CursorsTyped ==
    ASSUME TypeInv, NEW b \in Brands, BrandFails(b) \/ Record(b)
    PROVE  /\ scanned_to' \in [Brands -> Nat]
           /\ \A other \in Brands : other # b => scanned_to'[other] = scanned_to[other]
           /\ \/ scanned_to'[b] = scanned_to[b]
              \/ scanned_to'[b] = mark_failed(b)
              \/ Record(b) /\ b \notin pass.failed /\ scanned_to'[b] = pass.started
           /\ Record(b) /\ b \in pass.failed => scanned_to'[b] = mark_failed(b)
  <1>0. /\ scanned_to \in [Brands -> Nat] /\ pass.started \in Nat /\ mark_failed(b) \in Nat
    <2>1. minus(now, LOOKBACK) \in Nat
      BY MinusIsNat, Constants DEF TypeInv
    <2>2. QED
      BY <2>1 DEF TypeInv, PassType, mark_failed
  <1>1. CASE BrandFails(b) /\ ~Record(b)
    <2>1. scanned_to' = scanned_to \/ scanned_to' = [scanned_to EXCEPT ![b] = mark_failed(b)]
      BY <1>1 DEF BrandFails
    <2>2. QED
      BY <1>0, <1>1, <2>1
  <1>2. CASE Record(b)
    <2>1. scanned_to' = [scanned_to EXCEPT ![b] = IF b \in pass.failed THEN mark_failed(b)
                                                                       ELSE pass.started]
      BY <1>2 DEF Record
    <2>2. QED
      BY <1>0, <1>2, <2>1
  <1>3. QED
    BY <1>1, <1>2

(* What a step does to a listing: its document, what is stored and judged.   *)
Restored(l) == stored'[l] = stored[l] \/ stored'[l] = changed(index[l])
Rejudged(l) == judged'[l] = judged[l] \/ judged'[l] = stored[l]

LEMMA ListingSteps ==
    ASSUME TypeInv, [Next]_vars
    PROVE  /\ UNCHANGED market \/ \E l \in Listings : Change(l)
           /\ UNCHANGED index \/ \E l \in Listings : Index(l)
           /\ stored' \in [Listings -> Nat] /\ \A l \in Listings : Restored(l)
           /\ judged' \in [Listings -> Nat] /\ \A l \in Listings : Rejudged(l)
           /\ now' = now \/ Tick
  <1>0. /\ stored \in [Listings -> Nat] /\ judged \in [Listings -> Nat]
        /\ \A l \in Listings : changed(index[l]) \in Nat
    BY ChangedIsLast DEF TypeInv
  <1>1. UNCHANGED market \/ \E l \in Listings : Change(l)
    BY StepKinds DEF vars, Tick, Collected, FindDeals, PassEnds, JudgeFails, Crash, Index, Start,
       PassSteps, FetchAndStore, BrandFails, Regroup, Record, RecordFails, RegroupElsewhere, Collects
  <1>2. UNCHANGED index \/ \E l \in Listings : Index(l)
    BY StepKinds DEF vars, Tick, Collected, FindDeals, PassEnds, JudgeFails, Crash, Change, Start,
       PassSteps, FetchAndStore, BrandFails, Regroup, Record, RecordFails, RegroupElsewhere, Collects
  <1>3. \/ UNCHANGED stored
        \/ \E found : stored' = [l \in Listings |-> IF l \in found THEN changed(index[l])
                                                               ELSE stored[l]]
    BY StepKinds DEF vars, Tick, Collected, FindDeals, PassEnds, JudgeFails, Crash, Change, Start,
       Index, PassSteps, FetchAndStore, BrandFails, Regroup, Record, RecordFails,
       RegroupElsewhere, Collects
  <1>4. stored' \in [Listings -> Nat] /\ \A l \in Listings : Restored(l)
    BY <1>0, <1>3 DEF Restored
  <1>5. \/ UNCHANGED judged
        \/ judged' = [l \in Listings |-> IF l \in examined THEN stored[l] ELSE judged[l]]
    BY StepKinds DEF vars, Tick, Collected, FindDeals, PassEnds, JudgeFails, Crash, Change, Start,
       Index, PassSteps, FetchAndStore, BrandFails, Regroup, Record, RecordFails,
       RegroupElsewhere, Collects
  <1>6. judged' \in [Listings -> Nat] /\ \A l \in Listings : Rejudged(l)
    BY <1>0, <1>5 DEF Rejudged
  <1>7. now' = now \/ Tick
    BY StepKinds DEF vars, Collected, FindDeals, PassEnds, JudgeFails, Crash, Change, Start,
       Index, PassSteps, FetchAndStore, BrandFails, Regroup, Record, RecordFails,
       RegroupElsewhere, Collects
  <1>8. QED
    BY <1>1, <1>2, <1>4, <1>6, <1>7

LEMMA CursorSteps ==
    ASSUME TypeInv, [Next]_vars
    PROVE  /\ UNCHANGED scanned_to \/ \E b \in Brands : BrandFails(b) \/ Record(b)
           /\ \/ UNCHANGED missed \/ \E l \in Listings : Change(l)
              \/ \E set : \E why \in {"old", "truncated", "no model"} : missed' = GivenUp(set, why)
  <1>1. UNCHANGED scanned_to \/ \E b \in Brands : BrandFails(b) \/ Record(b)
    BY StepKinds DEF vars, Tick, Collected, FindDeals, PassEnds, JudgeFails, Crash, Change, Start,
       Index, PassSteps, FetchAndStore, Regroup, RecordFails, RegroupElsewhere, Collects
  <1>2. ASSUME NEW b \in Brands, FetchAndStore(b)
        PROVE  \E set : \E why \in {"old", "truncated", "no model"} : missed' = GivenUp(set, why)
    BY <1>2 DEF FetchAndStore
  <1>3. ASSUME NEW b \in Brands, BrandFails(b) \/ Record(b)
        PROVE  UNCHANGED missed \/ missed' = GivenUp(Old, "old")
    BY <1>3 DEF BrandFails, Record
  <1>4. ASSUME NEW scope \in SUBSET Brands, Start(scope) PROVE missed' = GivenUp(Old, "old")
    BY <1>4 DEF Start
  <1>5. FindDeals => \E set : missed' = GivenUp(set, "no model")
    BY DEF FindDeals
  <1>6. \/ UNCHANGED missed \/ FindDeals
        \/ \E l \in Listings : Change(l)
        \/ \E scope \in SUBSET Brands : Start(scope)
        \/ \E b \in Brands : FetchAndStore(b) \/ BrandFails(b) \/ Record(b)
    BY StepKinds DEF vars, Tick, Collected, PassEnds, JudgeFails, Crash,
       Index, PassSteps, Regroup, RecordFails, RegroupElsewhere, Collects
  <1>7. QED
    BY <1>1, <1>2, <1>3, <1>4, <1>5, <1>6

LEMMA ChangedNow ==
    ASSUME TypeInv, KnownInv, NEW l \in Listings, Change(l)
    PROVE  /\ market' \in [Listings -> DocType]
           /\ \A k \in Listings \ {l} : market'[k] = market[k]
           /\ changed(market'[l]) = now /\ market'[l].created <= now /\ market'[l].repriced <= now
  <1>0. market[l] \in DocType /\ now \in Nat /\ Known(l) /\ market \in [Listings -> DocType]
    BY DEF TypeInv, KnownInv
  <1> DEFINE doc == IF market[l].created = 0 THEN [market[l] EXCEPT !.created = now]
                                             ELSE [market[l] EXCEPT !.repriced = now]
  <1>1. market' = [market EXCEPT ![l] = doc]
    BY <1>0 DEF Change
  <1>2. /\ doc \in DocType /\ doc.created <= now /\ doc.repriced <= now
        /\ doc.created = now \/ doc.repriced = now
    BY <1>0 DEF DocType, Known
  <1> HIDE DEF doc
  <1>3. changed(doc) = now
    <2>1. changed(doc) \in {doc.created, doc.repriced} /\ changed(doc) >= doc.created
          /\ changed(doc) >= doc.repriced
      BY <1>2, ChangedIsLast
    <2>2. QED
      BY <1>0, <1>2, <2>1 DEF DocType
  <1>4. QED
    BY <1>0, <1>1, <1>2, <1>3

LEMMA Typed ==
    ASSUME TypeInv, KnownInv, [Next]_vars PROVE TypeInv'
  <1>1. now' \in Nat
    <2>1. now' = now \/ now' = now + 1
      BY ListingSteps DEF Tick
    <2>2. now \in Nat
      BY DEF TypeInv
    <2>3. QED
      BY <2>1, <2>2
  <1>2. market' \in [Listings -> DocType]
    BY ListingSteps, ChangedNow DEF TypeInv
  <1>3. index' \in [Listings -> DocType]
    BY ListingSteps DEF Index, TypeInv
  <1>4. scanned_to' \in [Brands -> Nat]
    BY CursorSteps, CursorsTyped DEF TypeInv
  <1>5. missed' \in [Listings -> {"no", "old", "truncated", "no model"}]
    BY CursorSteps, Given DEF TypeInv, Change
  <1>6. QED
    BY <1>1, <1>2, <1>3, <1>4, <1>5, ListingSteps, PassTyped DEF TypeInv

LEMMA KnownKept ==
    ASSUME TypeInv, KnownInv, [Next]_vars PROVE KnownInv'
  <1> SUFFICES ASSUME NEW l \in Listings PROVE Known(l)'
    BY DEF KnownInv
  <1>0. /\ Known(l) /\ now \in Nat /\ stored[l] \in Nat /\ judged[l] \in Nat
        /\ stored'[l] \in Nat /\ judged'[l] \in Nat
        /\ market[l] \in DocType /\ index[l] \in DocType
        /\ c(l) \in Nat /\ changed(index[l]) \in Nat
    BY ListingSteps, ChangedIsLast DEF KnownInv, TypeInv, c
  <1>1. judged'[l] <= stored'[l] /\ stored'[l] <= changed(index[l])
    BY <1>0, ListingSteps DEF Known, Restored, Rejudged
  <1>2. ASSUME NEW k \in Listings, Change(k) PROVE Known(l)'
    <2>1. index' = index /\ now' = now /\ changed(market[k]) < now
      BY <1>2 DEF Change
    <2>2. CASE k # l
      <3>1. market'[l] = market[l]
        BY <1>2, <2>2, ChangedNow
      <3>2. QED
        BY <1>0, <1>1, <2>1, <3>1 DEF Known, c
    <2>3. CASE k = l
      <3>1. /\ changed(market'[l]) = now /\ market'[l].created <= now
            /\ market'[l].repriced <= now
        BY <1>2, <2>3, ChangedNow
      <3>2. c(l) < now
        BY <2>1, <2>3 DEF c
      <3>3. QED
        BY <1>0, <1>1, <2>1, <3>1, <3>2, Constants DEF Known, c
    <2>4. QED
      BY <2>2, <2>3
  <1>3. CASE UNCHANGED market
    <2>1. CASE Tick
      <3>1. index' = index /\ now' = now + 1
            /\ (index[l] = market[l] \/ now + 1 < changed(market[l]) + Lag)
        BY <2>1 DEF Tick
      <3>2. QED
        BY <1>0, <1>1, <1>3, <3>1, Constants DEF Known, c, DocType
    <2>2. ASSUME NEW k \in Listings, Index(k), now' = now PROVE Known(l)'
      <3>1. index'[l] = index[l] \/ index'[l] = market[l]
        BY <2>2 DEF Index, TypeInv
      <3>2. QED
        BY <1>0, <1>1, <1>3, <2>2, <3>1 DEF Known, c
    <2>3. CASE UNCHANGED index /\ now' = now
      BY <1>0, <1>1, <1>3, <2>3 DEF Known, c
    <2>4. Tick => UNCHANGED index
      BY DEF Tick
    <2>5. QED
      BY <2>1, <2>2, <2>3, <2>4, ListingSteps
  <1>4. QED
    BY <1>2, <1>3, ListingSteps

------------------------------------------------------------------------------
(* What a step makes of the pass. *)

Same == /\ pass'.started = pass.started /\ pass'.since = pass.since
        /\ pass'.touched = pass.touched /\ pass'.seen = pass.seen

LEMMA Fields ==
    ASSUME TypeInv
    PROVE  /\ \A scope \in SUBSET Brands : Start(scope) =>
                 /\ pass.pc = "idle" /\ pass'.pc = "collect" /\ pass'.started = now
                 /\ pass'.todo = scope /\ pass'.done = {} /\ pass'.seen = {}
                 /\ \A b \in scope : pass'.since[b] = since(b)
           /\ \A b \in Brands : FetchAndStore(b) =>
                 /\ pass.pc = "collect" /\ pass'.pc = "collect" /\ b \in pass.todo
                 /\ pass'.started = pass.started /\ pass'.since = pass.since
                 /\ pass'.todo = pass.todo \ {b} /\ pass'.done = pass.done \cup {b}
                 /\ pass.touched \subseteq pass'.touched
                 /\ \E found \in SUBSET Window(b) :
                      /\ pass'.seen = pass.seen \cup found
                      /\ found # {} => b \in pass'.touched
                      /\ stored' = [l \in Listings |-> IF l \in found THEN changed(index[l])
                                                                   ELSE stored[l]]
                      /\ missed' = GivenUp(Window(b) \ found, "truncated")
           /\ \A b \in Brands : BrandFails(b) =>
                 /\ pass.pc = "collect" /\ pass'.pc = "collect" /\ b \in pass.todo
                 /\ Same /\ pass'.done = pass.done /\ pass'.todo \subseteq pass.todo \ {b}
           /\ Collected =>
                 /\ pass.pc = "collect" /\ Same /\ pass'.done = pass.done
                 /\ pass'.pc \in {"judge", "record"}
                 /\ pass'.pc = "record" => pass.touched = {}
           /\ \A b \in Brands : Regroup(b) =>
                 pass.pc = "judge" /\ pass'.pc = "judge" /\ Same /\ pass'.done = pass.done
           /\ FindDeals =>
                 pass.pc = "judge" /\ pass'.pc = "record" /\ Same /\ pass'.done = pass.done
           /\ JudgeFails =>
                 /\ pass.pc = "judge" /\ pass'.pc = "record" /\ Same
                 /\ pass'.done = pass.done \ pass.touched
           /\ \A b \in Brands : Record(b) \/ RecordFails(b) =>
                 /\ pass.pc = "record" /\ pass'.pc = "record" /\ Same
                 /\ pass'.done \subseteq pass.done
           /\ PassEnds \/ Crash => pass'.pc = "idle"
  <1>0. pass \in PassType
    BY DEF TypeInv
  <1>1. ASSUME NEW scope \in SUBSET Brands, Start(scope)
        PROVE  /\ pass.pc = "idle" /\ pass'.pc = "collect" /\ pass'.started = now
               /\ pass'.todo = scope /\ pass'.done = {} /\ pass'.seen = {}
               /\ \A b \in scope : pass'.since[b] = since(b)
    BY <1>1 DEF Start, Idle
  <1>2. ASSUME NEW b \in Brands, FetchAndStore(b)
        PROVE  /\ pass.pc = "collect" /\ pass'.pc = "collect" /\ b \in pass.todo
               /\ pass'.started = pass.started /\ pass'.since = pass.since
               /\ pass'.todo = pass.todo \ {b} /\ pass'.done = pass.done \cup {b}
               /\ pass.touched \subseteq pass'.touched
               /\ \E found \in SUBSET Window(b) :
                    /\ pass'.seen = pass.seen \cup found
                    /\ found # {} => b \in pass'.touched
                    /\ stored' = [l \in Listings |-> IF l \in found THEN changed(index[l])
                                                                 ELSE stored[l]]
                    /\ missed' = GivenUp(Window(b) \ found, "truncated")
    <2> DEFINE new(found) == {l \in found : stored[l] = 0}
               Without(set, found) == IF found = {} THEN set ELSE set \cup {b}
    <2>1. PICK found \in SUBSET Window(b) :
             /\ stored' = [l \in Listings |-> IF l \in found THEN changed(index[l]) ELSE stored[l]]
             /\ missed' = GivenUp(Window(b) \ found, "truncated")
             /\ pass' = [pass EXCEPT
                        !.todo = @ \ {b}, !.streak = 0,
                        !.touched = Without(@, found), !.inserted = Without(@, new(found)),
                        !.seen = @ \cup found, !.done = @ \cup {b}]
      BY <1>2 DEF FetchAndStore
    <2>2. pass.pc = "collect" /\ b \in pass.todo
      BY <1>2 DEF FetchAndStore, Foremost
    <2>3. /\ pass'.pc = pass.pc /\ pass'.started = pass.started /\ pass'.since = pass.since
          /\ pass'.todo = pass.todo \ {b} /\ pass'.done = pass.done \cup {b}
          /\ pass'.seen = pass.seen \cup found /\ pass'.touched = Without(pass.touched, found)
      BY <1>0, <2>1 DEF PassType
    <2>4. pass.touched \subseteq pass'.touched /\ (found # {} => b \in pass'.touched)
      BY <2>3
    <2>5. \E set \in SUBSET Window(b) :
             /\ pass'.seen = pass.seen \cup set
             /\ set # {} => b \in pass'.touched
             /\ stored' = [l \in Listings |-> IF l \in set THEN changed(index[l]) ELSE stored[l]]
             /\ missed' = GivenUp(Window(b) \ set, "truncated")
      <3>1. WITNESS found \in SUBSET Window(b)
      <3>2. QED
        BY <2>1, <2>3, <2>4
    <2>6. QED
      BY <2>2, <2>3, <2>4, <2>5
  <1>3. ASSUME NEW b \in Brands, BrandFails(b)
        PROVE  /\ pass.pc = "collect" /\ pass'.pc = "collect" /\ b \in pass.todo
               /\ Same /\ pass'.done = pass.done /\ pass'.todo \subseteq pass.todo \ {b}
    <2>1. pass' = [pass EXCEPT !.todo = IF aborts(pass.streak + 1) THEN {} ELSE @ \ {b},
                               !.streak = @ + 1]
          /\ pass.pc = "collect" /\ b \in pass.todo
      BY <1>3 DEF BrandFails, Foremost
    <2>2. QED
      BY <1>0, <2>1 DEF Same, PassType
  <1>4. ASSUME Collected
        PROVE  /\ pass.pc = "collect" /\ Same /\ pass'.done = pass.done
               /\ pass'.pc \in {"judge", "record"}
               /\ pass'.pc = "record" => pass.touched = {}
    BY <1>0, <1>4 DEF Collected, Same, PassType
  <1>5. ASSUME NEW b \in Brands, Regroup(b)
        PROVE  pass.pc = "judge" /\ pass'.pc = "judge" /\ Same /\ pass'.done = pass.done
    BY <1>0, <1>5 DEF Regroup, Same, PassType
  <1>6. ASSUME FindDeals
        PROVE  pass.pc = "judge" /\ pass'.pc = "record" /\ Same /\ pass'.done = pass.done
    BY <1>0, <1>6 DEF FindDeals, Same, PassType
  <1>7. ASSUME JudgeFails
        PROVE  /\ pass.pc = "judge" /\ pass'.pc = "record" /\ Same
               /\ pass'.done = pass.done \ pass.touched
    BY <1>0, <1>7 DEF JudgeFails, undone, Same, PassType
  <1>8. ASSUME NEW b \in Brands, Record(b) \/ RecordFails(b)
        PROVE  /\ pass.pc = "record" /\ pass'.pc = "record" /\ Same
               /\ pass'.done \subseteq pass.done
    <2>1. pass' = [pass EXCEPT !.failed = @ \ {b}, !.done = @ \ {b}] /\ pass.pc = "record"
      BY <1>8 DEF Record, RecordFails, Wrote
    <2>2. QED
      BY <1>0, <2>1 DEF Same, PassType
  <1>9. PassEnds \/ Crash => pass'.pc = "idle"
    BY DEF PassEnds, Crash, Idle
  <1>10. QED
    BY <1>1, <1>2, <1>3, <1>4, <1>5, <1>6, <1>7, <1>8, <1>9

(* The steps that leave the pass and the cursors alone.                      *)
LEMMA PassMoves ==
    ASSUME TypeInv, [Next]_vars
    PROVE  \/ UNCHANGED <<pass, scanned_to>>
           \/ Collected \/ FindDeals \/ PassEnds \/ JudgeFails \/ Crash
           \/ \E scope \in SUBSET Brands : Start(scope)
           \/ \E b \in Brands : PassSteps(b)
  BY StepKinds DEF vars, Tick, Change, Index, RegroupElsewhere, Collects

------------------------------------------------------------------------------
(* What stays. *)

(* A change that is owed was there before the step, and what is settled or   *)
(* stored of it stays so.                                                    *)
LEMMA Kept ==
    ASSUME TypeInv, KnownInv, [Next]_vars, NEW l \in Listings, NEW t \in Nat, t <= now,
           c(l)' # 0, c(l)' + OVERLAP <= t
    PROVE  /\ c(l)' = c(l) /\ Owed(l, t)
           /\ Settled(l) => Settled(l)'
           /\ stored[l] = c(l) => stored'[l] = c(l)
           /\ index[l] = market[l]
  <1>0. /\ Known(l) /\ now \in Nat /\ stored[l] \in Nat /\ judged[l] \in Nat
        /\ stored'[l] \in Nat /\ judged'[l] \in Nat
        /\ market[l] \in DocType /\ index[l] \in DocType
        /\ c(l) \in Nat /\ changed(index[l]) \in Nat /\ OVERLAP \in Nat /\ OVERLAP > 0
    BY ListingSteps, ChangedIsLast, Constants DEF KnownInv, TypeInv, c
  <1>1. ~Change(l)
    <2> SUFFICES ASSUME Change(l) PROVE FALSE
      OBVIOUS
    <2>1. c(l)' = now
      BY ChangedNow DEF c
    <2>2. QED
      BY <1>0, <2>1
  <1>2. c(l)' = c(l) /\ (missed[l] # "no" => missed'[l] # "no")
    <2>1. ASSUME NEW k \in Listings, Change(k) PROVE c(l)' = c(l) /\ missed'[l] = missed[l]
      <3>1. k # l
        BY <1>1, <2>1
      <3>2. market'[l] = market[l]
        BY <2>1, <3>1, ChangedNow
      <3>3. missed' = [missed EXCEPT ![k] = "no"]
        BY <2>1 DEF Change
      <3>4. QED
        BY <3>1, <3>2, <3>3 DEF c, TypeInv
    <2>2. ASSUME ~\E k \in Listings : Change(k) PROVE c(l)' = c(l)
      BY <2>2, ListingSteps DEF c
    <2>3. ASSUME ~\E k \in Listings : Change(k), missed[l] # "no" PROVE missed'[l] # "no"
      BY <2>3, CursorSteps, Given
    <2>4. QED
      BY <2>1, <2>2, <2>3
  <1>3. judged[l] = c(l) => judged'[l] = c(l)
    BY <1>0, ListingSteps DEF Rejudged, Known
  <1>4. stored[l] = c(l) => stored'[l] = c(l)
    BY <1>0, ListingSteps DEF Restored, Known
  <1>5. Owed(l, t)
    BY <1>2 DEF Owed
  <1>6. index[l] = market[l]
    BY <1>0, <1>2 DEF Known
  <1>7. QED
    BY <1>2, <1>3, <1>4, <1>5, <1>6 DEF Settled

(* A change that is given up as old, or judged already.                      *)
LEMMA OldIsSettled ==
    ASSUME TypeInv, KnownInv, NEW l \in Listings, missed' = GivenUp(Old, "old"),
           UNCHANGED <<market, judged>>, c(l) <= minus(now, LOOKBACK)
    PROVE  Settled(l)'
  <1>1. l \in Old
    BY DEF Old, c
  <1>2. Known(l) /\ judged[l] \in Nat /\ c(l) \in Nat
    BY ChangedIsLast DEF KnownInv, TypeInv, c
  <1>3. stored[l] \in Nat /\ changed(index[l]) \in Nat
    BY ChangedIsLast DEF TypeInv
  <1>4. judged[l] = c(l) \/ judged[l] < c(l)
    BY <1>2, <1>3 DEF Known
  <1>5. CASE judged[l] < c(l)
    <2>1. missed'[l] # "no"
      BY <1>1, <1>5, Given DEF c
    <2>2. QED
      BY <2>1 DEF Settled
  <1>6. CASE judged[l] = c(l)
    BY <1>6 DEF Settled, c
  <1>7. QED
    BY <1>4, <1>5, <1>6

(* The time a failed brand's row gets leaves nothing behind.                 *)
LEMMA FailedCursor ==
    ASSUME TypeInv, KnownInv, CursorInv, CursorsSettle, [Next]_vars, NEW b \in Brands,
           missed' = GivenUp(Old, "old"), UNCHANGED <<now, market, judged>>
    PROVE  /\ mark_failed(b) \in Nat /\ mark_failed(b) <= now
           /\ \A l \in Listings :
                BrandOf(l) = b /\ Owed(l, mark_failed(b)) => Settled(l)'
  <1>0. /\ now \in Nat /\ LOOKBACK \in Nat /\ scanned_to[b] \in Nat /\ scanned_to[b] <= now
        /\ minus(now, LOOKBACK) \in Nat /\ minus(now, LOOKBACK) <= now
    BY MinusIsNat, Constants DEF TypeInv, CursorInv
  <1>1. mark_failed(b) \in Nat /\ mark_failed(b) <= now
    BY <1>0 DEF mark_failed
  <1>2. ASSUME NEW l \in Listings, BrandOf(l) = b, Owed(l, mark_failed(b)) PROVE Settled(l)'
    <2>0. c(l) \in Nat /\ c(l)' = c(l) /\ OVERLAP \in Nat
      BY ChangedIsLast, Constants DEF TypeInv, c
    <2>1. CASE scanned_to[b] = 0
      <3>1. c(l) <= minus(now, LOOKBACK)
        BY <1>0, <1>2, <2>0, <2>1 DEF Owed, mark_failed
      <3>2. QED
        BY <3>1, OldIsSettled
    <2>2. CASE scanned_to[b] # 0
      <3>1. Owed(l, scanned_to[b])
        BY <1>2, <2>2 DEF mark_failed
      <3>2. Settled(l)
        BY <1>2, <3>1 DEF CursorsSettle
      <3>3. QED
        BY <1>0, <2>0, <3>1, <3>2, Kept DEF Owed
    <2>3. QED
      BY <2>1, <2>2
  <1>3. QED
    BY <1>1, <1>2

------------------------------------------------------------------------------
(* The cursors. *)

LEMMA CursorsKept ==
    ASSUME ScanInv, [Next]_vars PROVE CursorInv' /\ CursorsSettle'
  <1>0. TypeInv /\ KnownInv /\ CursorInv /\ CursorsSettle /\ PassInv
    BY DEF ScanInv
  <1>1. now \in Nat /\ now' \in Nat /\ now <= now' /\ pass \in PassType
        /\ scanned_to \in [Brands -> Nat]
    <2>1. now' = now \/ now' = now + 1
      BY <1>0, ListingSteps DEF Tick
    <2>2. now \in Nat
      BY <1>0 DEF TypeInv
    <2>3. pass \in PassType /\ scanned_to \in [Brands -> Nat]
      BY <1>0 DEF TypeInv
    <2>4. QED
      BY <2>1, <2>2, <2>3
  <1>2. ASSUME NEW b \in Brands
        PROVE  /\ scanned_to'[b] \in Nat /\ scanned_to'[b] <= now
               /\ \A l \in Listings :
                    BrandOf(l) = b /\ c(l)' # 0 /\ c(l)' + OVERLAP <= scanned_to'[b] => Settled(l)'
    <2>0. scanned_to[b] \in Nat /\ scanned_to[b] <= now
      BY <1>0, <1>1 DEF CursorInv
    <2>1. CASE scanned_to'[b] = scanned_to[b]
      <3>1. ASSUME NEW l \in Listings, BrandOf(l) = b, c(l)' # 0,
                   c(l)' + OVERLAP <= scanned_to[b]
            PROVE  Settled(l)'
        <4>1. Owed(l, scanned_to[b]) /\ (Settled(l) => Settled(l)')
          BY <1>0, <2>0, <3>1, Kept
        <4>2. QED
          BY <1>0, <3>1, <4>1 DEF CursorsSettle
      <3>2. QED
        BY <2>0, <2>1, <3>1
    <2>2. ASSUME missed' = GivenUp(Old, "old"), UNCHANGED <<now, market, judged>>,
                 scanned_to'[b] = mark_failed(b)
          PROVE  /\ scanned_to'[b] \in Nat /\ scanned_to'[b] <= now
                 /\ \A l \in Listings :
                    BrandOf(l) = b /\ c(l)' # 0 /\ c(l)' + OVERLAP <= scanned_to'[b] => Settled(l)'
      <3>1. /\ mark_failed(b) \in Nat /\ mark_failed(b) <= now
            /\ \A l \in Listings : BrandOf(l) = b /\ Owed(l, mark_failed(b)) => Settled(l)'
        BY <1>0, <2>2, FailedCursor
      <3>2. \A l \in Listings : c(l)' = c(l)
        BY <2>2 DEF c
      <3>3. QED
        BY <2>2, <3>1, <3>2 DEF Owed
    <2>3. ASSUME Record(b), b \notin pass.failed, scanned_to'[b] = pass.started
          PROVE  /\ scanned_to'[b] \in Nat /\ scanned_to'[b] <= now
                 /\ \A l \in Listings :
                    BrandOf(l) = b /\ c(l)' # 0 /\ c(l)' + OVERLAP <= scanned_to'[b] => Settled(l)'
      <3>1. pass.pc = "record" /\ b \in pass.done
        BY <2>3 DEF Record, Foremost
      <3>2. pass.started \in Nat /\ pass.started <= now
        BY <1>0, <1>1, <3>1 DEF PassType, CursorInv
      <3>3. ASSUME NEW l \in Listings, BrandOf(l) = b, c(l)' # 0,
                   c(l)' + OVERLAP <= pass.started
            PROVE  Settled(l)'
        <4>1. Owed(l, pass.started) /\ (Settled(l) => Settled(l)')
          BY <1>0, <3>2, <3>3, Kept
        <4>2. Recording(l)
          BY <1>0, <3>1 DEF PassInv
        <4>3. QED
          BY <3>1, <3>3, <4>1, <4>2 DEF Recording
      <3>4. QED
        BY <2>3, <3>2, <3>3
    <2>4. ASSUME scanned_to'[b] # scanned_to[b]
          PROVE  \/ /\ missed' = GivenUp(Old, "old") /\ UNCHANGED <<now, market, judged>>
                    /\ scanned_to'[b] = mark_failed(b)
                 \/ Record(b) /\ b \notin pass.failed /\ scanned_to'[b] = pass.started
      <3>1. PICK a \in Brands : BrandFails(a) \/ Record(a)
        BY <1>0, <2>4, CursorSteps
      <3>2. a = b
        BY <1>0, <2>4, <3>1, CursorsTyped
      <3>3. CASE Record(b) /\ b \in pass.failed
        <4>1. scanned_to'[b] = mark_failed(b)
          BY <1>0, <3>3, CursorsTyped
        <4>2. missed' = GivenUp(Old, "old") /\ UNCHANGED <<now, market, judged>>
          BY <3>3 DEF Record
        <4>3. QED
          BY <4>1, <4>2
      <3>4. CASE Record(b) /\ b \notin pass.failed
        <4>1. scanned_to'[b] = pass.started
          BY <1>1, <3>4 DEF Record
        <4>2. QED
          BY <3>4, <4>1
      <3>5. CASE BrandFails(b) /\ ~Record(b)
        <4>1. scanned_to'[b] = mark_failed(b)
          BY <1>0, <2>4, <3>5, CursorsTyped
        <4>2. missed' = GivenUp(Old, "old") /\ UNCHANGED <<now, market, judged>>
          BY <3>5 DEF BrandFails
        <4>3. QED
          BY <4>1, <4>2
      <3>6. QED
        BY <3>1, <3>2, <3>3, <3>4, <3>5
    <2>5. QED
      BY <2>1, <2>2, <2>3, <2>4
  <1>3. CursorsSettle'
    BY <1>2, Constants DEF CursorsSettle, Owed
  <1>4. pass'.pc # "idle" => pass'.started <= now'
    <2>1. ASSUME NEW scope \in SUBSET Brands, Start(scope) PROVE pass'.started = now /\ now' = now
      BY <1>0, <2>1, Fields DEF Start
    <2>2. ASSUME ~\E scope \in SUBSET Brands : Start(scope), pass'.pc # "idle"
          PROVE  pass'.started = pass.started /\ pass.pc # "idle"
      <3>1. \/ UNCHANGED pass \/ Collected \/ FindDeals \/ JudgeFails
            \/ \E b \in Brands : PassSteps(b)
        BY <1>0, <2>2, PassMoves, Fields
      <3>2. QED
        BY <1>0, <2>2, <3>1, Fields DEF PassSteps, Same
    <2>3. CASE \E scope \in SUBSET Brands : Start(scope)
      BY <1>1, <2>1, <2>3
    <2>4. CASE ~\E scope \in SUBSET Brands : Start(scope)
      <3> SUFFICES ASSUME pass'.pc # "idle" PROVE pass'.started <= now'
        OBVIOUS
      <3>1. pass'.started = pass.started /\ pass.started <= now /\ pass.started \in Nat
        BY <1>0, <1>1, <2>2, <2>4 DEF CursorInv, PassType
      <3>2. QED
        BY <1>1, <3>1
    <2>5. QED
      BY <2>3, <2>4
  <1>5. \A b \in Brands : scanned_to'[b] <= now'
    BY <1>1, <1>2
  <1>6. QED
    BY <1>3, <1>4, <1>5 DEF CursorInv

------------------------------------------------------------------------------
(* The pass. *)

(* What every step of the pass keeps of a change that is owed.               *)
LEMMA KeptInPass ==
    ASSUME ScanInv, [Next]_vars, NEW l \in Listings, pass.pc # "idle",
           c(l)' # 0, c(l)' + OVERLAP <= pass.started
    PROVE  /\ c(l)' = c(l) /\ Owed(l, pass.started) /\ index[l] = market[l]
           /\ Settled(l) => Settled(l)'
           /\ stored[l] = c(l) => stored'[l] = c(l)
  <1>1. pass.started \in Nat /\ pass.started <= now
    BY DEF ScanInv, TypeInv, PassType, CursorInv
  <1>2. QED
    BY <1>1, Kept DEF ScanInv

LEMMA StartReads ==
    ASSUME ScanInv, [Next]_vars, NEW scope \in SUBSET Brands, Start(scope), NEW l \in Listings
    PROVE  Reading(l)' /\ Seen(l)' /\ Judging(l)'
  <1>0. TypeInv /\ KnownInv /\ CursorInv /\ CursorsSettle
    BY DEF ScanInv
  <1>1. /\ pass'.pc = "collect" /\ pass'.started = now
        /\ pass'.todo = scope /\ pass'.done = {} /\ pass'.seen = {}
        /\ \A b \in scope : pass'.since[b] = since(b)
    BY <1>0, Fields
  <1>2. /\ UNCHANGED <<now, market, index, stored, scanned_to, judged>>
        /\ missed' = GivenUp(Old, "old")
    BY DEF Start
  <1> DEFINE b == BrandOf(l)
  <1>3. /\ b \in Brands /\ scanned_to[b] \in Nat /\ scanned_to[b] <= now /\ now \in Nat
        /\ c(l) \in Nat /\ LOOKBACK \in Nat /\ OVERLAP \in Nat /\ c(l)' = c(l)
    BY <1>0, <1>2, ChangedIsLast, Constants DEF TypeInv, CursorInv, c
  <1>4. ASSUME c(l) # 0, c(l) + OVERLAP <= now, c(l) <= since(b) PROVE Settled(l)'
    <2>1. CASE since(b) = minus(now, LOOKBACK)
      BY <1>0, <1>2, <1>4, <2>1, OldIsSettled
    <2>2. CASE since(b) = minus(scanned_to[b], OVERLAP)
      <3>1. Owed(l, scanned_to[b])
        BY <1>3, <1>4, <2>2 DEF Owed, minus
      <3>2. Settled(l)
        BY <1>0, <3>1 DEF CursorsSettle
      <3>3. QED
        BY <1>0, <1>3, <3>1, <3>2, Kept DEF Owed
    <2>3. QED
      BY <1>0, <1>3, <2>1, <2>2, SinceIsNat
  <1>5. Reading(l)'
    <2> SUFFICES ASSUME b \in scope
                 PROVE  /\ scanned_to'[b] <= pass'.started
                        /\ c(l)' # 0 /\ c(l)' + OVERLAP <= pass'.started
                             /\ c(l)' <= pass'.since[b] => Settled(l)'
                        /\ l \notin pass'.seen
      BY <1>1 DEF Reading, Owed
    <2>1. QED
      BY <1>1, <1>2, <1>3, <1>4
  <1>6. QED
    BY <1>1, <1>5 DEF Seen, Judging

LEMMA FetchReads ==
    ASSUME ScanInv, [Next]_vars, NEW b \in Brands, FetchAndStore(b), NEW l \in Listings
    PROVE  Reading(l)' /\ Seen(l)' /\ Judging(l)'
  <1>0. TypeInv /\ KnownInv
    BY DEF ScanInv
  <1>1. /\ pass.pc = "collect" /\ pass'.pc = "collect" /\ b \in pass.todo
        /\ pass'.started = pass.started /\ pass'.since = pass.since
        /\ pass'.todo = pass.todo \ {b} /\ pass'.done = pass.done \cup {b}
        /\ pass.touched \subseteq pass'.touched
    BY <1>0, Fields
  <1>2. PICK found \in SUBSET Window(b) :
          /\ pass'.seen = pass.seen \cup found
          /\ found # {} => b \in pass'.touched
          /\ stored' = [k \in Listings |-> IF k \in found THEN changed(index[k]) ELSE stored[k]]
          /\ missed' = GivenUp(Window(b) \ found, "truncated")
    BY <1>0, Fields
  <1>3. UNCHANGED <<now, market, index, scanned_to, judged>>
    BY DEF FetchAndStore
  <1>4. Reading(l) /\ Seen(l) /\ Judging(l)
    BY <1>1 DEF ScanInv, PassInv
  <1>5. l \in found => BrandOf(l) = b
    BY DEF Window, Of
  <1>6. ASSUME c(l)' # 0, c(l)' + OVERLAP <= pass'.started
        PROVE  /\ c(l)' = c(l) /\ Owed(l, pass.started) /\ index[l] = market[l]
               /\ Settled(l) => Settled(l)'
               /\ stored[l] = c(l) => stored'[l] = c(l)
    BY <1>1, <1>6, KeptInPass
  <1>7. Reading(l)'
    <2> SUFFICES ASSUME BrandOf(l) \in pass'.todo
                 PROVE  /\ scanned_to'[BrandOf(l)] <= pass'.started
                        /\ c(l)' # 0 /\ c(l)' + OVERLAP <= pass'.started
                             /\ c(l)' <= pass'.since[BrandOf(l)] => Settled(l)'
                        /\ l \notin pass'.seen
      BY DEF Reading, Owed
    <2>1. BrandOf(l) \in pass.todo /\ BrandOf(l) # b
      BY <1>1
    <2>2. QED
      BY <1>1, <1>2, <1>3, <1>4, <1>5, <1>6, <2>1 DEF Reading
  <1>8. Seen(l)'
    <2> SUFFICES ASSUME l \in pass'.seen
                 PROVE  /\ BrandOf(l) \in pass'.touched
                        /\ scanned_to'[BrandOf(l)] <= pass'.started
                        /\ c(l)' # 0 /\ c(l)' + OVERLAP <= pass'.started => stored'[l] = c(l)'
      BY DEF Seen, Owed
    <2>1. CASE l \in found
      <3>1. BrandOf(l) = b /\ b \in pass'.touched /\ stored'[l] = changed(index[l])
        BY <1>2, <1>5, <2>1
      <3>2. scanned_to[b] <= pass.started
        BY <1>1, <1>4, <3>1 DEF Reading
      <3>3. QED
        BY <1>1, <1>3, <1>6, <3>1, <3>2 DEF c
    <2>2. CASE l \notin found
      <3>1. l \in pass.seen
        BY <1>2, <2>2
      <3>2. QED
        BY <1>1, <1>3, <1>4, <1>6, <3>1 DEF Seen
    <2>3. QED
      BY <2>1, <2>2
  <1>9. Judging(l)'
    <2> SUFFICES ASSUME BrandOf(l) \in pass'.done, c(l)' # 0,
                        c(l)' + OVERLAP <= pass'.started, l \notin pass'.seen
                 PROVE  Settled(l)'
      BY DEF Judging, Owed
    <2>0. c(l)' = c(l) /\ Owed(l, pass.started) /\ (Settled(l) => Settled(l)')
          /\ l \notin pass.seen /\ l \notin found
      BY <1>2, <1>6
    <2>1. CASE BrandOf(l) \in pass.done
      BY <1>4, <2>0, <2>1 DEF Judging
    <2>2. CASE BrandOf(l) = b
      <3>1. CASE c(l) <= pass.since[b]
        BY <1>1, <1>4, <2>0, <2>2, <3>1 DEF Reading
      <3>2. CASE ~(c(l) <= pass.since[b])
        <4>1. /\ c(l) \in Nat /\ pass.since[b] \in Nat /\ pass.started \in Nat
              /\ OVERLAP \in Nat /\ judged[l] \in Nat /\ stored[l] \in Nat
              /\ changed(index[l]) \in Nat
          BY <1>0, ChangedIsLast, Constants DEF TypeInv, PassType, c
        <4>2. c(l) \in (pass.since[b] + 1)..pass.started
          BY <2>0, <3>2, <4>1 DEF Owed
        <4>3. c(l) \in {index[l].created, index[l].repriced}
          <5>1. index[l] = market[l]
            BY <1>6
          <5>2. market[l] \in DocType
            BY <1>0 DEF TypeInv
          <5>3. QED
            BY <5>1, <5>2, ChangedIsLast DEF c
        <4>4. l \in Window(b) \ found
          BY <2>0, <2>2, <4>2, <4>3 DEF Window, Of
        <4>5. CASE judged[l] < c(l)
          <5>1. missed'[l] # "no"
            BY <1>0, <1>2, <4>4, <4>5, Given DEF c
          <5>2. QED
            BY <5>1 DEF Settled
        <4>6. CASE judged[l] = c(l)
          BY <1>3, <2>0, <4>6 DEF Settled
        <4>7. judged[l] < c(l) \/ judged[l] = c(l)
          BY <1>0, <4>1 DEF KnownInv, Known
        <4>8. QED
          BY <4>5, <4>6, <4>7
      <3>3. QED
        BY <3>1, <3>2
    <2>3. QED
      BY <1>1, <2>1, <2>2
  <1>10. QED
    BY <1>7, <1>8, <1>9

(* A brand that fails is no longer read, and nothing of it was stored.       *)
LEMMA FailureReads ==
    ASSUME ScanInv, [Next]_vars, NEW b \in Brands, BrandFails(b), NEW l \in Listings
    PROVE  Reading(l)' /\ Seen(l)' /\ Judging(l)'
  <1>0. TypeInv
    BY DEF ScanInv
  <1>1. /\ pass.pc = "collect" /\ pass'.pc = "collect" /\ b \in pass.todo
        /\ Same /\ pass'.done = pass.done /\ pass'.todo \subseteq pass.todo \ {b}
    BY <1>0, Fields
  <1>2. Reading(l) /\ Seen(l) /\ Judging(l)
    BY <1>1 DEF ScanInv, PassInv
  <1>3. BrandOf(l) # b => scanned_to'[BrandOf(l)] = scanned_to[BrandOf(l)]
    BY <1>0, CursorsTyped, Constants
  <1>4. ASSUME c(l)' # 0, c(l)' + OVERLAP <= pass'.started
        PROVE  /\ c(l)' = c(l) /\ Owed(l, pass.started)
               /\ Settled(l) => Settled(l)'
               /\ stored[l] = c(l) => stored'[l] = c(l)
    BY <1>1, <1>4, KeptInPass DEF Same
  <1>5. Reading(l)'
    BY <1>1, <1>2, <1>3, <1>4 DEF Reading, Owed, Same
  <1>6. Seen(l)'
    <2> SUFFICES ASSUME l \in pass'.seen
                 PROVE  /\ BrandOf(l) \in pass'.touched
                        /\ scanned_to'[BrandOf(l)] <= pass'.started
                        /\ c(l)' # 0 /\ c(l)' + OVERLAP <= pass'.started => stored'[l] = c(l)'
      BY DEF Seen, Owed
    <2>1. l \in pass.seen /\ BrandOf(l) # b
      BY <1>1, <1>2 DEF Same, Reading
    <2>2. QED
      BY <1>1, <1>2, <1>3, <1>4, <2>1 DEF Seen, Same
  <1>7. Judging(l)'
    BY <1>1, <1>2, <1>4 DEF Judging, Owed, Same
  <1>8. QED
    BY <1>5, <1>6, <1>7

(* find_deals settles what the pass has seen.                                *)
LEMMA JudgementSettles ==
    ASSUME ScanInv, [Next]_vars, FindDeals, NEW l \in Listings
    PROVE  Recording(l)'
  <1>0. TypeInv /\ KnownInv
    BY DEF ScanInv
  <1>1. pass.pc = "judge" /\ pass'.pc = "record" /\ Same /\ pass'.done = pass.done
    BY <1>0, Fields
  <1>2. Seen(l) /\ Judging(l)
    BY <1>1 DEF ScanInv, PassInv
  <1> SUFFICES ASSUME BrandOf(l) \in pass'.done, c(l)' # 0, c(l)' + OVERLAP <= pass'.started
               PROVE  Settled(l)'
    BY DEF Recording, Owed
  <1>3. c(l)' = c(l) /\ Owed(l, pass.started) /\ (Settled(l) => Settled(l)')
    BY <1>1, KeptInPass DEF Same
  <1>4. CASE Settled(l)
    BY <1>3, <1>4
  <1>5. CASE l \in pass.seen /\ ~Settled(l)
    <2>1. stored[l] = c(l)
      BY <1>2, <1>3, <1>5 DEF Seen
    <2>2. judged' = [k \in Listings |-> IF k \in examined THEN stored[k] ELSE judged[k]]
      BY DEF FindDeals
    <2>3. CASE l \in grouped
      <3>1. judged'[l] = c(l)
        BY <1>5, <2>1, <2>2, <2>3 DEF examined
      <3>2. QED
        BY <1>3, <3>1 DEF Settled
    <2>4. CASE l \notin grouped
      <3> DEFINE passedOver == {k \in pass.seen \ grouped : stored[k] = changed(market[k])}
      <3>1. l \in passedOver /\ missed' = GivenUp(passedOver, "no model")
        BY <1>5, <2>1, <2>4 DEF FindDeals, c
      <3> HIDE DEF passedOver
      <3>2. judged[l] < c(l)
        <4>1. judged[l] \in Nat /\ stored[l] \in Nat /\ judged[l] <= stored[l]
          BY <1>0 DEF TypeInv, KnownInv, Known
        <4>2. judged[l] # c(l)
          BY <1>5 DEF Settled
        <4>3. QED
          BY <2>1, <4>1, <4>2
      <3>3. missed'[l] # "no"
        BY <1>0, <3>1, <3>2, Given DEF c
      <3>4. QED
        BY <3>3 DEF Settled
    <2>5. QED
      BY <2>3, <2>4
  <1>6. QED
    BY <1>1, <1>2, <1>3, <1>4, <1>5 DEF Judging

LEMMA PassKept ==
    ASSUME ScanInv, [Next]_vars PROVE PassInv'
  <1> SUFFICES ASSUME NEW l \in Listings
               PROVE  /\ pass'.pc = "collect" => Reading(l)' /\ Seen(l)' /\ Judging(l)'
                      /\ pass'.pc = "judge" => Seen(l)' /\ Judging(l)'
                      /\ pass'.pc = "record" => Recording(l)'
    BY DEF PassInv
  <1> DEFINE Goal == /\ pass'.pc = "collect" => Reading(l)' /\ Seen(l)' /\ Judging(l)'
                     /\ pass'.pc = "judge" => Seen(l)' /\ Judging(l)'
                     /\ pass'.pc = "record" => Recording(l)'
  <1>0. TypeInv /\ pass \in PassType
        /\ (pass.pc = "collect" => Reading(l) /\ Seen(l) /\ Judging(l))
        /\ (pass.pc = "judge" => Seen(l) /\ Judging(l))
        /\ (pass.pc = "record" => Recording(l))
    BY DEF ScanInv, TypeInv, PassInv
  <1>1. CASE UNCHANGED <<pass, scanned_to>>
    <2>1. ASSUME pass.pc # "idle", c(l)' # 0, c(l)' + OVERLAP <= pass'.started
          PROVE  /\ c(l)' = c(l) /\ Owed(l, pass.started)
                 /\ Settled(l) => Settled(l)'
                 /\ stored[l] = c(l) => stored'[l] = c(l)
      BY <1>1, <2>1, KeptInPass
    <2>2. pass.pc # "idle" /\ Reading(l) => Reading(l)'
      BY <1>1, <2>1 DEF Reading, Owed
    <2>3. pass.pc # "idle" /\ Seen(l) => Seen(l)'
      BY <1>1, <2>1 DEF Seen, Owed
    <2>4. pass.pc # "idle" /\ Judging(l) => Judging(l)'
      BY <1>1, <2>1 DEF Judging, Owed
    <2>5. pass.pc # "idle" /\ Recording(l) => Recording(l)'
      BY <1>1, <2>1 DEF Recording, Owed
    <2>6. QED
      BY <1>0, <1>1, <2>2, <2>3, <2>4, <2>5
  <1>2. ASSUME NEW scope \in SUBSET Brands, Start(scope) PROVE Goal
    BY <1>0, <1>2, StartReads, Fields
  <1>3. ASSUME NEW b \in Brands, FetchAndStore(b) PROVE Goal
    BY <1>0, <1>3, FetchReads, Fields
  <1>4. ASSUME NEW b \in Brands, BrandFails(b) PROVE Goal
    BY <1>0, <1>4, FailureReads, Fields
  <1>5. ASSUME Collected PROVE Goal
    <2>1. /\ pass.pc = "collect" /\ Same /\ pass'.done = pass.done
          /\ pass'.pc \in {"judge", "record"} /\ (pass'.pc = "record" => pass.touched = {})
      BY <1>0, <1>5, Fields
    <2>2. UNCHANGED <<scanned_to, stored, market, judged, missed>>
      BY <1>5 DEF Collected
    <2>3. Seen(l)' /\ Judging(l)'
      BY <1>0, <2>1, <2>2 DEF Seen, Judging, Owed, Settled, Same, c
    <2>4. pass'.pc = "record" => Recording(l)'
      BY <2>1, <2>3 DEF Seen, Judging, Recording, Same
    <2>5. QED
      BY <2>1, <2>3, <2>4
  <1>6. ASSUME NEW b \in Brands, Regroup(b) PROVE Goal
    <2>1. pass.pc = "judge" /\ pass'.pc = "judge" /\ Same /\ pass'.done = pass.done
      BY <1>0, <1>6, Fields
    <2>2. UNCHANGED <<scanned_to, stored, market, judged, missed>>
      BY <1>6 DEF Regroup
    <2>3. Seen(l)' /\ Judging(l)'
      BY <1>0, <2>1, <2>2 DEF Seen, Judging, Owed, Settled, Same, c
    <2>4. QED
      BY <2>1, <2>3
  <1>7. ASSUME FindDeals PROVE Goal
    BY <1>0, <1>7, JudgementSettles, Fields
  <1>8. ASSUME JudgeFails PROVE Goal
    <2>1. /\ pass.pc = "judge" /\ pass'.pc = "record" /\ Same
          /\ pass'.done = pass.done \ pass.touched
      BY <1>0, <1>8, Fields
    <2>2. UNCHANGED <<scanned_to, stored, market, judged, missed>>
      BY <1>8 DEF JudgeFails
    <2>3. BrandOf(l) \in pass'.done => l \notin pass.seen /\ BrandOf(l) \in pass.done
      BY <1>0, <2>1 DEF Seen
    <2>4. Recording(l)'
      BY <1>0, <2>1, <2>2, <2>3 DEF Judging, Recording, Owed, Settled, Same, c
    <2>5. QED
      BY <2>1, <2>4
  <1>9. ASSUME NEW b \in Brands, Record(b) \/ RecordFails(b) PROVE Goal
    <2>1. /\ pass.pc = "record" /\ pass'.pc = "record" /\ Same
          /\ pass'.done \subseteq pass.done
      BY <1>0, <1>9, Fields
    <2>2. ASSUME c(l)' # 0, c(l)' + OVERLAP <= pass'.started
          PROVE  Owed(l, pass.started) /\ (Settled(l) => Settled(l)')
      BY <2>1, <2>2, KeptInPass DEF Same
    <2>3. Recording(l)'
      BY <1>0, <2>1, <2>2 DEF Recording, Owed, Same
    <2>4. QED
      BY <2>1, <2>3
  <1>10. CASE PassEnds \/ Crash
    BY <1>0, <1>10, Fields
  <1>11. QED
    BY <1>0, <1>1, <1>2, <1>3, <1>4, <1>5, <1>6, <1>7, <1>8, <1>9, <1>10, PassMoves DEF PassSteps

------------------------------------------------------------------------------
LEMMA InitScans ==
    ASSUME Init PROVE ScanInv
  <1>1. TypeInv
    <2>1. Idle \in PassType /\ Never \in DocType
      BY IdleIsAPass DEF Never, DocType
    <2>2. QED
      BY <2>1 DEF Init, TypeInv
  <1>2. \A l \in Listings : c(l) = 0 /\ changed(index[l]) = 0
    <2>1. changed(Never) = 0
      <3>1. changed(Never) \in {Never.created, Never.repriced}
        BY ChangedIsLast DEF Never, DocType
      <3>2. QED
        BY <3>1 DEF Never
    <2>2. QED
      BY <2>1 DEF Init, c
  <1>3. KnownInv
    BY <1>2 DEF Init, KnownInv, Known, Never
  <1>4. CursorInv /\ CursorsSettle
    BY <1>2 DEF Init, CursorInv, CursorsSettle, Owed, Idle
  <1>5. PassInv
    BY DEF Init, PassInv, Idle
  <1>6. QED
    BY <1>1, <1>3, <1>4, <1>5 DEF ScanInv

(* Whatever the brands, the listings and the failures, a cursor leaves no    *)
(* change behind that was not judged or given up for a known reason          *)
(* (scan.py:6-7): the window reaches back to the cursor less the overlap,    *)
(* the index lags no more than the overlap, and a cursor moves to the start  *)
(* of a pass only after the judgement.                                       *)
THEOREM NothingIsSkipped == Spec => []NothingSkipped
  <1>1. Init => ScanInv
    BY InitScans
  <1>2. ScanInv /\ [Next]_vars => ScanInv'
    <2> SUFFICES ASSUME ScanInv, [Next]_vars PROVE ScanInv'
      OBVIOUS
    <2>1. TypeInv /\ KnownInv
      BY DEF ScanInv
    <2>2. QED
      BY <2>1, Typed, KnownKept, CursorsKept, PassKept DEF ScanInv
  <1>3. ScanInv => NothingSkipped
    BY DEF ScanInv, CursorsSettle, Owed, Settled, c, NothingSkipped
  <1>4. QED
    BY <1>1, <1>2, <1>3, PTL DEF Spec
=============================================================================
