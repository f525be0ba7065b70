------------------------------ MODULE Listings ------------------------------
(***************************************************************************)
(* What collection runs make of one brand's listings: the rows of the      *)
(* store, their price history, the sold watermark and the sweep that finds *)
(* out what became of listings the active pass did not see                 *)
(* (parser/planner.py, incremental.py, runtime.py, repositories/listings.py *)
(* and lifecycle.py).                                                      *)
(*                                                                         *)
(* The two indexes are the environment: listings are put on offer,         *)
(* repriced, sold and withdrawn while a run reads them page by page.  A    *)
(* page is the listings at the next key, in descending order; how a page   *)
(* is found is module Pagination, and who runs the tasks CollectionRun.    *)
(***************************************************************************)
EXTENDS Integers, Sequences, FiniteSets, FiniteSetsExt

CONSTANTS
    Ids,                \* the brand's listings, by their number
    Prices,
    Overlap,            \* parser_watermark_overlap_hours
    Confirm,            \* parser_removed_confirm_hours
    Limit,              \* parser_refresh_active_limit
    Workers,            \* parser_max_concurrency
    OnOffer,            \* the listings on offer at first
    MaxEdits,           \* bound: how often the offer changes
    MaxTime,            \* bound: the last tick at which something is sold
    MaxFaults           \* bound: how often a run fails, is truncated or dies

ASSUME IdsAssumption == Ids \subseteq Nat \ {0} /\ IsFiniteSet(Ids) /\ OnOffer \subseteq Ids
ASSUME TimesAssumption == Overlap \in Nat \ {0} /\ Confirm \in Nat \ {0} /\ Limit \in Nat \ {0}

VARIABLES
    offer,              \* listing -> [state, price, key, indexed], as the source has it
    now,
    edits,
    store,              \* listing -> its row
    watermark,          \* the sold index's, or None
    run,                \* [state: "none", "running" or "stopped"]
    task,               \* index -> the run's task for it
    sweep,              \* the sweep in progress
    unseen,             \* history: listing -> ticks since a run last saw it, up to Confirm
    faults

world == <<offer, now, edits>>
vars == <<world, store, watermark, run, task, sweep, unseen, faults>>

None == -1
Indexes == {"active", "sold"}
NoRow == [status |-> "none", price |-> 0, history |-> <<>>, sold |-> FALSE,
          seen |-> FALSE, checked |-> None]
NoTask == [status |-> "none", lower |-> None, cursor |-> None, hits |-> 0, expected |-> 0,
           at |-> "start", page |-> {}, last |-> None]
NoSweep == [at |-> "off", left |-> {}, age |-> [l \in Ids |-> None]]

Init ==
    /\ offer = [l \in Ids |-> [state |-> IF l \in OnOffer THEN "active" ELSE "gone",
                               price |-> Min(Prices), key |-> None, indexed |-> FALSE]]
    /\ now = 1 /\ edits = 0
    /\ store = [l \in Ids |-> NoRow]
    /\ watermark = None
    /\ run = "none"
    /\ task = [i \in Indexes |-> NoTask]
    /\ sweep = NoSweep
    /\ unseen = [l \in Ids |-> Confirm]
    /\ faults = 0

---------------------------------------------------------------------------
(* The source.  A sold listing reaches the sold index within Overlap.      *)

Edit(l, change) ==
    /\ edits < MaxEdits
    /\ edits' = edits + 1
    /\ offer' = [offer EXCEPT ![l] = change]
    /\ UNCHANGED <<now, store, watermark, run, task, sweep, unseen, faults>>

List(l) == offer[l].state = "gone" /\ Edit(l, [offer[l] EXCEPT !.state = "active"])

Withdraw(l) == offer[l].state = "active" /\ Edit(l, [offer[l] EXCEPT !.state = "gone"])

Reprice(l) ==
    /\ offer[l].state = "active"
    /\ \E p \in Prices \ {offer[l].price} : Edit(l, [offer[l] EXCEPT !.price = p])

Sell(l) ==
    /\ offer[l].state = "active" /\ now < MaxTime
    /\ Edit(l, [offer[l] EXCEPT !.state = "sold", !.key = now])

Late(l) == offer[l].state = "sold" /\ ~ offer[l].indexed

Index(l) ==
    /\ Late(l)
    /\ offer' = [offer EXCEPT ![l].indexed = TRUE]
    /\ UNCHANGED <<now, edits, store, watermark, run, task, sweep, unseen, faults>>

Listed(i) == {l \in Ids : offer[l].state = i /\ (i = "sold" => offer[l].indexed)}

Key(i, l) == IF i = "active" THEN l ELSE offer[l].key

Matches(i) == {l \in Listed(i) : Key(i, l) > task[i].lower}

Hits(S) == {[id |-> l, price |-> offer[l].price] : l \in S}

\* The clock stops at MaxTime for sales; a pending row goes on ageing up to Confirm.
Older(t) == IF t = None THEN None ELSE Min({t + 1, Confirm})

Tick ==
    /\ \A l \in Ids : Late(l) /\ now < MaxTime => now + 1 < offer[l].key + Overlap
    /\ now' = Min({now + 1, MaxTime})
    /\ store' = [l \in Ids |-> [store[l] EXCEPT !.checked = Older(@)]]
    /\ unseen' = [l \in Ids |-> Older(unseen[l])]
    /\ UNCHANGED <<offer, edits, watermark, run, task, sweep, faults>>

---------------------------------------------------------------------------
(* The listing store                                                       *)

\* Mutant: a price is recorded at every sighting.
Saved_Always(row, price, status) ==
    [status |-> status, price |-> price, history |-> Append(row.history, price),
     sold |-> row.sold \/ status = "sold", seen |-> TRUE, checked |-> None]

Saved(row, price, status) ==
    [status |-> status, price |-> price,
     history |-> IF row.status = "none" \/ row.price # price
                 THEN Append(row.history, price) ELSE row.history,
     sold |-> row.sold \/ status = "sold", seen |-> TRUE, checked |-> None]

upsert_batch(hits, status) ==
    LET ids == {h.id : h \in hits}
    IN /\ store' = [l \in Ids |->
                        IF l \in ids
                        THEN Saved(store[l], (CHOOSE h \in hits : h.id = l).price, status)
                        ELSE store[l]]
       /\ unseen' = [l \in Ids |-> IF l \in ids THEN 0 ELSE unseen[l]]

\* Mutant: the second check removes, however soon.
Missing_Now(row, age) ==
    CASE row.status = "active" -> [row EXCEPT !.status = "removed_pending", !.checked = 0]
      [] row.status = "removed_pending" -> [row EXCEPT !.status = "removed"]
      [] OTHER -> row

Missing(row, age) ==
    CASE row.status = "active" -> [row EXCEPT !.status = "removed_pending", !.checked = 0]
      [] row.status = "removed_pending" /\ age >= Confirm -> [row EXCEPT !.status = "removed"]
      [] OTHER -> row

apply_missing(l, age) == store' = [store EXCEPT ![l] = Missing(@, age)] /\ UNCHANGED unseen

refresh_candidates ==
    LET S == {l \in Ids : store[l].status \in {"active", "removed_pending"} /\ ~ store[l].seen}
    IN {l \in S : Cardinality({k \in S : k < l}) < Limit}

---------------------------------------------------------------------------
(* A run                                                                   *)

plan(full) == IF full \/ watermark = None THEN None ELSE watermark - Overlap

\* Seen means seen since the run was created: last_seen_at >= run.created_at.
Start(full) ==
    /\ run # "running"
    /\ run' = "running"
    /\ task' = [i \in Indexes |-> [NoTask EXCEPT !.status = "pending",
                                                 !.lower = IF i = "sold" THEN plan(full) ELSE None]]
    /\ store' = [l \in Ids |-> [store[l] EXCEPT !.seen = FALSE]]
    /\ UNCHANGED <<world, watermark, sweep, unseen, faults>>

Again(t) == IF t.status \in {"running", "failed"}
            THEN [t EXCEPT !.status = "pending", !.at = "start", !.page = {}, !.last = None]
            ELSE t

Resume ==
    /\ run = "stopped"
    /\ run' = "running"
    /\ task' = [i \in Indexes |-> Again(task[i])]
    /\ UNCHANGED <<world, store, watermark, sweep, unseen, faults>>

Running(i, at) == run = "running" /\ task[i].status = "running" /\ task[i].at = at

Locked == sweep.at \notin {"off", "wait"}

\* The active task goes on with its sweep and keeps its worker.
Working == {i \in Indexes : task[i].status = "running"}
           \cup (IF sweep.at # "off" THEN {"active"} ELSE {})

Begin(i) ==
    /\ run = "running" /\ task[i].status = "pending" /\ Cardinality(Working) < Workers
    /\ i = "sold" => task["active"].status # "pending"
    /\ task' = [task EXCEPT ![i].status = "running", ![i].at = "fetch",
                            ![i].expected = Cardinality(Matches(i))]
    /\ UNCHANGED <<world, store, watermark, run, sweep, unseen, faults>>

Ahead(i) == {l \in Matches(i) : task[i].cursor = None \/ Key(i, l) < task[i].cursor}

Fetch(i) ==
    /\ Running(i, "fetch") /\ Ahead(i) # {}
    /\ LET next == Max({Key(i, l) : l \in Ahead(i)})
           page == {l \in Ahead(i) : Key(i, l) = next}
       IN task' = [task EXCEPT ![i].at = "store", ![i].page = Hits(page),
                               ![i].last = IF i = "sold" THEN Max({@, next}) ELSE None]
    /\ UNCHANGED <<world, store, watermark, run, sweep, unseen, faults>>

Store(i) ==
    /\ Running(i, "store") /\ ~ Locked
    /\ upsert_batch(task[i].page, i)
    /\ task' = [task EXCEPT ![i].at = "fetch", ![i].page = {},
                            ![i].hits = @ + Cardinality(task[i].page),
                            ![i].cursor = Key(i, (CHOOSE h \in task[i].page : TRUE).id)]
    /\ UNCHANGED <<world, watermark, run, sweep, faults>>

\* Mutant: a task that read anything is complete.
complete_Reached(t, truncated) == t.hits # 0

\* expected_hits = 0 is reported as skipped, never as complete.
complete(t, truncated) ==
    t.expected # 0 /\ ~ truncated /\ 100 * Min({t.hits, t.expected}) >= 98 * t.expected

advance_watermark(t) == watermark' = IF t.last = None THEN watermark ELSE t.last

\* What a task adds up to is kept with it, for the attempt after a failed sweep.
Report(i, truncated) ==
    LET ok == complete(task[i], truncated)
    IN /\ task' = [task EXCEPT ![i].status = "done", ![i].at = "start", ![i].last = None,
                               ![i].hits = Min({@, task[i].expected})]
       /\ IF i = "sold" /\ ok THEN advance_watermark(task[i]) ELSE UNCHANGED watermark
       /\ sweep' = IF i = "active" /\ ok THEN [NoSweep EXCEPT !.at = "wait"] ELSE sweep
       /\ UNCHANGED <<world, store, run, unseen>>

Finish(i) ==
    /\ Running(i, "fetch") /\ Ahead(i) = {}
    /\ Report(i, FALSE)
    /\ UNCHANGED faults

---------------------------------------------------------------------------
(* The sweep holds the write lock; a batch is one listing                  *)

Sweeping(left, age) ==
    sweep' = IF left = {} THEN NoSweep ELSE [at |-> "active", left |-> left, age |-> age]

SweepBegin ==
    /\ run = "running" /\ sweep.at = "wait"
    /\ Sweeping(refresh_candidates, [l \in Ids |-> store[l].checked])
    /\ UNCHANGED <<world, store, watermark, run, task, unseen, faults>>

InTurn(l) == l \in sweep.left /\ \A k \in sweep.left : l <= k

\* Mutant: what was looked up is looked up again.
Swept_Again(l) == Sweeping(sweep.left, sweep.age)

Swept(l) == Sweeping(sweep.left \ {l}, sweep.age)

SweepActive(l) ==
    /\ run = "running" /\ sweep.at = "active" /\ InTurn(l)
    /\ IF l \in Listed("active")
       THEN upsert_batch(Hits({l}), "active") /\ Swept(l)
       ELSE sweep' = [sweep EXCEPT !.at = "sold"] /\ UNCHANGED <<store, unseen>>
    /\ UNCHANGED <<world, watermark, run, task, faults>>

SweepSold(l) ==
    /\ run = "running" /\ sweep.at = "sold" /\ InTurn(l)
    /\ IF l \in Listed("sold") THEN upsert_batch(Hits({l}), "sold")
                              ELSE apply_missing(l, sweep.age[l])
    /\ Swept(l)
    /\ UNCHANGED <<world, watermark, run, task, faults>>

---------------------------------------------------------------------------
(* Ends and faults                                                         *)

End ==
    /\ run = "running" /\ sweep.at = "off"
    /\ \A i \in Indexes : task[i].status \in {"done", "failed"}
    /\ IF \E i \in Indexes : task[i].status = "failed"
       THEN run' = "stopped" /\ UNCHANGED task
       ELSE run' = "none" /\ task' = [i \in Indexes |-> NoTask]
    /\ UNCHANGED <<world, store, watermark, sweep, unseen, faults>>

Fault == faults < MaxFaults /\ faults' = faults + 1 /\ UNCHANGED <<world, store, watermark, unseen>>

Truncate(i) ==
    /\ Running(i, "fetch")
    /\ Report(i, TRUE)
    /\ faults < MaxFaults /\ faults' = faults + 1

Fail(i) ==
    /\ Running(i, "fetch") \/ Running(i, "store")
    /\ task' = [task EXCEPT ![i].status = "failed", ![i].page = {}]
    /\ Fault /\ UNCHANGED <<run, sweep>>

\* An error of the sweep fails its task, whose row was done.
FailSweep ==
    /\ run = "running" /\ sweep.at # "off"
    /\ task' = [task EXCEPT !["active"].status = "failed"]
    /\ sweep' = NoSweep
    /\ Fault /\ UNCHANGED run

\* The process dies, or the run is cancelled: pages in hand and the sweep are lost.
Interrupt ==
    /\ run = "running"
    /\ run' = "stopped" /\ sweep' = NoSweep
    /\ task' = [i \in Indexes |-> [Again(task[i]) EXCEPT !.page = {}]]
    /\ Fault

Source == \E l \in Ids : List(l) \/ Withdraw(l) \/ Reprice(l) \/ Sell(l)

Working_step ==
    \/ \E i \in Indexes : Begin(i) \/ Fetch(i) \/ Store(i) \/ Finish(i)
    \/ SweepBegin \/ (\E l \in Ids : SweepActive(l) \/ SweepSold(l)) \/ End

Faulty == (\E i \in Indexes : Truncate(i) \/ Fail(i)) \/ FailSweep \/ Interrupt

Next ==
    \/ Source \/ (\E l \in Ids : Index(l)) \/ Tick
    \/ (\E full \in BOOLEAN : Start(full)) \/ Resume
    \/ Working_step \/ Faulty

Spec == Init /\ [][Next]_vars

\* The scheduler keeps starting runs, the process keeps working, time passes, and the source
\* gets a sale into its index.
FairSpec ==
    /\ Spec
    /\ WF_vars(Working_step) /\ WF_vars(Start(FALSE) \/ Start(TRUE)) /\ WF_vars(Tick)
    /\ \A l \in Ids : WF_vars(Index(l))

---------------------------------------------------------------------------
(* Properties                                                              *)

\* The history of a listing is the sequence of the prices stored for it: it starts with the
\* first, repeats none, and ends with the one in the row (repositories/listings.py).
HistoryIsPrices ==
    \A l \in Ids :
        LET row == store[l]
        IN IF row.status = "none" THEN row.history = <<>>
           ELSE /\ row.history # <<>> /\ row.history[Len(row.history)] = row.price
                /\ \A n \in 1..(Len(row.history) - 1) : row.history[n] # row.history[n + 1]

\* A listing that sold no later than the watermark less the overlap, which the next delta
\* will not ask for, is in the store as a sale (incremental.py, plan and complete).
WatermarkCovers ==
    \A l \in Ids :
        offer[l].state = "sold" /\ watermark # None /\ offer[l].key <= watermark - Overlap
        => store[l].sold

\* A listing is declared removed only after no run saw it for the time of confirmation.
RemovedMeansUnseen ==
    [][\A l \in Ids :
         store'[l].status = "removed" /\ store[l].status # "removed" => unseen[l] >= Confirm]_vars

\* Once the source stops changing, the store comes to say what the source says and stays so,
\* whatever runs failed or died on the way, as long as something is on offer.
Current(l) ==
    CASE offer[l].state = "active" -> store[l].status = "active" /\ store[l].price = offer[l].price
      [] offer[l].state = "sold" -> store[l].status = "sold"
      [] OTHER -> store[l].status # "active"

StoreCatchesUp == <>[](Listed("active") = {} \/ \A l \in Ids : Current(l))

\* docs/LIFECYCLE.md: active listings absent from the active index become removed_pending.
AbsentIsNoticed == <>[](\A l \in Ids : offer[l].state = "gone" => Current(l))

TypeOK ==
    /\ run \in {"none", "running", "stopped"}
    /\ watermark \in {None} \cup 1..MaxTime
    /\ \A l \in Ids : store[l].checked \in None..Confirm /\ unseen[l] \in 0..Confirm
    /\ \A i \in Indexes : task[i].status \in {"none", "pending", "running", "done", "failed"}

=============================================================================
