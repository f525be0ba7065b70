---------------------------- MODULE ListingsProofs ----------------------------
(***************************************************************************)
(* For any listings, prices, workers, times and faults: a row's history is *)
(* the prices that were stored for it, and a listing is removed only after *)
(* no run saw it for the time of confirmation.                             *)
(***************************************************************************)
EXTENDS Listings, TLAPS

Price == Prices \cup {Min(Prices)}
Hit == [id : Ids, price : Price]
Row == [status : {"none", "active", "sold", "removed_pending", "removed"},
        price : Price \cup {0}, history : Seq(Price), sold : BOOLEAN, seen : BOOLEAN,
        checked : Int]

OfferInv ==
    /\ offer = [l \in Ids |-> offer[l]]
    /\ \A l \in Ids : "price" \in DOMAIN offer[l] /\ offer[l].price \in Price

(* Of a task only what it read matters.                                      *)
TaskInv ==
    /\ task = [i \in Indexes |-> task[i]]
    /\ \A i \in Indexes : "page" \in DOMAIN task[i] /\ task[i].page \subseteq Hit

SweepInv ==
    /\ sweep \in [at : {"off", "wait", "active", "sold"}, left : SUBSET Ids, age : [Ids -> Int]]
    /\ sweep.at \in {"off", "wait"} => sweep.left = {}

Faithful(row) ==
    IF row.status = "none" THEN row.history = <<>>
    ELSE /\ row.history # <<>> /\ row.history[Len(row.history)] = row.price
         /\ \A n \in 1..(Len(row.history) - 1) : row.history[n] # row.history[n + 1]

RowsInv == store \in [Ids -> Row] /\ \A l \in Ids : Faithful(store[l])

(* A row is checked, and its age is noted, no longer ago than it was seen.   *)
AgeInv ==
    /\ unseen \in [Ids -> Nat] /\ \A l \in Ids : unseen[l] <= Confirm
    /\ \A l \in Ids : store[l].checked <= unseen[l]
    /\ \A l \in sweep.left : sweep.age[l] <= unseen[l]

StoreInv == OfferInv /\ TaskInv /\ SweepInv /\ RowsInv /\ AgeInv

------------------------------------------------------------------------------
(* Times and rows. *)

LEMMA LowerOfTwo ==
    ASSUME NEW x \in Int, NEW y \in Int
    PROVE  Min({x, y}) \in {x, y} /\ Min({x, y}) <= x /\ Min({x, y}) <= y
  <1>1. \E m \in {x, y} : \A z \in {x, y} : m <= z
    <2>1. x <= y \/ y <= x
      OBVIOUS
    <2>2. QED
      BY <2>1
  <1>2. QED
    BY <1>1 DEF Min

LEMMA OlderGrows ==
    ASSUME NEW x \in Int, NEW y \in Nat, x <= y, y <= Confirm
    PROVE  /\ Older(x) \in Int /\ Older(y) \in Nat /\ Older(x) <= Older(y)
           /\ y <= Older(y) /\ Older(y) <= Confirm
  <1>0. Confirm \in Int /\ x + 1 \in Int /\ y + 1 \in Int /\ Confirm \in Nat
    BY TimesAssumption
  <1>1. /\ Min({x + 1, Confirm}) \in {x + 1, Confirm} /\ Min({x + 1, Confirm}) <= x + 1
        /\ Min({x + 1, Confirm}) <= Confirm
    BY <1>0, LowerOfTwo
  <1>2. /\ Min({y + 1, Confirm}) \in {y + 1, Confirm} /\ Min({y + 1, Confirm}) <= y + 1
        /\ Min({y + 1, Confirm}) <= Confirm
    BY <1>0, LowerOfTwo
  <1>3. x \in Int /\ y \in Nat /\ x <= y /\ y <= Confirm
    OBVIOUS
  <1>4. /\ Older(x) = IF x = -1 THEN -1 ELSE Min({x + 1, Confirm})
        /\ Older(y) = Min({y + 1, Confirm})
    BY DEF Older, None
  <1> HIDE DEF Min
  <1>5. QED
    BY <1>0, <1>1, <1>2, <1>3, <1>4

LEMMA SavedIsFaithful ==
    ASSUME NEW row \in Row, Faithful(row), NEW price \in Price, NEW status \in Indexes
    PROVE  /\ Saved(row, price, status) \in Row /\ Faithful(Saved(row, price, status))
           /\ Saved(row, price, status).checked = -1
           /\ Saved(row, price, status).status = status
  <1> DEFINE appended == row.status = "none" \/ row.price # price
             history == IF appended THEN Append(row.history, price) ELSE row.history
             saved == [status |-> status, price |-> price, history |-> history,
                       sold |-> row.sold \/ status = "sold", seen |-> TRUE, checked |-> None]
  <1>0. row.history \in Seq(Price) /\ row.sold \in BOOLEAN /\ status \in {"active", "sold"}
    BY DEF Row, Indexes
  <1>1. history \in Seq(Price)
    BY <1>0
  <1>2. saved.history = history /\ saved.price = price /\ saved.status = status
        /\ saved.checked = -1 /\ Saved(row, price, status) = saved
    BY DEF Saved, None
  <1>3. saved \in Row
    BY <1>0, <1>1 DEF Row, None
  <1>4. /\ history # <<>> /\ history[Len(history)] = price
        /\ \A n \in 1..(Len(history) - 1) : history[n] # history[n + 1]
    <2>1. CASE ~appended
      BY <2>1 DEF Faithful
    <2>2. CASE row.status = "none"
      <3>1. row.history = <<>>
        BY <2>2 DEF Faithful
      <3>2. history = <<price>>
        BY <2>2, <3>1
      <3> HIDE DEF history
      <3>3. QED
        BY <3>2
    <2>3. CASE row.status # "none" /\ row.price # price
      <3>1. /\ row.history # <<>> /\ row.history[Len(row.history)] # price
            /\ \A n \in 1..(Len(row.history) - 1) : row.history[n] # row.history[n + 1]
        BY <2>3 DEF Faithful
      <3>2. history = Append(row.history, price)
        BY <2>3
      <3> HIDE DEF history
      <3>3. /\ Len(history) = Len(row.history) + 1 /\ history[Len(history)] = price
            /\ \A n \in 1..Len(row.history) : history[n] = row.history[n]
        BY <1>0, <3>2
      <3>4. Len(row.history) \in Nat /\ Len(row.history) > 0
        BY <1>0, <3>1
      <3>5. ASSUME NEW n \in 1..(Len(history) - 1) PROVE history[n] # history[n + 1]
        <4>1. CASE n = Len(row.history)
          BY <3>1, <3>3, <3>4, <4>1
        <4>2. CASE n # Len(row.history)
          <5>1. n \in 1..(Len(row.history) - 1) /\ n + 1 \in 1..Len(row.history)
            BY <3>3, <3>4, <4>2
          <5>2. QED
            BY <3>1, <3>3, <5>1
        <4>3. QED
          BY <4>1, <4>2
      <3>6. history # <<>>
        BY <3>3, <3>4
      <3>7. QED
        BY <3>3, <3>5, <3>6
    <2>4. QED
      BY <2>1, <2>2, <2>3
  <1> HIDE DEF history, saved
  <1>5. Faithful(saved)
    <2>1. saved.status # "none"
      BY <1>0, <1>2
    <2>2. QED
      BY <1>2, <1>4, <2>1 DEF Faithful
  <1>6. QED
    BY <1>2, <1>3, <1>5

LEMMA MissingIsFaithful ==
    ASSUME NEW row \in Row, Faithful(row), NEW age
    PROVE  /\ Missing(row, age) \in Row /\ Faithful(Missing(row, age))
           /\ Missing(row, age).checked \in {row.checked, 0}
           /\ Missing(row, age).status = "removed" => row.status = "removed" \/ age >= Confirm
  <1>1. CASE row.status = "active"
    <2>1. Missing(row, age) = [row EXCEPT !.status = "removed_pending", !.checked = 0]
      BY <1>1 DEF Missing
    <2>2. row = [status |-> row.status, price |-> row.price, history |-> row.history,
                 sold |-> row.sold, seen |-> row.seen, checked |-> row.checked]
      BY DEF Row
    <2>3. Missing(row, age) = [status |-> "removed_pending", price |-> row.price,
                               history |-> row.history, sold |-> row.sold, seen |-> row.seen,
                               checked |-> 0]
      BY <2>1, <2>2
    <2>4. /\ Missing(row, age) \in Row /\ Missing(row, age).status = "removed_pending"
          /\ Missing(row, age).checked = 0 /\ Missing(row, age).history = row.history
          /\ Missing(row, age).price = row.price
      BY <2>3 DEF Row
    <2>5. QED
      BY <1>1, <2>4 DEF Faithful
  <1>2. CASE row.status = "removed_pending" /\ age >= Confirm
    <2>1. Missing(row, age) = [row EXCEPT !.status = "removed"]
      BY <1>2 DEF Missing
    <2>2. /\ Missing(row, age) \in Row /\ Missing(row, age).status = "removed"
          /\ Missing(row, age).checked = row.checked /\ Missing(row, age).history = row.history
          /\ Missing(row, age).price = row.price
      BY <2>1 DEF Row
    <2>3. QED
      BY <1>2, <2>2 DEF Faithful
  <1>3. CASE row.status # "active" /\ ~(row.status = "removed_pending" /\ age >= Confirm)
    BY <1>3 DEF Missing
  <1>4. QED
    BY <1>1, <1>2, <1>3

------------------------------------------------------------------------------
(* What the steps do. *)

Edits(l) == List(l) \/ Withdraw(l) \/ Reprice(l) \/ Sell(l) \/ Index(l)
Sweeps(l) == SweepActive(l) \/ SweepSold(l)
Works(i) == Begin(i) \/ Fetch(i) \/ Store(i) \/ Finish(i) \/ Truncate(i) \/ Fail(i)

LEMMA StepKinds ==
    ASSUME [Next]_vars
    PROVE  \/ UNCHANGED vars \/ Tick \/ Resume \/ SweepBegin \/ End \/ FailSweep \/ Interrupt
           \/ \E l \in Ids : Edits(l) \/ Sweeps(l)
           \/ \E full \in BOOLEAN : Start(full)
           \/ \E i \in Indexes : Works(i)
  BY DEF Next, Source, Working_step, Faulty, Edits, Sweeps, Works

LEMMA HitsAreHits ==
    ASSUME OfferInv, NEW S \in SUBSET Ids PROVE Hits(S) \subseteq Hit
  BY DEF OfferInv, Hits, Hit

LEMMA EditKept ==
    ASSUME OfferInv, NEW l \in Ids, NEW change, offer' = [offer EXCEPT ![l] = change],
           "price" \in DOMAIN change, change.price \in Price
    PROVE  OfferInv'
  BY DEF OfferInv

LEMMA OfferKept ==
    ASSUME OfferInv, [Next]_vars PROVE OfferInv'
  <1>1. CASE UNCHANGED offer
    BY <1>1 DEF OfferInv
  <1>2. ASSUME NEW l \in Ids, Edits(l) PROVE OfferInv'
    <2>0. "price" \in DOMAIN offer[l] /\ offer[l].price \in Price
      BY DEF OfferInv
    <2>1. ASSUME List(l) PROVE OfferInv'
      <3> DEFINE change == [offer[l] EXCEPT !.state = "active"]
      <3>1. "price" \in DOMAIN change /\ change.price \in Price
        BY <2>0
      <3>2. offer' = [offer EXCEPT ![l] = change]
        BY <2>1 DEF List, Edit
      <3> HIDE DEF change
      <3>3. QED
        BY <3>1, <3>2, EditKept
    <2>2. ASSUME Withdraw(l) PROVE OfferInv'
      <3> DEFINE change == [offer[l] EXCEPT !.state = "gone"]
      <3>1. "price" \in DOMAIN change /\ change.price \in Price
        BY <2>0
      <3>2. offer' = [offer EXCEPT ![l] = change]
        BY <2>2 DEF Withdraw, Edit
      <3> HIDE DEF change
      <3>3. QED
        BY <3>1, <3>2, EditKept
    <2>3. ASSUME Reprice(l) PROVE OfferInv'
      <3>1. PICK p \in Prices : offer' = [offer EXCEPT ![l] = [offer[l] EXCEPT !.price = p]]
        BY <2>3 DEF Reprice, Edit
      <3> DEFINE change == [offer[l] EXCEPT !.price = p]
      <3>2. "price" \in DOMAIN change /\ change.price \in Price
        BY <2>0 DEF Price
      <3>3. offer' = [offer EXCEPT ![l] = change]
        BY <3>1
      <3> HIDE DEF change
      <3>4. QED
        BY <3>2, <3>3, EditKept
    <2>4. ASSUME Sell(l) PROVE OfferInv'
      <3> DEFINE change == [offer[l] EXCEPT !.state = "sold", !.key = now]
      <3>1. "price" \in DOMAIN change /\ change.price \in Price
        BY <2>0
      <3>2. offer' = [offer EXCEPT ![l] = change]
        BY <2>4 DEF Sell, Edit
      <3> HIDE DEF change
      <3>3. QED
        BY <3>1, <3>2, EditKept
    <2>5. ASSUME Index(l) PROVE OfferInv'
      <3> DEFINE change == [offer[l] EXCEPT !.indexed = TRUE]
      <3>1. "price" \in DOMAIN change /\ change.price \in Price
        BY <2>0
      <3>2. offer' = [offer EXCEPT ![l] = change]
        BY <2>5 DEF Index
      <3> HIDE DEF change
      <3>3. QED
        BY <3>1, <3>2, EditKept
    <2>6. QED
      BY <1>2, <2>1, <2>2, <2>3, <2>4, <2>5 DEF Edits
  <1>3. ASSUME ~\E l \in Ids : Edits(l) PROVE UNCHANGED offer
    <2>1. ASSUME NEW i \in Indexes, Works(i) PROVE UNCHANGED offer
      BY <2>1 DEF Works, world, Begin, Fetch, Store, Finish, Truncate, Report, Fail, Fault
    <2>2. ASSUME NEW l \in Ids, Sweeps(l) PROVE UNCHANGED offer
      BY <2>2 DEF world, Sweeps, SweepActive, SweepSold
    <2>3. ASSUME NEW full, Start(full) PROVE UNCHANGED offer
      BY <2>3 DEF world, Start
    <2>4. CASE Tick \/ Resume \/ SweepBegin \/ End \/ FailSweep \/ Interrupt
      BY <2>4 DEF world, Tick, Resume, SweepBegin, End, FailSweep, Interrupt, Fault
    <2>5. QED
      BY <1>3, <2>1, <2>2, <2>3, <2>4, StepKinds DEF vars, world
  <1>4. QED
    BY <1>1, <1>2, <1>3

LEMMA TaskAt ==
    ASSUME TaskInv, NEW i \in Indexes, NEW t, task' = [task EXCEPT ![i] = t],
           "page" \in DOMAIN t, t.page \subseteq Hit
    PROVE  TaskInv'
  BY DEF TaskInv

LEMMA TasksAll ==
    ASSUME NEW t, task' = [i \in Indexes |-> t[i]],
           \A i \in Indexes : "page" \in DOMAIN t[i] /\ t[i].page \subseteq Hit
    PROVE  TaskInv'
  BY DEF TaskInv

LEMMA AgainReadsNothing ==
    ASSUME NEW t, "page" \in DOMAIN t, t.page \subseteq Hit
    PROVE  "page" \in DOMAIN Again(t) /\ Again(t).page \subseteq Hit
  <1>1. CASE t.status \in {"running", "failed"}
    <2>1. Again(t) = [t EXCEPT !.status = "pending", !.at = "start", !.page = {}, !.last = None]
      BY <1>1 DEF Again
    <2>2. "page" \in DOMAIN Again(t) /\ Again(t).page = {}
      BY <2>1
    <2>3. QED
      BY <2>2
  <1>2. CASE t.status \notin {"running", "failed"}
    BY <1>2 DEF Again
  <1>3. QED
    BY <1>1, <1>2

LEMMA WorkKeepsTasks ==
    ASSUME OfferInv, TaskInv, NEW i \in Indexes, Works(i) PROVE TaskInv'
  <1>0. /\ task = [j \in Indexes |-> task[j]]
        /\ "page" \in DOMAIN task[i] /\ task[i].page \subseteq Hit
    BY DEF TaskInv
  <1>1. ASSUME Begin(i) PROVE TaskInv'
    <2> DEFINE t == [task[i] EXCEPT !.status = "running", !.at = "fetch",
                                    !.expected = Cardinality(Matches(i))]
    <2>1. task' = [task EXCEPT ![i] = t]
      BY <1>0, <1>1 DEF Begin
    <2>2. "page" \in DOMAIN t /\ t.page \subseteq Hit
      BY <1>0
    <2> HIDE DEF t
    <2>3. QED
      BY <2>1, <2>2, TaskAt
  <1>2. ASSUME Fetch(i) PROVE TaskInv'
    <2> DEFINE next == Max({Key(i, l) : l \in Ahead(i)})
               page == {l \in Ahead(i) : Key(i, l) = next}
               last == IF i = "sold" THEN Max({task[i].last, next}) ELSE None
               t == [task[i] EXCEPT !.at = "store", !.page = Hits(page), !.last = last]
    <2>1. task' = [task EXCEPT ![i] = t]
      BY <1>0, <1>2 DEF Fetch
    <2>2. page \in SUBSET Ids
      BY DEF Ahead, Matches, Listed
    <2> HIDE DEF page, next, last
    <2>3. "page" \in DOMAIN t /\ t.page = Hits(page)
      BY <1>0
    <2>4. t.page \subseteq Hit
      BY <2>2, <2>3, HitsAreHits
    <2> HIDE DEF t
    <2>5. QED
      BY <2>1, <2>3, <2>4, TaskAt
  <1>3. ASSUME Store(i) PROVE TaskInv'
    <2> DEFINE cursor == Key(i, (CHOOSE h \in task[i].page : TRUE).id)
    <2>0. task' = [task EXCEPT ![i].at = "fetch", ![i].page = {},
                               ![i].hits = @ + Cardinality(task[i].page), ![i].cursor = cursor]
      BY <1>3 DEF Store
    <2> HIDE DEF cursor
    <2> DEFINE hits == task[i].hits + Cardinality(task[i].page)
               t == [task[i] EXCEPT !.at = "fetch", !.page = {}, !.hits = hits, !.cursor = cursor]
    <2>1. task' = [task EXCEPT ![i] = t]
      BY <1>0, <2>0
    <2> HIDE DEF hits
    <2>2. "page" \in DOMAIN t /\ t.page \subseteq Hit
      BY <1>0
    <2> HIDE DEF t
    <2>3. QED
      BY <2>1, <2>2, TaskAt
  <1>4. ASSUME NEW truncated, Report(i, truncated) PROVE TaskInv'
    <2> DEFINE hits == Min({task[i].hits, task[i].expected})
               t == [task[i] EXCEPT !.status = "done", !.at = "start", !.last = None, !.hits = hits]
    <2>1. task' = [task EXCEPT ![i] = t]
      BY <1>0, <1>4 DEF Report
    <2> HIDE DEF hits
    <2>2. "page" \in DOMAIN t /\ t.page \subseteq Hit
      BY <1>0
    <2> HIDE DEF t
    <2>3. QED
      BY <2>1, <2>2, TaskAt
  <1>5. ASSUME Fail(i) PROVE TaskInv'
    <2> DEFINE t == [task[i] EXCEPT !.status = "failed", !.page = {}]
    <2>1. task' = [task EXCEPT ![i] = t]
      BY <1>0, <1>5 DEF Fail
    <2>2. "page" \in DOMAIN t /\ t.page \subseteq Hit
      BY <1>0
    <2> HIDE DEF t
    <2>3. QED
      BY <2>1, <2>2, TaskAt
  <1>6. QED
    BY <1>1, <1>2, <1>3, <1>4, <1>5 DEF Works, Finish, Truncate

LEMMA TaskKept ==
    ASSUME OfferInv, TaskInv, [Next]_vars PROVE TaskInv'
  <1>0. \A i \in Indexes : "page" \in DOMAIN task[i] /\ task[i].page \subseteq Hit
    BY DEF TaskInv
  <1>1. CASE UNCHANGED task
    BY <1>1 DEF TaskInv
  <1>2. ASSUME NEW full, Start(full) PROVE TaskInv'
    <2> DEFINE t == [i \in Indexes |-> [NoTask EXCEPT !.status = "pending",
                                            !.lower = IF i = "sold" THEN plan(full) ELSE None]]
    <2>1. task' = [i \in Indexes |-> t[i]]
      BY <1>2 DEF Start
    <2>2. \A i \in Indexes : "page" \in DOMAIN t[i] /\ t[i].page = {}
      BY DEF NoTask
    <2> HIDE DEF t
    <2>3. QED
      BY <2>1, <2>2, TasksAll
  <1>3. ASSUME Resume PROVE TaskInv'
    <2> DEFINE t == [i \in Indexes |-> Again(task[i])]
    <2>1. task' = [i \in Indexes |-> t[i]]
      BY <1>3 DEF Resume
    <2>2. \A i \in Indexes : "page" \in DOMAIN t[i] /\ t[i].page \subseteq Hit
      BY <1>0, AgainReadsNothing
    <2> HIDE DEF t
    <2>3. QED
      BY <2>1, <2>2, TasksAll
  <1>4. ASSUME Interrupt PROVE TaskInv'
    <2> DEFINE t == [i \in Indexes |-> [Again(task[i]) EXCEPT !.page = {}]]
    <2>1. task' = [i \in Indexes |-> t[i]]
      BY <1>4 DEF Interrupt
    <2>2. \A i \in Indexes : "page" \in DOMAIN t[i] /\ t[i].page = {}
      BY <1>0, AgainReadsNothing
    <2> HIDE DEF t
    <2>3. QED
      BY <2>1, <2>2, TasksAll
  <1>5. ASSUME End PROVE TaskInv'
    <2>1. UNCHANGED task \/ task' = [i \in Indexes |-> NoTask]
      BY <1>5 DEF End
    <2>2. "page" \in DOMAIN NoTask /\ NoTask.page = {}
      BY DEF NoTask
    <2>3. QED
      BY <1>1, <2>1, <2>2 DEF TaskInv
  <1>6. ASSUME FailSweep PROVE TaskInv'
    <2> DEFINE t == [task["active"] EXCEPT !.status = "failed"]
    <2>1. task' = [task EXCEPT !["active"] = t]
      BY <1>6 DEF FailSweep
    <2>2. "active" \in Indexes /\ "page" \in DOMAIN t /\ t.page \subseteq Hit
      BY <1>0 DEF Indexes
    <2> HIDE DEF t
    <2>3. QED
      BY <2>1, <2>2, TaskAt
  <1>7. UNCHANGED vars \/ Tick \/ SweepBegin => UNCHANGED task
    BY DEF vars, Tick, SweepBegin
  <1>8. ASSUME NEW l \in Ids, Edits(l) \/ Sweeps(l) PROVE UNCHANGED task
    BY <1>8 DEF Edits, List, Withdraw, Reprice, Sell, Edit, Index, Sweeps, SweepActive, SweepSold
  <1>9. QED
    BY <1>1, <1>2, <1>3, <1>4, <1>5, <1>6, <1>7, <1>8, StepKinds, WorkKeepsTasks
------------------------------------------------------------------------------
(* The sweep. *)

LEMMA SweepAt ==
    ASSUME NEW at \in {"off", "wait", "active", "sold"}, NEW left \in SUBSET Ids,
           NEW age \in [Ids -> Int], at \in {"off", "wait"} => left = {},
           sweep' = [at |-> at, left |-> left, age |-> age]
    PROVE  SweepInv'
  BY DEF SweepInv

LEMMA SweptIsSweep ==
    ASSUME NEW left \in SUBSET Ids, NEW age \in [Ids -> Int], Sweeping(left, age)
    PROVE  SweepInv' /\ (left # {} => sweep'.left = left /\ sweep'.age = age)
                     /\ (left = {} => sweep'.left = {})
  BY DEF Sweeping, SweepInv, NoSweep, None

\* A listing that waits for the sweep waited for it before, and as long.
Shrinks == \A l \in sweep'.left : l \in sweep.left /\ sweep'.age[l] = sweep.age[l]

LEMMA WorkSweeps ==
    ASSUME SweepInv, NEW i \in Indexes, Works(i)
    PROVE  SweepInv' /\ Shrinks
  <1>1. CASE UNCHANGED sweep
    BY <1>1 DEF SweepInv, Shrinks
  <1>2. ASSUME NEW truncated, Report(i, truncated) PROVE SweepInv' /\ Shrinks
    <2>1. UNCHANGED sweep \/ sweep' = [NoSweep EXCEPT !.at = "wait"]
      BY <1>2 DEF Report
    <2>2. ASSUME sweep' = [NoSweep EXCEPT !.at = "wait"] PROVE SweepInv' /\ Shrinks
      BY <2>2 DEF NoSweep, SweepInv, Shrinks, None
    <2>3. QED
      BY <1>1, <2>1, <2>2
  <1>3. Begin(i) \/ Fetch(i) \/ Store(i) \/ Fail(i) => UNCHANGED sweep
    BY DEF Begin, Fetch, Store, Fail
  <1>4. QED
    BY <1>1, <1>2, <1>3 DEF Works, Finish, Truncate

LEMMA BatchSweeps ==
    ASSUME SweepInv, NEW l \in Ids, Swept(l), l \in sweep.left
    PROVE  SweepInv' /\ Shrinks /\ l \notin sweep'.left
  <1>1. sweep.left \ {l} \in SUBSET Ids /\ sweep.age \in [Ids -> Int]
    BY DEF SweepInv
  <1>2. /\ SweepInv' /\ (sweep.left \ {l} = {} => sweep'.left = {})
        /\ (sweep.left \ {l} # {} => sweep'.left = sweep.left \ {l} /\ sweep'.age = sweep.age)
    BY <1>1, SweptIsSweep DEF Swept
  <1>3. QED
    BY <1>2 DEF Shrinks

LEMMA ActiveAnswers ==
    ASSUME SweepInv, NEW l \in Ids, SweepActive(l)
    PROVE  /\ SweepInv' /\ Shrinks /\ l \in sweep.left
           /\ \/ UNCHANGED <<store, unseen>>
              \/ upsert_batch(Hits({l}), "active") /\ l \notin sweep'.left
  <1>1. l \in sweep.left
    BY DEF SweepActive, InTurn
  <1>2. CASE upsert_batch(Hits({l}), "active") /\ Swept(l)
    BY <1>1, <1>2, BatchSweeps
  <1>3. CASE sweep' = [sweep EXCEPT !.at = "sold"] /\ UNCHANGED <<store, unseen>>
    BY <1>1, <1>3 DEF SweepInv, Shrinks
  <1>4. QED
    BY <1>2, <1>3 DEF SweepActive

LEMMA SoldAnswers ==
    ASSUME SweepInv, NEW l \in Ids, SweepSold(l)
    PROVE  /\ SweepInv' /\ Shrinks /\ l \in sweep.left
           /\ \/ apply_missing(l, sweep.age[l])
              \/ upsert_batch(Hits({l}), "sold") /\ l \notin sweep'.left
  <1>1. l \in sweep.left /\ Swept(l)
    BY DEF SweepSold, InTurn
  <1>2. QED
    BY <1>1, BatchSweeps DEF SweepSold

------------------------------------------------------------------------------
(* What a step does to the rows. *)

Stores(hits, status) == upsert_batch(hits, status) /\ Shrinks
                        /\ \A h \in hits : h.id \notin sweep'.left

LEMMA StoreStep ==
    ASSUME StoreInv, [Next]_vars
    PROVE  \/ UNCHANGED <<store, unseen>> /\ Shrinks
           \/ Tick \/ SweepBegin \/ \E full \in BOOLEAN : Start(full)
           \/ \E hits \in SUBSET Hit, status \in Indexes : Stores(hits, status)
           \/ \E l \in sweep.left : apply_missing(l, sweep.age[l]) /\ Shrinks
  <1> DEFINE Goal == \/ UNCHANGED <<store, unseen>> /\ Shrinks
                     \/ Tick \/ SweepBegin \/ \E full \in BOOLEAN : Start(full)
                     \/ \E hits \in SUBSET Hit, status \in Indexes : Stores(hits, status)
                     \/ \E l \in sweep.left : apply_missing(l, sweep.age[l]) /\ Shrinks
  <1>0. SweepInv /\ OfferInv /\ TaskInv
    BY DEF StoreInv
  <1>1. ASSUME UNCHANGED <<store, unseen>>, UNCHANGED sweep \/ sweep' = NoSweep PROVE Goal
    BY <1>1 DEF Shrinks, NoSweep
  <1>2. ASSUME NEW i \in Indexes, Works(i) PROVE Goal
    <2>1. Shrinks
      BY <1>0, <1>2, WorkSweeps
    <2>2. ASSUME Store(i) PROVE Goal
      <3>1. task[i].page \in SUBSET Hit
        BY <1>0 DEF TaskInv
      <3>2. upsert_batch(task[i].page, i) /\ UNCHANGED sweep /\ sweep.left = {}
        BY <1>0, <2>2 DEF Store, Locked, SweepInv
      <3>3. Stores(task[i].page, i)
        BY <2>1, <3>2 DEF Stores
      <3>4. QED
        BY <3>1, <3>3
    <2>3. Begin(i) \/ Fetch(i) \/ Finish(i) \/ Truncate(i) \/ Fail(i) => UNCHANGED <<store, unseen>>
      BY DEF Begin, Fetch, Finish, Truncate, Report, Fail, Fault
    <2>4. QED
      BY <1>2, <2>1, <2>2, <2>3 DEF Works
  <1>3. ASSUME NEW l \in Ids, Sweeps(l) PROVE Goal
    <2>1. Hits({l}) \in SUBSET Hit /\ \A h \in Hits({l}) : h.id = l
      BY <1>0, HitsAreHits DEF Hits
    <2>2. ASSUME NEW status \in Indexes, upsert_batch(Hits({l}), status), Shrinks, l \notin sweep'.left
          PROVE Goal
      <3>1. Stores(Hits({l}), status)
        BY <2>1, <2>2 DEF Stores
      <3>2. QED
        BY <2>1, <3>1
    <2>3. ASSUME SweepActive(l) PROVE Goal
      <3>1. Shrinks /\ (UNCHANGED <<store, unseen>>
                        \/ (upsert_batch(Hits({l}), "active") /\ l \notin sweep'.left))
        BY <1>0, <2>3, ActiveAnswers
      <3>2. QED
        BY <2>2, <3>1 DEF Indexes
    <2>4. ASSUME SweepSold(l) PROVE Goal
      <3>1. Shrinks /\ l \in sweep.left
            /\ (apply_missing(l, sweep.age[l])
                \/ (upsert_batch(Hits({l}), "sold") /\ l \notin sweep'.left))
        BY <1>0, <2>4, SoldAnswers
      <3>2. QED
        BY <2>2, <3>1 DEF Indexes
    <2>5. QED
      BY <1>3, <2>3, <2>4 DEF Sweeps
  <1>4. ASSUME NEW l \in Ids, Edits(l) PROVE UNCHANGED <<store, unseen, sweep>>
    BY <1>4 DEF Edits, List, Withdraw, Reprice, Sell, Edit, Index
  <1>5. Resume \/ End => UNCHANGED <<store, unseen, sweep>>
    BY DEF Resume, End
  <1>6. FailSweep \/ Interrupt => UNCHANGED <<store, unseen>> /\ sweep' = NoSweep
    BY DEF FailSweep, Interrupt, Fault
  <1>7. UNCHANGED vars => UNCHANGED <<store, unseen, sweep>>
    BY DEF vars
  <1>8. CASE \E l \in Ids : Edits(l) \/ Sweeps(l)
    BY <1>1, <1>3, <1>4, <1>8
  <1>9. CASE \E i \in Indexes : Works(i)
    BY <1>2, <1>9
  <1>10. CASE UNCHANGED vars \/ Resume \/ End \/ FailSweep \/ Interrupt
    BY <1>1, <1>5, <1>6, <1>7, <1>10
  <1>11. QED
    BY <1>8, <1>9, <1>10, StepKinds

LEMMA SweepKept ==
    ASSUME StoreInv, [Next]_vars PROVE SweepInv'
  <1>0. SweepInv
    BY DEF StoreInv
  <1>1. CASE UNCHANGED sweep
    BY <1>0, <1>1 DEF SweepInv
  <1>2. CASE sweep' = NoSweep
    BY <1>2 DEF SweepInv, NoSweep, None
  <1>3. ASSUME NEW i \in Indexes, Works(i) PROVE SweepInv'
    BY <1>0, <1>3, WorkSweeps
  <1>4. ASSUME NEW l \in Ids, Sweeps(l) PROVE SweepInv'
    BY <1>0, <1>4, ActiveAnswers, SoldAnswers DEF Sweeps
  <1>5. ASSUME SweepBegin PROVE SweepInv'
    <2> DEFINE age == [l \in Ids |-> store[l].checked]
    <2>1. age \in [Ids -> Int]
      BY DEF StoreInv, RowsInv, Row
    <2>2. refresh_candidates \in SUBSET Ids
      BY DEF refresh_candidates
    <2>3. Sweeping(refresh_candidates, age)
      BY <1>5 DEF SweepBegin
    <2> HIDE DEF age
    <2>4. QED
      BY <2>1, <2>2, <2>3, SweptIsSweep
  <1>6. ASSUME NEW l \in Ids, Edits(l) PROVE UNCHANGED sweep
    BY <1>6 DEF Edits, List, Withdraw, Reprice, Sell, Edit, Index
  <1>7. ASSUME NEW full, Start(full) PROVE UNCHANGED sweep
    BY <1>7 DEF Start
  <1>8. UNCHANGED vars \/ Tick \/ Resume \/ End => UNCHANGED sweep
    BY DEF vars, Tick, Resume, End
  <1>9. FailSweep \/ Interrupt => sweep' = NoSweep
    BY DEF FailSweep, Interrupt
  <1>10. QED
    BY <1>1, <1>2, <1>3, <1>4, <1>5, <1>6, <1>7, <1>8, <1>9, StepKinds

------------------------------------------------------------------------------
(* The rows and their ages, one kind of step after the other. *)

LEMMA TicksAge ==
    ASSUME StoreInv, Tick
    PROVE  /\ RowsInv' /\ AgeInv'
           /\ \A l \in Ids : store'[l].status = store[l].status
  <1> DEFINE older(l) == [store[l] EXCEPT !.checked = Older(store[l].checked)]
  <1>1. /\ store' = [l \in Ids |-> older(l)] /\ unseen' = [l \in Ids |-> Older(unseen[l])]
        /\ UNCHANGED sweep
    BY DEF Tick
  <1>2. ASSUME NEW l \in Ids
        PROVE  /\ Older(unseen[l]) \in Nat /\ Older(unseen[l]) <= Confirm
               /\ unseen[l] <= Older(unseen[l])
               /\ Older(store[l].checked) \in Int /\ Older(store[l].checked) <= Older(unseen[l])
    <2>1. /\ store[l].checked \in Int /\ unseen[l] \in Nat /\ store[l].checked <= unseen[l]
          /\ unseen[l] <= Confirm
      BY DEF StoreInv, RowsInv, AgeInv, Row
    <2> HIDE DEF older
    <2>2. QED
      BY <2>1, OlderGrows
  <1>3. ASSUME NEW l \in Ids
        PROVE  /\ older(l) \in Row /\ Faithful(older(l)) /\ older(l).status = store[l].status
               /\ older(l).checked = Older(store[l].checked)
    <2>1. store[l] \in Row /\ Faithful(store[l])
      BY DEF StoreInv, RowsInv
    <2>2. older(l) = [status |-> store[l].status, price |-> store[l].price,
                      history |-> store[l].history, sold |-> store[l].sold,
                      seen |-> store[l].seen, checked |-> Older(store[l].checked)]
      BY <2>1 DEF Row
    <2> HIDE DEF older
    <2>3. QED
      BY <1>2, <2>1, <2>2 DEF Row, Faithful
  <1> HIDE DEF older
  <1>4. RowsInv'
    BY <1>1, <1>3 DEF RowsInv
  <1>5. ASSUME NEW l \in sweep.left PROVE sweep.age[l] <= Older(unseen[l])
    <2>1. /\ l \in Ids /\ sweep.age[l] \in Int /\ sweep.age[l] <= unseen[l] /\ unseen[l] \in Nat
      BY DEF StoreInv, SweepInv, AgeInv
    <2>2. QED
      BY <1>2, <2>1
  <1>6. sweep.left \subseteq Ids
    BY DEF StoreInv, SweepInv
  <1>7. AgeInv'
    BY <1>1, <1>2, <1>3, <1>5, <1>6 DEF AgeInv
  <1>8. QED
    BY <1>1, <1>3, <1>4, <1>7

LEMMA StartForgets ==
    ASSUME StoreInv, NEW full, Start(full)
    PROVE  /\ RowsInv' /\ AgeInv'
           /\ \A l \in Ids : store'[l].status = store[l].status
  <1> DEFINE again(l) == [store[l] EXCEPT !.seen = FALSE]
  <1>1. store' = [l \in Ids |-> again(l)] /\ UNCHANGED <<unseen, sweep>>
    BY DEF Start
  <1>2. ASSUME NEW l \in Ids
        PROVE  /\ again(l) \in Row /\ Faithful(again(l)) /\ again(l).status = store[l].status
               /\ again(l).checked = store[l].checked
    <2>1. store[l] \in Row /\ Faithful(store[l])
      BY DEF StoreInv, RowsInv
    <2>2. again(l) = [status |-> store[l].status, price |-> store[l].price,
                      history |-> store[l].history, sold |-> store[l].sold,
                      seen |-> FALSE, checked |-> store[l].checked]
      <3>1. store[l] = [status |-> store[l].status, price |-> store[l].price,
                        history |-> store[l].history, sold |-> store[l].sold,
                        seen |-> store[l].seen, checked |-> store[l].checked]
        BY <2>1 DEF Row
      <3>2. ASSUME NEW row, NEW seen, row = [status |-> row.status, price |-> row.price,
                        history |-> row.history, sold |-> row.sold, seen |-> row.seen,
                        checked |-> row.checked]
            PROVE  [row EXCEPT !.seen = seen] =
                       [status |-> row.status, price |-> row.price, history |-> row.history,
                        sold |-> row.sold, seen |-> seen, checked |-> row.checked]
        BY <3>2
      <3>3. QED
        BY <3>1, <3>2
    <2> HIDE DEF again
    <2>3. QED
      BY <2>1, <2>2 DEF Row, Faithful
  <1> HIDE DEF again
  <1>3. QED
    BY <1>1, <1>2 DEF StoreInv, RowsInv, AgeInv, SweepInv

LEMMA HitsAreStored ==
    ASSUME StoreInv, NEW hits \in SUBSET Hit, NEW status \in Indexes, Stores(hits, status)
    PROVE  /\ RowsInv' /\ AgeInv'
           /\ \A l \in Ids : store'[l].status # store[l].status => store'[l].status = status
  <1> DEFINE ids == {h.id : h \in hits}
             price(l) == (CHOOSE h \in hits : h.id = l).price
  <1>1. /\ store' = [l \in Ids |-> IF l \in ids THEN Saved(store[l], price(l), status) ELSE store[l]]
        /\ unseen' = [l \in Ids |-> IF l \in ids THEN 0 ELSE unseen[l]]
    BY DEF Stores, upsert_batch
  <1>2. ids \subseteq Ids /\ \A l \in ids : price(l) \in Price /\ l \notin sweep'.left
    BY DEF Stores, Hit
  <1> HIDE DEF ids, price
  <1>3. ASSUME NEW l \in Ids
        PROVE  /\ store'[l] \in Row /\ Faithful(store'[l])
               /\ store'[l].status # store[l].status => store'[l].status = status
               /\ unseen'[l] \in Nat /\ unseen'[l] <= Confirm /\ store'[l].checked <= unseen'[l]
    <2>1. /\ store[l] \in Row /\ Faithful(store[l]) /\ unseen[l] \in Nat /\ unseen[l] <= Confirm
          /\ store[l].checked <= unseen[l]
      BY DEF StoreInv, RowsInv, AgeInv
    <2>2. CASE l \in ids
      <3>1. store'[l] = Saved(store[l], price(l), status) /\ unseen'[l] = 0 /\ price(l) \in Price
        BY <1>1, <1>2, <2>2
      <3>2. QED
        BY <2>1, <3>1, SavedIsFaithful, TimesAssumption
    <2>3. CASE l \notin ids
      BY <1>1, <2>1, <2>3
    <2>4. QED
      BY <2>2, <2>3
  <1>4. ASSUME NEW l \in sweep'.left PROVE sweep'.age[l] <= unseen'[l]
    <2>1. l \in sweep.left /\ sweep'.age[l] = sweep.age[l] /\ l \notin ids /\ l \in Ids
      BY <1>2 DEF Stores, Shrinks, StoreInv, SweepInv
    <2>2. QED
      BY <1>1, <2>1 DEF StoreInv, AgeInv
  <1>5. RowsInv'
    BY <1>1, <1>3 DEF RowsInv
  <1>6. AgeInv'
    BY <1>1, <1>3, <1>4 DEF AgeInv
  <1>7. QED
    BY <1>3, <1>5, <1>6

LEMMA MissesAreNoted ==
    ASSUME StoreInv, NEW m \in sweep.left, apply_missing(m, sweep.age[m]), Shrinks
    PROVE  /\ RowsInv' /\ AgeInv'
           /\ \A l \in Ids : store'[l].status = "removed" /\ store[l].status # "removed"
                             => unseen[l] >= Confirm
  <1> DEFINE missing == Missing(store[m], sweep.age[m])
  <1>1. /\ m \in Ids /\ store[m] \in Row /\ Faithful(store[m]) /\ store[m].checked \in Int
        /\ sweep.age[m] \in Int /\ sweep.age[m] <= unseen[m] /\ unseen[m] \in Nat
        /\ store[m].checked <= unseen[m]
    BY DEF StoreInv, SweepInv, RowsInv, AgeInv, Row
  <1>2. /\ missing \in Row /\ Faithful(missing) /\ missing.checked \in {store[m].checked, 0}
        /\ missing.status = "removed" => store[m].status = "removed" \/ sweep.age[m] >= Confirm
    BY <1>1, MissingIsFaithful
  <1>3. store' = [store EXCEPT ![m] = missing] /\ UNCHANGED unseen
    BY DEF apply_missing
  <1> HIDE DEF missing
  <1>4. store \in [Ids -> Row] /\ \A l \in Ids : Faithful(store[l])
    BY DEF StoreInv, RowsInv
  <1>5. RowsInv'
    BY <1>1, <1>2, <1>3, <1>4 DEF RowsInv
  <1>6. missing.checked <= unseen[m]
    BY <1>1, <1>2
  <1>7. \A l \in Ids : store'[l].checked <= unseen[l]
    BY <1>3, <1>4, <1>6 DEF StoreInv, AgeInv
  <1>8. \A l \in sweep'.left : sweep'.age[l] <= unseen[l]
    BY DEF Shrinks, StoreInv, AgeInv
  <1>9. AgeInv'
    BY <1>3, <1>7, <1>8 DEF StoreInv, AgeInv
  <1>10. Confirm \in Nat
    BY TimesAssumption
  <1>11. sweep.age[m] >= Confirm => unseen[m] >= Confirm
    BY <1>1, <1>10
  <1>12. ASSUME NEW l \in Ids, store'[l].status = "removed", store[l].status # "removed"
         PROVE  unseen[l] >= Confirm
    <2>1. l = m
      BY <1>3, <1>4, <1>12
    <2>2. store'[l] = missing
      BY <1>1, <1>3, <1>4, <2>1
    <2>3. QED
      BY <1>2, <1>11, <1>12, <2>1, <2>2
  <1>13. QED
    BY <1>5, <1>9, <1>12

LEMMA BeginNotesAges ==
    ASSUME StoreInv, SweepBegin
    PROVE  RowsInv' /\ AgeInv' /\ UNCHANGED store
  <1> DEFINE age == [l \in Ids |-> store[l].checked]
  <1>1. age \in [Ids -> Int] /\ refresh_candidates \in SUBSET Ids
    BY DEF StoreInv, RowsInv, Row, refresh_candidates
  <1>2. Sweeping(refresh_candidates, age) /\ UNCHANGED <<store, unseen>>
    BY DEF SweepBegin
  <1>3. \A l \in Ids : age[l] <= unseen[l]
    BY DEF StoreInv, AgeInv
  <1> HIDE DEF age
  <1>4. \A l \in sweep'.left : l \in Ids /\ sweep'.age = age
    BY <1>1, <1>2, SweptIsSweep
  <1>5. QED
    BY <1>2, <1>3, <1>4 DEF StoreInv, RowsInv, AgeInv

------------------------------------------------------------------------------
(* The theorems. *)

LEMMA RowsKept ==
    ASSUME StoreInv, [Next]_vars
    PROVE  /\ RowsInv' /\ AgeInv'
           /\ \A l \in Ids : store'[l].status = "removed" /\ store[l].status # "removed"
                             => unseen[l] >= Confirm
  <1> DEFINE Goal == /\ RowsInv' /\ AgeInv'
                     /\ \A l \in Ids : store'[l].status = "removed" /\ store[l].status # "removed"
                                       => unseen[l] >= Confirm
  <1>1. ASSUME UNCHANGED <<store, unseen>>, Shrinks PROVE Goal
    BY <1>1 DEF Shrinks, StoreInv, RowsInv, AgeInv
  <1>2. ASSUME Tick PROVE Goal
    BY <1>2, TicksAge
  <1>3. ASSUME SweepBegin PROVE Goal
    BY <1>3, BeginNotesAges
  <1>4. ASSUME NEW full \in BOOLEAN, Start(full) PROVE Goal
    BY <1>4, StartForgets
  <1>5. ASSUME NEW hits \in SUBSET Hit, NEW status \in Indexes, Stores(hits, status) PROVE Goal
    <2>1. status # "removed"
      BY DEF Indexes
    <2>2. QED
      BY <1>5, <2>1, HitsAreStored
  <1>6. ASSUME NEW l \in sweep.left, apply_missing(l, sweep.age[l]), Shrinks PROVE Goal
    BY <1>6, MissesAreNoted
  <1>7. QED
    BY <1>1, <1>2, <1>3, <1>4, <1>5, <1>6, StoreStep

LEMMA InitStore == ASSUME Init PROVE StoreInv
  <1>1. OfferInv
    BY DEF Init, OfferInv, Price
  <1>2. TaskInv
    BY DEF Init, TaskInv, NoTask
  <1>3. SweepInv
    BY DEF Init, SweepInv, NoSweep, None
  <1>4. NoRow \in Row /\ Faithful(NoRow) /\ NoRow.checked = -1
    <2>1. <<>> \in Seq(Price)
      OBVIOUS
    <2>2. QED
      BY <2>1 DEF NoRow, Row, Faithful, None
  <1>5. store = [l \in Ids |-> NoRow] /\ unseen = [l \in Ids |-> Confirm] /\ sweep = NoSweep
    BY DEF Init
  <1>6. RowsInv
    BY <1>4, <1>5 DEF RowsInv
  <1>7. AgeInv
    BY <1>4, <1>5, TimesAssumption DEF AgeInv, NoSweep
  <1>8. QED
    BY <1>1, <1>2, <1>3, <1>6, <1>7 DEF StoreInv

LEMMA StoreInvariant == Spec => []StoreInv
  <1>1. Init => StoreInv
    BY InitStore
  <1>2. StoreInv /\ [Next]_vars => StoreInv'
    <2> SUFFICES ASSUME StoreInv, [Next]_vars PROVE StoreInv'
      OBVIOUS
    <2>1. OfferInv /\ TaskInv
      BY DEF StoreInv
    <2>2. QED
      BY <2>1, OfferKept, TaskKept, SweepKept, RowsKept DEF StoreInv
  <1>3. QED
    BY <1>1, <1>2, PTL DEF Spec

\* Whatever runs fail, overlap with edits or die on the way, a row's history begins with the
\* first price stored for it, repeats none in a row and ends with the row's own price
\* (repositories/listings.py, upsert_batch).
THEOREM HistoryKept == Spec => []HistoryIsPrices
  <1>1. StoreInv => HistoryIsPrices
    BY DEF StoreInv, RowsInv, Faithful, HistoryIsPrices
  <1>2. QED
    BY <1>1, StoreInvariant, PTL

\* No sweep declares a listing removed that some run saw within the time of confirmation,
\* though the age it judges by was read before the batches in between (lifecycle.py).
THEOREM OnlyUnseenAreRemoved == Spec => RemovedMeansUnseen
  <1>1. StoreInv /\ [Next]_vars =>
          [\A l \in Ids : store'[l].status = "removed" /\ store[l].status # "removed"
                          => unseen[l] >= Confirm]_vars
    BY RowsKept
  <1>2. QED
    BY <1>1, StoreInvariant, PTL DEF Spec, RemovedMeansUnseen
=============================================================================
