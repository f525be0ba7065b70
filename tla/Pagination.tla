----------------------------- MODULE Pagination -----------------------------
(***************************************************************************)
(* algolia/pagination.py under one ParserRunTask of runtime.py: how the    *)
(* hits of one brand and index are read through a search that shows at     *)
(* most Limit of them, PerPage at a time, and how a task that stops half   *)
(* way goes on from its cursor.  A batch of hits is stored together with   *)
(* the cursor that stands for it, in one commit; anything may stop the     *)
(* task between two batches.                                               *)
(*                                                                         *)
(* The planner's own memory (run) is lost with an attempt, the task and    *)
(* the stored listings are not.                                            *)
(***************************************************************************)
EXTENDS Naturals, Sequences, FiniteSetsExt

CONSTANTS
    Hits,          \* the objectIDs, numbered in the index's order of relevance
    Width,         \* the values of a numeric attribute are 0..Width-1
    Indexes,       \* what the searched index may be like
    MaxInterrupts, \* bound, by strategy: attempts that end before their time
    MaxChanges     \* bound: listings that come or go between two attempts

Strategies == {"browse", "keyset", "range_split"}

(* strategy: what the index is able to, limit: paginationLimitedTo (1000),   *)
(* per_page: hitsPerPage (200), exact_to: up to here nbHits is exhaustive    *)
(* and beyond it an estimate, value: the attributes, Width for none.         *)
IndexTypes ==
    [strategy : Strategies, limit : Nat \ {0}, per_page : Nat \ {0}, exact_to : Nat \ {0},
     value : [Hits -> [id : 0..Width, key : 0..Width]]]

ASSUME PaginationAssumption ==
    /\ Hits \subseteq Nat /\ IsFiniteSet(Hits) /\ Width \in Nat \ {0}
    /\ Indexes \subseteq IndexTypes
    /\ MaxInterrupts \in [Strategies -> Nat] /\ MaxChanges \in Nat

VARIABLES
    index,       \* what the searched index is like
    listed,      \* the hits of the query in the index now
    saved,      \* the hits the database has
    task,        \* the ParserRunTask
    run,         \* the PaginationRun and its generator
    interrupts,
    changes

pagesVars == <<index, listed, saved, task, run, interrupts, changes>>
bounds == <<interrupts, changes>>

value == index.value
Limit == index.limit
PerPage == index.per_page

(* A cursor is empty, a key, a set of pages, or a place in a browse.         *)
Everything == Width + 1
NoCursor == [key |-> Everything, pages |-> {}, place |-> 0]

NewTask == [status |-> "pending", hits |-> 0, cursor |-> NoCursor, complete |-> FALSE]

(* tie: the key a split is restricted to, or Everything; more: the keyset    *)
(* goes on after the ties; resumed: the pages the attempt began with.        *)
NoAttempt == [pc |-> "idle", prior |-> 0, expected |-> 0, exact |-> TRUE, seen |-> {},
         leaf |-> 0, truncated |-> FALSE, split |-> FALSE, bound |-> Everything,
         tie |-> Everything, more |-> FALSE, place |-> 0, resumed |-> {},
         completed |-> {}, queue |-> <<>>, pages |-> {}]

Finished == {"done", "skipped", "truncated"}

------------------------------------------------------------------------------
(* The search. *)

(* nbHits and exhaustiveNbHits.                                              *)
Counts(hits) ==
    LET n == Cardinality(hits)
    IN  IF n <= index.exact_to THEN {[nb |-> n, exact |-> TRUE]}
        ELSE {[nb |-> m, exact |-> FALSE] : m \in (n - 1)..(n + 1)}

(* Page n of a query, in the index's order.                                  *)
place(h, hits) == Cardinality({g \in hits : g < h})
Page(hits, n) == {h \in hits : place(h, hits) < Limit /\ place(h, hits) \div PerPage = n}

PagesFor(nb) == (nb + PerPage - 1) \div PerPage

(* The attributes a split goes through, and what the filters of a query      *)
(* leave.  A bucket is a sequence of intervals, one for each attribute       *)
(* reached; the tie is the key the whole split is restricted to.             *)
AttrsOf(tie) == IF tie = Everything THEN <<"id", "key">> ELSE <<"id">>
Matching(tie, bucket) ==
    {h \in listed : /\ tie \in {Everything, value[h].key}
                    /\ \A i \in DOMAIN bucket :
                        LET v == value[h][AttrsOf(tie)[i]]
                        IN  bucket[i].lo <= v /\ v < bucket[i].hi}

WholeRange == [lo |-> 0, hi |-> Width]

(* Mutant: the upper half begins after the middle.                           *)
bisect_interval_Gap(r) ==
    LET middle == r.lo + (r.hi - r.lo) \div 2
    IN  <<[r EXCEPT !.hi = middle], [r EXCEPT !.lo = Min({middle + 1, r.hi})]>>

bisect_interval(r) ==
    LET middle == r.lo + (r.hi - r.lo) \div 2
    IN  <<[r EXCEPT !.hi = middle], [r EXCEPT !.lo = middle]>>

(* _range_signature                                                          *)
Signature(bucket, n) == <<run.tie, bucket, n>>

------------------------------------------------------------------------------
(* The task. *)

(* What one batch commits: its new hits, and the cursor when there are any.  *)
Store(found, cursor) ==
    LET new == found \ run.seen
    IN  /\ saved' = saved \union new
        /\ task' = IF new = {} THEN task
                   ELSE [task EXCEPT !.hits = @ + Cardinality(new), !.cursor = cursor]

(* _range_cursor                                                             *)
RangeCursor(pages) == [NoCursor EXCEPT !.pages = pages]

(* _range_completed: any other cursor stands for no page.                    *)
range_completed(cursor) == cursor.pages

(* _process_task claims the task; _execute probes the whole query.           *)
BeginAttempt ==
    /\ task.status = "pending"
    /\ task' = [task EXCEPT !.status = "running"]
    /\ \E count \in Counts(listed) :
        run' = [NoAttempt EXCEPT
            !.pc = IF count.nb = 0 THEN "finish"
                   ELSE IF index.strategy = "range_split" THEN "split" ELSE index.strategy,
            !.prior = task.hits, !.expected = count.nb, !.exact = count.exact,
            !.bound = task.cursor.key, !.place = task.cursor.place,
            !.resumed = range_completed(task.cursor),
            !.completed = range_completed(task.cursor),
            !.queue = IF index.strategy = "range_split" THEN <<<<WholeRange>>>> ELSE <<>>]
    /\ UNCHANGED <<index, listed, saved, bounds>>

passed(from) == from + PerPage

(* _browse: a page and a cursor behind it, none behind the last; batch.cursor *)
(* or task.cursor.                                                           *)
BrowsePage ==
    LET found == {h \in listed : place(h, listed) \in run.place..(run.place + PerPage - 1)}
        last == passed(run.place) >= Cardinality(listed)
    IN  /\ run.pc = "browse"
        /\ Store(found, IF last THEN task.cursor ELSE [NoCursor EXCEPT !.place = passed(run.place)])
        /\ run' = [run EXCEPT !.seen = @ \union found, !.place = passed(@),
                              !.pc = IF last THEN "finish" ELSE @]
        /\ UNCHANGED <<index, listed, bounds>>

(* In a sorted index, hits without the key come last.                        *)
rank(h) == IF value[h].key = Width THEN 0 ELSE value[h].key + 1
Topmost(hits, n) ==
    {top \in kSubset(n, hits) : \A h \in top, g \in hits \ top : rank(h) >= rank(g)}

(* Mutant: the next round begins at the boundary.                            *)
below_Again(boundary) == boundary + 1

(* The next round's filter is key < cursor.                                  *)
below(boundary) == boundary

(* One round of _keyset: what lies above the lowest key that can be seen is  *)
(* stored with that key as the cursor; the hits with that very key are then  *)
(* read by a split of their own.                                             *)
KeysetPage ==
    LET under == {h \in listed : value[h].key < run.bound}
        shown(nb) == Min({Limit, PerPage * PagesFor(nb), Cardinality(under)})
    IN  /\ run.pc = "keyset"
        /\ \E count \in Counts(under) : \E top \in Topmost(under, shown(count.nb)) :
            LET keys == {value[h].key : h \in top} \ {Width}
                boundary == Min(keys)
                above == {h \in top : value[h].key \in keys \ {boundary}}
            IN  IF keys = {}
                THEN run' = [run EXCEPT !.pc = "finish"] /\ UNCHANGED <<saved, task>>
                ELSE /\ Store(above, [NoCursor EXCEPT !.key = below(boundary)])
                     /\ run' = [run EXCEPT
                            !.pc = "split", !.seen = @ \union above,
                            !.bound = below(boundary), !.tie = boundary,
                            !.more = count.nb > Limit, !.completed = run.resumed,
                            !.queue = <<<<WholeRange>>>>]
        /\ UNCHANGED <<index, listed, bounds>>

------------------------------------------------------------------------------
(* _range_split *)

head == Head(run.queue)
current == head[Len(head)]
Within(bucket) == Matching(run.tie, bucket)
LastAttr == Len(head) = Len(AttrsOf(run.tie))
Splitting == run.pc = "split" /\ run.pages = {} /\ run.queue # <<>>
DropBucket == run' = [run EXCEPT !.queue = Tail(@)]

wide(r) == r.hi - r.lo > 1

(* An estimate is good enough for a bucket whose first page is not full.     *)
FitsOnePage(count) ==
    /\ count.nb <= Limit /\ ~count.exact
    /\ Cardinality(Page(Within(head), 0)) < PerPage
FitsLimit(count) == count.nb <= Limit /\ count.exact
Fits(count) == count.nb = 0 \/ FitsOnePage(count) \/ FitsLimit(count)

(* leaf_probe_hits, which nothing reads after a split of ties.               *)
leaf(nb) == IF run.tie = Everything THEN nb ELSE 0

(* The requests of _fetch_bounded: the pages of the bucket, those completed  *)
(* left out.                                                                 *)
Pages(nb) == {Signature(head, n - 1) : n \in 1..PagesFor(Min({nb, Limit}))} \ run.completed

EmptyBucket ==
    /\ Splitting /\ Within(head) = {}
    /\ DropBucket
    /\ UNCHANGED <<index, listed, saved, task, bounds>>

(* The one page is read, also when an earlier attempt has.                   *)
OnePage ==
    /\ Splitting
    /\ \E count \in Counts(Within(head)) :
        /\ FitsOnePage(count)
        /\ LET found == Page(Within(head), 0)
               pages == run.completed \union {Signature(head, 0)}
           IN  /\ Store(found, RangeCursor(pages))
               /\ run' = [run EXCEPT !.queue = Tail(@), !.leaf = @ + leaf(count.nb),
                                     !.seen = @ \union found, !.completed = pages]
    /\ UNCHANGED <<index, listed, bounds>>

Bounded ==
    /\ Splitting /\ Within(head) # {}
    /\ \E count \in Counts(Within(head)) :
        /\ FitsLimit(count)
        /\ run' = [run EXCEPT !.queue = Tail(@), !.leaf = @ + leaf(count.nb), !.pages = Pages(count.nb)]
    /\ UNCHANGED <<index, listed, saved, task, bounds>>

(* Halves of the interval, or the next attribute; both wait at the end of    *)
(* the queue.                                                                *)
Split ==
    LET halves == bisect_interval(current)
        With(r) == [head EXCEPT ![Len(head)] = r]
    IN  /\ Splitting /\ \E count \in Counts(Within(head)) : ~Fits(count)
        /\ \/ /\ wide(current)
              /\ run' = [run EXCEPT !.queue = Tail(@) \o <<With(halves[1]), With(halves[2])>>]
           \/ /\ ~wide(current) /\ ~LastAttr
              /\ run' = [run EXCEPT !.queue = Append(Tail(@), Append(head, WholeRange))]
        /\ UNCHANGED <<index, listed, saved, task, bounds>>

(* Nothing is left to split by.                                              *)
Truncate ==
    /\ Splitting /\ ~wide(current) /\ LastAttr
    /\ \E count \in Counts(Within(head)) :
        /\ ~Fits(count)
        /\ run' = [run EXCEPT !.queue = Tail(@), !.truncated = TRUE, !.leaf = @ + leaf(count.nb),
                              !.pages = Pages(Limit)]
    /\ UNCHANGED <<index, listed, saved, task, bounds>>

(* Mutant: the cursor names all pages asked for, not those that came.        *)
completes_All(pages) == pages

(* The pages come in their order.                                            *)
first(pages) == CHOOSE s \in pages : \A r \in pages : s[3] <= r[3]

(* The pages a batch adds to the cursor.                                     *)
completes(pages) == {first(pages)}

(* One page of _fetch_bounded becomes one batch.                             *)
PageArrives ==
    LET s == first(run.pages)
        found == Page(Within(s[2]), s[3])
        pages == run.completed \union completes(run.pages)
    IN  /\ run.pc = "split" /\ run.pages # {}
        /\ Store(found, RangeCursor(pages))
        /\ run' = [run EXCEPT !.pages = @ \ {s}, !.seen = @ \union found, !.completed = pages]
        /\ UNCHANGED <<index, listed, bounds>>

SplitEnds ==
    /\ run.pc = "split" /\ run.pages = {} /\ run.queue = <<>>
    /\ run' = [run EXCEPT !.pc = IF run.more THEN "keyset" ELSE "finish",
                          !.split = run.tie = Everything, !.tie = Everything]
    /\ UNCHANGED <<index, listed, saved, task, bounds>>

------------------------------------------------------------------------------
(* PaginationRun.finish                                                      *)
expected_hits == IF ~run.exact /\ run.split THEN run.leaf ELSE run.expected

(* The coverage of all attempts together, and finish_task.                   *)
Finish ==
    LET sum == run.prior + Cardinality(run.seen)
        collected == IF run.exact THEN Min({sum, expected_hits}) ELSE sum
    IN  /\ run.pc = "finish"
        /\ task' = [task EXCEPT
              !.status = IF run.truncated THEN "truncated"
                         ELSE IF expected_hits = 0 THEN "skipped" ELSE "done",
              !.hits = collected,
              !.complete = /\ expected_hits # 0 /\ ~run.truncated
                           /\ 100 * collected >= 98 * expected_hits]
        /\ run' = NoAttempt
        /\ UNCHANGED <<index, listed, saved, bounds>>

(* A cancel, an error or the end of the process stops the attempt, and the   *)
(* run is resumed; a truncated task is taken up again as well.               *)
Interrupt ==
    /\ task.status \in {"running", "truncated"}
    /\ interrupts < MaxInterrupts[index.strategy] /\ interrupts' = interrupts + 1
    /\ task' = [task EXCEPT !.status = "pending"]
    /\ run' = NoAttempt
    /\ UNCHANGED <<index, listed, saved, changes>>

(* Hours lie between two attempts, seconds between two requests of one:      *)
(* a listing comes or goes only while no attempt runs.                       *)
Change(h) ==
    /\ task.status = "pending"
    /\ changes < MaxChanges /\ changes' = changes + 1
    /\ listed' = IF h \in listed THEN listed \ {h} ELSE listed \union {h}
    /\ UNCHANGED <<index, saved, task, run, interrupts>>

PagesInit ==
    /\ index \in Indexes
    /\ listed \in SUBSET Hits
    /\ saved = {}
    /\ task = NewTask
    /\ run = NoAttempt
    /\ interrupts = 0 /\ changes = 0

Attempt ==
    \/ BeginAttempt \/ BrowsePage \/ KeysetPage
    \/ EmptyBucket \/ OnePage \/ Bounded \/ Split \/ Truncate \/ PageArrives \/ SplitEnds
    \/ Finish

PagesNext == Attempt \/ Interrupt

PagesSpec == PagesInit /\ [][PagesNext]_pagesVars

(* The same while listings come and go.                                      *)
ShiftingSpec == PagesInit /\ [][PagesNext \/ \E h \in Hits : Change(h)]_pagesVars

(* A worker runs the attempt's coroutine until it ends, and a run that was   *)
(* stopped is resumed.                                                       *)
FairPagesSpec == PagesSpec /\ WF_pagesVars(Attempt)

------------------------------------------------------------------------------
(* Properties. *)

Ranges == {r \in [lo : 0..Width, hi : 0..Width] : r.lo <= r.hi}
Buckets == {<<r>> : r \in Ranges} \union (Ranges \X Ranges)
Signatures == (0..Everything) \X Buckets \X (0..Limit)
AllOf(s) == {s[i] : i \in DOMAIN s}

PagesTypeOK ==
    /\ index \in Indexes /\ listed \subseteq Hits /\ saved \subseteq Hits
    /\ task.status \in {"pending", "running"} \union Finished
    /\ task.hits \in Nat /\ task.complete \in BOOLEAN
    /\ task.cursor.key \in 0..Everything /\ task.cursor.place \in Nat
    /\ task.cursor.pages \union run.completed \union run.resumed \union run.pages
            \subseteq Signatures
    /\ run.pc \in {"idle", "browse", "keyset", "split", "finish"}
    /\ {run.prior, run.expected, run.leaf, run.place} \subseteq Nat
    /\ {run.exact, run.truncated, run.split, run.more} \subseteq BOOLEAN
    /\ run.seen \subseteq Hits
    /\ {run.bound, run.tie} \subseteq 0..Everything
    /\ AllOf(run.queue) \subseteq Buckets
    /\ interrupts \in 0..MaxInterrupts[index.strategy] /\ changes \in 0..MaxChanges

(* docs/PRD.md:5: "Incomplete collection is always visible as                *)
(* partial/truncated."  A task whose coverage is complete has stored every   *)
(* hit of the query, in however many attempts it was collected.              *)
CompleteMeansCollected == task.complete => listed \subseteq saved

(* runtime.py:364-378: hits_collected adds up the attempts.  While nbHits is *)
(* exact, a split counts every stored hit once: no attempt reads again what  *)
(* the cursor of the one before stands for.  (A browse reads its last page   *)
(* again.)                                                                   *)
CountedOnce ==
    index.strategy = "range_split" /\ index.exact_to >= Cardinality(Hits)
        => task.hits = Cardinality(saved)

(* runtime.py:359-365: a cursor never stands for a page that is not stored,  *)
(* or the next attempt would pass over it.                                   *)
CursorIsStored ==
    \A s \in task.cursor.pages : Page(Matching(s[1], s[2]), s[3]) \subseteq saved

(* docs/PAGINATION.md:42: keyset pagination guarantees completeness, and its *)
(* cursor is a natural checkpoint.  A task that ended stored every hit that  *)
(* has a key.                                                                *)
KeysIndexed == {h \in listed : value[h].key # Width}
KeysetIsComplete ==
    index.strategy = "keyset" /\ task.status = "done" => KeysIndexed \subseteq saved

(* docs/PAGINATION.md: splitting by ranges needs no order and loses nothing  *)
(* but to a truncated bucket.  While nbHits is exact, a task that was split  *)
(* to its end, in however many attempts, stored every hit that has the       *)
(* attributes it was split by.                                               *)
Splittable == {h \in listed : value[h].id # Width /\ value[h].key # Width}
SplitIsComplete ==
    index.strategy = "range_split" /\ index.exact_to >= Cardinality(Hits)
        /\ task.status \in {"done", "skipped"} => Splittable \subseteq saved

(* However the hits are spread, splitting and seeking come to an end.        *)
TaskEnds == <>(task.status \in Finished)
=============================================================================
