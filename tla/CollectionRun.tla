---------------------------- MODULE CollectionRun ----------------------------
(***************************************************************************)
(* The life of collection runs: the rows kept in SQLite (parser_runs,      *)
(* parser_run_tasks), the ParserRuntime that executes a run in background  *)
(* asyncio tasks, the HTTP handlers and the scheduler that create, resume, *)
(* cancel and delete runs, and the start, shutdown and crash of the        *)
(* process.  One action is what the event loop runs between two awaits     *)
(* that matter: a handler that reads a row, awaits and then writes is a    *)
(* read action and a write action.                                         *)
(***************************************************************************)
EXTENDS Naturals, FiniteSets

CONSTANTS
    Runs,        \* primary keys of parser_runs: 1..n
    Tasks,       \* the tasks (brand x index) every run is planned into
    Workers,     \* parser_max_concurrency worker coroutines
    Clients,     \* concurrent HTTP requests
    Schedulers,  \* {} when schedule_enabled is off, else one element
    StreakLimit, \* THROTTLE_STREAK_LIMIT
    MaxFaults,   \* bound: failures of a last-resort write (see faults)
    NoRun, NoTask

ASSUME CollectionRunAssumption ==
    /\ Runs \subseteq Nat \ {0}
    /\ StreakLimit \in Nat \ {0}
    /\ MaxFaults \in Nat
    /\ NoRun \notin Runs
    /\ NoTask \notin Tasks
    /\ Clients \cap Schedulers = {}

VARIABLES
    (* SQLite *)
    status,     \* status[r]: parser_runs.status, "absent" without a row
    stop,       \* stop[r]: stats["stop_reason"] = "throttled"
    sched,      \* sched[r]: the row carries stats["schedule"]
    task,       \* task[r][t]: parser_run_tasks.status
    (* ParserRuntime *)
    job,        \* job[r]: where _execute stands, "none" when not in _jobs
    cancelled,  \* cancelled[r]: the asyncio.Event in _cancel is set
    streak,     \* streak[r]: _throttle_streak
    throttled,  \* throttled[r]: r \in _throttled
    queue,      \* queue[r]: task ids still in the run's asyncio.Queue
    worker,     \* worker[w]: the coroutine's step, run and task
    (* the rest of the process *)
    req,        \* req[c]: the request (or scheduler tick) caller c is serving
    other,      \* the market lock is held by a deal scan or by maintenance
    proc,       \* "up", "closing" (lifespan shutdown) or "down"
    (* history *)
    faults,     \* last-resort writes lost to "database is locked"
    asked       \* runs whose cancellation a client obtained since they started

rowVars == <<status, stop, sched, task>>
jobVars == <<job, cancelled, streak, throttled, queue, worker>>
vars == <<rowVars, jobVars, req, other, proc, faults, asked>>

Callers == Clients \cup Schedulers

Active == {"pending", "running"}
TERMINAL_RUN_STATUSES == {"completed", "partial", "failed", "cancelled"}
Resumable == {"interrupted", "failed", "partial", "cancelled"}
RunStatus == Active \cup TERMINAL_RUN_STATUSES \cup {"interrupted"}
TaskStatus == {"pending", "running", "done", "failed", "skipped", "truncated"}

(* _execute: queued on the market lock, then the awaits of _execute_locked. *)
Executing == {"begin", "prepare", "fetch", "settle", "group", "finish",
              "failed", "release"}
JobStep == {"none", "waiting"} \cup Executing
Busy == {"claim", "work", "sweep", "throttle", "error"}
WorkerStep == {"off", "get", "dead"} \cup Busy

Idle == [op |-> "none", pc |-> "idle", run |-> NoRun]
Off == [pc |-> "off", run |-> NoRun, task |-> NoTask]

Exists(r) == status[r] # "absent"
NoTasks == [t \in Tasks |-> "absent"]
ActiveRow == \E r \in Runs : status[r] \in Active
active_run_ids == {r \in Runs : job[r] # "none"}
(* Mutant: only the rows are consulted, not the runtime. *)
NoActiveRow == ~ActiveRow
NoActiveRun == active_run_ids = {} /\ ~ActiveRow

(* Mutant: no launch_lock. *)
LockIgnored == TRUE

(* launch_lock is held from the check for active runs to runtime.start. *)
Holds(c) == req[c].pc \in {"discover", "start"}
LaunchFree == \A c \in Callers : req[c].pc \notin {"discover", "start"}
MarketFree == ~other /\ \A r \in Runs : job[r] \notin Executing

Answer(c) == req' = [req EXCEPT ![c] = Idle]
Await(c, op, pc, r) == req' = [req EXCEPT ![c] = [op |-> op, pc |-> pc, run |-> r]]

------------------------------------------------------------------------------
(* HTTP handlers that start a run.  A request that finds the lock taken      *)
(* waits; it then either meets the new job at once (409) or finds the world  *)
(* as it was, so arriving and taking the lock are one step.                  *)

StartRun(c) ==
    /\ proc = "up" /\ c \in Clients /\ req[c] = Idle
    /\ LaunchFree /\ NoActiveRun
    /\ Await(c, "start", "discover", NoRun)
    /\ UNCHANGED <<rowVars, jobVars, other, proc, faults, asked>>

ResumeRun(c, r) ==
    /\ proc = "up" /\ c \in Clients /\ req[c] = Idle
    /\ LaunchFree /\ NoActiveRun
    /\ status[r] \in Resumable
    /\ Await(c, "resume", "discover", r)
    /\ UNCHANGED <<rowVars, jobVars, other, proc, faults, asked>>

(* Discovery or planning raised, or the row to resume has gone: an error     *)
(* response (for the scheduler, a failed launch) and the lock is released.   *)
LaunchFails(c) ==
    /\ req[c].pc = "discover"
    /\ Answer(c)
    /\ UNCHANGED <<rowVars, jobVars, other, proc, faults, asked>>

(* Mutant: the scheduler trusts what it read before waiting for the lock.    *)
StillClearStale(c) == TRUE

(* The scheduler takes the lock first and looks for active runs after its    *)
(* discovery refresh; a handler looked when it took the lock.                *)
StillClear(c) == c \in Schedulers => NoActiveRun

(* SQLite hands out one more than the largest key in the table.              *)
NextId(r) ==
    /\ \A q \in Runs : Exists(q) => q < r
    /\ r = 1 \/ (r - 1 \in Runs /\ Exists(r - 1))

CreateRun(c, r) ==
    /\ req[c].op = "start" /\ req[c].pc = "discover"
    /\ StillClear(c) /\ NextId(r)
    /\ status' = [status EXCEPT ![r] = "pending"]
    /\ stop' = [stop EXCEPT ![r] = FALSE]
    /\ sched' = [sched EXCEPT ![r] = c \in Schedulers]
    /\ task' = [task EXCEPT ![r] = [t \in Tasks |-> "pending"]]
    /\ asked' = asked \ {r}
    /\ Await(c, "start", "start", r)
    /\ UNCHANGED <<jobVars, other, proc, faults>>

(* Mutant: every task starts afresh.                                         *)
prepare_resume_Restart(r) ==
    /\ status' = [status EXCEPT ![r] = "pending"]
    /\ stop' = [stop EXCEPT ![r] = FALSE]
    /\ task' = [task EXCEPT ![r] = [t \in Tasks |-> "pending"]]

prepare_resume(r) ==
    /\ status' = [status EXCEPT ![r] = "pending"]
    /\ stop' = [stop EXCEPT ![r] = FALSE]
    /\ task' = [task EXCEPT ![r] = [t \in Tasks |->
                    IF task[r][t] \in {"running", "failed", "truncated"}
                    THEN "pending" ELSE task[r][t]]]

PrepareResume(c) ==
    LET r == req[c].run IN
    /\ req[c].op = "resume" /\ req[c].pc = "discover"
    /\ StillClear(c) /\ status[r] \in Resumable
    /\ prepare_resume(r)
    /\ asked' = asked \ {r}
    /\ Await(c, "resume", "start", r)
    /\ UNCHANGED <<sched, jobVars, other, proc, faults>>

(* ParserRuntime.start, after the commit: a new event and a new task.        *)
(* LaunchFindsNoJob says that the "run_already_active" branch is never taken.*)
RuntimeStart(c) ==
    LET r == req[c].run IN
    /\ req[c].pc = "start" /\ job[r] = "none"
    /\ job' = [job EXCEPT ![r] = "waiting"]
    /\ cancelled' = [cancelled EXCEPT ![r] = FALSE]
    /\ Answer(c)
    /\ UNCHANGED <<rowVars, streak, throttled, queue, worker, other, proc, faults, asked>>

------------------------------------------------------------------------------
(* The scheduler decides what its slot needs from what it reads, then waits  *)
(* for launch_lock.  Slots, pauses and attempts are left out here: any       *)
(* decision the rows allow may be taken.                                     *)

AutoResumable(r) ==
    sched[r] /\ (status[r] = "interrupted" \/ (status[r] = "partial" /\ stop[r]))

DecideStart(s) ==
    /\ proc = "up" /\ s \in Schedulers /\ req[s] = Idle /\ NoActiveRun
    /\ Await(s, "start", "lock", NoRun)
    /\ UNCHANGED <<rowVars, jobVars, other, proc, faults, asked>>

DecideResume(s, r) ==
    /\ proc = "up" /\ s \in Schedulers /\ req[s] = Idle /\ NoActiveRun
    /\ AutoResumable(r)
    /\ Await(s, "resume", "lock", r)
    /\ UNCHANGED <<rowVars, jobVars, other, proc, faults, asked>>

TakeLaunchLock(s) ==
    /\ s \in Schedulers /\ req[s].pc = "lock" /\ LaunchFree
    /\ Await(s, req[s].op, "discover", req[s].run)
    /\ UNCHANGED <<rowVars, jobVars, other, proc, faults, asked>>

------------------------------------------------------------------------------
(* Cancelling and deleting: none of these handlers takes launch_lock.        *)

CancelRun(c, r) ==
    /\ proc = "up" /\ c \in Clients /\ req[c] = Idle
    /\ status[r] \in Active
    /\ Await(c, "cancel", "signal", r)
    /\ UNCHANGED <<rowVars, jobVars, other, proc, faults, asked>>

(* runtime.cancel: True sets the event; without a job the row is finished.   *)
CancelSignal(c) ==
    LET r == req[c].run IN
    /\ req[c].pc = "signal"
    /\ \/ /\ job[r] # "none"
          /\ cancelled' = [cancelled EXCEPT ![r] = TRUE]
          /\ asked' = asked \cup {r}
          /\ Answer(c)
       \/ /\ job[r] = "none"
          /\ Await(c, "cancel", "write", r)
          /\ UNCHANGED <<cancelled, asked>>
    /\ UNCHANGED <<rowVars, job, streak, throttled, queue, worker, other, proc, faults>>

CancelWrite(c) ==
    LET r == req[c].run IN
    /\ req[c].op = "cancel" /\ req[c].pc = "write"
    /\ IF Exists(r)
       THEN /\ status' = [status EXCEPT ![r] = "cancelled"]
            /\ asked' = asked \cup {r}
       ELSE UNCHANGED <<status, asked>>
    /\ Answer(c)
    /\ UNCHANGED <<stop, sched, task, jobVars, other, proc, faults>>

DeleteRun(c, r) ==
    /\ proc = "up" /\ c \in Clients /\ req[c] = Idle
    /\ Exists(r) /\ status[r] \notin Active /\ job[r] = "none"
    /\ Await(c, "delete", "write", r)
    /\ UNCHANGED <<rowVars, jobVars, other, proc, faults, asked>>

(* Both "clear collected data" and "clear run history".                      *)
ClearRuns(c) ==
    /\ proc = "up" /\ c \in Clients /\ req[c] = Idle /\ NoActiveRun
    /\ Await(c, "clear", "write", NoRun)
    /\ UNCHANGED <<rowVars, jobVars, other, proc, faults, asked>>

(* Tasks go with their run (ON DELETE CASCADE).                              *)
DeleteRows(c) ==
    LET gone == IF req[c].op = "clear" THEN Runs ELSE {req[c].run} IN
    /\ req[c].op \in {"delete", "clear"} /\ req[c].pc = "write"
    /\ status' = [r \in Runs |-> IF r \in gone THEN "absent" ELSE status[r]]
    /\ stop' = [r \in Runs |-> r \notin gone /\ stop[r]]
    /\ sched' = [r \in Runs |-> r \notin gone /\ sched[r]]
    /\ task' = [r \in Runs |-> IF r \in gone THEN NoTasks ELSE task[r]]
    /\ asked' = asked \ gone
    /\ Answer(c)
    /\ UNCHANGED <<jobVars, other, proc, faults>>

------------------------------------------------------------------------------
(* The job: _execute and _execute_locked.                                    *)

Goto(r, step) == job' = [job EXCEPT ![r] = step]

AcquireMarket(r) ==
    /\ job[r] = "waiting" /\ MarketFree
    /\ Goto(r, "begin")
    /\ UNCHANGED <<rowVars, cancelled, streak, throttled, queue, worker, req,
                   other, proc, faults, asked>>

Begin(r) ==
    /\ job[r] = "begin" /\ Exists(r)
    /\ status' = [status EXCEPT ![r] = "running"]
    /\ Goto(r, "prepare")
    /\ UNCHANGED <<stop, sched, task, cancelled, streak, throttled, queue, worker,
                   req, other, proc, faults, asked>>

(* Mutant: every task of the run is queued, finished or not.                 *)
PrepareAll(r) ==
    /\ job[r] = "prepare" /\ Exists(r)
    /\ queue' = [queue EXCEPT ![r] = Tasks]
    /\ worker' = [w \in Workers |-> [pc |-> "get", run |-> r, task |-> NoTask]]
    /\ Goto(r, "fetch")
    /\ UNCHANGED <<rowVars, cancelled, streak, throttled, req, other, proc, faults, asked>>

(* Resources, the list of pending tasks, then the workers.  The code creates *)
(* no more workers than tasks; a surplus one would only ever wait.           *)
Prepare(r) ==
    /\ job[r] = "prepare" /\ Exists(r)
    /\ queue' = [queue EXCEPT ![r] = {t \in Tasks : task[r][t] = "pending"}]
    /\ worker' = [w \in Workers |-> [pc |-> "get", run |-> r, task |-> NoTask]]
    /\ Goto(r, "fetch")
    /\ UNCHANGED <<rowVars, cancelled, streak, throttled, req, other, proc, faults, asked>>

(* queue.join() returns once every item taken has been task_done().          *)
Joined(r) ==
    /\ job[r] = "fetch" /\ queue[r] = {}
    /\ \A w \in Workers : worker[w].pc \notin Busy
    /\ worker' = [w \in Workers |-> Off]
    /\ Goto(r, "settle")
    /\ UNCHANGED <<rowVars, cancelled, streak, throttled, queue, req, other, proc,
                   faults, asked>>

Settle(r) ==
    /\ job[r] = "settle" /\ Exists(r)
    /\ \/ /\ cancelled[r] /\ ~throttled[r]
          /\ status' = [status EXCEPT ![r] = "cancelled"]
          /\ Goto(r, "release")
       \/ /\ ~cancelled[r] \/ throttled[r]
          /\ Goto(r, "group")
          /\ UNCHANGED status
    /\ UNCHANGED <<stop, sched, task, cancelled, streak, throttled, queue, worker,
                   req, other, proc, faults, asked>>

(* Regrouping and metrics of the run's brands, committed brand by brand.     *)
Group(r) ==
    /\ job[r] = "group" /\ Exists(r)
    /\ Goto(r, "finish")
    /\ UNCHANGED <<rowVars, cancelled, streak, throttled, queue, worker, req, other,
                   proc, faults, asked>>

(* Mutant: a truncated task counts as collected.                             *)
aggregate_status_Lenient(r) ==
    LET some(S) == \E t \in Tasks : task[r][t] \in S IN
    IF ~some({"failed"}) THEN "completed"
    ELSE IF some({"done", "skipped", "truncated"}) THEN "partial" ELSE "failed"

aggregate_status(r) ==
    LET some(S) == \E t \in Tasks : task[r][t] \in S IN
    IF some({"failed"}) /\ ~some({"done", "skipped", "truncated"}) THEN "failed"
    ELSE IF some({"failed", "truncated"}) THEN "partial"
    ELSE "completed"

Finish(r) ==
    /\ job[r] = "finish" /\ Exists(r)
    /\ status' = [status EXCEPT ![r] = IF throttled[r] THEN "partial"
                                       ELSE aggregate_status(r)]
    /\ stop' = [stop EXCEPT ![r] = stop[r] \/ throttled[r]]
    /\ Goto(r, "release")
    /\ UNCHANGED <<sched, task, cancelled, streak, throttled, queue, worker, req,
                   other, proc, faults, asked>>

(* Any step of the job may raise: no credential, a lost row (LookupError), a *)
(* locked database, a bug in grouping.                                       *)
JobError(r) ==
    /\ job[r] \in {"begin", "prepare", "settle", "group", "finish"}
    /\ Goto(r, "failed")
    /\ UNCHANGED <<rowVars, cancelled, streak, throttled, queue, worker, req, other,
                   proc, faults, asked>>

(* Mutant: the failure is logged but not written to the row.                 *)
MarkFailedLogOnly(r) ==
    /\ job[r] = "failed"
    /\ Goto(r, "release")
    /\ UNCHANGED <<rowVars, cancelled, streak, throttled, queue, worker, req, other,
                   proc, faults, asked>>

MarkFailed(r) ==
    /\ job[r] = "failed"
    /\ status' = IF Exists(r) THEN [status EXCEPT ![r] = "failed"] ELSE status
    /\ Goto(r, "release")
    /\ UNCHANGED <<stop, sched, task, cancelled, streak, throttled, queue, worker,
                   req, other, proc, faults, asked>>

(* _mark_failed finds the database locked too: the exception leaves the job. *)
MarkFailedLocked(r) ==
    /\ job[r] = "failed" /\ faults < MaxFaults
    /\ faults' = faults + 1
    /\ Goto(r, "release")
    /\ UNCHANGED <<rowVars, cancelled, streak, throttled, queue, worker, req, other,
                   proc, asked>>

(* The finally block and the done callback _forget.                          *)
Release(r) ==
    /\ job[r] = "release"
    /\ Goto(r, "none")
    /\ cancelled' = [cancelled EXCEPT ![r] = FALSE]
    /\ streak' = [streak EXCEPT ![r] = 0]
    /\ throttled' = [throttled EXCEPT ![r] = FALSE]
    /\ UNCHANGED <<rowVars, queue, worker, req, other, proc, faults, asked>>

------------------------------------------------------------------------------
(* The workers: _worker and _process_task.                                   *)

Step(w, pc, t) ==
    worker' = [worker EXCEPT ![w] = [pc |-> pc, run |-> worker[w].run, task |-> t]]
SetTask(r, t, s) == task' = [task EXCEPT ![r][t] = s]

(* Mutants: the item stays in the queue; the loop stops at a set event.      *)
TakePeek(w, t) ==
    /\ worker[w].pc = "get" /\ t \in queue[worker[w].run]
    /\ Step(w, "claim", t)
    /\ UNCHANGED <<rowVars, job, cancelled, streak, throttled, queue, req, other,
                   proc, faults, asked>>

TakeUnlessCancelled(w, t) ==
    LET r == worker[w].run IN
    /\ worker[w].pc = "get" /\ t \in queue[r] /\ ~cancelled[r]
    /\ queue' = [queue EXCEPT ![r] = @ \ {t}]
    /\ Step(w, "claim", t)
    /\ UNCHANGED <<rowVars, job, cancelled, streak, throttled, req, other, proc,
                   faults, asked>>

(* queue.get(), then the test of the event before any work.                  *)
Take(w, t) ==
    LET r == worker[w].run IN
    /\ worker[w].pc = "get" /\ t \in queue[r]
    /\ queue' = [queue EXCEPT ![r] = @ \ {t}]
    /\ IF cancelled[r] THEN UNCHANGED worker ELSE Step(w, "claim", t)
    /\ UNCHANGED <<rowVars, job, cancelled, streak, throttled, req, other, proc,
                   faults, asked>>

Claim(w) ==
    LET r == worker[w].run  t == worker[w].task IN
    /\ worker[w].pc = "claim"
    /\ \/ /\ task[r][t] = "pending"
          /\ SetTask(r, t, "running")
          /\ Step(w, "work", t)
          /\ UNCHANGED streak
       \/ /\ task[r][t] # "pending"
          /\ Step(w, "get", NoTask)
          /\ streak' = [streak EXCEPT ![r] = 0]
          /\ UNCHANGED task
    /\ UNCHANGED <<status, stop, sched, job, cancelled, throttled, queue, req, other,
                   proc, faults, asked>>

(* finish_task.  A complete active pass goes on to sweep missing listings.   *)
Complete(w, s) ==
    LET r == worker[w].run  t == worker[w].task IN
    /\ worker[w].pc = "work" /\ Exists(r)
    /\ s \in {"done", "skipped", "truncated"}
    /\ SetTask(r, t, s)
    /\ \/ /\ Step(w, "get", NoTask)
          /\ streak' = [streak EXCEPT ![r] = 0]
       \/ /\ s = "done"
          /\ Step(w, "sweep", t)
          /\ UNCHANGED streak
    /\ UNCHANGED <<status, stop, sched, job, cancelled, throttled, queue, req, other,
                   proc, faults, asked>>

(* Mutant: the worker waits for its next item with the old one in hand.      *)
SweptInHand(w) ==
    /\ worker[w].pc = "sweep"
    /\ Step(w, "get", worker[w].task)
    /\ UNCHANGED <<rowVars, job, cancelled, streak, throttled, queue, req, other,
                   proc, faults, asked>>

Swept(w) ==
    /\ worker[w].pc = "sweep"
    /\ Step(w, "get", NoTask)
    /\ streak' = [streak EXCEPT ![worker[w].run] = 0]
    /\ UNCHANGED <<rowVars, job, cancelled, throttled, queue, req, other, proc,
                   faults, asked>>

(* A batch arrives after the event was set: the task goes back to pending.   *)
Withdraw(w) ==
    LET r == worker[w].run  t == worker[w].task IN
    /\ worker[w].pc = "work" /\ cancelled[r]
    /\ IF Exists(r) THEN SetTask(r, t, "pending") ELSE UNCHANGED task
    /\ Step(w, "get", NoTask)
    /\ streak' = [streak EXCEPT ![r] = 0]
    /\ UNCHANGED <<status, stop, sched, job, cancelled, throttled, queue, req, other,
                   proc, faults, asked>>

(* _process_task raises; requests are only sent while working or sweeping.   *)
Raise(w, kind) ==
    /\ \/ worker[w].pc = "claim" /\ kind = "error"
       \/ worker[w].pc \in {"work", "sweep"} /\ kind \in {"error", "throttle"}
    /\ Step(w, kind, worker[w].task)
    /\ UNCHANGED <<rowVars, job, cancelled, streak, throttled, queue, req, other,
                   proc, faults, asked>>

count_throttle(r, kind) ==
    LET n == IF kind = "throttle" THEN streak[r] + 1 ELSE 0
        hit == n >= StreakLimit /\ ~throttled[r]
    IN  /\ streak' = [streak EXCEPT ![r] = n]
        /\ throttled' = [throttled EXCEPT ![r] = throttled[r] \/ hit]
        /\ cancelled' = [cancelled EXCEPT ![r] = cancelled[r] \/ hit]

(* _fail_task, then the count, without an await in between.                  *)
FailTask(w) ==
    LET r == worker[w].run  t == worker[w].task IN
    /\ worker[w].pc \in {"error", "throttle"}
    /\ IF Exists(r) THEN SetTask(r, t, "failed") ELSE UNCHANGED task
    /\ count_throttle(r, worker[w].pc)
    /\ Step(w, "get", NoTask)
    /\ UNCHANGED <<status, stop, sched, job, queue, req, other, proc, faults, asked>>

(* _fail_task finds the database locked: the exception ends the coroutine.   *)
FailTaskLocked(w) ==
    /\ worker[w].pc \in {"error", "throttle"} /\ faults < MaxFaults
    /\ faults' = faults + 1
    /\ Step(w, "dead", NoTask)
    /\ UNCHANGED <<rowVars, job, cancelled, streak, throttled, queue, req, other,
                   proc, asked>>

------------------------------------------------------------------------------
(* The process: deal scans and maintenance, shutdown, crash and start.       *)

TakeMarket ==
    /\ proc = "up" /\ MarketFree /\ other' = TRUE
    /\ UNCHANGED <<rowVars, jobVars, req, proc, faults, asked>>

LeaveMarket ==
    /\ other /\ other' = FALSE
    /\ UNCHANGED <<rowVars, jobVars, req, proc, faults, asked>>

(* lifespan shutdown: requests are drained, the scanner and the scheduler    *)
(* cancelled wherever they stand, and every run's event set.                 *)
Close ==
    /\ proc = "up" /\ \A c \in Clients : req[c] = Idle
    /\ proc' = "closing" /\ other' = FALSE
    /\ req' = [c \in Callers |-> Idle]
    /\ cancelled' = [r \in Runs |-> cancelled[r] \/ job[r] # "none"]
    /\ UNCHANGED <<rowVars, job, streak, throttled, queue, worker, faults, asked>>

(* After 20 seconds close() cancels the job; its workers are left behind.    *)
Interrupt(r) ==
    /\ proc = "closing" /\ job[r] # "none"
    /\ status' = IF status[r] = "running" /\ job[r] \in Executing \ {"failed", "release"}
                 THEN [status EXCEPT ![r] = "interrupted"] ELSE status
    /\ Goto(r, "none")
    /\ UNCHANGED <<stop, sched, task, cancelled, streak, throttled, queue, worker,
                   req, other, proc, faults, asked>>

Forget ==
    /\ job' = [r \in Runs |-> "none"]
    /\ cancelled' = [r \in Runs |-> FALSE]
    /\ streak' = [r \in Runs |-> 0]
    /\ throttled' = [r \in Runs |-> FALSE]
    /\ queue' = [r \in Runs |-> {}]
    /\ worker' = [w \in Workers |-> Off]
    /\ req' = [c \in Callers |-> Idle]
    /\ other' = FALSE

(* A crash at any moment, or the end of a shutdown: only the rows remain.    *)
Down ==
    /\ proc # "down" /\ proc' = "down"
    /\ Forget
    /\ UNCHANGED <<rowVars, faults, asked>>

(* Mutant: only running rows are taken for interrupted.                      *)
reconcile_Running ==
    /\ status' = [r \in Runs |-> IF status[r] = "running" THEN "interrupted" ELSE status[r]]
    /\ task' = [r \in Runs |-> [t \in Tasks |->
                    IF status[r] = "running" /\ task[r][t] = "running"
                    THEN "pending" ELSE task[r][t]]]

reconcile_interrupted ==
    /\ status' = [r \in Runs |-> IF status[r] \in Active THEN "interrupted" ELSE status[r]]
    /\ task' = [r \in Runs |-> [t \in Tasks |->
                    IF status[r] \in Active /\ task[r][t] = "running"
                    THEN "pending" ELSE task[r][t]]]

Boot ==
    /\ proc = "down" /\ proc' = "up"
    /\ reconcile_interrupted
    /\ UNCHANGED <<stop, sched, jobVars, req, other, faults, asked>>

(* "parser_reconcile_skipped": the application serves without it.            *)
BootLocked ==
    /\ proc = "down" /\ proc' = "up"
    /\ faults < MaxFaults /\ faults' = faults + 1
    /\ UNCHANGED <<rowVars, jobVars, req, other, asked>>

------------------------------------------------------------------------------
Init ==
    /\ status = [r \in Runs |-> "absent"]
    /\ stop = [r \in Runs |-> FALSE]
    /\ sched = [r \in Runs |-> FALSE]
    /\ task = [r \in Runs |-> NoTasks]
    /\ job = [r \in Runs |-> "none"]
    /\ cancelled = [r \in Runs |-> FALSE]
    /\ streak = [r \in Runs |-> 0]
    /\ throttled = [r \in Runs |-> FALSE]
    /\ queue = [r \in Runs |-> {}]
    /\ worker = [w \in Workers |-> Off]
    /\ req = [c \in Callers |-> Idle]
    /\ other = FALSE
    /\ proc = "up"
    /\ faults = 0
    /\ asked = {}

Launch(c) ==
    \/ TakeLaunchLock(c) \/ LaunchFails(c) \/ PrepareResume(c) \/ RuntimeStart(c)
    \/ \E r \in Runs : CreateRun(c, r)

Request(c) ==
    \/ StartRun(c) \/ ClearRuns(c) \/ DecideStart(c)
    \/ \E r \in Runs : \/ ResumeRun(c, r) \/ CancelRun(c, r)
                       \/ DeleteRun(c, r) \/ DecideResume(c, r)

Write(c) == CancelSignal(c) \/ CancelWrite(c) \/ DeleteRows(c)

Job(r) ==
    \/ AcquireMarket(r) \/ Begin(r) \/ Prepare(r) \/ Joined(r) \/ Settle(r)
    \/ Group(r) \/ Finish(r) \/ JobError(r) \/ MarkFailed(r)
    \/ MarkFailedLocked(r) \/ Release(r)

Work(w) ==
    \/ \E t \in Tasks : Take(w, t)
    \/ Claim(w) \/ Swept(w) \/ Withdraw(w) \/ FailTask(w) \/ FailTaskLocked(w)
    \/ \E s \in {"done", "skipped", "truncated"} : Complete(w, s)
    \/ \E kind \in {"error", "throttle"} : Raise(w, kind)

Process ==
    \/ TakeMarket \/ LeaveMarket \/ Close \/ Down \/ Boot \/ BootLocked
    \/ \E r \in Runs : Interrupt(r)

Next ==
    \/ \E c \in Callers : Launch(c) \/ Request(c) \/ Write(c)
    \/ \E r \in Runs : Job(r)
    \/ \E w \in Workers : Work(w)
    \/ Process

Spec == Init /\ [][Next]_vars
(* Fairness: the event loop keeps running tasks that can run, every request  *)
(* to the source has a timeout, the market lock is a FIFO asyncio.Lock (so a *)
(* waiting job gets it even if scans keep asking) and a handler past its     *)
(* commit is not cancelled.  Nothing forces a request, a crash or a boot.    *)
FairSpec ==
    /\ Spec
    /\ \A r \in Runs : WF_vars(Job(r)) /\ SF_vars(AcquireMarket(r))
    /\ \A w \in Workers : WF_vars(Work(w))
    /\ \A c \in Callers : WF_vars(RuntimeStart(c))
    /\ WF_vars(LeaveMarket)

------------------------------------------------------------------------------
(* PROPERTIES *)

RowsTypeOK ==
    /\ status \in [Runs -> RunStatus \cup {"absent"}]
    /\ stop \in [Runs -> BOOLEAN]
    /\ sched \in [Runs -> BOOLEAN]
    /\ task \in [Runs -> [Tasks -> TaskStatus \cup {"absent"}]]

WorkerStates ==
    {Off} \cup [pc : {"get", "dead"}, run : Runs, task : {NoTask}]
          \cup [pc : Busy, run : Runs, task : Tasks]

RuntimeTypeOK ==
    /\ job \in [Runs -> JobStep]
    /\ cancelled \in [Runs -> BOOLEAN]
    /\ streak \in [Runs -> Nat]
    /\ throttled \in [Runs -> BOOLEAN]
    /\ queue \in [Runs -> SUBSET Tasks]
    /\ worker \in [Workers -> WorkerStates]

Requests ==
    {Idle} \cup [op : {"start"}, pc : {"lock", "discover"}, run : {NoRun}]
           \cup [op : {"resume"}, pc : {"lock", "discover"}, run : Runs]
           \cup [op : {"start", "resume"}, pc : {"start"}, run : Runs]
           \cup [op : {"cancel"}, pc : {"signal", "write"}, run : Runs]
           \cup [op : {"delete"}, pc : {"write"}, run : Runs]
           \cup [op : {"clear"}, pc : {"write"}, run : {NoRun}]

ProcessTypeOK ==
    /\ req \in [Callers -> Requests]
    /\ other \in BOOLEAN
    /\ proc \in {"up", "closing", "down"}
    /\ faults \in 0..MaxFaults
    /\ asked \in SUBSET Runs

(* Type invariant of the rows, the runtime and the handlers.                 *)
TypeOK == RowsTypeOK /\ RuntimeTypeOK /\ ProcessTypeOK

(* launch_lock's purpose (runtime.py: "so the two never create a run each"): *)
(* whatever the API and the scheduler do, one run at most is in the runtime. *)
AtMostOneJob ==
    \A r, q \in Runs : job[r] # "none" /\ job[q] # "none" => r = q

(* Whoever is about to call runtime.start finds no job there, so start never *)
(* answers "run_already_active" after the row was committed as pending.      *)
LaunchFindsNoJob ==
    \A c \in Callers : req[c].pc = "start" => active_run_ids = {}

(* A pending or running row always has a job, or a launcher about to give it *)
(* one: otherwise every later start is refused with "run_active" for good.   *)
ActiveRowHasOwner ==
    proc = "up" /\ faults = 0 =>
        \A r \in Runs : status[r] \in Active =>
            \/ job[r] # "none"
            \/ \E c \in Callers : req[c].pc = "start" /\ req[c].run = r

(* Two rows are never active together, whatever is lost on the way.          *)
OneActiveRow ==
    \A r, q \in Runs : status[r] \in Active /\ status[q] \in Active => r = q

(* What of the callers, the jobs and the rows SingleRun speaks about.        *)
Holders == {c \in Callers : Holds(c)}
Committed == {req[c].run : c \in {d \in Callers : req[d].pc = "start"}}
OpenRows == {r \in Runs : status[r] \in Active}
AtMarket == {m \in {"run", "other"} :
                IF m = "other" THEN other ELSE \E r \in Runs : job[r] \in Executing}

Single == INSTANCE SingleRun WITH
    holders <- Holders, committed <- Committed, runtime <- active_run_ids,
    open <- OpenRows, market <- AtMarket

(* launch_lock and market_lock together do what they are for (runtime.py:    *)
(* "so the two never create a run each"): whatever handlers, scheduler,      *)
(* shutdowns and crashes do, CollectionRun takes no step SingleRun forbids,  *)
(* so one run at a time is committed, handed over and executed, and never    *)
(* beside a deal scan.                                                       *)
OneRunIsServed == Single!Spec

(* A completed run is not resumable, so it may leave nothing behind: every   *)
(* task was collected, unless recording a task's failure itself failed.      *)
CompletedMeansCollected ==
    faults = 0 =>
        \A r \in Runs : status[r] = "completed" =>
            \A t \in Tasks : task[r][t] \in {"done", "skipped"}

(* No task is ever fetched by two workers, also across resumes and aborts.   *)
NoTaskFetchedTwice ==
    \A v, w \in Workers :
        /\ v # w /\ worker[v].pc \in Busy /\ worker[w].pc \in Busy
        /\ worker[v].run = worker[w].run
        => worker[v].task # worker[w].task

(* Once the source pushed back StreakLimit times in a row only the fetches   *)
(* already in flight can still be refused: the streak stays below the limit  *)
(* plus the number of workers.                                               *)
ThrottleOvershoot ==
    \A r \in Runs : streak[r] < StreakLimit + Cardinality(Workers)

(* Only a throttled run that stopped as partial keeps the stop reason the    *)
(* schedule pauses on, unless a cancel or a failure overwrote the status.    *)
StopReasonMeansPartial ==
    \A r \in Runs : stop[r] => status[r] \in {"partial", "cancelled"}

(* Resuming never collects a finished task again, and nothing but deleting   *)
(* the run or a failed sweep takes a task out of done or skipped.            *)
FinishedTasksStay ==
    [][\A r \in Runs, t \in Tasks :
          task[r][t] \in {"done", "skipped"} =>
              task'[r][t] \in {task[r][t], "failed", "absent"}]_vars

(* Every run that enters the runtime leaves it, cancelled, throttled or not. *)
JobEnds == \A r \in Runs : job[r] # "none" ~> job[r] = "none"

(* A row that is active does not stay active while the application serves,   *)
(* unless the failure of its run could not be written to it.                 *)
ActiveRowEnds ==
    \A r \in Runs :
        status[r] \in Active ~> (status[r] \notin Active \/ proc # "up" \/ faults > 0)

(* services/scheduler.py:5, "so a restart picks up where the previous        *)
(* process left off": a scheduled run nobody cancelled is never left         *)
(* cancelled, which the schedule takes for done.                             *)
CancelledOnlyOnRequest ==
    \A r \in Runs : sched[r] /\ status[r] = "cancelled" => r \in asked
------------------------------------------------------------------------------
(* INDUCTIVE INVARIANTS *)

(* Why AtMostOneJob, LaunchFindsNoJob and OneActiveRow hold: one caller      *)
(* holds launch_lock; a handler holding it has seen, and still sees, nothing *)
(* active; past its commit only its own row is active; and an active row is  *)
(* the row of the job.  A closing or stopped process serves no caller.       *)
LaunchInv ==
    /\ \A c, d \in Callers : Holds(c) /\ Holds(d) => c = d
    /\ \A c \in Clients : req[c].pc = "discover" => NoActiveRun
    /\ \A c \in Callers : req[c].pc = "start" =>
          /\ active_run_ids = {}
          /\ \A q \in Runs : status[q] \in Active => q = req[c].run
    /\ \A r, q \in Runs : job[r] # "none" /\ (job[q] # "none" \/ status[q] \in Active) => r = q
    /\ OneActiveRow
    /\ proc # "up" => \A c \in Callers : req[c] = Idle
    /\ proc = "down" => active_run_ids = {}

(* market_lock: nobody else works while a run does.                          *)
MarketInv == other => \A r \in Runs : job[r] \notin Executing

Settled == {"done", "skipped", "failed", "truncated"}
OnTask(w, r, t) == worker[w].pc \in Busy /\ worker[w].run = r /\ worker[w].task = t

(* Workers belong to the run that is fetching, or to the one a shutdown left *)
(* behind, and no completed run has workers.                                 *)
WorkersHaveRun ==
    \A w \in Workers : worker[w].pc # "off" =>
        /\ \/ job[worker[w].run] = "fetch"
           \/ proc = "closing" /\ active_run_ids = {}
        /\ status[worker[w].run] # "completed"

(* A task is in the queue or with one worker, never both, and untouched      *)
(* until a worker claims it.                                                 *)
TasksHaveOneOwner ==
    /\ NoTaskFetchedTwice
    /\ \A w \in Workers, r \in Runs : \A t \in queue[r] : ~OnTask(w, r, t)
    /\ \A w \in Workers : worker[w].pc # "off" /\ Exists(worker[w].run) =>
          \A t \in queue[worker[w].run] : task[worker[w].run][t] = "pending"
    /\ \A w \in Workers, r \in Runs, t \in Tasks : OnTask(w, r, t) /\ Exists(r) =>
          /\ worker[w].pc = "claim" => task[r][t] = "pending"
          /\ worker[w].pc = "work" => task[r][t] = "running"
          /\ worker[w].pc = "sweep" => task[r][t] \in Settled

(* While nobody cancels and every failure is recorded, a task of a fetching  *)
(* run is settled, queued or with a worker; later on it is settled.          *)
NoTaskLost ==
    faults = 0 =>
        \A r \in Runs : Exists(r) => \A t \in Tasks :
            /\ job[r] = "fetch" /\ ~cancelled[r] =>
                  \/ task[r][t] \in Settled
                  \/ t \in queue[r]
                  \/ \E w \in Workers : OnTask(w, r, t)
            /\ \/ job[r] = "settle" /\ ~cancelled[r]
               \/ job[r] \in {"group", "finish"} /\ ~throttled[r]
               => task[r][t] \in Settled

(* A row is not completed before its job is about to leave the runtime.      *)
NotYetCompleted ==
    /\ \A r \in Runs : job[r] \notin {"none", "release"} => status[r] # "completed"
    /\ \A c \in Callers : req[c].pc = "start" => status[req[c].run] # "completed"

(* A run has all its tasks, and none of them is running before its workers  *)
(* are started.                                                              *)
Unstarted(r) ==
    \/ job[r] \in {"waiting", "begin", "prepare"}
    \/ \E c \in Callers : req[c].pc = "start" /\ req[c].run = r

TasksPlanned ==
    \A r \in Runs, t \in Tasks : Exists(r) =>
        /\ task[r][t] # "absent"
        /\ Unstarted(r) => task[r][t] \in {"pending"} \cup Settled

(* Tasks come and go with their run.                                         *)
NoRowNoTasks == \A r \in Runs : ~Exists(r) => task[r] = NoTasks

(* A job that leaves the runtime has closed its row, if it could write at all.*)
ClosedOnLeaving ==
    faults = 0 => \A r \in Runs : job[r] = "release" => status[r] \notin Active

CollectionInv ==
    /\ NoRowNoTasks
    /\ ClosedOnLeaving
    /\ NotYetCompleted
    /\ WorkersHaveRun
    /\ TasksPlanned
    /\ TasksHaveOneOwner
    /\ NoTaskLost
    /\ CompletedMeansCollected
=============================================================================
