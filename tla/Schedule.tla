------------------------------ MODULE Schedule ------------------------------
(***************************************************************************)
(* services/scheduler.py: daily collection inside the app.  One scheduler  *)
(* task ticks; a tick reads the clock once, follows up the scheduled runs  *)
(* that ended (pause after throttling, backup and retention after a full   *)
(* run), decides what the current slot needs and launches it.  Each of     *)
(* these awaits the database, the network, a thread or a lock, and time    *)
(* passes and runs start, end and are deleted meanwhile.                   *)
(*                                                                         *)
(* How one run is kept active at a time is CollectionRun's subject; here   *)
(* `manual' stands for a run started by hand, and a scheduled run is a row *)
(* of `runs'.  A disabled schedule's tick changes nothing.                 *)
(***************************************************************************)
EXTENDS Integers, Sequences, FiniteSets, FiniteSetsExt

CONSTANTS
    SlotLength,           \* 24 h
    CATCH_UP,             \* 20 h
    THROTTLE_PAUSE,       \* 6 h
    MAINTENANCE_RETRY,    \* 1 h
    LAUNCH_BACKOFF,       \* 30 min
    SLOT_ATTEMPTS,
    MAINTENANCE_ATTEMPTS,
    FullSlots,            \* the slots that open on a Sunday
    Horizon,              \* bound: the clock stops here
    MaxRuns,              \* bound: rows of scheduled runs
    MaxManual,            \* bound: runs started or resumed by hand
    MaxRestarts,          \* bound: restarts of the process
    MaxDeletes,           \* bound: rows deleted by hand
    MaxFaults,            \* bound: ticks that end in a database error
    MaxOutside            \* bound: all of these together

ASSUME ScheduleAssumption ==
    /\ {SlotLength, SLOT_ATTEMPTS, MAINTENANCE_ATTEMPTS} \subseteq Nat \ {0}
    /\ {CATCH_UP, THROTTLE_PAUSE, MAINTENANCE_RETRY, LAUNCH_BACKOFF} \subseteq Nat
    /\ {Horizon, MaxRuns, MaxManual, MaxRestarts, MaxDeletes, MaxFaults, MaxOutside} \subseteq Nat

VARIABLES
    now,         \* the wall clock
    runs,        \* rows with stats["schedule"], oldest first
    paused,      \* app_settings["schedule_paused_until"], 0 when unset
    tick,        \* the tick in progress: its step, its clock, its work
    launches,    \* launches[s]: the failed launches of slot s, in memory
    manual,      \* a run started by hand is active
    launched,    \* history: launches of slot s by the scheduler
    maintained,  \* history: maintenance done for row i since it was last launched
    used         \* what came from outside so far, and whether a pause was cleared

vars == <<now, runs, paused, tick, launches, manual, launched, maintained, used>>

Slots == 0..(Horizon \div SlotLength)
Rows == DOMAIN runs

slot_start(t) == (t \div SlotLength) * SlotLength
SlotOf(t) == t \div SlotLength

Fresh == [state |-> "none", at |-> 0, failures |-> 0]
Asleep == [pc |-> "sleep", at |-> 0, todo |-> {}, after |-> Fresh, run |-> 0,
           behind |-> FALSE]

DONE == {"completed", "partial", "cancelled"}
MAINTAINED == {"completed", "partial"}
Resumable == {"interrupted", "failed", "partial", "cancelled"}

Finished(i) == runs[i].status \notin {"active", "deleted"}
Active == manual \/ \E i \in Rows : runs[i].status = "active"

(* SlotRun.resumable: what the schedule continues by itself. *)
resumable(run) ==
    run.status = "interrupted" \/ (run.status = "partial" /\ run.stop)

------------------------------------------------------------------------------
(* The start of a tick, and _follow_up. *)

(* Mutant: a followed-up run is due again.                                   *)
needs_follow_up_Again(after, t) == after.state # "failed"

needs_follow_up(after, t) ==
    \/ after.state = "none"
    \/ /\ after.state = "failed" /\ after.failures < MAINTENANCE_ATTEMPTS
       /\ t >= after.at + MAINTENANCE_RETRY

(* Mutant: only the last run is looked at.                                   *)
ended_Last(i) == i = Len(runs) /\ Finished(i) /\ needs_follow_up(runs[i].after, now)

(* A finished run that was not followed up, or not successfully.             *)
ended(i) == Finished(i) /\ needs_follow_up(runs[i].after, now)

(* The clock is read once; the finished runs are read with their stats.     *)
TickBegins ==
    /\ tick.pc = "sleep"
    /\ tick' = [Asleep EXCEPT !.pc = "follow", !.at = now,
                    !.todo = {[id |-> i, run |-> runs[i]] : i \in {j \in Rows : ended(j)}}]
    /\ UNCHANGED <<now, runs, paused, launches, manual, launched, maintained, used>>

(* The runs are followed up in the order of their ids.                      *)
InTurn(x) == x \in tick.todo /\ \A y \in tick.todo : x.id <= y.id

Write(after) == tick' = [tick EXCEPT !.pc = "write", !.after = after]
Judged == [state |-> "done", at |-> tick.at, failures |-> 0]

(* _after: pause, nothing to do, or wait for the market lock.               *)
After(x) ==
    /\ tick.pc = "follow" /\ InTurn(x)
    /\ \/ /\ x.run.stop
          /\ paused' = tick.at + THROTTLE_PAUSE
          /\ Write(Judged)
       \/ /\ ~x.run.stop /\ ~(x.run.full /\ x.run.status \in MAINTAINED)
          /\ Write(Judged)
          /\ UNCHANGED paused
       \/ /\ ~x.run.stop /\ x.run.full /\ x.run.status \in MAINTAINED
          /\ tick' = [tick EXCEPT !.pc = "lock", !.behind = Active]
          /\ UNCHANGED paused
    /\ UNCHANGED <<now, runs, launches, manual, launched, maintained, used>>

(* The market lock is first come, first served: a run that was active when  *)
(* the tick asked for it ends first, and a run launched since then makes the *)
(* tick give the lock back.  A deal scan may hold it for any time.           *)
TakeMarket(x) ==
    /\ tick.pc = "lock" /\ InTurn(x) /\ ~tick.behind
    /\ tick' = IF Active THEN [tick EXCEPT !.pc = "follow", !.todo = @ \ {x}]
                         ELSE [tick EXCEPT !.pc = "maintain"]
    /\ UNCHANGED <<now, runs, paused, launches, manual, launched, maintained, used>>

(* weekly_maintenance in a thread: backup, then retention.                  *)
MaintenanceEnds(x) ==
    /\ tick.pc = "maintain" /\ InTurn(x)
    /\ \/ /\ Write(Judged)
          /\ maintained' = [maintained EXCEPT ![x.id] = @ + 1]
       \/ /\ Write([state |-> "failed", at |-> tick.at, failures |-> x.run.after.failures + 1])
          /\ UNCHANGED maintained
    /\ UNCHANGED <<now, runs, paused, launches, manual, launched, used>>

WriteAfter(x) ==
    /\ tick.pc = "write" /\ InTurn(x)
    /\ runs' = IF runs[x.id].status = "deleted" THEN runs
               ELSE [runs EXCEPT ![x.id].after = tick.after]
    /\ tick' = [tick EXCEPT !.pc = "follow", !.todo = @ \ {x}, !.after = Fresh]
    /\ UNCHANGED <<now, paused, launches, manual, launched, maintained, used>>

Use(what, bound) ==
    /\ used[what] < bound
    /\ MapThenSumSet(LAMBDA w : used[w], DOMAIN used \ {"clear"}) < MaxOutside
    /\ used' = [used EXCEPT ![what] = @ + 1]

(* A query or a commit raised: run_forever logs it and sleeps.               *)
TickFails ==
    /\ tick.pc \in {"follow", "write"} /\ tick' = Asleep
    /\ Use("fault", MaxFaults)
    /\ UNCHANGED <<now, runs, paused, launches, manual, launched, maintained>>

------------------------------------------------------------------------------
(* read_state and decide, then _launch. *)

slot_runs(s) == {i \in Rows : runs[i].status # "deleted" /\ runs[i].slot = s}
latest(s) == runs[Max(slot_runs(s))]
Attempted(s) == UNION {{i} \X (1..runs[i].attempts) : i \in slot_runs(s)}
attempts(s) == Cardinality(Attempted(s)) + launches[s].failures

(* Mutant: the pause is not observed.                                        *)
due_WhilePaused(s, t) == ~Active /\ t >= launches[s].retry_at

(* Neither paused, nor busy, nor waiting out a failed launch.                *)
due(s, t) == t >= paused /\ ~Active /\ t >= launches[s].retry_at

(* decide: 0 starts a run, i continues row i; {} leaves the slot alone.      *)
decide(s, t) ==
    IF ~due(s, t) \/ attempts(s) >= SLOT_ATTEMPTS THEN {}
    ELSE IF slot_runs(s) = {}
         THEN IF t - slot_start(t) > CATCH_UP THEN {} ELSE {0}
    ELSE IF resumable(latest(s)) THEN {Max(slot_runs(s))}
    ELSE IF latest(s).status \in DONE THEN {}
    ELSE {0}

(* The rows are read after the follow-up, the clock was read before it.      *)
Decide ==
    LET choice == decide(SlotOf(tick.at), tick.at) IN
    /\ tick.pc = "follow" /\ tick.todo = {}
    /\ \/ choice = {} /\ tick' = Asleep
       \/ \E i \in choice : tick' = [tick EXCEPT !.pc = "launch", !.run = i]
    /\ UNCHANGED <<now, runs, paused, launches, manual, launched, maintained, used>>

(* _launch under launch_lock, after the discovery refresh: a run started     *)
(* meanwhile wins, and so does finding no brand left to collect.             *)
LaunchSkipped ==
    /\ tick.pc = "launch" /\ (Active \/ tick.run = 0)
    /\ tick' = Asleep
    /\ UNCHANGED <<now, runs, paused, launches, manual, launched, maintained, used>>

(* The row _create_scheduled writes.                                         *)
scheduled(s) == [slot |-> s, full |-> s \in FullSlots, attempts |-> 1,
                 status |-> "active", stop |-> FALSE, after |-> Fresh]

LaunchStart ==
    LET s == SlotOf(tick.at) IN
    /\ tick.pc = "launch" /\ tick.run = 0 /\ ~Active /\ Len(runs) < MaxRuns
    /\ runs' = Append(runs, scheduled(s))
    /\ launched' = [launched EXCEPT ![s] = @ + 1]
    /\ tick' = Asleep
    /\ UNCHANGED <<now, paused, launches, manual, maintained, used>>

(* Mutant: the resume is not counted.                                        *)
prepare_resume_Uncounted(i, more) ==
    /\ runs' = [runs EXCEPT ![i].status = "active", ![i].stop = FALSE, ![i].after = Fresh]
    /\ maintained' = [maintained EXCEPT ![i] = 0]

(* prepare_resume; the scheduler adds one attempt in the same commit.        *)
prepare_resume(i, more) ==
    /\ runs' = [runs EXCEPT ![i].status = "active", ![i].stop = FALSE,
                            ![i].after = Fresh, ![i].attempts = @ + more]
    /\ maintained' = [maintained EXCEPT ![i] = 0]

LaunchResume ==
    LET i == tick.run IN
    /\ tick.pc = "launch" /\ i # 0 /\ ~Active /\ runs[i].status \in Resumable
    /\ prepare_resume(i, 1)
    /\ launched' = [launched EXCEPT ![runs[i].slot] = @ + 1]
    /\ tick' = Asleep
    /\ UNCHANGED <<now, paused, launches, manual, used>>

(* The refresh, the plan or the resume raised; remembered until a restart.   *)
LaunchFails ==
    LET s == SlotOf(tick.at) IN
    /\ tick.pc = "launch"
    /\ launches' = [launches EXCEPT ![s] =
            [failures |-> @.failures + 1,
             retry_at |-> tick.at + LAUNCH_BACKOFF * 2 ^ @.failures]]
    /\ tick' = Asleep
    /\ UNCHANGED <<now, runs, paused, manual, launched, maintained, used>>

------------------------------------------------------------------------------
(* What happens around the scheduler. *)

(* A run ends while it holds the market lock, so never during maintenance.   *)
Ending == {[status |-> s, stop |-> FALSE] : s \in {"completed", "partial", "failed", "cancelled"}}
          \cup {[status |-> "partial", stop |-> TRUE]}

NobodyAhead == tick' = [tick EXCEPT !.behind = FALSE]

RunEnds(i, end) ==
    /\ runs[i].status = "active" /\ tick.pc # "maintain"
    /\ runs' = [runs EXCEPT ![i].status = end.status, ![i].stop = end.stop]
    /\ NobodyAhead
    /\ UNCHANGED <<now, paused, launches, manual, launched, maintained, used>>

ManualEnds ==
    /\ manual /\ tick.pc # "maintain" /\ manual' = FALSE
    /\ NobodyAhead
    /\ UNCHANGED <<now, runs, paused, launches, launched, maintained, used>>

ManualStart ==
    /\ ~Active /\ manual' = TRUE
    /\ Use("manual", MaxManual)
    /\ UNCHANGED <<now, runs, paused, tick, launches, launched, maintained>>

(* POST /runs/{id}/resume of a scheduled run.                                *)
ManualResume(i) ==
    /\ ~Active /\ runs[i].status \in Resumable
    /\ prepare_resume(i, 0)
    /\ Use("manual", MaxManual)
    /\ UNCHANGED <<now, paused, tick, launches, manual, launched>>

(* DELETE /schedule/pause.                                                   *)
clear_pause ==
    /\ paused # 0 /\ paused' = 0
    /\ used' = [used EXCEPT !["clear"] = 1]
    /\ UNCHANGED <<now, runs, tick, launches, manual, launched, maintained>>

DeleteRun(i) ==
    /\ Finished(i)
    /\ runs' = [runs EXCEPT ![i].status = "deleted"]
    /\ Use("delete", MaxDeletes)
    /\ UNCHANGED <<now, paused, tick, launches, manual, launched, maintained>>

(* A crash interrupts the active run; a shutdown may also cancel it.         *)
Restart(status) ==
    /\ runs' = [i \in Rows |-> IF runs[i].status = "active"
                               THEN [runs[i] EXCEPT !.status = status] ELSE runs[i]]
    /\ tick' = Asleep /\ manual' = FALSE
    /\ launches' = [s \in Slots |-> [failures |-> 0, retry_at |-> 0]]
    /\ Use("restart", MaxRestarts)
    /\ UNCHANGED <<now, paused, launched, maintained>>

(* The unit of time is hours: it passes between ticks, while a tick waits    *)
(* for the market lock or maintains, and not while it reads and writes rows  *)
(* or refreshes discovery, which takes minutes at most.                      *)
Pass ==
    /\ now < Horizon /\ now' = now + 1
    /\ tick.pc \in {"sleep", "lock", "maintain"}
    /\ UNCHANGED <<runs, paused, tick, launches, manual, launched, maintained, used>>

------------------------------------------------------------------------------
Init ==
    /\ now = 0 /\ runs = <<>> /\ paused = 0 /\ tick = Asleep /\ manual = FALSE
    /\ launches = [s \in Slots |-> [failures |-> 0, retry_at |-> 0]]
    /\ launched = [s \in Slots |-> 0]
    /\ maintained = [i \in 1..MaxRuns |-> 0]
    /\ used = [what \in {"manual", "restart", "delete", "fault", "clear"} |-> 0]

Tick ==
    \/ TickBegins
    \/ \E x \in tick.todo : After(x) \/ TakeMarket(x) \/ MaintenanceEnds(x) \/ WriteAfter(x)
    \/ Decide \/ LaunchSkipped \/ LaunchStart \/ LaunchResume \/ LaunchFails

Ends == ManualEnds \/ \E i \in Rows, end \in Ending : RunEnds(i, end)

Around ==
    \/ ManualStart \/ clear_pause \/ Pass \/ TickFails
    \/ \E i \in Rows : ManualResume(i) \/ DeleteRun(i)
    \/ \E status \in {"interrupted", "cancelled"} : Restart(status)

Next == Tick \/ Ends \/ Around

Spec == Init /\ [][Next]_vars
(* The loop keeps ticking and every run ends (CollectionRun's JobEnds).      *)
FairSpec == Spec /\ WF_vars(Tick) /\ WF_vars(Ends)

------------------------------------------------------------------------------
(* PROPERTIES *)

AfterStates == [state : {"none", "done", "failed"}, at : Nat, failures : Nat]
Run == [slot : Slots, full : BOOLEAN, attempts : Nat \ {0},
        status : {"active", "completed", "deleted"} \cup Resumable,
        stop : BOOLEAN, after : AfterStates]

(* Type invariant of the scheduler and the rows it reads.                    *)
TypeOK ==
    /\ now \in 0..Horizon
    /\ runs \in Seq(Run) /\ Len(runs) <= MaxRuns
    /\ paused \in Nat
    /\ tick.pc \in {"sleep", "follow", "lock", "maintain", "write", "launch"}
    /\ tick.at \in 0..now
    /\ tick.run \in {0} \cup Rows
    /\ tick.after \in AfterStates
    /\ tick.todo \subseteq [id : Rows, run : Run]
    /\ launches \in [Slots -> [failures : Nat, retry_at : Nat]]
    /\ manual \in BOOLEAN
    /\ launched \in [Slots -> Nat]
    /\ maintained \in [1..MaxRuns -> Nat]

(* docs/OPERATIONS.md: "not more than 3 starts or resumes per slot", across  *)
(* restarts and whatever is started or resumed by hand in between.           *)
AttemptsBounded ==
    used["delete"] = 0 => \A s \in Slots : launched[s] <= SLOT_ATTEMPTS

(* _follow_up: "once per finished run": a backup and retention are done once *)
(* for each time a run ends, and again only if a restart or a database error *)
(* came before the outcome was written.                                      *)
MaintainedOnce ==
    \A i \in 1..MaxRuns : maintained[i] <= 1 + used["restart"] + used["fault"]

(* A maintenance that keeps failing is given up after MAINTENANCE_ATTEMPTS.  *)
MaintenanceGivenUp ==
    \A i \in Rows : runs[i].after.failures <= MAINTENANCE_ATTEMPTS

(* A throttled run that was followed up has the schedule launch nothing until*)
(* THROTTLE_PAUSE later, through a restart between the pause and the outcome *)
(* and through other throttled runs, unless a person cleared the pause or    *)
(* resumed a run.                                                            *)
PauseHolds ==
    tick.pc = "launch" /\ used["clear"] = 0 /\ used["manual"] = 0 =>
        \A i \in Rows :
            runs[i].status = "partial" /\ runs[i].stop /\ runs[i].after.state = "done"
                => now >= runs[i].after.at + THROTTLE_PAUSE

(* Every tick comes to an end: waiting for the market lock cannot stop the   *)
(* scheduler for good.                                                       *)
TickEnds == tick.pc # "sleep" ~> tick.pc = "sleep"

Unattended(i) == i \in Rows /\ Finished(i) /\ runs[i].after.state = "none"

(* Every scheduled run that ends is followed up, or active again, or gone.   *)
EveryEndIsFollowedUp == \A i \in 1..MaxRuns : Unattended(i) ~> ~Unattended(i)

(* services/scheduler.py:7, "a run stopped for throttling pauses the         *)
(* schedule for six hours": a decision to launch never finds a throttled run *)
(* whose pause was not set.                                                  *)
ThrottlePauses ==
    [][tick.pc # "launch" /\ tick'.pc = "launch" =>
          \A i \in Rows : runs[i].status = "partial" /\ runs[i].stop =>
              runs[i].after.state = "done"]_vars
=============================================================================
