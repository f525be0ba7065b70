---------------------------- MODULE ServiceProofs ----------------------------
(***************************************************************************)
(* Theorems about what the process does on its own.                        *)
(*                                                                         *)
(* Schedule, for any slots, pauses, limits and disturbances: the attempts  *)
(* of a slot are bounded, maintenance is done once per ended run, and the  *)
(* pause after throttling holds.                                           *)
(*                                                                         *)
(* Operations, for any number of processes, listings and operations,       *)
(* killed anywhere: a backup is a whole copy, retention keeps the newest   *)
(* ones, and a maintenance purges nothing that its backups lack.           *)
(***************************************************************************)
EXTENDS Schedule, Operations, SequenceTheorems, FiniteSetTheorems, TLAPS

------------------------------------------------------------------------------
(* Types.  The time of a retry is a power of two, which the provers do not   *)
(* know to be a number; nothing here depends on it.                          *)

Ticks == [pc : {"sleep", "follow", "lock", "maintain", "write", "launch"}, at : Nat,
          todo : SUBSET [id : Nat, run : Run], after : AfterStates, run : Nat, behind : BOOLEAN]

TypeInv ==
    /\ now \in 0..Horizon
    /\ runs \in Seq(Run) /\ Len(runs) <= MaxRuns
    /\ paused \in Nat
    /\ tick \in Ticks /\ tick.at <= now /\ tick.run \in {0} \cup Rows
    /\ \A x \in tick.todo : x.id \in Rows
    /\ manual \in BOOLEAN
    /\ \A s \in Slots : launches[s].failures \in Nat
    /\ DOMAIN launches = Slots
    /\ launched \in [Slots -> Nat]
    /\ maintained \in [1..MaxRuns -> Nat]
    /\ used \in [{"manual", "restart", "delete", "fault", "clear"} -> Nat]

(* What a step makes of a row.                                               *)
Outcome(r, after) == [r EXCEPT !.after = after]
EndedAs(r, end) == [r EXCEPT !.status = end.status, !.stop = end.stop]
Deleted(r) == [r EXCEPT !.status = "deleted"]
Resumed(r, more) == [r EXCEPT !.status = "active", !.stop = FALSE, !.after = Fresh,
                              !.attempts = r.attempts + more]
Stopped(r, status) == IF r.status = "active" THEN [r EXCEPT !.status = status] ELSE r

LEMMA FreshType == Fresh \in AfterStates
  BY DEF Fresh, AfterStates

LEMMA RowsRange == runs \in Seq(Run) => \A i \in Rows : runs[i] \in Run
  BY DEF Rows

LEMMA OutcomeType ==
    ASSUME NEW r \in Run, NEW after \in AfterStates
    PROVE  /\ Outcome(r, after) \in Run
           /\ Outcome(r, after).after = after
           /\ \A f \in {"slot", "full", "attempts", "status", "stop"} : Outcome(r, after)[f] = r[f]
  BY DEF Outcome, Run

LEMMA EndedType ==
    ASSUME NEW r \in Run, NEW end \in Ending
    PROVE  /\ EndedAs(r, end) \in Run
           /\ EndedAs(r, end).status = end.status /\ EndedAs(r, end).stop = end.stop
           /\ \A f \in {"slot", "full", "attempts", "after"} : EndedAs(r, end)[f] = r[f]
<1>1. end.status \in {"completed", "partial", "failed", "cancelled"} /\ end.stop \in BOOLEAN
  <2>1. ASSUME NEW s, NEW b, end = [status |-> s, stop |-> b]
        PROVE  end.status = s /\ end.stop = b
    BY <2>1
  <2>2. \E s \in {"completed", "partial", "failed", "cancelled"} : \E b \in BOOLEAN :
           end = [status |-> s, stop |-> b]
    BY DEF Ending
  <2> QED
    BY <2>1, <2>2
<1> QED
  BY <1>1 DEF EndedAs, Run, Resumable

LEMMA DeletedType ==
    ASSUME NEW r \in Run
    PROVE  /\ Deleted(r) \in Run /\ Deleted(r).status = "deleted"
           /\ \A f \in {"slot", "full", "attempts", "stop", "after"} : Deleted(r)[f] = r[f]
  BY DEF Deleted, Run

LEMMA ResumedType ==
    ASSUME NEW r \in Run, NEW more \in Nat
    PROVE  /\ Resumed(r, more) \in Run
           /\ Resumed(r, more).status = "active" /\ Resumed(r, more).after = Fresh
           /\ Resumed(r, more).attempts = r.attempts + more
           /\ \A f \in {"slot", "full"} : Resumed(r, more)[f] = r[f]
<1>1. r.attempts + more \in Nat \ {0}
  BY DEF Run
<1>2. ASSUME NEW a \in Nat \ {0}, NEW b \in BOOLEAN, NEW s \in {"active"}, NEW new,
             new = [r EXCEPT !.status = s, !.stop = b, !.after = Fresh, !.attempts = a]
      PROVE  /\ new \in Run /\ new.status = s /\ new.after = Fresh /\ new.attempts = a
             /\ \A f \in {"slot", "full"} : new[f] = r[f]
  BY <1>2, FreshType DEF Run
<1> QED
  BY <1>1, <1>2, ZenonT(40) DEF Resumed

LEMMA StoppedType ==
    ASSUME NEW r \in Run, NEW status \in {"interrupted", "cancelled"}
    PROVE  /\ Stopped(r, status) \in Run
           /\ Stopped(r, status).status = IF r.status = "active" THEN status ELSE r.status
           /\ \A f \in {"slot", "full", "attempts", "stop", "after"} : Stopped(r, status)[f] = r[f]
  BY DEF Stopped, Run, Resumable

(* A row replaced by a row. *)
LEMMA RowReplaced ==
    ASSUME runs \in Seq(Run), NEW i \in Rows, NEW r \in Run, runs' = [runs EXCEPT ![i] = r]
    PROVE  /\ runs' \in Seq(Run) /\ Len(runs') = Len(runs) /\ Rows' = Rows
           /\ runs'[i] = r /\ \A j \in Rows \ {i} : runs'[j] = runs[j]
<1>1. Rows = 1..Len(runs) /\ Len(runs) \in Nat
  BY DEF Rows
<1>2. runs' \in Seq(Run) /\ Len(runs') = Len(runs)
      /\ \A j \in 1..Len(runs) : runs'[j] = IF j = i THEN r ELSE runs[j]
  BY <1>1, ExceptSeq
<1> QED
  BY <1>1, <1>2 DEF Rows

------------------------------------------------------------------------------
(* What each step that writes rows writes.                                   *)

LEMMA WrittenRow ==
    ASSUME TypeInv, NEW x \in tick.todo, WriteAfter(x), runs[x.id].status # "deleted"
    PROVE  runs' = [runs EXCEPT ![x.id] = Outcome(runs[x.id], tick.after)]
  BY DEF WriteAfter, Outcome

LEMMA EndedRow ==
    ASSUME TypeInv, NEW i \in Rows, NEW end \in Ending, RunEnds(i, end)
    PROVE  runs' = [runs EXCEPT ![i] = EndedAs(runs[i], end)]
  BY DEF RunEnds, EndedAs

LEMMA DeletedRow ==
    ASSUME TypeInv, NEW i \in Rows, DeleteRun(i)
    PROVE  runs' = [runs EXCEPT ![i] = Deleted(runs[i])]
  BY DEF DeleteRun, Deleted

LEMMA ResumedRow ==
    ASSUME TypeInv, NEW i \in Rows, NEW more \in Nat, prepare_resume(i, more)
    PROVE  runs' = [runs EXCEPT ![i] = Resumed(runs[i], more)]
  BY DEF prepare_resume, Resumed

------------------------------------------------------------------------------
(* A tick's fields after each of its steps.                                  *)

LEMMA AsleepType == Asleep \in Ticks /\ Asleep.pc = "sleep" /\ Asleep.at = 0 /\ Asleep.run = 0
                    /\ Asleep.todo = {}
<1>1. ASSUME NEW b \in BOOLEAN, NEW todo \in SUBSET [id : Nat, run : Run], todo = {}, NEW t,
             t = [pc |-> "sleep", at |-> 0, todo |-> todo, after |-> Fresh, run |-> 0, behind |-> b]
      PROVE  t \in Ticks /\ t.pc = "sleep" /\ t.at = 0 /\ t.run = 0 /\ t.todo = {}
  BY <1>1, FreshType DEF Ticks
<1> QED
  BY <1>1 DEF Asleep

LEMMA AsleepTick ==
    ASSUME TypeInv, tick' = Asleep, now' = now
    PROVE  /\ tick' \in Ticks /\ tick'.at <= now' /\ tick'.run \in {0} \cup Rows'
           /\ \A x \in tick'.todo : x.id \in Rows'
<1>1. now \in Nat
  BY ScheduleAssumption DEF TypeInv
<1> HIDE DEF Asleep
<1> QED
  BY <1>1, AsleepType

(* The rows a tick follows up, as they were read.                            *)
Found == {[id |-> i, run |-> runs[i]] : i \in {j \in Rows : ended(j)}}

LEMMA FoundType ==
    ASSUME TypeInv
    PROVE  /\ Found \subseteq [id : Nat, run : Run]
           /\ \A x \in Found : x.id \in Rows /\ x.run = runs[x.id] /\ ended(x.id)
           /\ \A x, y \in Found : x.id = y.id => x = y
<1>1. \A i \in Rows : i \in Nat /\ runs[i] \in Run
  BY RowsRange DEF TypeInv, Rows
<1> QED
  BY <1>1 DEF Found

LEMMA BegunTick ==
    ASSUME TypeInv, TickBegins
    PROVE  /\ tick' \in Ticks /\ tick'.pc = "follow" /\ tick'.at = now /\ tick'.todo = Found
           /\ tick'.run = 0
<1>1. ASSUME NEW t \in Ticks, NEW S \in SUBSET [id : Nat, run : Run], now \in Nat,
             tick' = [t EXCEPT !.pc = "follow", !.at = now, !.todo = S]
      PROVE  /\ tick' \in Ticks /\ tick'.pc = "follow" /\ tick'.at = now /\ tick'.todo = S
             /\ tick'.run = t.run
  BY <1>1 DEF Ticks
<1>2. now \in Nat
  BY ScheduleAssumption DEF TypeInv
<1>3. tick' = [Asleep EXCEPT !.pc = "follow", !.at = now, !.todo = Found]
  BY DEF TickBegins, Found
<1>4. Found \in SUBSET [id : Nat, run : Run]
  BY FoundType
<1>5. Asleep \in Ticks /\ Asleep.run = 0
  BY AsleepType
<1> HIDE DEF Found
<1> QED
  BY <1>1, <1>2, <1>3, <1>4, <1>5

LEMMA WriteTick ==
    ASSUME TypeInv, NEW after \in AfterStates, Write(after)
    PROVE  /\ tick' \in Ticks /\ tick'.pc = "write" /\ tick'.after = after
           /\ \A f \in {"at", "todo", "run", "behind"} : tick'[f] = tick[f]
  BY DEF Write, TypeInv, Ticks

LEMMA JudgedType == TypeInv => Judged \in AfterStates /\ Judged.state = "done" /\ Judged.at = tick.at
  BY DEF Judged, AfterStates, TypeInv, Ticks

(* The row in turn is done with. *)
LEMMA FollowedTick ==
    ASSUME TypeInv, NEW x,
           \/ tick' = [tick EXCEPT !.pc = "follow", !.todo = @ \ {x}]
           \/ tick' = [tick EXCEPT !.pc = "follow", !.todo = @ \ {x}, !.after = Fresh]
    PROVE  /\ tick' \in Ticks /\ tick'.pc = "follow" /\ tick'.todo = tick.todo \ {x}
           /\ tick'.at = tick.at /\ tick'.run = tick.run
<1>1. ASSUME NEW S \in SUBSET [id : Nat, run : Run], NEW after \in AfterStates, tick \in Ticks,
             \/ tick' = [tick EXCEPT !.pc = "follow", !.todo = S]
             \/ tick' = [tick EXCEPT !.pc = "follow", !.todo = S, !.after = after]
      PROVE  /\ tick' \in Ticks /\ tick'.pc = "follow" /\ tick'.todo = S
             /\ tick'.at = tick.at /\ tick'.run = tick.run
  <2>1. CASE tick' = [tick EXCEPT !.pc = "follow", !.todo = S]
    BY <1>1, <2>1 DEF Ticks
  <2>2. CASE tick' = [tick EXCEPT !.pc = "follow", !.todo = S, !.after = after]
    BY <1>1, <2>2 DEF Ticks
  <2> QED
    BY <1>1, <2>1, <2>2
<1>2. tick \in Ticks /\ tick.todo \ {x} \in SUBSET [id : Nat, run : Run]
  BY DEF TypeInv, Ticks
<1> HIDE DEF Fresh
<1> QED
  BY <1>1, <1>2, FreshType

LEMMA LockTick ==
    ASSUME TypeInv, NEW b \in BOOLEAN, NEW pc \in {"lock", "maintain"},
           \/ tick' = [tick EXCEPT !.pc = pc, !.behind = b]
           \/ tick' = [tick EXCEPT !.pc = pc]
    PROVE  /\ tick' \in Ticks /\ tick'.pc = pc
           /\ \A f \in {"at", "todo", "run", "after"} : tick'[f] = tick[f]
  BY DEF TypeInv, Ticks

LEMMA LaunchTick ==
    ASSUME TypeInv, NEW i \in Nat, tick' = [tick EXCEPT !.pc = "launch", !.run = i]
    PROVE  /\ tick' \in Ticks /\ tick'.pc = "launch" /\ tick'.run = i
           /\ \A f \in {"at", "todo", "after"} : tick'[f] = tick[f]
  BY DEF TypeInv, Ticks

LEMMA NobodyAheadTick ==
    ASSUME TypeInv, NobodyAhead
    PROVE  /\ tick' \in Ticks
           /\ \A f \in {"pc", "at", "todo", "run", "after"} : tick'[f] = tick[f]
<1>1. ASSUME NEW b \in BOOLEAN, tick' = [tick EXCEPT !.behind = b]
      PROVE  /\ tick' \in Ticks
             /\ \A f \in {"pc", "at", "todo", "run", "after"} : tick'[f] = tick[f]
  BY <1>1 DEF TypeInv, Ticks
<1> QED
  BY <1>1 DEF NobodyAhead

------------------------------------------------------------------------------
(* Type invariance: one step for each action.                                *)

LEMMA SlotType == TypeInv => SlotOf(tick.at) \in Slots
<1>1. ASSUME NEW a \in Nat, NEW b \in Nat, a <= b, NEW n \in Nat \ {0}
      PROVE  a \div n <= b \div n /\ a \div n \in Nat /\ b \div n \in Nat
  BY <1>1
<1>2. ASSUME TypeInv PROVE tick.at \in Nat /\ tick.at <= Horizon
  <2>1. tick.at \in Nat /\ now \in 0..Horizon /\ tick.at <= now
    BY <1>2 DEF TypeInv, Ticks
  <2> QED
    BY <2>1, ScheduleAssumption
<1>3. Horizon \in Nat /\ SlotLength \in Nat \ {0}
  BY ScheduleAssumption
<1>4. ASSUME TypeInv
      PROVE  tick.at \div SlotLength \in Nat /\ Horizon \div SlotLength \in Nat
             /\ tick.at \div SlotLength <= Horizon \div SlotLength
  BY <1>1, <1>2, <1>3, <1>4
<1> QED
  BY <1>4 DEF SlotOf, Slots

LEMMA MarkedUse ==
    ASSUME TypeInv, NEW what \in {"manual", "restart", "delete", "fault"}, NEW bound, Use(what, bound)
    PROVE  /\ used' = [used EXCEPT ![what] = used[what] + 1]
           /\ used' \in [{"manual", "restart", "delete", "fault", "clear"} -> Nat]
  BY DEF Use, TypeInv

LEMMA RowsType ==
    ASSUME TypeInv, NEW i \in Rows, NEW r \in Run, runs' = [runs EXCEPT ![i] = r]
    PROVE  runs' \in Seq(Run) /\ Len(runs') <= MaxRuns /\ Rows' = Rows
  BY RowReplaced DEF TypeInv

(* A nonempty finite set of numbers has a largest one. *)
LEMMA LargestOfFinite ==
    ASSUME NEW S \in SUBSET Int, IsFiniteSet(S), S # {}
    PROVE  \E m \in S : \A i \in S : i <= m
<1> DEFINE Above(i) == {j \in S : j > i}
           Aboves == {Above(i) : i \in S}
           R == StrictSubsetOrdering(S)
           F == FiniteSubsetsOf(S)
<1>1. Aboves \subseteq F /\ Aboves # {}
  <2>1. F = SUBSET S
    BY FS_FiniteSubsetsOfFinite
  <2> HIDE DEF F
  <2> QED
    BY <2>1
<1>2. IsWellFoundedOn(R, F)
  BY FS_StrictSubsetOrderingWellFounded
<1>3. \A U, V \in SUBSET S : U \subseteq V /\ U # V => <<U, V>> \in R
  BY DEF StrictSubsetOrdering
<1>4. \E U \in Aboves : \A V \in Aboves : ~(<<V, U>> \in R)
  <2> HIDE DEF R, F, Aboves
  <2> QED
    BY <1>1, <1>2, WFMin
<1>5. PICK m \in S : \A V \in Aboves : ~(<<V, Above(m)>> \in R)
  <2> HIDE DEF R
  <2> QED
    BY <1>4
<1> HIDE DEF R, F
<1>6. ASSUME NEW i \in S, ~(i <= m) PROVE FALSE
  <2>1. i > m /\ i \in Above(m) /\ i \notin Above(i)
    BY <1>6
  <2>2. Above(i) \subseteq Above(m)
    <3>1. i \in Int /\ m \in Int /\ \A j \in S : j \in Int
      OBVIOUS
    <3>2. \A j \in S : j > i => j > m
      BY <2>1, <3>1
    <3> QED
      BY <3>2
  <2>3. Above(i) \in SUBSET S /\ Above(m) \in SUBSET S
    OBVIOUS
  <2>4. Above(i) \in Aboves
    OBVIOUS
  <2>5. Above(i) # Above(m)
    BY <2>1
  <2> HIDE DEF Aboves, Above
  <2> QED
    BY <1>3, <1>5, <2>2, <2>3, <2>4, <2>5
<1> QED
  BY <1>6

(* The last row of a slot. *)
LEMMA LatestRow ==
    ASSUME TypeInv, NEW s, slot_runs(s) # {}
    PROVE  /\ Max(slot_runs(s)) \in slot_runs(s) /\ Max(slot_runs(s)) \in Rows
           /\ \A i \in slot_runs(s) : i <= Max(slot_runs(s))
<1>1. slot_runs(s) \subseteq Rows /\ Rows = 1..Len(runs) /\ Len(runs) \in Nat
  BY DEF slot_runs, Rows, TypeInv
<1>2. IsFiniteSet(slot_runs(s))
  <2>1. IsFiniteSet(1..Len(runs))
    BY <1>1, FS_Interval
  <2> QED
    BY <1>1, <2>1, FS_Subset
<1>3. \E m \in slot_runs(s) : \A i \in slot_runs(s) : i <= m
  BY <1>1, <1>2, LargestOfFinite
<1> QED
  BY <1>1, <1>3 DEF Max

(* A new row of the slot. *)
LEMMA StartedRow ==
    ASSUME TypeInv, LaunchStart
    PROVE  /\ runs' \in Seq(Run) /\ Len(runs') = Len(runs) + 1 /\ Rows' = Rows \cup {Len(runs) + 1}
           /\ \A i \in Rows : runs'[i] = runs[i]
           /\ runs'[Len(runs) + 1] = scheduled(SlotOf(tick.at))
           /\ scheduled(SlotOf(tick.at)) \in Run
<1>1. scheduled(SlotOf(tick.at)) \in Run
  BY SlotType, FreshType DEF scheduled, Run
<1>2. runs \in Seq(Run) /\ runs' = Append(runs, scheduled(SlotOf(tick.at)))
  BY DEF LaunchStart, TypeInv
<1> QED
  BY <1>1, <1>2, AppendProperties DEF Rows

LEMMA TypeTick == TypeInv /\ Tick => TypeInv'
<1> SUFFICES ASSUME TypeInv, Tick PROVE TypeInv'
  OBVIOUS
<1>1. CASE TickBegins
  BY <1>1, BegunTick, FoundType DEF TickBegins, TypeInv, Rows
<1>2. ASSUME NEW x \in tick.todo, After(x) PROVE TypeInv'
  <2>1. paused' \in Nat
    <3>1. THROTTLE_PAUSE \in Nat /\ tick.at \in Nat /\ paused \in Nat
      BY ScheduleAssumption DEF TypeInv, Ticks
    <3> QED
      BY <1>2, <3>1 DEF After
  <2>2. tick' \in Ticks /\ tick'.at = tick.at /\ tick'.run = tick.run /\ tick'.todo = tick.todo
    <3>1. CASE Write(Judged)
      BY <3>1, WriteTick, JudgedType
    <3>2. CASE tick' = [tick EXCEPT !.pc = "lock", !.behind = Active]
      <4>1. Active \in BOOLEAN
        BY DEF Active, TypeInv
      <4> QED
        BY <3>2, <4>1, LockTick
    <3> QED
      BY <1>2, <3>1, <3>2 DEF After
  <2> QED
    BY <1>2, <2>1, <2>2 DEF After, TypeInv, Rows
<1>3. ASSUME NEW x \in tick.todo, TakeMarket(x) PROVE TypeInv'
  <2>1. tick' \in Ticks /\ tick'.at = tick.at /\ tick'.run = tick.run /\ tick'.todo \subseteq tick.todo
    BY <1>3, FollowedTick, LockTick DEF TakeMarket
  <2> QED
    BY <1>3, <2>1 DEF TakeMarket, TypeInv, Rows
<1>4. ASSUME NEW x \in tick.todo, MaintenanceEnds(x) PROVE TypeInv'
  <2>1. maintained' \in [1..MaxRuns -> Nat]
    BY <1>4 DEF MaintenanceEnds, TypeInv
  <2>2. tick' \in Ticks /\ tick'.at = tick.at /\ tick'.run = tick.run /\ tick'.todo = tick.todo
    <3>1. [state |-> "failed", at |-> tick.at, failures |-> x.run.after.failures + 1] \in AfterStates
      BY SMTT(30) DEF TypeInv, Ticks, AfterStates, Run
    <3> QED
      BY <1>4, <3>1, WriteTick, JudgedType DEF MaintenanceEnds
  <2> QED
    BY <1>4, <2>1, <2>2 DEF MaintenanceEnds, TypeInv, Rows
<1>5. ASSUME NEW x \in tick.todo, WriteAfter(x) PROVE TypeInv'
  <2>1. runs' \in Seq(Run) /\ Len(runs') <= MaxRuns /\ Rows' = Rows
    <3>1. CASE runs[x.id].status = "deleted"
      BY <1>5, <3>1 DEF WriteAfter, TypeInv, Rows
    <3>2. CASE runs[x.id].status # "deleted"
      <4>1. x.id \in Rows /\ runs[x.id] \in Run /\ tick.after \in AfterStates
        BY RowsRange DEF TypeInv, Ticks
      <4> QED
        BY <1>5, <3>2, <4>1, WrittenRow, OutcomeType, RowsType
    <3> QED
      BY <3>1, <3>2
  <2>2. tick' \in Ticks /\ tick'.at = tick.at /\ tick'.run = tick.run /\ tick'.todo \subseteq tick.todo
    BY <1>5, FollowedTick DEF WriteAfter
  <2> QED
    BY <1>5, <2>1, <2>2 DEF WriteAfter, TypeInv
<1>6. CASE Decide
  <2>1. CASE tick' = Asleep
    BY <1>6, <2>1, AsleepTick DEF Decide, TypeInv, Rows
  <2>2. ASSUME NEW i \in decide(SlotOf(tick.at), tick.at), tick' = [tick EXCEPT !.pc = "launch", !.run = i]
        PROVE  TypeInv'
    <3>1. i \in {0} \cup Rows
      <4>1. i = 0 \/ (slot_runs(SlotOf(tick.at)) # {} /\ i = Max(slot_runs(SlotOf(tick.at))))
        BY <2>2 DEF decide
      <4> QED
        BY <4>1, LatestRow
    <3>2. i \in Nat
      BY <3>1 DEF TypeInv, Rows
    <3>3. tick' \in Ticks /\ tick'.run = i /\ tick'.at = tick.at /\ tick'.todo = tick.todo
      BY <2>2, <3>2, LaunchTick
    <3> QED
      BY <1>6, <3>1, <3>3 DEF Decide, TypeInv, Rows
  <2> QED
    BY <1>6, <2>1, <2>2 DEF Decide
<1>7. CASE LaunchSkipped
  BY <1>7, AsleepType DEF LaunchSkipped, TypeInv, Rows
<1>8. CASE LaunchStart
  <2>1. runs' \in Seq(Run) /\ Rows' = Rows \cup {Len(runs) + 1} /\ Len(runs') = Len(runs) + 1
    BY <1>8, StartedRow
  <2>2. Len(runs') <= MaxRuns
    <3>1. Len(runs) \in Nat /\ Len(runs) < MaxRuns /\ MaxRuns \in Nat
      BY <1>8, ScheduleAssumption DEF LaunchStart, TypeInv
    <3> QED
      BY <2>1, <3>1
  <2>3. launched' \in [Slots -> Nat]
    BY <1>8, SlotType DEF LaunchStart, TypeInv
  <2>4. tick' = Asleep /\ now \in Nat
    BY <1>8, ScheduleAssumption DEF LaunchStart, TypeInv
  <2> QED
    BY <1>8, <2>1, <2>2, <2>3, <2>4, AsleepType DEF LaunchStart, TypeInv
<1>9. CASE LaunchResume
  <2>1. tick.run \in Rows /\ runs[tick.run] \in Run
    BY <1>9, RowsRange DEF LaunchResume, TypeInv
  <2>2. runs' = [runs EXCEPT ![tick.run] = Resumed(runs[tick.run], 1)]
    BY <1>9, <2>1, ResumedRow DEF LaunchResume
  <2>3. runs' \in Seq(Run) /\ Len(runs') <= MaxRuns /\ Rows' = Rows
    BY <2>1, <2>2, ResumedType, RowsType
  <2>4. maintained' \in [1..MaxRuns -> Nat]
    BY <1>9 DEF LaunchResume, prepare_resume, TypeInv
  <2>5. launched' \in [Slots -> Nat]
    <3>1. runs[tick.run].slot \in Slots
      BY <2>1 DEF Run
    <3> QED
      BY <1>9, <3>1, SMTT(30) DEF LaunchResume, TypeInv
  <2>6. tick' = Asleep /\ now \in Nat
    BY <1>9, ScheduleAssumption DEF LaunchResume, TypeInv
  <2> QED
    BY <1>9, <2>3, <2>4, <2>5, <2>6, AsleepType DEF LaunchResume, TypeInv
<1>10. CASE LaunchFails
  <2>1. DOMAIN launches' = Slots /\ \A s \in Slots : launches'[s].failures \in Nat
    BY <1>10 DEF LaunchFails, TypeInv
  <2>2. tick' = Asleep /\ now \in Nat
    BY <1>10, ScheduleAssumption DEF LaunchFails, TypeInv
  <2> QED
    BY <1>10, <2>1, <2>2, AsleepType DEF LaunchFails, TypeInv, Rows
<1> QED
  BY <1>1, <1>2, <1>3, <1>4, <1>5, <1>6, <1>7, <1>8, <1>9, <1>10 DEF Tick

LEMMA TypeEnds == TypeInv /\ Ends => TypeInv'
<1> SUFFICES ASSUME TypeInv, Ends PROVE TypeInv'
  OBVIOUS
<1>1. CASE ManualEnds
  BY <1>1, NobodyAheadTick DEF ManualEnds, TypeInv, Rows
<1>2. ASSUME NEW i \in Rows, NEW end \in Ending, RunEnds(i, end) PROVE TypeInv'
  <2>1. runs' \in Seq(Run) /\ Len(runs') <= MaxRuns /\ Rows' = Rows
    BY <1>2, EndedRow, EndedType, RowsType, RowsRange DEF TypeInv
  <2>2. tick' \in Ticks /\ tick'.at = tick.at /\ tick'.run = tick.run /\ tick'.todo = tick.todo
    BY <1>2, NobodyAheadTick DEF RunEnds
  <2> QED
    BY <1>2, <2>1, <2>2 DEF RunEnds, TypeInv
<1> QED
  BY <1>1, <1>2 DEF Ends

(* After a restart. *)
LEMMA StoppedRows ==
    ASSUME TypeInv, NEW status \in {"interrupted", "cancelled"}, Restart(status)
    PROVE  /\ runs' \in Seq(Run) /\ Len(runs') = Len(runs) /\ Rows' = Rows
           /\ \A i \in Rows : runs'[i] = Stopped(runs[i], status)
<1>1. runs' = [i \in Rows |-> Stopped(runs[i], status)]
  BY DEF Restart, Stopped
<1>2. Rows = 1..Len(runs) /\ Len(runs) \in Nat
  BY DEF Rows, TypeInv
<1>3. \A i \in Rows : Stopped(runs[i], status) \in Run
  BY StoppedType, RowsRange DEF TypeInv
<1>4. runs' \in [1..Len(runs) -> Run]
  BY <1>1, <1>2, <1>3
<1>5. runs' \in Seq(Run) /\ Len(runs') = Len(runs)
  BY <1>2, <1>4
<1> QED
  BY <1>1, <1>2, <1>5 DEF Rows

LEMMA TypeAround == TypeInv /\ Around => TypeInv'
<1> SUFFICES ASSUME TypeInv, Around PROVE TypeInv'
  OBVIOUS
<1>1. CASE ManualStart
  BY <1>1, MarkedUse DEF ManualStart, TypeInv, Rows
<1>2. CASE clear_pause
  BY <1>2 DEF clear_pause, TypeInv, Rows
<1>3. CASE Pass
  <2>1. now' \in 0..Horizon /\ now <= now'
    <3>1. now \in 0..Horizon /\ now < Horizon /\ now' = now + 1 /\ Horizon \in Nat
      BY <1>3, ScheduleAssumption DEF Pass, TypeInv
    <3> QED
      BY <3>1
  <2>2. tick.at \in Nat /\ now \in Nat
    BY ScheduleAssumption DEF TypeInv, Ticks
  <2> QED
    BY <1>3, <2>1, <2>2 DEF Pass, TypeInv, Rows
<1>4. CASE TickFails
  <2>1. used' \in [{"manual", "restart", "delete", "fault", "clear"} -> Nat]
    BY <1>4, MarkedUse DEF TickFails
  <2> QED
    BY <1>4, <2>1, AsleepTick DEF TickFails, TypeInv, Rows
<1>5. ASSUME NEW i \in Rows, ManualResume(i) PROVE TypeInv'
  <2>1. runs' = [runs EXCEPT ![i] = Resumed(runs[i], 0)]
    BY <1>5, ResumedRow DEF ManualResume
  <2>2. runs' \in Seq(Run) /\ Len(runs') <= MaxRuns /\ Rows' = Rows
    BY <2>1, ResumedType, RowsType, RowsRange DEF TypeInv
  <2>3. maintained' \in [1..MaxRuns -> Nat]
    BY <1>5 DEF ManualResume, prepare_resume, TypeInv
  <2>4. used' \in [{"manual", "restart", "delete", "fault", "clear"} -> Nat]
    BY <1>5, MarkedUse DEF ManualResume
  <2>5. /\ now' = now /\ paused' = paused /\ tick' = tick /\ launches' = launches
        /\ manual' = manual /\ launched' = launched
    BY <1>5 DEF ManualResume
  <2>6. /\ tick' \in Ticks /\ tick'.at <= now' /\ tick'.run \in {0} \cup Rows'
        /\ \A x \in tick'.todo : x.id \in Rows'
    BY <2>2, <2>5 DEF TypeInv
  <2>7. /\ now' \in 0..Horizon /\ paused' \in Nat /\ manual' \in BOOLEAN
        /\ launched' \in [Slots -> Nat] /\ DOMAIN launches' = Slots
        /\ \A s \in Slots : launches'[s].failures \in Nat
    BY <2>5 DEF TypeInv
  <2> QED
    BY <2>2, <2>3, <2>4, <2>6, <2>7 DEF TypeInv
<1>6. ASSUME NEW i \in Rows, DeleteRun(i) PROVE TypeInv'
  <2>1. runs' \in Seq(Run) /\ Len(runs') <= MaxRuns /\ Rows' = Rows
    BY <1>6, DeletedRow, DeletedType, RowsType, RowsRange, SMTT(30) DEF TypeInv
  <2> QED
    BY <1>6, <2>1, MarkedUse DEF DeleteRun, TypeInv
<1>7. ASSUME NEW status \in {"interrupted", "cancelled"}, Restart(status) PROVE TypeInv'
  <2>1. runs' \in Seq(Run) /\ Len(runs') <= MaxRuns /\ Rows' = Rows
    BY <1>7, StoppedRows DEF TypeInv
  <2>2. tick' = Asleep /\ manual' = FALSE /\ now \in Nat
    BY <1>7, ScheduleAssumption DEF Restart, TypeInv
  <2>3. DOMAIN launches' = Slots /\ \A s \in Slots : launches'[s].failures \in Nat
    BY <1>7 DEF Restart
  <2>4. used' \in [{"manual", "restart", "delete", "fault", "clear"} -> Nat]
    BY <1>7, MarkedUse DEF Restart
  <2> QED
    BY <1>7, <2>1, <2>2, <2>3, <2>4, AsleepTick DEF Restart, TypeInv
<1> QED
  BY <1>1, <1>2, <1>3, <1>4, <1>5, <1>6, <1>7 DEF Around

THEOREM TypeCorrect == Spec => []TypeInv
<1>1. Init => TypeInv
  <2> SUFFICES ASSUME Init PROVE TypeInv
    OBVIOUS
  <2>1. runs = <<>> /\ Rows = {} /\ runs \in Seq(Run) /\ Len(runs) = 0
    BY DEF Init, Rows
  <2>2. tick \in Ticks /\ tick.at <= now /\ tick.run \in {0} \cup Rows
        /\ \A x \in tick.todo : x.id \in Rows
    <3>1. tick = Asleep /\ now = 0
      BY DEF Init
    <3> HIDE DEF Asleep
    <3> QED
      BY <3>1, AsleepType
  <2>3. (\A s \in Slots : launches[s].failures \in Nat) /\ DOMAIN launches = Slots
    BY DEF Init
  <2>4. now \in 0..Horizon /\ Len(runs) <= MaxRuns
    BY <2>1, ScheduleAssumption DEF Init
  <2>5. launched \in [Slots -> Nat] /\ maintained \in [1..MaxRuns -> Nat]
        /\ used \in [{"manual", "restart", "delete", "fault", "clear"} -> Nat]
    BY DEF Init
  <2> QED
    BY <2>1, <2>2, <2>3, <2>4, <2>5 DEF Init, TypeInv
<1>2. TypeInv /\ [Next]_vars => TypeInv'
  <2>1. ASSUME TypeInv, UNCHANGED vars PROVE TypeInv'
    BY <2>1 DEF vars, TypeInv, Rows
  <2> QED
    BY <2>1, TypeTick, TypeEnds, TypeAround DEF Next
<1> QED
  BY <1>1, <1>2, PTL DEF Spec

------------------------------------------------------------------------------
(* Maintenance is done once for each time a run ends: more than the restarts *)
(* and faults so far allow only while the outcome is being written, and only *)
(* for a row that is judged, or gone.                                        *)

Disturbed == used["restart"] + used["fault"]

BeingJudged(i) == tick.pc = "write" /\ tick.after.state = "done"
                  /\ \E x \in tick.todo : InTurn(x) /\ x.id = i

Settled(i) == i \in Rows /\ (runs[i].status = "deleted" \/ runs[i].after.state = "done")

OnceInv ==
    /\ \A i \in 1..MaxRuns : maintained[i] <= 1 + Disturbed
    /\ \A x \in tick.todo : maintained[x.id] <= Disturbed \/ BeingJudged(x.id)
    /\ \A i \in 1..MaxRuns : maintained[i] <= Disturbed \/ BeingJudged(i) \/ Settled(i)
    /\ \A x, y \in tick.todo : x.id = y.id => x = y

LEMMA MoreDisturbed ==
    ASSUME TypeInv, NEW what \in {"restart", "fault"}, NEW bound, Use(what, bound)
    PROVE  Disturbed' = Disturbed + 1
<1>1. used["restart"] \in Nat /\ used["fault"] \in Nat
  BY DEF TypeInv
<1>2. used'["restart"] = (IF what = "restart" THEN used["restart"] + 1 ELSE used["restart"])
      /\ used'["fault"] = (IF what = "fault" THEN used["fault"] + 1 ELSE used["fault"])
  BY MarkedUse DEF TypeInv
<1> QED
  BY <1>1, <1>2 DEF Disturbed

LEMMA SameJudging ==
    ASSUME tick'.pc = tick.pc, tick'.todo = tick.todo, tick'.after = tick.after, NEW i
    PROVE  BeingJudged(i)' <=> BeingJudged(i)
  BY DEF BeingJudged, InTurn

LEMMA NothingJudged ==
    /\ \A i : tick.pc # "write" => ~BeingJudged(i)
    /\ \A i : tick'.pc # "write" => ~BeingJudged(i)'
  BY DEF BeingJudged

LEMMA RowIds == TypeInv => \A i \in Rows : i \in 1..MaxRuns
<1> SUFFICES ASSUME TypeInv, NEW i \in Rows PROVE i \in 1..MaxRuns
  OBVIOUS
<1>1. Rows = 1..Len(runs) /\ Len(runs) \in Nat /\ Len(runs) <= MaxRuns /\ MaxRuns \in Nat
  BY ScheduleAssumption DEF Rows, TypeInv
<1> QED
  BY <1>1

LEMMA DisturbedType == TypeInv => Disturbed \in Nat
  BY DEF TypeInv, Disturbed

(* A step that leaves the counts and the tick's work alone, and keeps settled *)
(* rows settled, or one that brings the tick to a step that writes nothing.   *)
LEMMA OnceKept ==
    ASSUME TypeInv, OnceInv, maintained' = maintained, Disturbed' = Disturbed,
           \A i \in 1..MaxRuns : Settled(i) => Settled(i)',
           \/ tick'.pc = tick.pc /\ tick'.todo = tick.todo /\ tick'.after = tick.after
           \/ tick.pc # "write" /\ tick'.todo \subseteq tick.todo
    PROVE  OnceInv'
<1>1. CASE tick'.pc = tick.pc /\ tick'.todo = tick.todo /\ tick'.after = tick.after
  <2>1. \A i : BeingJudged(i)' <=> BeingJudged(i)
    BY <1>1, SameJudging
  <2> QED
    BY <1>1, <2>1 DEF OnceInv
<1>2. CASE tick.pc # "write" /\ tick'.todo \subseteq tick.todo
  BY <1>2, NothingJudged DEF OnceInv
<1> QED
  BY <1>1, <1>2

LEMMA OnceDisturbed ==
    ASSUME TypeInv, OnceInv, maintained' = maintained, Disturbed' = Disturbed + 1, tick'.todo = {}
    PROVE  OnceInv'
<1>1. Disturbed \in Nat /\ maintained \in [1..MaxRuns -> Nat]
  BY DisturbedType DEF TypeInv
<1>2. \A i \in 1..MaxRuns : maintained[i] <= Disturbed + 1 /\ maintained[i] <= 1 + (Disturbed + 1)
  BY <1>1 DEF OnceInv
<1> QED
  BY <1>2 DEF OnceInv

LEMMA OnceResumed ==
    ASSUME TypeInv, OnceInv, NEW i \in Rows, NEW more \in Nat, prepare_resume(i, more),
           Disturbed' = Disturbed,
           \/ tick'.pc = tick.pc /\ tick'.todo = tick.todo /\ tick'.after = tick.after
           \/ tick.pc # "write" /\ tick'.todo \subseteq tick.todo
    PROVE  OnceInv'
<1>1. i \in 1..MaxRuns /\ maintained \in [1..MaxRuns -> Nat] /\ Disturbed \in Nat
  BY RowIds, DisturbedType DEF TypeInv
<1>2. \A j \in 1..MaxRuns : maintained'[j] = IF j = i THEN 0 ELSE maintained[j]
  BY <1>1 DEF prepare_resume
<1>3. \A j \in 1..MaxRuns : j # i /\ Settled(j) => Settled(j)'
  <2>1. runs' = [runs EXCEPT ![i] = Resumed(runs[i], more)]
    BY ResumedRow
  <2>2. runs[i] \in Run /\ Resumed(runs[i], more) \in Run
    BY ResumedType, RowsRange DEF TypeInv
  <2>3. Rows' = Rows /\ \A j \in Rows \ {i} : runs'[j] = runs[j]
    BY <2>1, <2>2, RowReplaced DEF TypeInv
  <2> QED
    BY <2>3 DEF Settled
<1>4. \A x \in tick.todo : x.id \in 1..MaxRuns
  BY RowIds DEF TypeInv
<1>5. CASE tick'.pc = tick.pc /\ tick'.todo = tick.todo /\ tick'.after = tick.after
  <2>1. \A j : BeingJudged(j)' <=> BeingJudged(j)
    BY <1>5, SameJudging
  <2> QED
    BY <1>1, <1>2, <1>3, <1>4, <1>5, <2>1 DEF OnceInv
<1>6. CASE tick.pc # "write" /\ tick'.todo \subseteq tick.todo
  BY <1>1, <1>2, <1>3, <1>4, <1>6, NothingJudged DEF OnceInv
<1> QED
  BY <1>5, <1>6

LEMMA OnceTick == TypeInv /\ OnceInv /\ Tick => OnceInv'
<1> SUFFICES ASSUME TypeInv, OnceInv, Tick PROVE OnceInv'
  OBVIOUS
<1>1. CASE TickBegins
  <2>1. tick.pc # "write" /\ maintained' = maintained /\ Disturbed' = Disturbed /\ tick'.todo = Found
    BY <1>1, BegunTick DEF TickBegins, Disturbed
  <2>2. \A i \in Rows : ended(i) => ~Settled(i)
    BY DEF ended, Finished, needs_follow_up, Settled
  <2>3. \A x \in Found : maintained[x.id] <= Disturbed
    BY <2>1, <2>2, FoundType, NothingJudged, RowIds DEF OnceInv, TypeInv
  <2>4. \A i \in 1..MaxRuns : Settled(i) => Settled(i)'
    BY <1>1 DEF TickBegins, Settled, Rows
  <2>5. \A x, y \in Found : x.id = y.id => x = y
    BY FoundType
  <2> HIDE DEF Found
  <2> QED
    BY <2>1, <2>3, <2>4, <2>5, NothingJudged DEF OnceInv
<1>2. ASSUME NEW x \in tick.todo, After(x) \/ TakeMarket(x) PROVE OnceInv'
  <2>1. /\ maintained' = maintained /\ Disturbed' = Disturbed /\ tick.pc # "write"
        /\ \A i \in 1..MaxRuns : Settled(i) => Settled(i)'
    BY <1>2 DEF After, TakeMarket, Disturbed, Settled, Rows
  <2>2. tick'.todo \subseteq tick.todo
    <3>1. CASE After(x)
      <4>1. CASE Write(Judged)
        BY <4>1, WriteTick, JudgedType
      <4>2. CASE tick' = [tick EXCEPT !.pc = "lock", !.behind = Active]
        <5>1. Active \in BOOLEAN
          BY DEF Active, TypeInv
        <5> QED
          BY <4>2, <5>1, LockTick
      <4> QED
        BY <3>1, <4>1, <4>2 DEF After
    <3>2. CASE TakeMarket(x)
      BY <3>2, FollowedTick, LockTick DEF TakeMarket
    <3> QED
      BY <1>2, <3>1, <3>2
  <2> QED
    BY <2>1, <2>2, OnceKept
<1>3. ASSUME NEW x \in tick.todo, MaintenanceEnds(x) PROVE OnceInv'
  <2>1. tick.pc = "maintain" /\ InTurn(x) /\ Disturbed' = Disturbed
        /\ \A i \in 1..MaxRuns : Settled(i) => Settled(i)'
    BY <1>3 DEF MaintenanceEnds, Disturbed, Settled, Rows
  <2>2. CASE maintained' = maintained /\ tick'.todo = tick.todo
    BY <2>1, <2>2, OnceKept
  <2>3. CASE Write(Judged) /\ maintained' = [maintained EXCEPT ![x.id] = @ + 1]
    <3>1. tick'.todo = tick.todo /\ BeingJudged(x.id)'
      BY <2>1, <2>3, WriteTick, JudgedType DEF BeingJudged, InTurn
    <3>2. \A i \in 1..MaxRuns : maintained'[i] = IF i = x.id THEN maintained[i] + 1 ELSE maintained[i]
      BY <2>3 DEF TypeInv
    <3>3. maintained[x.id] <= Disturbed /\ x.id \in 1..MaxRuns /\ maintained[x.id] \in Nat /\ Disturbed \in Nat
      BY <2>1, NothingJudged, RowIds, DisturbedType DEF OnceInv, TypeInv
    <3>4. \A y \in tick.todo : y.id \in 1..MaxRuns
      BY RowIds DEF TypeInv
    <3>5. \A i \in 1..MaxRuns : maintained'[i] <= 1 + Disturbed
      BY <3>2, <3>3 DEF OnceInv
    <3> QED
      BY <2>1, <3>1, <3>2, <3>3, <3>4, <3>5, NothingJudged DEF OnceInv
  <2>4. (maintained' = maintained /\ tick'.todo = tick.todo)
        \/ (Write(Judged) /\ maintained' = [maintained EXCEPT ![x.id] = @ + 1])
    <3>1. [state |-> "failed", at |-> tick.at, failures |-> x.run.after.failures + 1] \in AfterStates
      BY DEF TypeInv, Ticks, AfterStates, Run
    <3> QED
      BY <1>3, <3>1, WriteTick DEF MaintenanceEnds
  <2> QED
    BY <2>2, <2>3, <2>4
<1>4. ASSUME NEW x \in tick.todo, WriteAfter(x) PROVE OnceInv'
  <2>1. /\ tick.pc = "write" /\ InTurn(x) /\ maintained' = maintained /\ Disturbed' = Disturbed
        /\ tick'.todo = tick.todo \ {x} /\ tick'.pc = "follow"
    BY <1>4, FollowedTick DEF WriteAfter, Disturbed
  <2>2. \A y \in tick.todo : y # x => ~BeingJudged(y.id)
    <3>1. \A y, z \in tick.todo : InTurn(z) /\ z.id = y.id => z = x \/ ~InTurn(z)
      BY <2>1 DEF InTurn, OnceInv, TypeInv, Ticks
    <3>2. \A y, z \in tick.todo : z.id = y.id => z = y
      BY DEF OnceInv
    <3> QED
      BY <3>1, <3>2 DEF BeingJudged
  <2>3. \A y \in tick'.todo : maintained[y.id] <= Disturbed
    BY <2>1, <2>2 DEF OnceInv
  <2>4. \A i \in 1..MaxRuns : maintained[i] <= Disturbed \/ Settled(i)'
    <3> SUFFICES ASSUME NEW i \in 1..MaxRuns, ~(maintained[i] <= Disturbed) PROVE Settled(i)'
      OBVIOUS
    <3>1. x.id \in Rows /\ runs[x.id] \in Run /\ tick.after \in AfterStates
      BY RowsRange DEF TypeInv, Ticks
    <3>2. CASE runs[x.id].status = "deleted"
      <4>1. runs' = runs
        BY <1>4, <3>2 DEF WriteAfter
      <4>2. BeingJudged(i) => i = x.id
        BY <2>2 DEF BeingJudged
      <4>3. Settled(i)
        BY <3>1, <3>2, <4>2 DEF OnceInv, Settled
      <4> QED
        BY <4>1, <4>3 DEF Settled, Rows
    <3>3. CASE runs[x.id].status # "deleted"
      <4>1. /\ Rows' = Rows /\ runs'[x.id].after = tick.after
            /\ \A j \in Rows \ {x.id} : runs'[j] = runs[j]
        BY <1>4, <3>1, <3>3, WrittenRow, OutcomeType, RowReplaced DEF TypeInv
      <4>2. CASE i = x.id
        <5>1. BeingJudged(i)
          BY <4>2 DEF OnceInv
        <5> QED
          BY <3>1, <4>1, <4>2, <5>1 DEF Settled, BeingJudged
      <4>3. CASE i # x.id
        <5>1. ~BeingJudged(i)
          BY <2>2, <4>3 DEF BeingJudged
        <5>2. Settled(i)
          BY <5>1 DEF OnceInv
        <5> QED
          BY <4>1, <4>3, <5>2 DEF Settled
      <4> QED
        BY <4>2, <4>3
    <3> QED
      BY <3>2, <3>3
  <2> QED
    BY <2>1, <2>3, <2>4 DEF OnceInv
<1>5. CASE Decide \/ LaunchSkipped \/ LaunchFails
  <2>1. /\ maintained' = maintained /\ Disturbed' = Disturbed /\ tick.pc # "write"
        /\ \A i \in 1..MaxRuns : Settled(i) => Settled(i)'
    BY <1>5 DEF Decide, LaunchSkipped, LaunchFails, Disturbed, Settled, Rows
  <2>2. tick'.todo \subseteq tick.todo
    <3>1. CASE tick' = Asleep
      BY <3>1, AsleepType
    <3>2. ASSUME NEW i \in decide(SlotOf(tick.at), tick.at), tick' = [tick EXCEPT !.pc = "launch", !.run = i]
          PROVE  tick'.todo \subseteq tick.todo
      BY <3>2 DEF TypeInv, Ticks
    <3> QED
      BY <1>5, <3>1, <3>2 DEF Decide, LaunchSkipped, LaunchFails
  <2> QED
    BY <2>1, <2>2, OnceKept
<1>6. CASE LaunchStart
  <2>1. \A i \in 1..MaxRuns : Settled(i) => Settled(i)'
    BY <1>6, StartedRow DEF Settled
  <2>2. tick'.todo \subseteq tick.todo
    BY <1>6, AsleepType DEF LaunchStart
  <2> QED
    BY <1>6, <2>1, <2>2, OnceKept DEF LaunchStart, Disturbed
<1>7. CASE LaunchResume
  <2>1. tick.run \in Rows
    BY <1>7 DEF LaunchResume, TypeInv
  <2>2. tick'.todo \subseteq tick.todo
    BY <1>7, AsleepType DEF LaunchResume
  <2> QED
    BY <1>7, <2>1, <2>2, OnceResumed DEF LaunchResume, Disturbed
<1> QED
  BY <1>1, <1>2, <1>3, <1>4, <1>5, <1>6, <1>7 DEF Tick

LEMMA OnceOthers == TypeInv /\ OnceInv /\ (Ends \/ Around) => OnceInv'
<1> SUFFICES ASSUME TypeInv, OnceInv, Ends \/ Around PROVE OnceInv'
  OBVIOUS
<1>1. CASE ManualEnds
  BY <1>1, NobodyAheadTick, OnceKept DEF ManualEnds, Disturbed, Settled, Rows
<1>2. ASSUME NEW i \in Rows, NEW end \in Ending, RunEnds(i, end) PROVE OnceInv'
  <2>1. \A j \in 1..MaxRuns : Settled(j) => Settled(j)'
    <3>1. runs[i] \in Run /\ runs[i].status = "active"
      BY <1>2, RowsRange DEF RunEnds, TypeInv
    <3> QED
      BY <1>2, <3>1, EndedRow, EndedType, RowReplaced, SMTT(30) DEF Settled, TypeInv
  <2> QED
    BY <1>2, <2>1, NobodyAheadTick, OnceKept DEF RunEnds, Disturbed
<1>3. CASE ManualStart
  <2>1. Disturbed' = Disturbed
    BY <1>3, MarkedUse DEF ManualStart, Disturbed, TypeInv
  <2> QED
    BY <1>3, <2>1, OnceKept DEF ManualStart, Settled, Rows
<1>4. CASE clear_pause
  <2>1. Disturbed' = Disturbed
    BY <1>4 DEF clear_pause, Disturbed, TypeInv
  <2> QED
    BY <1>4, <2>1, OnceKept DEF clear_pause, Settled, Rows
<1>5. CASE Pass
  BY <1>5, OnceKept DEF Pass, Disturbed, Settled, Rows
<1>6. CASE TickFails
  <2>1. Disturbed' = Disturbed + 1
    BY <1>6, MoreDisturbed DEF TickFails
  <2> QED
    BY <1>6, <2>1, AsleepType, OnceDisturbed DEF TickFails
<1>7. ASSUME NEW i \in Rows, ManualResume(i) PROVE OnceInv'
  <2>1. Disturbed' = Disturbed
    BY <1>7, MarkedUse DEF ManualResume, Disturbed, TypeInv
  <2> QED
    BY <1>7, <2>1, OnceResumed DEF ManualResume
<1>8. ASSUME NEW i \in Rows, DeleteRun(i) PROVE OnceInv'
  <2>1. Disturbed' = Disturbed
    BY <1>8, MarkedUse DEF DeleteRun, Disturbed, TypeInv
  <2>2. \A j \in 1..MaxRuns : Settled(j) => Settled(j)'
    <3>1. runs' = [runs EXCEPT ![i] = Deleted(runs[i])]
      BY <1>8, DeletedRow
    <3>2. Deleted(runs[i]) \in Run /\ Deleted(runs[i]).status = "deleted"
      BY DeletedType, RowsRange DEF TypeInv
    <3>3. /\ Rows' = Rows /\ runs'[i] = Deleted(runs[i])
          /\ \A j \in Rows \ {i} : runs'[j] = runs[j]
      BY <3>1, <3>2, RowReplaced DEF TypeInv
    <3> QED
      BY <3>2, <3>3 DEF Settled
  <2> QED
    BY <1>8, <2>1, <2>2, OnceKept DEF DeleteRun
<1>9. ASSUME NEW status \in {"interrupted", "cancelled"}, Restart(status) PROVE OnceInv'
  <2>1. Disturbed' = Disturbed + 1
    BY <1>9, MoreDisturbed DEF Restart
  <2> QED
    BY <1>9, <2>1, AsleepType, OnceDisturbed DEF Restart
<1> QED
  BY <1>1, <1>2, <1>3, <1>4, <1>5, <1>6, <1>7, <1>8, <1>9 DEF Ends, Around

(* services/scheduler.py:_follow_up: a backup and retention are done once for *)
(* each time a run ends, whatever is resumed, deleted or started by hand, but *)
(* for the restarts and database errors before the outcome is written.        *)
THEOREM MaintenanceIsDoneOnce == Spec => []MaintainedOnce
<1>1. Init => OnceInv
  <2> SUFFICES ASSUME Init PROVE OnceInv
    OBVIOUS
  <2>1. tick.todo = {} /\ Disturbed = 0 /\ \A i \in 1..MaxRuns : maintained[i] = 0
    BY AsleepType DEF Init, Disturbed
  <2> QED
    BY <2>1 DEF OnceInv
<1>2. TypeInv /\ OnceInv /\ [Next]_vars => OnceInv'
  <2>1. ASSUME TypeInv, OnceInv, UNCHANGED vars PROVE OnceInv'
    BY <2>1, OnceKept DEF vars, Disturbed, Settled, Rows
  <2> QED
    BY <2>1, OnceTick, OnceOthers DEF Next
<1>3. TypeInv /\ OnceInv => MaintainedOnce
  <2>1. ASSUME TypeInv, OnceInv, NEW i \in 1..MaxRuns
        PROVE  maintained[i] <= 1 + used["restart"] + used["fault"]
    <3>1. used["restart"] \in Nat /\ used["fault"] \in Nat /\ maintained[i] \in Nat
      BY <2>1 DEF TypeInv
    <3> QED
      BY <2>1, <3>1 DEF OnceInv, Disturbed
  <2> QED
    BY <2>1 DEF MaintainedOnce
<1> QED
  BY <1>1, <1>2, <1>3, TypeCorrect, PTL DEF Spec

------------------------------------------------------------------------------
(* The pause: a throttled run that was judged left a pause of its own tick,   *)
(* and no later tick shortens it, because ticks judge at their own clock and  *)
(* a row does not change between being read and being judged.                *)

Undisturbed == used["clear"] = 0 /\ used["manual"] = 0

RowsPause ==
    \A i \in Rows : runs[i].status = "partial" /\ runs[i].stop /\ runs[i].after.state = "done"
        => runs[i].after.at + THROTTLE_PAUSE <= paused

ActiveIsFresh == \A i \in Rows : runs[i].status = "active" => runs[i].after.state = "none"

ReadStands ==
    /\ tick.pc \in {"sleep", "launch"} => tick.todo = {}
    /\ \A x, y \in tick.todo : x.id = y.id => x = y
    /\ \A x \in tick.todo : /\ x.run.status \notin {"active", "deleted"}
                            /\ runs[x.id].status = "deleted" \/ runs[x.id] = x.run

PauseIsSet ==
    \A x \in tick.todo : InTurn(x) /\ x.run.stop =>
        /\ tick.pc \notin {"lock", "maintain"}
        /\ tick.pc = "write" => tick.at + THROTTLE_PAUSE <= paused /\ tick.after.at = tick.at

PauseEnds ==
    /\ paused <= now + THROTTLE_PAUSE
    /\ tick.pc # "sleep" => paused <= tick.at + THROTTLE_PAUSE
    /\ tick.pc = "launch" => paused <= tick.at

PauseInv == RowsPause /\ ActiveIsFresh /\ ReadStands /\ PauseIsSet /\ PauseEnds

LEMMA SameTurn ==
    ASSUME tick'.todo = tick.todo, NEW x
    PROVE  InTurn(x)' <=> InTurn(x)
  BY DEF InTurn

LEMMA Clocks == TypeInv => now \in Nat /\ paused \in Nat /\ tick.at \in Nat /\ tick.at <= now
                           /\ THROTTLE_PAUSE \in Nat
<1> SUFFICES ASSUME TypeInv PROVE now \in Nat /\ paused \in Nat /\ tick.at \in Nat /\ tick.at <= now
                                  /\ THROTTLE_PAUSE \in Nat
  OBVIOUS
<1>1. now \in 0..Horizon /\ Horizon \in Nat /\ THROTTLE_PAUSE \in Nat
  BY ScheduleAssumption DEF TypeInv
<1>2. paused \in Nat /\ tick.at \in Nat /\ tick.at <= now
  BY DEF TypeInv, Ticks
<1> QED
  BY <1>1, <1>2

(* A tick that goes to sleep. *)
LEMMA PauseAsleep ==
    ASSUME TypeInv, PauseInv, tick' = Asleep, now' = now, paused' = paused,
           RowsPause', ActiveIsFresh'
    PROVE  PauseInv'
<1>1. tick'.todo = {} /\ tick'.pc = "sleep"
  BY AsleepType
<1> QED
  BY <1>1 DEF PauseInv, ReadStands, PauseIsSet, PauseEnds

(* A step that leaves the rows read by the tick alone, and the pause.        *)
LEMMA PauseKept ==
    ASSUME TypeInv, PauseInv, paused' = paused, now' \in Nat, now <= now',
           tick'.pc = tick.pc, tick'.todo = tick.todo, tick'.after = tick.after,
           tick'.at = tick.at, RowsPause', ActiveIsFresh',
           \A x \in tick.todo : runs'[x.id].status = "deleted" \/ runs'[x.id] = runs[x.id]
    PROVE  PauseInv'
<1>1. ReadStands'
  <2>1. ASSUME NEW x \in tick.todo
        PROVE  runs'[x.id].status = "deleted" \/ runs'[x.id] = x.run
    BY DEF PauseInv, ReadStands
  <2> QED
    BY <2>1 DEF PauseInv, ReadStands
<1>2. PauseIsSet'
  BY SameTurn DEF PauseInv, PauseIsSet
<1>3. PauseEnds'
  BY Clocks DEF PauseInv, PauseEnds
<1> QED
  BY <1>1, <1>2, <1>3 DEF PauseInv

LEMMA PauseTick == TypeInv /\ PauseInv /\ Tick => PauseInv'
<1> SUFFICES ASSUME TypeInv, PauseInv, Tick PROVE PauseInv'
  OBVIOUS
<1>0. /\ now \in Nat /\ paused \in Nat /\ tick.at \in Nat /\ tick.at <= now
      /\ THROTTLE_PAUSE \in Nat
  BY Clocks
<1>1. CASE TickBegins
  <2>1. /\ runs' = runs /\ paused' = paused /\ now' = now
        /\ tick'.pc = "follow" /\ tick'.todo = Found /\ tick'.at = now
    BY <1>1, BegunTick DEF TickBegins
  <2>2. \A x \in Found : x.run.status \notin {"active", "deleted"} /\ runs[x.id] = x.run
    BY FoundType DEF ended, Finished
  <2>3. \A x, y \in Found : x.id = y.id => x = y
    BY FoundType
  <2>4. RowsPause' /\ ActiveIsFresh'
    BY <2>1 DEF PauseInv, RowsPause, ActiveIsFresh, Rows
  <2>5. PauseEnds' /\ PauseIsSet'
    BY <2>1 DEF PauseInv, PauseEnds, PauseIsSet
  <2> HIDE DEF Found
  <2> QED
    BY <2>1, <2>2, <2>3, <2>4, <2>5 DEF PauseInv, ReadStands
<1>2. ASSUME NEW x \in tick.todo, After(x) PROVE PauseInv'
  <2>1. runs' = runs /\ now' = now /\ tick.pc = "follow" /\ InTurn(x)
    BY <1>2 DEF After
  <2>2. ActiveIsFresh'
    BY <2>1 DEF PauseInv, ActiveIsFresh, Rows
  <2>3. \A y \in tick.todo : InTurn(y) => y = x
    <3>1. \A y \in tick.todo : y.id \in Nat
      BY DEF TypeInv, Ticks
    <3> QED
      BY <2>1, <3>1 DEF InTurn, PauseInv, ReadStands
  <2>4. CASE x.run.stop /\ paused' = tick.at + THROTTLE_PAUSE /\ Write(Judged)
    <3>1. /\ tick'.pc = "write" /\ tick'.todo = tick.todo /\ tick'.at = tick.at
          /\ tick'.after.at = tick.at
      BY <2>4, WriteTick, JudgedType
    <3>2. paused <= paused' /\ paused' \in Nat
      BY <1>0, <2>1, <2>4 DEF PauseInv, PauseEnds
    <3>3. RowsPause'
      <4>1. \A i \in Rows : runs[i].after.at \in Nat
        BY RowsRange DEF TypeInv, Run, AfterStates
      <4> QED
        BY <1>0, <2>1, <3>2, <4>1 DEF PauseInv, RowsPause, Rows
    <3>4. PauseEnds'
      BY <1>0, <2>1, <2>4, <3>1 DEF PauseEnds
    <3>5. PauseIsSet'
      BY <1>0, <2>4, <3>1 DEF PauseIsSet
    <3>6. ReadStands'
      BY <2>1, <3>1 DEF PauseInv, ReadStands
    <3> QED
      BY <2>2, <3>3, <3>4, <3>5, <3>6 DEF PauseInv
  <2>5. CASE ~x.run.stop /\ paused' = paused
             /\ (Write(Judged) \/ tick' = [tick EXCEPT !.pc = "lock", !.behind = Active])
    <3>1. tick'.pc \in {"write", "lock"} /\ tick'.todo = tick.todo /\ tick'.at = tick.at
      <4>1. Active \in BOOLEAN
        BY DEF Active, TypeInv
      <4> QED
        BY <2>5, <4>1, WriteTick, JudgedType, LockTick
    <3>2. RowsPause'
      BY <2>1, <2>5 DEF PauseInv, RowsPause, Rows
    <3>3. PauseEnds'
      BY <2>1, <2>5, <3>1 DEF PauseInv, PauseEnds
    <3>4. PauseIsSet'
      BY <2>3, <2>5, <3>1, SameTurn DEF PauseIsSet
    <3>5. ReadStands'
      BY <2>1, <3>1 DEF PauseInv, ReadStands
    <3> QED
      BY <2>2, <3>2, <3>3, <3>4, <3>5 DEF PauseInv
  <2> QED
    BY <1>2, <2>4, <2>5 DEF After
<1>3. ASSUME NEW x \in tick.todo, TakeMarket(x) PROVE PauseInv'
  <2>1. runs' = runs /\ now' = now /\ paused' = paused /\ tick.pc = "lock" /\ InTurn(x)
    BY <1>3 DEF TakeMarket
  <2>2. RowsPause' /\ ActiveIsFresh'
    BY <2>1 DEF PauseInv, RowsPause, ActiveIsFresh, Rows
  <2>3. CASE tick' = [tick EXCEPT !.pc = "follow", !.todo = @ \ {x}]
    <3>1. tick'.pc = "follow" /\ tick'.todo = tick.todo \ {x} /\ tick'.at = tick.at
      BY <2>3, FollowedTick
    <3> QED
      BY <2>1, <2>2, <3>1 DEF PauseInv, ReadStands, PauseIsSet, PauseEnds
  <2>4. CASE tick' = [tick EXCEPT !.pc = "maintain"]
    <3>1. tick'.pc = "maintain" /\ tick'.todo = tick.todo /\ tick'.at = tick.at
      BY <2>4, LockTick
    <3>2. PauseIsSet'
      BY <2>1, <3>1, SameTurn DEF PauseInv, PauseIsSet
    <3> QED
      BY <2>1, <2>2, <3>1, <3>2 DEF PauseInv, ReadStands, PauseEnds
  <2> QED
    BY <1>3, <2>3, <2>4 DEF TakeMarket
<1>4. ASSUME NEW x \in tick.todo, MaintenanceEnds(x) PROVE PauseInv'
  <2>1. runs' = runs /\ now' = now /\ paused' = paused /\ tick.pc = "maintain"
    BY <1>4 DEF MaintenanceEnds
  <2>2. RowsPause' /\ ActiveIsFresh'
    BY <2>1 DEF PauseInv, RowsPause, ActiveIsFresh, Rows
  <2>3. tick'.pc = "write" /\ tick'.todo = tick.todo /\ tick'.at = tick.at
    <3>1. [state |-> "failed", at |-> tick.at, failures |-> x.run.after.failures + 1] \in AfterStates
      BY DEF TypeInv, Ticks, AfterStates, Run
    <3> QED
      BY <1>4, <3>1, WriteTick, JudgedType DEF MaintenanceEnds
  <2>4. PauseIsSet'
    BY <2>1, <2>3, SameTurn DEF PauseInv, PauseIsSet
  <2> QED
    BY <2>1, <2>2, <2>3, <2>4 DEF PauseInv, ReadStands, PauseEnds
<1>5. ASSUME NEW x \in tick.todo, WriteAfter(x) PROVE PauseInv'
  <2>1. /\ now' = now /\ paused' = paused /\ tick.pc = "write" /\ InTurn(x)
        /\ tick'.pc = "follow" /\ tick'.todo = tick.todo \ {x} /\ tick'.at = tick.at
    BY <1>5, FollowedTick DEF WriteAfter
  <2>2. PauseEnds' /\ PauseIsSet'
    BY <2>1 DEF PauseInv, PauseEnds, PauseIsSet
  <2>3. x.id \in Rows /\ runs[x.id] \in Run /\ tick.after \in AfterStates
    BY RowsRange DEF TypeInv, Ticks
  <2>4. CASE runs[x.id].status = "deleted"
    <3>1. runs' = runs
      BY <1>5, <2>4 DEF WriteAfter
    <3> QED
      BY <2>1, <2>2, <3>1 DEF PauseInv, RowsPause, ActiveIsFresh, ReadStands, Rows
  <2>5. CASE runs[x.id].status # "deleted"
    <3>1. /\ Rows' = Rows /\ runs'[x.id].after = tick.after
          /\ runs'[x.id].status = runs[x.id].status /\ runs'[x.id].stop = runs[x.id].stop
          /\ \A j \in Rows \ {x.id} : runs'[j] = runs[j]
      <4>1. runs' = [runs EXCEPT ![x.id] = Outcome(runs[x.id], tick.after)]
        BY <1>5, <2>5, WrittenRow
      <4>2. Outcome(runs[x.id], tick.after) \in Run
        BY <2>3, OutcomeType
      <4>3. /\ Rows' = Rows /\ runs'[x.id] = Outcome(runs[x.id], tick.after)
            /\ \A j \in Rows \ {x.id} : runs'[j] = runs[j]
        BY <2>3, <4>1, <4>2, RowReplaced DEF TypeInv
      <4> QED
        BY <2>3, <4>3, OutcomeType
    <3>2. x.run = runs[x.id] /\ runs[x.id].status # "active"
      BY <2>5 DEF PauseInv, ReadStands
    <3>3. RowsPause'
      <4>1. ASSUME runs[x.id].stop PROVE tick.after.at + THROTTLE_PAUSE <= paused
        BY <2>1, <3>2, <4>1 DEF PauseInv, PauseIsSet
      <4> QED
        BY <2>1, <2>3, <3>1, <4>1 DEF PauseInv, RowsPause
    <3>4. ActiveIsFresh'
      BY <3>1, <3>2 DEF PauseInv, ActiveIsFresh
    <3>5. ReadStands'
      <4>1. \A y \in tick.todo \ {x} : runs'[y.id] = runs[y.id]
        BY <3>1 DEF PauseInv, ReadStands, TypeInv
      <4> QED
        BY <2>1, <4>1 DEF PauseInv, ReadStands
    <3> QED
      BY <2>2, <3>3, <3>4, <3>5 DEF PauseInv
  <2> QED
    BY <2>4, <2>5
<1>6. CASE Decide
  <2>1. runs' = runs /\ now' = now /\ paused' = paused /\ tick.pc = "follow" /\ tick.todo = {}
    BY <1>6 DEF Decide
  <2>2. RowsPause' /\ ActiveIsFresh'
    BY <2>1 DEF PauseInv, RowsPause, ActiveIsFresh, Rows
  <2>3. CASE tick' = Asleep
    BY <2>1, <2>2, <2>3, PauseAsleep
  <2>4. ASSUME NEW i \in decide(SlotOf(tick.at), tick.at), tick' = [tick EXCEPT !.pc = "launch", !.run = i]
        PROVE  PauseInv'
    <3>1. paused <= tick.at
      <4>1. due(SlotOf(tick.at), tick.at)
        BY <2>4 DEF decide
      <4> QED
        BY <1>0, <4>1 DEF due
    <3>2. tick'.pc = "launch" /\ tick'.todo = {} /\ tick'.at = tick.at
      BY <2>1, <2>4 DEF TypeInv, Ticks
    <3> QED
      BY <1>0, <2>1, <2>2, <3>1, <3>2 DEF PauseInv, ReadStands, PauseIsSet, PauseEnds
  <2> QED
    BY <1>6, <2>3, <2>4 DEF Decide
<1>7. CASE LaunchSkipped \/ LaunchFails
  <2>1. runs' = runs /\ now' = now /\ paused' = paused /\ tick' = Asleep
    BY <1>7 DEF LaunchSkipped, LaunchFails
  <2>2. RowsPause' /\ ActiveIsFresh'
    BY <2>1 DEF PauseInv, RowsPause, ActiveIsFresh, Rows
  <2> QED
    BY <2>1, <2>2, PauseAsleep
<1>8. CASE LaunchStart
  <2>1. now' = now /\ paused' = paused /\ tick' = Asleep
    BY <1>8 DEF LaunchStart
  <2>2. /\ Rows' = Rows \cup {Len(runs) + 1} /\ \A i \in Rows : runs'[i] = runs[i]
        /\ runs'[Len(runs) + 1] = scheduled(SlotOf(tick.at))
    BY <1>8, StartedRow
  <2>3. RowsPause' /\ ActiveIsFresh'
    BY <2>1, <2>2 DEF PauseInv, RowsPause, ActiveIsFresh, scheduled, Fresh
  <2> QED
    BY <2>1, <2>3, PauseAsleep
<1>9. CASE LaunchResume
  <2>1. now' = now /\ paused' = paused /\ tick' = Asleep /\ tick.run \in Rows
    BY <1>9 DEF LaunchResume, TypeInv
  <2>2. /\ Rows' = Rows /\ \A j \in Rows \ {tick.run} : runs'[j] = runs[j]
        /\ runs'[tick.run].status = "active" /\ runs'[tick.run].after = Fresh
    <3>1. runs' = [runs EXCEPT ![tick.run] = Resumed(runs[tick.run], 1)]
      BY <1>9, <2>1, ResumedRow DEF LaunchResume
    <3>2. /\ runs[tick.run] \in Run /\ Resumed(runs[tick.run], 1) \in Run
          /\ Resumed(runs[tick.run], 1).status = "active" /\ Resumed(runs[tick.run], 1).after = Fresh
      <4>1. runs[tick.run] \in Run /\ 1 \in Nat
        BY <2>1, RowsRange DEF TypeInv
      <4> QED
        BY <4>1, ResumedType
    <3>3. /\ Rows' = Rows /\ runs'[tick.run] = Resumed(runs[tick.run], 1)
          /\ \A j \in Rows \ {tick.run} : runs'[j] = runs[j]
      BY <2>1, <3>1, <3>2, RowReplaced DEF TypeInv
    <3> QED
      BY <3>2, <3>3
  <2>3. RowsPause' /\ ActiveIsFresh'
    BY <2>1, <2>2 DEF PauseInv, RowsPause, ActiveIsFresh, Fresh
  <2> QED
    BY <2>1, <2>3, PauseAsleep
<1> QED
  BY <1>1, <1>2, <1>3, <1>4, <1>5, <1>6, <1>7, <1>8, <1>9 DEF Tick

LEMMA PauseOthers == TypeInv /\ PauseInv /\ (Ends \/ Around) => PauseInv' \/ ~Undisturbed'
<1> SUFFICES ASSUME TypeInv, PauseInv, Ends \/ Around PROVE PauseInv' \/ ~Undisturbed'
  OBVIOUS
<1>0. now \in Nat
  BY Clocks
<1>1. CASE ManualEnds
  <2>1. RowsPause' /\ ActiveIsFresh'
    BY <1>1 DEF ManualEnds, PauseInv, RowsPause, ActiveIsFresh, Rows
  <2> QED
    BY <1>0, <1>1, <2>1, NobodyAheadTick, PauseKept DEF ManualEnds
<1>2. ASSUME NEW i \in Rows, NEW end \in Ending, RunEnds(i, end) PROVE PauseInv'
  <2>1. runs[i] \in Run /\ runs[i].status = "active"
    BY <1>2, RowsRange DEF RunEnds, TypeInv
  <2>2. /\ Rows' = Rows /\ \A j \in Rows \ {i} : runs'[j] = runs[j]
        /\ runs'[i].after = runs[i].after /\ runs'[i].status = end.status
    BY <1>2, <2>1, EndedRow, EndedType, RowReplaced DEF TypeInv
  <2>3. paused' = paused /\ now' = now
    BY <1>2 DEF RunEnds
  <2>4. end.status # "active"
    BY DEF Ending
  <2>5. RowsPause' /\ ActiveIsFresh'
    BY <2>1, <2>2, <2>3, <2>4 DEF PauseInv, RowsPause, ActiveIsFresh
  <2>6. \A x \in tick.todo : x.id # i
    BY <2>1 DEF PauseInv, ReadStands
  <2>7. \A x \in tick.todo : runs'[x.id] = runs[x.id]
    BY <2>2, <2>6 DEF TypeInv
  <2>8. \A f \in {"pc", "at", "todo", "after"} : tick'[f] = tick[f]
    BY <1>2, NobodyAheadTick DEF RunEnds
  <2> QED
    BY <1>0, <2>3, <2>5, <2>7, <2>8, PauseKept
<1>3. CASE ManualStart
  BY <1>3, MarkedUse DEF ManualStart, Undisturbed, TypeInv
<1>4. CASE clear_pause
  BY <1>4 DEF clear_pause, Undisturbed, TypeInv
<1>5. CASE Pass
  <2>1. RowsPause' /\ ActiveIsFresh'
    BY <1>5 DEF Pass, PauseInv, RowsPause, ActiveIsFresh, Rows
  <2> QED
    BY <1>0, <1>5, <2>1, PauseKept DEF Pass
<1>6. CASE TickFails
  <2>1. RowsPause' /\ ActiveIsFresh'
    BY <1>6 DEF TickFails, PauseInv, RowsPause, ActiveIsFresh, Rows
  <2> QED
    BY <1>6, <2>1, PauseAsleep DEF TickFails
<1>7. ASSUME NEW i \in Rows, ManualResume(i) PROVE ~Undisturbed'
  BY <1>7, MarkedUse DEF ManualResume, Undisturbed, TypeInv
<1>8. ASSUME NEW i \in Rows, DeleteRun(i) PROVE PauseInv'
  <2>1. /\ Rows' = Rows /\ runs'[i] = Deleted(runs[i])
        /\ \A j \in Rows \ {i} : runs'[j] = runs[j]
    BY <1>8, DeletedRow, DeletedType, RowReplaced, RowsRange DEF TypeInv
  <2>2. Deleted(runs[i]).status = "deleted"
    BY DeletedType, RowsRange DEF TypeInv
  <2>3. paused' = paused /\ now' = now /\ tick' = tick
    BY <1>8 DEF DeleteRun
  <2>4. RowsPause' /\ ActiveIsFresh'
    BY <2>1, <2>2, <2>3 DEF PauseInv, RowsPause, ActiveIsFresh
  <2>5. \A x \in tick.todo : runs'[x.id].status = "deleted" \/ runs'[x.id] = runs[x.id]
    BY <2>1, <2>2 DEF TypeInv
  <2> QED
    BY <1>0, <2>3, <2>4, <2>5, PauseKept
<1>9. ASSUME NEW status \in {"interrupted", "cancelled"}, Restart(status) PROVE PauseInv'
  <2>1. Rows' = Rows /\ \A i \in Rows : runs'[i] = Stopped(runs[i], status)
    BY <1>9, StoppedRows
  <2>2. \A i \in Rows :
           /\ runs'[i].status = IF runs[i].status = "active" THEN status ELSE runs[i].status
           /\ runs'[i].stop = runs[i].stop /\ runs'[i].after = runs[i].after
    BY <2>1, StoppedType, RowsRange DEF TypeInv
  <2>3. paused' = paused /\ now' = now /\ tick' = Asleep
    BY <1>9 DEF Restart
  <2>4. RowsPause' /\ ActiveIsFresh'
    BY <2>1, <2>2, <2>3 DEF PauseInv, RowsPause, ActiveIsFresh
  <2> QED
    BY <2>3, <2>4, PauseAsleep
<1> QED
  BY <1>1, <1>2, <1>3, <1>4, <1>5, <1>6, <1>7, <1>8, <1>9 DEF Ends, Around

(* What a step takes from outside. *)
LEMMA UsedUp ==
    ASSUME [Next]_vars
    PROVE  \/ used' = used \/ clear_pause
           \/ \E what \in {"manual", "restart", "delete", "fault"} : \E bound : Use(what, bound)
<1>1. CASE Tick
  BY <1>1 DEF Tick, TickBegins, After, TakeMarket, MaintenanceEnds, WriteAfter, Decide,
                LaunchSkipped, LaunchStart, LaunchResume, LaunchFails
<1>2. CASE Ends
  BY <1>2 DEF Ends, ManualEnds, RunEnds
<1>3. CASE Around
  BY <1>3 DEF Around, ManualStart, Pass, TickFails, ManualResume, DeleteRun, Restart
<1>4. CASE UNCHANGED vars
  BY <1>4 DEF vars
<1> QED
  BY <1>1, <1>2, <1>3, <1>4 DEF Next

LEMMA StaysUndisturbed == TypeInv /\ [Next]_vars /\ Undisturbed' => Undisturbed
<1> SUFFICES ASSUME TypeInv, [Next]_vars, Undisturbed' PROVE Undisturbed
  OBVIOUS
<1>1. CASE used' = used
  BY <1>1 DEF Undisturbed
<1>2. CASE clear_pause
  BY <1>2 DEF clear_pause, Undisturbed, TypeInv
<1>3. ASSUME NEW what \in {"manual", "restart", "delete", "fault"}, NEW bound, Use(what, bound)
      PROVE  Undisturbed
  <2>1. used' = [used EXCEPT ![what] = used[what] + 1] /\ used[what] \in Nat
    BY <1>3, MarkedUse DEF TypeInv
  <2> QED
    BY <2>1 DEF Undisturbed, TypeInv
<1> QED
  BY <1>1, <1>2, <1>3, UsedUp

(* services/scheduler.py:_after: a run stopped for throttling that was        *)
(* followed up has the schedule launch nothing for THROTTLE_PAUSE, through    *)
(* restarts, database errors and other throttled runs, unless a person        *)
(* cleared the pause or ran something by hand.                               *)
THEOREM PauseIsHeld == Spec => []PauseHolds
<1>1. Init => PauseInv
  <2> SUFFICES ASSUME Init PROVE PauseInv
    OBVIOUS
  <2>1. Rows = {} /\ tick.todo = {} /\ tick.pc = "sleep" /\ now = 0 /\ paused = 0
    BY AsleepType DEF Init, Rows
  <2> QED
    BY <2>1, ScheduleAssumption
       DEF PauseInv, RowsPause, ActiveIsFresh, ReadStands, PauseIsSet, PauseEnds
<1>2. TypeInv /\ (Undisturbed => PauseInv) /\ [Next]_vars => (Undisturbed => PauseInv)'
  <2> SUFFICES ASSUME TypeInv, Undisturbed => PauseInv, [Next]_vars, Undisturbed'
               PROVE  PauseInv'
    OBVIOUS
  <2>1. PauseInv
    BY StaysUndisturbed
  <2>2. CASE UNCHANGED vars
    BY <2>1, <2>2 DEF vars, PauseInv, RowsPause, ActiveIsFresh, ReadStands, PauseIsSet, PauseEnds,
                      InTurn, Rows
  <2> QED
    BY <2>1, <2>2, PauseTick, PauseOthers DEF Next
<1>3. TypeInv /\ (Undisturbed => PauseInv) => PauseHolds
  <2> SUFFICES ASSUME TypeInv, PauseInv, tick.pc = "launch", NEW i \in Rows,
                      runs[i].status = "partial", runs[i].stop, runs[i].after.state = "done"
               PROVE  now >= runs[i].after.at + THROTTLE_PAUSE
    BY DEF PauseHolds, Undisturbed
  <2>1. runs[i].after.at + THROTTLE_PAUSE <= paused /\ paused <= tick.at
    BY DEF PauseInv, RowsPause, PauseEnds
  <2>2. runs[i].after.at \in Nat
    BY RowsRange DEF TypeInv, Run, AfterStates
  <2> QED
    BY <2>1, <2>2, Clocks
<1> QED
  BY <1>1, <1>2, <1>3, TypeCorrect, PTL DEF Spec

------------------------------------------------------------------------------
(* The attempts of a slot: every launch adds one pair of a row and the number *)
(* of its attempt, and nothing but a deletion takes one away.                *)

Kept == used["delete"] = 0

AttemptsInv ==
    /\ \A i \in Rows : runs[i].status # "deleted"
    /\ \A s \in Slots : /\ IsFiniteSet(Attempted(s)) /\ launched[s] <= Cardinality(Attempted(s))
                        /\ launched[s] <= SLOT_ATTEMPTS
    /\ tick.pc = "launch" =>
          /\ Cardinality(Attempted(SlotOf(tick.at))) < SLOT_ATTEMPTS
          /\ tick.run # 0 => runs[tick.run].slot = SlotOf(tick.at)

LEMMA AttemptedPairs ==
    \A s : \A p : p \in Attempted(s) <=> \E i \in slot_runs(s) : p \in {i} \X (1..runs[i].attempts)
  BY DEF Attempted

LEMMA AttemptedPairsNext ==
    \A s : \A p : p \in Attempted(s)' <=>
              \E i \in slot_runs(s)' : p \in {i} \X (1..runs'[i].attempts)
  BY DEF Attempted

(* A step that changes no row's slot or attempts, and deletes none. *)
LEMMA SameAttempts ==
    ASSUME Rows' = Rows,
           \A i \in Rows : /\ runs'[i].slot = runs[i].slot /\ runs'[i].attempts = runs[i].attempts
                           /\ runs[i].status # "deleted" /\ runs'[i].status # "deleted"
    PROVE  \A s : Attempted(s)' = Attempted(s)
<1> TAKE s
<1>1. slot_runs(s)' = slot_runs(s)
  BY DEF slot_runs
<1>2. \A i \in slot_runs(s) : runs'[i].attempts = runs[i].attempts
  BY DEF slot_runs
<1>3. \A p : p \in Attempted(s)' <=> p \in Attempted(s)
  BY <1>1, <1>2, AttemptedPairs, AttemptedPairsNext
<1> QED
  BY <1>3

(* A step that leaves the launches alone too. *)
LEMMA AttemptsKept ==
    ASSUME TypeInv, AttemptsInv, launched' = launched, Rows' = Rows,
           \A i \in Rows : /\ runs'[i].slot = runs[i].slot /\ runs'[i].attempts = runs[i].attempts
                           /\ runs'[i].status # "deleted",
           \/ tick'.pc # "launch"
           \/ tick'.pc = tick.pc /\ tick'.run = tick.run /\ tick'.at = tick.at
    PROVE  AttemptsInv'
<1>1. \A s : Attempted(s)' = Attempted(s)
  BY SameAttempts DEF AttemptsInv
<1>2. \A i \in Rows' : runs'[i].status # "deleted"
  OBVIOUS
<1>3. \A s \in Slots : /\ IsFiniteSet(Attempted(s)') /\ launched'[s] <= Cardinality(Attempted(s)')
                       /\ launched'[s] <= SLOT_ATTEMPTS
  BY <1>1 DEF AttemptsInv
<1>4. ASSUME tick'.pc = "launch"
      PROVE  /\ Cardinality(Attempted(SlotOf(tick.at)))' < SLOT_ATTEMPTS
             /\ (tick.run # 0 => runs[tick.run].slot = SlotOf(tick.at))'
  <2>1. tick.pc = "launch" /\ tick'.run = tick.run /\ tick'.at = tick.at
    BY <1>4
  <2>2. tick.run # 0 => tick.run \in Rows
    BY DEF TypeInv
  <2> QED
    BY <1>1, <2>1, <2>2 DEF AttemptsInv, SlotOf
<1> QED
  BY <1>2, <1>3, <1>4 DEF AttemptsInv

(* A launch adds one attempt to its slot. *)
LEMMA OneAttempt ==
    ASSUME TypeInv, AttemptsInv, tick.pc = "launch", tick'.pc # "launch", NEW s \in Slots,
           s = SlotOf(tick.at), launched' = [launched EXCEPT ![s] = @ + 1], NEW p,
           p \notin Attempted(s), Attempted(s)' = Attempted(s) \cup {p},
           \A r \in Slots \ {s} : Attempted(r)' = Attempted(r),
           \A i \in Rows' : runs'[i].status # "deleted"
    PROVE  AttemptsInv'
<1>1. /\ IsFiniteSet(Attempted(s)') /\ Cardinality(Attempted(s)') = Cardinality(Attempted(s)) + 1
  BY FS_AddElement DEF AttemptsInv
<1>2. Cardinality(Attempted(s)) \in Nat /\ Cardinality(Attempted(s)) < SLOT_ATTEMPTS
  BY FS_CardinalityType DEF AttemptsInv
<1>3. launched[s] \in Nat /\ launched[s] <= Cardinality(Attempted(s))
  BY DEF TypeInv, AttemptsInv
<1>4. \A r \in Slots : launched'[r] = IF r = s THEN launched[s] + 1 ELSE launched[r]
  BY DEF TypeInv
<1>5. SLOT_ATTEMPTS \in Nat
  BY ScheduleAssumption
<1>6. \A r \in Slots : /\ IsFiniteSet(Attempted(r)') /\ launched'[r] <= Cardinality(Attempted(r)')
                       /\ launched'[r] <= SLOT_ATTEMPTS
  <2> TAKE r \in Slots
  <2>1. CASE r = s
    BY <1>1, <1>2, <1>3, <1>4, <1>5, <2>1
  <2>2. CASE r # s
    BY <1>4, <2>2 DEF AttemptsInv
  <2> QED
    BY <2>1, <2>2
<1> QED
  BY <1>6 DEF AttemptsInv

LEMMA AttemptsLaunch ==
    ASSUME TypeInv, AttemptsInv, LaunchStart \/ LaunchResume
    PROVE  AttemptsInv'
<1>0. tick.pc = "launch" /\ tick' = Asleep /\ SlotOf(tick.at) \in Slots
  BY SlotType DEF LaunchStart, LaunchResume
<1>1. tick'.pc # "launch"
  BY <1>0, AsleepType
<1>2. CASE LaunchStart
  <2>10. PICK s \in Slots : s = SlotOf(tick.at)
    BY <1>0
  <2>11. PICK n \in Nat : n = Len(runs) + 1
    BY DEF TypeInv
  <2>1. /\ Rows' = Rows \cup {n} /\ \A i \in Rows : runs'[i] = runs[i]
        /\ runs'[n] = scheduled(s) /\ n \notin Rows
    BY <1>2, <2>10, <2>11, StartedRow DEF Rows, TypeInv
  <2>2. scheduled(s).slot = s /\ scheduled(s).attempts = 1 /\ scheduled(s).status = "active"
    BY DEF scheduled
  <2>3. \A r : slot_runs(r)' = IF r = s THEN slot_runs(r) \cup {n} ELSE slot_runs(r)
    BY <2>1, <2>2 DEF slot_runs
  <2>4. \A r : slot_runs(r) \subseteq Rows
    BY DEF slot_runs
  <2>5. \A r : r # s => Attempted(r)' = Attempted(r)
    <3> TAKE r
    <3>1. ASSUME r # s, NEW p PROVE p \in Attempted(r)' <=> p \in Attempted(r)
      BY <2>1, <2>3, <2>4, <3>1, AttemptedPairs, AttemptedPairsNext
    <3> QED
      BY <3>1
  <2>6. Attempted(s)' = Attempted(s) \cup {<<n, 1>>}
    <3>1. ASSUME NEW p PROVE p \in Attempted(s)' <=> p \in Attempted(s) \/ p \in {n} \X (1..1)
      <4>1. \A i \in slot_runs(s) : runs'[i].attempts = runs[i].attempts
        BY <2>1, <2>4
      <4>2. runs'[n].attempts = 1
        BY <2>1, <2>2
      <4> QED
        BY <2>3, <4>1, <4>2, AttemptedPairs, AttemptedPairsNext
    <3>2. {n} \X (1..1) = {<<n, 1>>}
      OBVIOUS
    <3> QED
      BY <3>1, <3>2
  <2>7. <<n, 1>> \notin Attempted(s)
    BY <2>1, <2>4, AttemptedPairs
  <2>8. launched' = [launched EXCEPT ![s] = @ + 1]
    BY <1>2, <2>10 DEF LaunchStart
  <2>9. \A i \in Rows' : runs'[i].status # "deleted"
    BY <2>1, <2>2 DEF AttemptsInv
  <2> QED
    BY <1>0, <1>1, <2>5, <2>6, <2>7, <2>8, <2>9, <2>10, OneAttempt
<1>3. CASE LaunchResume
  <2>5. PICK s \in Slots : s = SlotOf(tick.at)
    BY <1>0
  <2>14. PICK i \in Rows : i = tick.run
    BY <1>3 DEF LaunchResume, TypeInv
  <2>1. i \in Rows /\ runs[i].slot = s /\ runs[i].status # "deleted"
    BY <1>3, <2>5, <2>14 DEF LaunchResume, AttemptsInv
  <2>2. runs[i].attempts \in Nat
    BY <2>1, RowsRange DEF TypeInv, Run
  <2>15. PICK n \in Nat : n = runs[i].attempts + 1
    BY <2>2
  <2>3. /\ Rows' = Rows /\ \A j \in Rows \ {i} : runs'[j] = runs[j]
        /\ runs'[i].slot = runs[i].slot /\ runs'[i].attempts = n /\ runs'[i].status = "active"
    <3>1. runs' = [runs EXCEPT ![i] = Resumed(runs[i], 1)]
      BY <1>3, <2>14, ResumedRow DEF LaunchResume
    <3>2. runs[i] \in Run /\ 1 \in Nat
      BY <2>1, RowsRange DEF TypeInv
    <3>3. /\ Resumed(runs[i], 1) \in Run
          /\ Resumed(runs[i], 1).status = "active" /\ Resumed(runs[i], 1).attempts = n
          /\ Resumed(runs[i], 1).slot = runs[i].slot
      BY <2>15, <3>2, ResumedType
    <3>4. /\ Rows' = Rows /\ runs'[i] = Resumed(runs[i], 1)
          /\ \A j \in Rows \ {i} : runs'[j] = runs[j]
      BY <2>1, <3>1, <3>3, RowReplaced DEF TypeInv
    <3> QED
      BY <3>3, <3>4
  <2>4. launched' = [launched EXCEPT ![s] = @ + 1]
    BY <1>3, <2>1, <2>14 DEF LaunchResume
  <2>6. 1..n = (1..runs[i].attempts) \cup {n} /\ n \notin 1..runs[i].attempts
    BY <2>2, <2>15
  <2>7. \A r : slot_runs(r)' = slot_runs(r)
    BY <2>1, <2>3 DEF slot_runs
  <2>8. i \in slot_runs(s) /\ \A r : r # s => i \notin slot_runs(r)
    BY <2>1 DEF slot_runs
  <2>9. \A r : \A j \in slot_runs(r) : j # i => runs'[j].attempts = runs[j].attempts
    BY <2>3 DEF slot_runs
  <2>10. \A r : r # s => Attempted(r)' = Attempted(r)
    <3> TAKE r
    <3>1. ASSUME r # s, NEW p PROVE p \in Attempted(r)' <=> p \in Attempted(r)
      BY <2>7, <2>8, <2>9, <3>1, AttemptedPairs, AttemptedPairsNext
    <3> QED
      BY <3>1
  <2>11. Attempted(s)' = Attempted(s) \cup {<<i, n>>}
    <3>1. ASSUME NEW p PROVE p \in Attempted(s)' <=> p \in Attempted(s) \/ p = <<i, n>>
      <4>1. p \in {i} \X (1..n) <=> p \in {i} \X (1..runs[i].attempts) \/ p = <<i, n>>
        BY <2>6
      <4>2. p \in Attempted(s)' <=>
               \/ p \in {i} \X (1..n)
               \/ \E j \in slot_runs(s) \ {i} : p \in {j} \X (1..runs[j].attempts)
        BY <2>3, <2>7, <2>8, <2>9, AttemptedPairsNext
      <4>3. p \in Attempted(s) <=>
               \/ p \in {i} \X (1..runs[i].attempts)
               \/ \E j \in slot_runs(s) \ {i} : p \in {j} \X (1..runs[j].attempts)
        BY <2>8, AttemptedPairs
      <4> QED
        BY <4>1, <4>2, <4>3
    <3> QED
      BY <3>1
  <2>12. <<i, n>> \notin Attempted(s)
    <3>1. ASSUME NEW j, <<i, n>> \in {j} \X (1..runs[j].attempts) PROVE FALSE
      BY <2>6, <3>1
    <3> QED
      BY <3>1, AttemptedPairs
  <2>13. \A j \in Rows' : runs'[j].status # "deleted"
    BY <2>3 DEF AttemptsInv
  <2> QED
    BY <1>0, <1>1, <2>4, <2>5, <2>10, <2>11, <2>12, <2>13, OneAttempt
<1> QED
  BY <1>2, <1>3

LEMMA AttemptsTick == TypeInv /\ AttemptsInv /\ Tick => AttemptsInv'
<1> SUFFICES ASSUME TypeInv, AttemptsInv, Tick PROVE AttemptsInv'
  OBVIOUS
<1>1. CASE TickBegins
  <2>1. tick'.pc = "follow"
    BY <1>1, BegunTick
  <2> QED
    BY <1>1, <2>1, AttemptsKept DEF TickBegins, Rows, AttemptsInv
<1>2. ASSUME NEW x \in tick.todo, After(x) \/ TakeMarket(x) \/ MaintenanceEnds(x) PROVE AttemptsInv'
  <2>1. runs' = runs /\ launched' = launched
    BY <1>2 DEF After, TakeMarket, MaintenanceEnds
  <2>2. tick'.pc # "launch"
    <3>1. ASSUME NEW after, tick' = [tick EXCEPT !.pc = "write", !.after = after]
          PROVE  tick'.pc = "write"
      BY <3>1 DEF TypeInv, Ticks
    <3>2. ASSUME NEW b, NEW pc \in {"lock", "maintain"},
                 tick' = [tick EXCEPT !.pc = pc, !.behind = b] \/ tick' = [tick EXCEPT !.pc = pc]
          PROVE  tick'.pc = pc
      BY <3>2 DEF TypeInv, Ticks
    <3>3. CASE tick' = [tick EXCEPT !.pc = "follow", !.todo = @ \ {x}]
      BY <3>3, FollowedTick
    <3> QED
      BY <1>2, <3>1, <3>2, <3>3 DEF After, TakeMarket, MaintenanceEnds, Write
  <2> QED
    BY <2>1, <2>2, AttemptsKept DEF Rows, AttemptsInv
<1>3. ASSUME NEW x \in tick.todo, WriteAfter(x) PROVE AttemptsInv'
  <2>1. x.id \in Rows /\ runs[x.id] \in Run /\ tick.after \in AfterStates
    BY RowsRange DEF TypeInv, Ticks
  <2>2. runs[x.id].status # "deleted"
    BY <2>1 DEF AttemptsInv
  <2>3. runs' = [runs EXCEPT ![x.id] = Outcome(runs[x.id], tick.after)]
    BY <1>3, <2>2, WrittenRow
  <2>4. Outcome(runs[x.id], tick.after) \in Run
        /\ \A f \in {"slot", "attempts", "status"} :
              Outcome(runs[x.id], tick.after)[f] = runs[x.id][f]
    BY <2>1, OutcomeType
  <2>5. /\ Rows' = Rows /\ runs'[x.id] = Outcome(runs[x.id], tick.after)
        /\ \A j \in Rows \ {x.id} : runs'[j] = runs[j]
    BY <2>1, <2>3, <2>4, RowReplaced DEF TypeInv
  <2>6. tick'.pc # "launch" /\ launched' = launched
    BY <1>3, FollowedTick DEF WriteAfter
  <2>7. \A i \in Rows : /\ runs'[i].slot = runs[i].slot /\ runs'[i].attempts = runs[i].attempts
                        /\ runs'[i].status # "deleted"
    BY <2>4, <2>5 DEF AttemptsInv
  <2> QED
    BY <2>5, <2>6, <2>7, AttemptsKept
<1>4. CASE Decide
  <2>1. runs' = runs /\ launched' = launched
    BY <1>4 DEF Decide
  <2>2. CASE tick' = Asleep
    BY <2>1, <2>2, AsleepType, AttemptsKept DEF Rows, AttemptsInv
  <2>3. ASSUME NEW i \in decide(SlotOf(tick.at), tick.at), tick' = [tick EXCEPT !.pc = "launch", !.run = i]
        PROVE  AttemptsInv'
    <3> DEFINE s == SlotOf(tick.at)
    <3>1. s \in Slots /\ tick'.run = i /\ tick'.at = tick.at
      BY <2>3, SlotType DEF TypeInv, Ticks
    <3>2. ~(attempts(s) >= SLOT_ATTEMPTS)
      BY <2>3 DEF decide
    <3>3. i # 0 => i \in slot_runs(s)
      <4>1. i = 0 \/ (slot_runs(s) # {} /\ i = Max(slot_runs(s)))
        BY <2>3 DEF decide
      <4> QED
        BY <4>1, LatestRow
    <3> HIDE DEF s
    <3>4. Cardinality(Attempted(s)) < SLOT_ATTEMPTS
      <4>1. Cardinality(Attempted(s)) \in Nat /\ launches[s].failures \in Nat /\ SLOT_ATTEMPTS \in Nat
        BY <3>1, FS_CardinalityType, ScheduleAssumption DEF AttemptsInv, TypeInv
      <4> QED
        BY <3>2, <4>1 DEF attempts
    <3>5. i # 0 => runs[i].slot = s
      BY <3>3 DEF slot_runs
    <3>6. SlotOf(tick'.at) = s
      BY <3>1 DEF s
    <3>7. Rows' = Rows /\ \A r : Attempted(r)' = Attempted(r)
      BY <2>1 DEF Rows, Attempted, slot_runs
    <3> QED
      BY <2>1, <3>1, <3>4, <3>5, <3>6, <3>7 DEF AttemptsInv, SlotOf
  <2> QED
    BY <1>4, <2>2, <2>3 DEF Decide
<1>5. CASE LaunchSkipped \/ LaunchFails
  <2>1. runs' = runs /\ launched' = launched /\ tick' = Asleep
    BY <1>5 DEF LaunchSkipped, LaunchFails
  <2> QED
    BY <2>1, AsleepType, AttemptsKept DEF Rows, AttemptsInv
<1> QED
  BY <1>1, <1>2, <1>3, <1>4, <1>5, AttemptsLaunch DEF Tick

LEMMA AttemptsOthers == TypeInv /\ AttemptsInv /\ (Ends \/ Around) => AttemptsInv' \/ ~Kept'
<1> SUFFICES ASSUME TypeInv, AttemptsInv, Ends \/ Around PROVE AttemptsInv' \/ ~Kept'
  OBVIOUS
<1>1. CASE ManualEnds
  <2>1. \A f \in {"pc", "at", "run"} : tick'[f] = tick[f]
    BY <1>1, NobodyAheadTick DEF ManualEnds
  <2> QED
    BY <1>1, <2>1, AttemptsKept DEF ManualEnds, Rows, AttemptsInv
<1>2. ASSUME NEW i \in Rows, NEW end \in Ending, RunEnds(i, end) PROVE AttemptsInv'
  <2>1. runs[i] \in Run
    BY RowsRange DEF TypeInv
  <2>2. EndedAs(runs[i], end) \in Run /\ EndedAs(runs[i], end).status = end.status
        /\ \A f \in {"slot", "attempts"} : EndedAs(runs[i], end)[f] = runs[i][f]
    BY <2>1, EndedType
  <2>3. /\ Rows' = Rows /\ runs'[i] = EndedAs(runs[i], end)
        /\ \A j \in Rows \ {i} : runs'[j] = runs[j]
    BY <1>2, <2>2, EndedRow, RowReplaced DEF TypeInv
  <2>4. end.status # "deleted"
    BY DEF Ending
  <2>5. \A f \in {"pc", "at", "run"} : tick'[f] = tick[f]
    BY <1>2, NobodyAheadTick DEF RunEnds
  <2>6. \A j \in Rows : /\ runs'[j].slot = runs[j].slot /\ runs'[j].attempts = runs[j].attempts
                        /\ runs'[j].status # "deleted"
    BY <2>2, <2>3, <2>4 DEF AttemptsInv
  <2> QED
    BY <1>2, <2>3, <2>5, <2>6, AttemptsKept DEF RunEnds
<1>3. CASE ManualStart \/ clear_pause \/ Pass
  BY <1>3, AttemptsKept DEF ManualStart, clear_pause, Pass, Rows, AttemptsInv
<1>4. CASE TickFails
  BY <1>4, AsleepType, AttemptsKept DEF TickFails, Rows, AttemptsInv
<1>5. ASSUME NEW i \in Rows, ManualResume(i) PROVE AttemptsInv'
  <2>1. runs[i] \in Run /\ runs[i].attempts \in Nat /\ 0 \in Nat
    BY RowsRange DEF TypeInv, Run
  <2>2. Resumed(runs[i], 0) \in Run /\ Resumed(runs[i], 0).status = "active"
        /\ Resumed(runs[i], 0).attempts = runs[i].attempts /\ Resumed(runs[i], 0).slot = runs[i].slot
    <3>1. runs[i].attempts + 0 = runs[i].attempts
      BY <2>1
    <3>2. /\ Resumed(runs[i], 0) \in Run /\ Resumed(runs[i], 0).status = "active"
          /\ Resumed(runs[i], 0).attempts = runs[i].attempts + 0
          /\ Resumed(runs[i], 0).slot = runs[i].slot
      BY <2>1, ResumedType
    <3> QED
      BY <3>1, <3>2
  <2>3. runs' = [runs EXCEPT ![i] = Resumed(runs[i], 0)]
    BY <1>5, <2>1, ResumedRow DEF ManualResume
  <2>4. /\ Rows' = Rows /\ runs'[i] = Resumed(runs[i], 0)
        /\ \A j \in Rows \ {i} : runs'[j] = runs[j]
    BY <2>2, <2>3, RowReplaced DEF TypeInv
  <2>5. \A j \in Rows : /\ runs'[j].slot = runs[j].slot /\ runs'[j].attempts = runs[j].attempts
                        /\ runs'[j].status # "deleted"
    BY <2>2, <2>4 DEF AttemptsInv
  <2> QED
    BY <1>5, <2>4, <2>5, AttemptsKept DEF ManualResume
<1>6. ASSUME NEW i \in Rows, DeleteRun(i) PROVE ~Kept'
  BY <1>6, MarkedUse DEF DeleteRun, Kept, TypeInv
<1>7. ASSUME NEW status \in {"interrupted", "cancelled"}, Restart(status) PROVE AttemptsInv'
  <2>1. Rows' = Rows /\ \A i \in Rows : runs'[i] = Stopped(runs[i], status)
    BY <1>7, StoppedRows
  <2>2. \A i \in Rows : /\ runs'[i].slot = runs[i].slot /\ runs'[i].attempts = runs[i].attempts
                        /\ runs'[i].status # "deleted"
    BY <2>1, StoppedType, RowsRange DEF TypeInv, AttemptsInv
  <2> QED
    BY <1>7, <2>1, <2>2, AsleepType, AttemptsKept DEF Restart
<1> QED
  BY <1>1, <1>2, <1>3, <1>4, <1>5, <1>6, <1>7 DEF Ends, Around

LEMMA StaysKept == TypeInv /\ [Next]_vars /\ Kept' => Kept
<1> SUFFICES ASSUME TypeInv, [Next]_vars, Kept' PROVE Kept
  OBVIOUS
<1>1. CASE used' = used
  BY <1>1 DEF Kept
<1>2. CASE clear_pause
  BY <1>2 DEF clear_pause, Kept, TypeInv
<1>3. ASSUME NEW what \in {"manual", "restart", "delete", "fault"}, NEW bound, Use(what, bound)
      PROVE  Kept
  <2>1. used' = [used EXCEPT ![what] = used[what] + 1] /\ used[what] \in Nat
    BY <1>3, MarkedUse DEF TypeInv
  <2> QED
    BY <2>1 DEF Kept, TypeInv
<1> QED
  BY <1>1, <1>2, <1>3, UsedUp

(* docs/OPERATIONS.md: the schedule starts or resumes a slot's run at most    *)
(* SLOT_ATTEMPTS times, across restarts, failed launches and whatever is      *)
(* started or resumed by hand in between, as long as no row is deleted.      *)
THEOREM AttemptsAreBounded == Spec => []AttemptsBounded
<1>1. Init => AttemptsInv
  <2> SUFFICES ASSUME Init PROVE AttemptsInv
    OBVIOUS
  <2>1. Rows = {} /\ tick.pc = "sleep" /\ \A s \in Slots : launched[s] = 0
    BY AsleepType DEF Init, Rows
  <2>2. \A s : Attempted(s) = {}
    BY <2>1 DEF Attempted, slot_runs
  <2>3. IsFiniteSet({}) /\ Cardinality({}) = 0
    BY FS_EmptySet
  <2> QED
    BY <2>1, <2>2, <2>3, ScheduleAssumption DEF AttemptsInv
<1>2. TypeInv /\ (Kept => AttemptsInv) /\ [Next]_vars => (Kept => AttemptsInv)'
  <2> SUFFICES ASSUME TypeInv, Kept => AttemptsInv, [Next]_vars, Kept'
               PROVE  AttemptsInv'
    OBVIOUS
  <2>1. AttemptsInv
    BY StaysKept
  <2>2. CASE UNCHANGED vars
    BY <2>1, <2>2, AttemptsKept DEF vars, Rows, AttemptsInv
  <2> QED
    BY <2>1, <2>2, AttemptsTick, AttemptsOthers DEF Next
<1>3. (Kept => AttemptsInv) => AttemptsBounded
  BY DEF Kept, AttemptsInv, AttemptsBounded
<1> QED
  BY <1>1, <1>2, <1>3, TypeCorrect, PTL DEF Spec

Steps == {"idle", "copy", "copying", "check", "count", "purge", "list", "delete", "verify",
          "marker", "unlink", "replace", "lock", "vacuum"}
TaskType == [kind : Kinds \cup {"none"}, pc : Steps, begun : Nat, at : Nat, source : Nat,
             name : Nat, expired : SUBSET Nat]
RowType == [seen : Nat, raw : BOOLEAN]
FileType == [name : Nat, modified : Nat, rows : [Listings -> RowType], whole : BOOLEAN]

OperationsInv ==
    /\ clock \in Nat
    /\ database \in [Listings -> RowType]
    /\ task \in [Processes -> TaskType]
    /\ partial \in SUBSET FileType /\ backups \in SUBSET FileType
    /\ IsFiniteSet(partial) /\ IsFiniteSet(backups)

(* What an operation is doing, and since when.                               *)
TaskOK(t) ==
    /\ t.kind = "maintain" =>
          t.pc \in {"copy", "copying", "check", "count", "purge", "list", "delete"}
    /\ t.pc \in {"copy", "copying", "check"} => t.kind \in {"maintain", "backup", "restore"}
    /\ t.pc \in {"verify", "marker", "unlink", "replace"} => t.kind = "restore"
    /\ t.at <= clock /\ t.begun <= clock
    /\ t.pc # "idle" => clock <= t.begun + Longest
    /\ t.pc \in {"copying", "check"} => t.begun <= t.name /\ t.name <= clock

StepInv == \A p \in Processes : TaskOK(task[p])

FileInv ==
    /\ \A f \in partial \cup backups : f.name <= f.modified /\ f.modified <= clock
    /\ \A f, g \in partial : f.name = g.name => f = g
    /\ \A f, g \in backups : f.name = g.name => f = g

(* A name is in use by one process, and by no backup, until it is published. *)
Copying(p) == task[p].pc \in {"copying", "check"}
CopyInv ==
    \A p \in Processes : Copying(p) =>
        /\ \E f \in partial : f.name = task[p].name
        /\ \A f \in backups : f.name # task[p].name
        /\ \A q \in Processes \ {p} : Copying(q) => task[q].name # task[p].name
        /\ \A q \in Processes : At(q, "delete") => task[p].name \notin task[q].expired

(* What a retention is about to delete may be deleted whatever came since.   *)
Deletable(f) == f.modified < minus(clock, BackupDays) \/ Rank(f) >= Keep
ExpiredInv ==
    \A q \in Processes : At(q, "delete") =>
        /\ \A n \in task[q].expired : n < clock
        /\ \A f \in backups : f.name \in task[q].expired => Deletable(f)

FilesInv == OperationsInv /\ StepInv /\ FileInv /\ CopyInv /\ ExpiredInv

(* f has the raw hits of the listings not seen since p's maintenance began.  *)
Good(f, p) ==
    \A l \in Listings : database[l].raw /\ database[l].seen < task[p].begun => f.rows[l].raw

(* f was copied after p's maintenance began.                                 *)
Since(f, p) ==
    f.modified > task[p].begun \/ (f.modified = task[p].begun /\ f.name >= task[p].begun)

GoodFor(p) ==
    /\ \A f \in partial \cup backups : f.modified > task[p].begun => Good(f, p)
    /\ At(p, "check") =>
          \A f \in partial : f.name = task[p].name => f.modified >= task[p].begun /\ Good(f, p)
    /\ task[p].pc \in {"count", "purge", "list", "delete"} =>
          \E b \in backups : Since(b, p) /\ Good(b, p)

GoodInv == ~undercut => \A p \in Maintaining : GoodFor(p)

------------------------------------------------------------------------------
(* Backups are whole: a file gets its name after its check.                  *)

THEOREM WholeBackups == OperationsSpec => []BackupsAreWhole
  <1>1. OperationsInit => BackupsAreWhole
    BY DEF OperationsInit, BackupsAreWhole
  <1>2. BackupsAreWhole /\ [OperationsNext]_operationsVars => BackupsAreWhole'
    <2> SUFFICES ASSUME BackupsAreWhole, [OperationsNext]_operationsVars PROVE BackupsAreWhole'
      OBVIOUS
    <2>1. ASSUME NEW p \in Processes, Publish(p) PROVE BackupsAreWhole'
      BY <2>1 DEF Publish, BackupsAreWhole, Named
    <2>2. ASSUME NEW p \in Processes, Delete(p) PROVE backups' \subseteq backups
      BY <2>2 DEF Delete
    <2>3. CASE backups' = backups
      BY <2>3 DEF BackupsAreWhole
    <2>4. ASSUME NEW p \in Processes, AppStep(p) PROVE backups' = backups
      BY <2>4 DEF AppStep, Boot, OpenMarker, WriteMarker, See, Shutdown, RemoveMarker, Release,
                  Exit, Kill, files
    <2>5. ASSUME NEW p \in Processes, TaskStep(p) PROVE Publish(p) \/ Delete(p) \/ backups' = backups
      BY <2>5 DEF TaskStep, Start, BeginCopy, Copied, BackupFails, Count, Purge, List,
                  RetentionFails, Verify, NoSource, ReadMarker, Unlink, Replace, LockForVacuum,
                  Vacuum, files
    <2>6. ClockTick \/ UNCHANGED operationsVars => backups' = backups
      BY DEF ClockTick, files, operationsVars
    <2>7. QED
      BY <2>1, <2>2, <2>3, <2>4, <2>5, <2>6 DEF OperationsNext, BackupsAreWhole
  <1>3. QED
    BY <1>1, <1>2, PTL DEF OperationsSpec

------------------------------------------------------------------------------
(* Most steps leave the files alone, and give at most one process an         *)
(* operation that copies and deletes nothing.                                *)
Quiet == {"copying", "check", "delete"}
Moves(p, t) ==
    /\ t \in TaskType /\ TaskOK(t) /\ t.pc \notin Quiet
    /\ task' = [task EXCEPT ![p] = t]
    /\ UNCHANGED <<clock, files>>
Stays == UNCHANGED <<clock, task, files>>

LEMMA Constants ==
    /\ RawDays \in Nat \ {0} /\ BackupDays \in Nat \ {0} /\ Keep \in Nat \ {0}
    /\ Longest \in Nat /\ Longest <= RawDays /\ Longest <= BackupDays
  <1>1. /\ RawDays \in Nat \ {0} /\ BackupDays \in Nat \ {0} /\ Keep \in Nat \ {0}
        /\ Longest \in 0..RawDays /\ Longest <= BackupDays
    BY OperationsAssumption
  <1>2. QED
    BY <1>1

LEMMA IdleIsATask == clock \in Nat => NoTask \in TaskType /\ TaskOK(NoTask)
  BY DEF NoTask, TaskType, Steps, TaskOK, Kinds

LEMMA AppSteps ==
    ASSUME NEW p \in Processes, OperationsInv, AppStep(p)
    PROVE  Stays \/ Moves(p, NoTask)
  <1>1. CASE Kill(p)
    BY <1>1, IdleIsATask DEF Kill, Done, Moves, Quiet, OperationsInv, NoTask
  <1>2. CASE ~Kill(p)
    BY <1>2 DEF AppStep, Boot, OpenMarker, WriteMarker, See, Shutdown, RemoveMarker, Release,
                Exit, Stays
  <1>3. QED
    BY <1>1, <1>2

LEMMA QuietSteps ==
    ASSUME NEW p \in Processes, OperationsInv, StepInv,
           \/ \E kind \in Kinds : Start(p, kind)
           \/ Count(p) \/ Purge(p) \/ RetentionFails(p) \/ Verify(p) \/ NoSource(p)
           \/ ReadMarker(p) \/ Unlink(p) \/ Replace(p) \/ LockForVacuum(p) \/ Vacuum(p)
    PROVE  Stays \/ \E t \in TaskType : Moves(p, t)
  <1> DEFINE was == task[p]
  <1>0. /\ was \in TaskType /\ TaskOK(was) /\ NoTask \in TaskType /\ TaskOK(NoTask)
        /\ NoTask.pc \notin Quiet /\ clock \in Nat
    BY IdleIsATask DEF OperationsInv, StepInv, NoTask, Quiet
  <1>1. ASSUME NEW kind \in Kinds, Start(p, kind) PROVE \E t \in TaskType : Moves(p, t)
    <2> DEFINE t == [NoTask EXCEPT !.kind = kind, !.pc = First[kind], !.begun = clock]
    <2>1. t \in TaskType /\ TaskOK(t) /\ t.pc \notin Quiet
      <3>1. First[kind] \in Steps \ Quiet /\ First[kind] # "idle"
            /\ (kind = "maintain" => First[kind] \in {"copy", "count"})
            /\ (First[kind] \in {"copy", "copying", "check"}
                  => kind \in {"maintain", "backup", "restore"})
            /\ (First[kind] \in {"verify", "marker", "unlink", "replace"} => kind = "restore")
        BY DEF First, Kinds, Steps, Quiet
      <3>2. t \in TaskType
        BY <1>0, <3>1 DEF TaskType
      <3>3. /\ t.kind = kind /\ t.pc = First[kind] /\ t.begun = clock /\ t.at = 0
        BY DEF NoTask
      <3> HIDE DEF t
      <3>4. QED
        BY <1>0, <3>1, <3>2, <3>3, Constants DEF TaskOK, Quiet
    <2>2. QED
      BY <1>1, <2>1 DEF Start, Moves
  <1>2. CASE Done(p) /\ UNCHANGED <<clock, files>>
    BY <1>0, <1>2 DEF Done, Moves
  <1>3. ASSUME NEW pc \in {"list", "copy", "unlink", "vacuum"}, To(p, pc), UNCHANGED <<clock, files>>,
               \/ At(p, "purge") /\ pc = "list"
               \/ At(p, "lock") /\ pc = "vacuum"
               \/ (At(p, "marker") \/ At(p, "unlink")) /\ pc \in {"copy", "unlink"}
        PROVE  \E t \in TaskType : Moves(p, t)
    <2> DEFINE t == [was EXCEPT !.pc = pc]
    <2>1. t \in TaskType /\ TaskOK(t) /\ t.pc \notin Quiet
      BY <1>0, <1>3 DEF TaskType, TaskOK, Steps, Quiet, At
    <2>2. task' = [task EXCEPT ![p] = t]
      BY <1>3 DEF To
    <2>3. QED
      BY <1>3, <2>1, <2>2 DEF Moves
  <1>4. CASE Count(p)
    <2> DEFINE pc == IF Due(database, clock) = {} THEN "list" ELSE "purge"
               t == [was EXCEPT !.at = clock, !.pc = pc]
    <2>1. pc \in {"list", "purge"}
      OBVIOUS
    <2>2. t \in TaskType /\ TaskOK(t) /\ t.pc \notin Quiet
      <3>1. was.pc = "count"
        BY <1>4 DEF Count, At
      <3> HIDE DEF pc, was
      <3>2. t \in TaskType
        BY <1>0, <2>1 DEF TaskType, Steps
      <3>3. t.kind = was.kind /\ t.pc = pc /\ t.begun = was.begun /\ t.at = clock
        BY <1>0 DEF TaskType
      <3> HIDE DEF t
      <3>4. QED
        BY <1>0, <2>1, <3>1, <3>2, <3>3 DEF TaskOK, Quiet
    <2>3. task' = [task EXCEPT ![p] = t] /\ UNCHANGED <<clock, files>>
      BY <1>4 DEF Count
    <2>4. QED
      BY <2>2, <2>3 DEF Moves
  <1>5. CASE Verify(p)
    <2>1. PICK f \in backups :
             task' = [task EXCEPT ![p].pc = "marker", ![p].source = f.name]
      BY <1>5 DEF Verify
    <2> DEFINE t == [was EXCEPT !.pc = "marker", !.source = f.name]
    <2>2. t \in TaskType /\ TaskOK(t) /\ t.pc \notin Quiet
      <3>1. f.name \in Nat
        BY DEF OperationsInv, FileType
      <3>2. was.pc = "verify"
        BY <1>5 DEF Verify, At
      <3> HIDE DEF was
      <3>3. t \in TaskType
        BY <1>0, <3>1 DEF TaskType, Steps
      <3>4. t.kind = was.kind /\ t.pc = "marker" /\ t.begun = was.begun /\ t.at = was.at
        BY <1>0 DEF TaskType
      <3> HIDE DEF t
      <3>5. QED
        BY <1>0, <3>2, <3>3, <3>4 DEF TaskOK, Quiet
    <2>3. task' = [task EXCEPT ![p] = t]
      BY <2>1
    <2>4. QED
      BY <1>5, <2>2, <2>3 DEF Verify, Moves
  <1>6. CASE Purge(p)
    <2>1. At(p, "purge") /\ (To(p, "list") \/ UNCHANGED task) /\ UNCHANGED <<clock, files>>
      BY <1>6 DEF Purge
    <2>2. CASE To(p, "list")
      BY <1>3, <2>1, <2>2
    <2>3. CASE UNCHANGED task
      BY <2>1, <2>3 DEF Stays
    <2>4. QED
      BY <2>1, <2>2, <2>3
  <1>7. CASE RetentionFails(p) \/ NoSource(p) \/ Replace(p) \/ Vacuum(p)
    BY <1>2, <1>7 DEF RetentionFails, NoSource, Replace, Vacuum
  <1>8. CASE ReadMarker(p) \/ Unlink(p) \/ LockForVacuum(p)
    <2>1. CASE ReadMarker(p)
      <3>1. At(p, "marker") /\ UNCHANGED <<clock, files>>
            /\ (To(p, "copy") \/ To(p, "unlink") \/ Done(p))
        BY <2>1 DEF ReadMarker
      <3>2. QED
        BY <1>2, <1>3, <3>1
    <2>2. CASE Unlink(p)
      BY <1>3, <2>2 DEF Unlink
    <2>3. CASE LockForVacuum(p)
      <3>1. At(p, "lock") /\ UNCHANGED <<clock, files>> /\ (To(p, "vacuum") \/ Done(p))
        BY <2>3 DEF LockForVacuum
      <3>2. CASE To(p, "vacuum")
        BY <1>3, <3>1, <3>2
      <3>3. QED
        BY <1>2, <3>1, <3>2
    <2>4. QED
      BY <1>8, <2>1, <2>2, <2>3
  <1>9. QED
    BY <1>1, <1>4, <1>5, <1>6, <1>7, <1>8

LEMMA StepKinds ==
    ASSUME OperationsInv, StepInv, [OperationsNext]_operationsVars
    PROVE  \/ Stays \/ ClockTick
           \/ \E p \in Processes :
                 \/ \E t \in TaskType : Moves(p, t)
                 \/ BeginCopy(p) \/ Copied(p) \/ Publish(p) \/ BackupFails(p) \/ List(p)
                 \/ Delete(p)
  <1>1. ASSUME NEW p \in Processes, AppStep(p) PROVE Stays \/ \E t \in TaskType : Moves(p, t)
    BY <1>1, AppSteps, IdleIsATask DEF OperationsInv
  <1>2. ASSUME NEW p \in Processes, TaskStep(p)
        PROVE  \/ Stays \/ \E t \in TaskType : Moves(p, t)
               \/ BeginCopy(p) \/ Copied(p) \/ Publish(p) \/ BackupFails(p) \/ List(p)
               \/ Delete(p)
    BY <1>2, QuietSteps DEF TaskStep
  <1>3. UNCHANGED operationsVars => Stays
    BY DEF operationsVars, Stays, files
  <1>4. QED
    BY <1>1, <1>2, <1>3 DEF OperationsNext

LEMMA DatabaseType ==
    ASSUME OperationsInv, [OperationsNext]_operationsVars PROVE database' \in [Listings -> RowType]
  <1>1. ASSUME NEW p \in Processes, NEW l \in Listings, See(p, l)
        PROVE  database' \in [Listings -> RowType]
    BY <1>1 DEF See, OperationsInv, RowType
  <1>2. ASSUME NEW p \in Processes, Purge(p) PROVE database' \in [Listings -> RowType]
    <2>1. PICK batch : database' = [l \in Listings |->
                            IF l \in batch THEN [database[l] EXCEPT !.raw = FALSE]
                                           ELSE database[l]]
      BY <1>2 DEF Purge
    <2>2. QED
      BY <2>1 DEF OperationsInv, RowType
  <1>3. ASSUME NEW p \in Processes, Replace(p) PROVE database' \in [Listings -> RowType]
    <2>1. NoRow \in RowType
      BY DEF NoRow, RowType
    <2> DEFINE found == {f \in backups : f.name = task[p].source}
    <2>2. CASE found = {}
      BY <1>3, <2>1, <2>2 DEF Replace, Source
    <2>3. CASE found # {}
      <3>1. (CHOOSE f \in found : TRUE) \in FileType
        BY <2>3 DEF OperationsInv
      <3>2. QED
        BY <1>3, <2>3, <3>1 DEF Replace, Source, FileType
    <2>4. QED
      BY <2>2, <2>3
  <1>4. \/ UNCHANGED database
        \/ \E p \in Processes : Purge(p) \/ Replace(p) \/ \E l \in Listings : See(p, l)
    BY DEF OperationsNext, operationsVars, ClockTick, AppStep, TaskStep, Boot, OpenMarker, WriteMarker, Shutdown,
           RemoveMarker, Release, Exit, Kill, Start, BeginCopy, Copied, Publish, BackupFails,
           Count, List, RetentionFails, Delete, Verify, NoSource, ReadMarker, Unlink,
           LockForVacuum, Vacuum
  <1>5. QED
    BY <1>1, <1>2, <1>3, <1>4 DEF OperationsInv

LEMMA CopyIsAFile ==
    ASSUME OperationsInv, NEW name \in Nat, NEW whole \in BOOLEAN
    PROVE  Backup(name, whole) \in FileType
  BY DEF Backup, FileType, OperationsInv

LEMMA FilesTyped ==
    ASSUME OperationsInv, StepInv, [OperationsNext]_operationsVars PROVE OperationsInv'
  <1>1. CASE Stays
    BY <1>1, DatabaseType DEF OperationsInv, Stays, files
  <1>2. CASE ClockTick
    BY <1>2, DatabaseType DEF OperationsInv, ClockTick, files
  <1>3. ASSUME NEW p \in Processes, NEW t \in TaskType, Moves(p, t) PROVE OperationsInv'
    BY <1>3, DatabaseType DEF OperationsInv, Moves, files
  <1>4. ASSUME NEW p \in Processes, BeginCopy(p) PROVE OperationsInv'
    <2>1. Backup(clock, FALSE) \in FileType
      BY CopyIsAFile DEF OperationsInv
    <2>2. task' \in [Processes -> TaskType]
      <3>1. task' = [task EXCEPT ![p].pc = "copying", ![p].name = clock]
        BY <1>4 DEF BeginCopy
      <3>2. task \in [Processes -> TaskType] /\ clock \in Nat
        BY DEF OperationsInv
      <3>3. task' = [task EXCEPT ![p] = [task[p] EXCEPT !.pc = "copying", !.name = clock]]
        BY <3>1, <3>2
      <3>4. [task[p] EXCEPT !.pc = "copying", !.name = clock] \in TaskType
        BY <3>2 DEF TaskType, Steps
      <3>5. QED
        BY <3>2, <3>3, <3>4
    <2>3. partial' \in SUBSET FileType /\ IsFiniteSet(partial')
      BY <1>4, <2>1, FS_AddElement DEF BeginCopy, OperationsInv
    <2>4. QED
      BY <1>4, <2>2, <2>3, DatabaseType DEF BeginCopy, OperationsInv
  <1>5. ASSUME NEW p \in Processes, Copied(p) PROVE OperationsInv'
    <2>1. task[p].name \in Nat /\ Backup(task[p].name, TRUE) \in FileType
      BY CopyIsAFile DEF OperationsInv, TaskType
    <2>2. task' \in [Processes -> TaskType]
      BY <1>5 DEF Copied, To, OperationsInv, TaskType, Steps
    <2>3. IsFiniteSet(partial \ Named(partial, p))
      BY FS_Difference DEF OperationsInv
    <2>4. partial' \in SUBSET FileType /\ IsFiniteSet(partial')
      BY <1>5, <2>1, <2>3, FS_AddElement DEF Copied, OperationsInv
    <2>5. QED
      BY <1>5, <2>2, <2>4, DatabaseType DEF Copied, OperationsInv
  <1>6. ASSUME NEW p \in Processes, Publish(p) PROVE OperationsInv'
    <2>1. Named(partial, p) \subseteq partial /\ Named(backups, p) \subseteq backups
      BY DEF Named
    <2>2. IsFiniteSet(Named(partial, p)) /\ IsFiniteSet(backups \ Named(backups, p))
          /\ IsFiniteSet(partial \ Named(partial, p))
      BY <2>1, FS_Subset, FS_Difference DEF OperationsInv
    <2>3. IsFiniteSet(partial') /\ IsFiniteSet(backups')
      BY <1>6, <2>2, FS_Union DEF Publish
    <2>4. task' \in [Processes -> TaskType]
      <3>1. AfterBackup[task[p].kind] \in Steps
        BY <1>6 DEF StepInv, TaskOK, Publish, At, AfterBackup, Steps
      <3>2. QED
        BY <1>6, <3>1, IdleIsATask DEF Publish, Proceed, OperationsInv, TaskType
    <2>5. QED
      BY <1>6, <2>1, <2>3, <2>4, DatabaseType DEF Publish, OperationsInv
  <1>7. ASSUME NEW p \in Processes, BackupFails(p) PROVE OperationsInv'
    <2>1. IsFiniteSet(partial \ Named(partial, p))
      BY FS_Difference DEF OperationsInv
    <2>2. task' \in [Processes -> TaskType]
      BY <1>7, IdleIsATask DEF BackupFails, Proceed, AfterFailure, OperationsInv
    <2>3. QED
      BY <1>7, <2>1, <2>2, DatabaseType DEF BackupFails, OperationsInv
  <1>8. ASSUME NEW p \in Processes, List(p) PROVE OperationsInv'
    <2> DEFINE x == {f.name : f \in {g \in backups : Expired(g, task[p].at)}}
    <2>1. x \in SUBSET Nat
      BY DEF OperationsInv, FileType
    <2>2. task' = [task EXCEPT ![p].pc = "delete", ![p].expired = x]
      BY <1>8 DEF List
    <2> HIDE DEF x
    <2>3. task' \in [Processes -> TaskType]
      <3>1. task' = [task EXCEPT ![p] = [task[p] EXCEPT !.pc = "delete", !.expired = x]]
        BY <2>2 DEF OperationsInv
      <3>2. [task[p] EXCEPT !.pc = "delete", !.expired = x] \in TaskType
        BY <2>1 DEF OperationsInv, TaskType, Steps
      <3>3. QED
        BY <3>1, <3>2 DEF OperationsInv
    <2>4. QED
      BY <1>8, <2>3, DatabaseType DEF List, OperationsInv, files
  <1>9. ASSUME NEW p \in Processes, Delete(p) PROVE OperationsInv'
    <2>1. \/ Done(p) /\ UNCHANGED backups
          \/ \E f \in backups : backups' = backups \ {f}
                                /\ task' = [task EXCEPT ![p].expired = @ \ {f.name}]
      BY <1>9 DEF Delete
    <2>2. task' \in [Processes -> TaskType]
      <3>1. CASE Done(p)
        BY <3>1, IdleIsATask DEF Done, OperationsInv
      <3>2. ASSUME NEW n, task' = [task EXCEPT ![p].expired = @ \ {n}]
            PROVE  task' \in [Processes -> TaskType]
        <4>1. task \in [Processes -> TaskType] /\ task[p].expired \ {n} \in SUBSET Nat
          BY DEF OperationsInv, TaskType
        <4>2. task' = [task EXCEPT ![p] = [task[p] EXCEPT !.expired = task[p].expired \ {n}]]
          BY <3>2
        <4>3. [task[p] EXCEPT !.expired = task[p].expired \ {n}] \in TaskType
          BY <4>1 DEF TaskType
        <4>4. QED
          BY <4>1, <4>2, <4>3
      <3>3. CASE ~Done(p)
        <4>1. PICK f : task' = [task EXCEPT ![p].expired = @ \ {f.name}]
          BY <2>1, <3>3
        <4> DEFINE n == f.name
        <4>2. task' = [task EXCEPT ![p].expired = @ \ {n}]
          BY <4>1
        <4> HIDE DEF n
        <4>3. QED
          BY <3>2, <4>2
      <3>4. QED
        BY <3>1, <3>3
    <2>3. backups' \in SUBSET FileType /\ IsFiniteSet(backups')
      BY <2>1, FS_RemoveElement DEF OperationsInv
    <2>4. QED
      BY <1>9, <2>2, <2>3, DatabaseType DEF Delete, OperationsInv
  <1>10. QED
    BY <1>1, <1>2, <1>3, <1>4, <1>5, <1>6, <1>7, <1>8, <1>9, StepKinds

(* What the six steps make of the operation that takes them.                 *)
Others(p) == \A q \in Processes \ {p} : task'[q] = task[q]
Becomes(p, pc) ==
    /\ task'[p].pc = pc /\ task'[p].kind = task[p].kind
    /\ task'[p].begun = task[p].begun /\ task'[p].at = task[p].at
Takes(p, f) ==
    /\ f \in backups /\ f.name \in task[p].expired /\ backups' = backups \ {f}
    /\ \A g \in backups : g.name \in task[p].expired /\ g # f => Newer(f, g)
    /\ task'[p].expired = task[p].expired \ {f.name}

LEMMA Changes ==
    ASSUME NEW p \in Processes, OperationsInv, StepInv
    PROVE  /\ BeginCopy(p) => Others(p) /\ Becomes(p, "copying") /\ task'[p].name = clock
           /\ Copied(p) => Others(p) /\ Becomes(p, "check") /\ task'[p].name = task[p].name
           /\ Publish(p) => /\ Others(p)
                            /\ \/ task'[p] = NoTask
                               \/ task[p].kind = "maintain" /\ Becomes(p, "count")
                               \/ task[p].kind = "restore" /\ Becomes(p, "replace")
           /\ BackupFails(p) => Others(p) /\ task'[p] = NoTask
           /\ List(p) => /\ Others(p) /\ Becomes(p, "delete")
                         /\ task'[p].expired =
                               {f.name : f \in {g \in backups : Expired(g, task[p].at)}}
           /\ Delete(p) => /\ Others(p)
                           /\ \/ task'[p] = NoTask /\ UNCHANGED backups
                              \/ Becomes(p, "delete") /\ \E f \in backups : Takes(p, f)
  <1>1. task \in [Processes -> TaskType] /\ p \in Processes
    BY DEF OperationsInv
  <1>2. BeginCopy(p) => Others(p) /\ Becomes(p, "copying") /\ task'[p].name = clock
    BY <1>1 DEF BeginCopy, Others, Becomes, TaskType
  <1>3. Copied(p) => Others(p) /\ Becomes(p, "check") /\ task'[p].name = task[p].name
    BY <1>1 DEF Copied, To, Others, Becomes, TaskType
  <1>4. ASSUME Publish(p)
        PROVE  /\ Others(p)
               /\ \/ task'[p] = NoTask
                  \/ task[p].kind = "maintain" /\ Becomes(p, "count")
                  \/ task[p].kind = "restore" /\ Becomes(p, "replace")
    <2>1. task[p].kind \in {"maintain", "backup", "restore"}
      BY <1>4 DEF Publish, StepInv, TaskOK, At
    <2>2. Proceed(p, AfterBackup[task[p].kind])
      BY <1>4 DEF Publish
    <2>3. QED
      BY <1>1, <2>1, <2>2 DEF AfterBackup, Proceed, Others, Becomes, TaskType
  <1>5. BackupFails(p) => Others(p) /\ task'[p] = NoTask
    BY <1>1 DEF BackupFails, Proceed, AfterFailure, Others
  <1>6. List(p) => /\ Others(p) /\ Becomes(p, "delete")
                   /\ task'[p].expired =
                         {f.name : f \in {g \in backups : Expired(g, task[p].at)}}
    BY <1>1 DEF List, Others, Becomes, TaskType
  <1>7. ASSUME Delete(p)
        PROVE  /\ Others(p)
               /\ \/ task'[p] = NoTask /\ UNCHANGED backups
                  \/ Becomes(p, "delete") /\ \E f \in backups : Takes(p, f)
    <2> DEFINE here == {f \in backups : f.name \in task[p].expired}
    <2>1. CASE here = {}
      BY <1>1, <1>7, <2>1 DEF Delete, Done, Others
    <2>2. CASE here # {}
      <3>1. PICK f \in here : /\ \A g \in here \ {f} : Newer(f, g)
                             /\ backups' = backups \ {f}
                             /\ task' = [task EXCEPT ![p].expired = @ \ {f.name}]
        BY <1>7, <2>2 DEF Delete
      <3>2. At(p, "delete")
        BY <1>7 DEF Delete
      <3>3. Others(p) /\ Becomes(p, "delete")
        BY <1>1, <3>1, <3>2 DEF Others, Becomes, At, TaskType
      <3>4. Takes(p, f)
        BY <1>1, <3>1 DEF Takes, TaskType
      <3>5. QED
        BY <3>3, <3>4 DEF Takes
    <2>3. QED
      BY <2>1, <2>2
  <1>8. QED
    BY <1>2, <1>3, <1>4, <1>5, <1>6, <1>7

LEMMA StepsKept ==
    ASSUME OperationsInv, StepInv, [OperationsNext]_operationsVars PROVE StepInv'
  <1>1. CASE Stays
    BY <1>1 DEF Stays, StepInv, TaskOK
  <1>2. CASE ClockTick
    <2> SUFFICES ASSUME NEW q \in Processes PROVE TaskOK(task[q])'
      BY DEF StepInv
    <2>1. task' = task /\ clock' = clock + 1 /\ (~At(q, "idle") => clock < task[q].begun + Longest)
      BY <1>2 DEF ClockTick
    <2>2. task[q] \in TaskType /\ TaskOK(task[q]) /\ clock \in Nat
      BY DEF OperationsInv, StepInv
    <2>3. QED
      BY <2>1, <2>2, Constants DEF TaskOK, At, TaskType
  <1>3. ASSUME NEW p \in Processes, NEW t \in TaskType, Moves(p, t) PROVE StepInv'
    BY <1>3 DEF Moves, StepInv, TaskOK, OperationsInv
  <1>4. ASSUME NEW p \in Processes,
               BeginCopy(p) \/ Copied(p) \/ Publish(p) \/ BackupFails(p) \/ List(p) \/ Delete(p)
        PROVE  StepInv'
    <2>1. clock' = clock
      BY <1>4 DEF BeginCopy, Copied, Publish, BackupFails, List, Delete
    <2>2. task[p] \in TaskType /\ TaskOK(task[p]) /\ clock \in Nat
          /\ NoTask \in TaskType /\ TaskOK(NoTask)
      BY IdleIsATask DEF OperationsInv, StepInv
    <2>3. TaskOK(task[p])'
      <3>1. CASE task'[p] = NoTask
        BY <2>1, <2>2, <3>1 DEF TaskOK
      <3>2. CASE BeginCopy(p)
        <4>1. task[p].pc = "copy" /\ Becomes(p, "copying") /\ task'[p].name = clock
          BY <3>2, Changes DEF BeginCopy, At
        <4>2. QED
          BY <2>1, <2>2, <4>1 DEF Becomes, TaskOK, TaskType
      <3>3. CASE Copied(p)
        BY <2>1, <2>2, <3>3, Changes DEF Copied, Becomes, TaskOK, At, TaskType
      <3>4. CASE Publish(p)
        <4>1. task[p].pc = "check"
          BY <3>4 DEF Publish, At
        <4>2. CASE task[p].kind = "maintain" /\ Becomes(p, "count")
          BY <2>1, <2>2, <4>1, <4>2 DEF Becomes, TaskOK
        <4>3. CASE task[p].kind = "restore" /\ Becomes(p, "replace")
          BY <2>1, <2>2, <4>1, <4>3 DEF Becomes, TaskOK
        <4>4. QED
          BY <3>1, <3>4, <4>2, <4>3, Changes
      <3>5. CASE List(p)
        BY <2>1, <2>2, <3>5, Changes DEF List, Becomes, TaskOK, At, TaskType
      <3>6. CASE Delete(p)
        BY <2>1, <2>2, <3>1, <3>6, Changes DEF Delete, Becomes, TaskOK, At, TaskType
      <3>7. QED
        BY <1>4, <3>1, <3>2, <3>3, <3>4, <3>5, <3>6, Changes
    <2>4. Others(p)
      BY <1>4, Changes
    <2>5. ASSUME NEW q \in Processes \ {p} PROVE TaskOK(task[q])'
      BY <2>1, <2>4 DEF Others, StepInv, TaskOK
    <2>6. QED
      BY <2>3, <2>5 DEF StepInv
  <1>5. QED
    BY <1>1, <1>2, <1>3, <1>4, StepKinds

LEMMA FilesKept ==
    ASSUME OperationsInv, StepInv, FileInv, CopyInv, [OperationsNext]_operationsVars PROVE FileInv'
  <1>0. /\ clock \in Nat
        /\ \A f \in partial \cup backups : f.name \in Nat /\ f.modified \in Nat
    BY DEF OperationsInv, FileType
  <1>1. CASE Stays
    BY <1>1 DEF Stays, files, FileInv
  <1>2. CASE ClockTick
    BY <1>0, <1>2 DEF ClockTick, files, FileInv
  <1>3. ASSUME NEW p \in Processes, NEW t \in TaskType, Moves(p, t) PROVE FileInv'
    BY <1>3 DEF Moves, files, FileInv
  <1>4. ASSUME NEW p \in Processes, BeginCopy(p) PROVE FileInv'
    <2> DEFINE f == Backup(clock, FALSE)
    <2>1. f.name = clock /\ f.modified = clock
      BY DEF Backup
    <2> HIDE DEF f
    <2>2. /\ partial' = partial \cup {f} /\ backups' = backups /\ clock' = clock
          /\ \A g \in backups \cup partial : g.name # clock
      BY <1>4 DEF BeginCopy, Unnamed, f
    <2>3. QED
      BY <1>0, <2>1, <2>2 DEF FileInv
  <1>5. ASSUME NEW p \in Processes, Copied(p) PROVE FileInv'
    <2>1. task[p].name <= clock
      BY <1>5 DEF Copied, At, StepInv, TaskOK
    <2> DEFINE f == Backup(task[p].name, TRUE)
    <2>2. f.name = task[p].name /\ f.modified = clock
      BY DEF Backup
    <2> HIDE DEF f
    <2>3. /\ partial' = (partial \ Named(partial, p)) \cup {f} /\ backups' = backups /\ clock' = clock
      BY <1>5 DEF Copied, f
    <2>4. QED
      BY <1>0, <2>1, <2>2, <2>3 DEF Named, FileInv
  <1>6. ASSUME NEW p \in Processes, Publish(p) PROVE FileInv'
    <2>1. \A f \in backups : f.name # task[p].name
      BY <1>6 DEF Publish, CopyInv, Copying, At
    <2>2. QED
      BY <1>0, <1>6, <2>1 DEF Publish, Named, FileInv
  <1>7. ASSUME NEW p \in Processes, BackupFails(p) \/ List(p) \/ Delete(p) PROVE FileInv'
    <2>1. partial' \subseteq partial /\ backups' \subseteq backups /\ clock' = clock
      BY <1>7 DEF BackupFails, List, Delete, files
    <2>2. QED
      BY <2>1 DEF FileInv
  <1>8. QED
    BY <1>1, <1>2, <1>3, <1>4, <1>5, <1>6, <1>7, StepKinds

LEMMA CopiesKept ==
    ASSUME OperationsInv, StepInv, FileInv, CopyInv, ExpiredInv, [OperationsNext]_operationsVars PROVE CopyInv'
  <1>0. /\ clock \in Nat
        /\ \A f \in partial \cup backups : f.name \in Nat /\ f.modified \in Nat
    BY DEF OperationsInv, FileType
  <1>1. CASE Stays \/ ClockTick
    BY <1>1 DEF Stays, ClockTick, files, CopyInv, Copying, At
  <1>2. ASSUME NEW p \in Processes, NEW t \in TaskType, Moves(p, t) PROVE CopyInv'
    <2>1. /\ partial' = partial /\ backups' = backups
          /\ task'[p].pc \notin Quiet /\ Others(p)
      BY <1>2 DEF Moves, files, OperationsInv, Others
    <2>2. QED
      BY <2>1 DEF CopyInv, Copying, At, Quiet, Others
  <1>3. ASSUME NEW p \in Processes, BeginCopy(p) PROVE CopyInv'
    <2>1. Others(p) /\ task'[p].pc = "copying" /\ task'[p].name = clock
      BY <1>3, Changes DEF Becomes
    <2>2. /\ backups' = backups /\ Backup(clock, FALSE) \in partial' /\ partial \subseteq partial'
          /\ \A f \in backups \cup partial : f.name # clock
      BY <1>3 DEF BeginCopy, Unnamed
    <2>3. \A q \in Processes : Copying(q) => task[q].name # clock
      BY <2>2 DEF CopyInv
    <2>4. \A q \in Processes : At(q, "delete") => clock \notin task[q].expired
      BY <1>0 DEF ExpiredInv
    <2>5. QED
      BY <2>1, <2>2, <2>3, <2>4 DEF CopyInv, Copying, At, Others, Backup
  <1>4. ASSUME NEW p \in Processes, Copied(p) PROVE CopyInv'
    <2>1. /\ Others(p) /\ task[p].pc = "copying" /\ task'[p].pc = "check"
          /\ task'[p].name = task[p].name
      BY <1>4, Changes DEF Becomes, Copied, At
    <2>2. backups' = backups
      BY <1>4 DEF Copied
    <2>3. /\ \E f \in partial' : f.name = task[p].name
          /\ \A f \in partial : f.name # task[p].name => f \in partial'
      <3> DEFINE f == Backup(task[p].name, TRUE)
      <3>1. f.name = task[p].name
        BY DEF Backup
      <3> HIDE DEF f
      <3>2. partial' = (partial \ Named(partial, p)) \cup {f}
        BY <1>4 DEF Copied, f
      <3>3. QED
        BY <3>1, <3>2 DEF Named
    <2>4. QED
      BY <2>1, <2>2, <2>3 DEF CopyInv, Copying, At, Others
  <1>5. ASSUME NEW p \in Processes, Publish(p) \/ BackupFails(p) PROVE CopyInv'
    <2>1. Others(p) /\ Copying(p) /\ task'[p].pc \notin Quiet
      BY <1>5, Changes DEF Becomes, Copying, Publish, BackupFails, At, Quiet, NoTask
    <2>2. /\ \A f \in partial : f.name # task[p].name => f \in partial'
          /\ \A f \in backups' : f \in backups \/ f.name = task[p].name
      BY <1>5 DEF Publish, BackupFails, Named
    <2>3. QED
      BY <2>1, <2>2 DEF CopyInv, Copying, At, Others, Quiet
  <1>6. ASSUME NEW p \in Processes, List(p) PROVE CopyInv'
    <2>1. Others(p) /\ task'[p].pc = "delete" /\ UNCHANGED <<partial, backups>>
      BY <1>6, Changes DEF Becomes, List, files
    <2>2. \A n \in task'[p].expired : \E f \in backups : f.name = n
      BY <1>6, Changes
    <2>3. QED
      BY <2>1, <2>2 DEF CopyInv, Copying, At, Others
  <1>7. ASSUME NEW p \in Processes, Delete(p) PROVE CopyInv'
    <2>1. /\ Others(p) /\ ~Copying(p) /\ task[p].pc = "delete" /\ task'[p].pc \in {"idle", "delete"}
          /\ (task'[p].pc = "delete" => task'[p].expired \subseteq task[p].expired)
      BY <1>7, Changes DEF Becomes, Copying, Delete, At, NoTask, Takes
    <2>2. partial' = partial /\ backups' \subseteq backups
      BY <1>7 DEF Delete
    <2>3. QED
      BY <2>1, <2>2 DEF CopyInv, Copying, At, Others
  <1>8. QED
    BY <1>1, <1>2, <1>3, <1>4, <1>5, <1>6, <1>7, StepKinds

------------------------------------------------------------------------------
(* Deleting: a file loses newer ones only when it may go itself.             *)

LEMMA NewerIsAnOrder ==
    ASSUME NEW f \in FileType, NEW g \in FileType, NEW h \in FileType
    PROVE  /\ ~Newer(f, f)
           /\ Newer(f, g) /\ Newer(g, h) => Newer(f, h)
           /\ f = g \/ f.name = g.name \/ Newer(f, g) \/ Newer(g, f)
  BY DEF Newer, FileType

LEMMA RankGrows ==
    ASSUME NEW S, NEW T, IsFiniteSet(T), S \subseteq T, NEW f
    PROVE  /\ Cardinality({g \in S : Newer(g, f)}) \in Nat
           /\ Cardinality({g \in T : Newer(g, f)}) \in Nat
           /\ Cardinality({g \in S : Newer(g, f)}) <= Cardinality({g \in T : Newer(g, f)})
  <1>1. IsFiniteSet({g \in T : Newer(g, f)})
    BY FS_Subset
  <1>2. {g \in S : Newer(g, f)} \subseteq {g \in T : Newer(g, f)}
    OBVIOUS
  <1>3. QED
    BY <1>1, <1>2, FS_Subset, FS_CardinalityType

(* The files that a deleted one leaves behind outrank every older one.       *)
LEMMA OlderOnesGo ==
    ASSUME OperationsInv, NEW f \in backups, NEW g \in backups, f # g, Newer(g, f), Deletable(g)
    PROVE  \/ f.modified < minus(clock, BackupDays)
           \/ Cardinality({h \in backups \ {g} : Newer(h, f)}) >= Keep
  <1>1. f \in FileType /\ g \in FileType /\ IsFiniteSet(backups) /\ clock \in Nat
    BY DEF OperationsInv
  <1>2. CASE g.modified < minus(clock, BackupDays)
    <2>1. minus(clock, BackupDays) \in Nat
      BY <1>1, Constants DEF minus
    <2>2. f.modified <= g.modified /\ f.modified \in Nat /\ g.modified \in Nat
      BY <1>1 DEF Newer, FileType
    <2>3. QED
      BY <1>2, <2>1, <2>2
  <1>3. CASE Rank(g) >= Keep
    <2> DEFINE A == {h \in backups : Newer(h, g)}
               B == {h \in backups \ {g} : Newer(h, f)}
    <2>1. A \subseteq B
      <3>1. ASSUME NEW h \in backups, Newer(h, g) PROVE h # g /\ Newer(h, f)
        BY <1>1, <3>1, NewerIsAnOrder DEF OperationsInv
      <3>2. QED
        BY <3>1
    <2>2. IsFiniteSet(B)
      BY <1>1, FS_Subset
    <2>3. Cardinality(A) <= Cardinality(B) /\ Cardinality(A) \in Nat /\ Cardinality(B) \in Nat
      BY <2>1, <2>2, FS_Subset, FS_CardinalityType
    <2>4. Cardinality(A) >= Keep
      BY <1>3 DEF Rank
    <2> HIDE DEF A
    <2>5. Cardinality(B) >= Keep
      BY <2>3, <2>4, Constants
    <2>6. QED
      BY <2>5
  <1>4. QED
    BY <1>2, <1>3 DEF Deletable

LEMMA MinusGrows ==
    ASSUME NEW a \in Nat, NEW b \in Nat, a <= b, NEW d \in Nat
    PROVE  minus(a, d) <= minus(b, d) /\ minus(a, d) \in Nat /\ minus(b, d) \in Nat
  BY DEF minus

LEMMA ExpiredIsDeletable ==
    ASSUME OperationsInv, StepInv, FileInv, NEW p \in Processes, NEW f \in backups,
           Expired(f, task[p].at)
    PROVE  Deletable(f) /\ f.name < clock
  <1>1. /\ clock \in Nat /\ task[p].at \in Nat /\ task[p].at <= clock /\ f \in FileType
        /\ IsFiniteSet(backups)
    BY DEF OperationsInv, StepInv, TaskOK, TaskType
  <1>2. minus(task[p].at, BackupDays) <= minus(clock, BackupDays)
        /\ minus(task[p].at, BackupDays) \in Nat /\ minus(clock, BackupDays) \in Nat
    BY <1>1, MinusGrows, Constants
  <1>3. Deletable(f)
    BY <1>1, <1>2 DEF Expired, Deletable, FileType
  <1>4. f.name < clock
    <2>1. f.name <= f.modified /\ f.modified <= clock
      BY DEF FileInv
    <2>2. SUFFICES ASSUME f.name = clock PROVE FALSE
      BY <1>1, <2>1 DEF FileType
    <2>3. f.modified = clock
      BY <1>1, <2>1, <2>2 DEF FileType
    <2>4. ~(f.modified < minus(task[p].at, BackupDays))
      BY <1>1, <2>3, Constants DEF minus
    <2>5. \A g \in backups : ~Newer(g, f)
      <3>1. \A g \in backups : g \in FileType /\ g.name <= g.modified /\ g.modified <= clock
        BY DEF FileInv, OperationsInv
      <3>2. QED
        BY <1>1, <2>2, <2>3, <3>1 DEF Newer, FileType
    <2>6. {g \in backups : Newer(g, f)} = {}
      BY <2>5
    <2>7. Rank(f) = 0
      BY <2>6, FS_EmptySet DEF Rank
    <2>8. QED
      BY <2>4, <2>7, Constants DEF Expired
  <1>5. QED
    BY <1>3, <1>4

LEMMA ExpiredKept ==
    ASSUME FilesInv, [OperationsNext]_operationsVars PROVE ExpiredInv'
  <1> USE DEF FilesInv
  <1>0. /\ clock \in Nat /\ IsFiniteSet(backups)
        /\ \A f \in backups : f \in FileType /\ f.name \in Nat /\ f.modified \in Nat
    BY DEF OperationsInv, FileType
  <1>1. CASE Stays
    BY <1>1 DEF Stays, files, ExpiredInv, At, Deletable, Rank
  <1>2. CASE ClockTick
    <2>1. task' = task /\ backups' = backups /\ clock' = clock + 1
      BY <1>2 DEF ClockTick, files
    <2>2. /\ minus(clock, BackupDays) <= minus(clock', BackupDays)
          /\ minus(clock, BackupDays) \in Nat /\ minus(clock', BackupDays) \in Nat
      BY <1>0, <2>1, Constants DEF minus
    <2>3. ASSUME NEW f \in backups, Deletable(f) PROVE Deletable(f)'
      BY <1>0, <2>1, <2>2, <2>3 DEF Deletable, Rank
    <2>4. QED
      BY <1>0, <2>1, <2>3 DEF ExpiredInv, At, OperationsInv, TaskType
  <1>3. ASSUME NEW p \in Processes, NEW t \in TaskType, Moves(p, t) PROVE ExpiredInv'
    <2>1. /\ backups' = backups /\ clock' = clock /\ task'[p].pc \notin Quiet /\ Others(p)
      BY <1>3 DEF Moves, files, OperationsInv, Others
    <2>2. QED
      BY <2>1 DEF ExpiredInv, At, Quiet, Others, Deletable, Rank
  <1>4. ASSUME NEW p \in Processes, BeginCopy(p) \/ Copied(p) \/ BackupFails(p)
        PROVE  ExpiredInv'
    <2>1. Others(p) /\ task'[p].pc # "delete"
      BY <1>4, Changes DEF Becomes, NoTask
    <2>2. backups' = backups /\ clock' = clock
      BY <1>4 DEF BeginCopy, Copied, BackupFails
    <2>3. QED
      BY <2>1, <2>2 DEF ExpiredInv, At, Others, Deletable, Rank
  <1>5. ASSUME NEW p \in Processes, Publish(p) PROVE ExpiredInv'
    <2>1. Others(p) /\ task'[p].pc # "delete" /\ Copying(p)
      BY <1>5, Changes DEF Becomes, NoTask, Publish, At, Copying
    <2>2. Named(backups, p) = {}
      BY <2>1 DEF CopyInv, Named
    <2>3. /\ backups \subseteq backups' /\ clock' = clock
          /\ \A f \in backups' : f \in backups \/ f.name = task[p].name
      BY <1>5, <2>2 DEF Publish, Named
    <2>4. IsFiniteSet(backups')
      BY FilesTyped DEF OperationsInv
    <2>5. ASSUME NEW f \in backups, Deletable(f) PROVE Deletable(f)'
      <3>1. Rank(f) <= Rank(f)' /\ Rank(f) \in Nat /\ Rank(f)' \in Nat
        BY <2>3, <2>4, RankGrows DEF Rank
      <3>2. QED
        BY <2>3, <2>5, <3>1, Constants DEF Deletable
    <2>6. \A q \in Processes \ {p} : At(q, "delete") => task[p].name \notin task[q].expired
      BY <2>1 DEF CopyInv
    <2>7. QED
      BY <2>1, <2>3, <2>5, <2>6 DEF ExpiredInv, At, Others
  <1>6. ASSUME NEW p \in Processes, List(p) PROVE ExpiredInv'
    <2>1. backups' = backups /\ clock' = clock /\ Others(p)
      BY <1>6, Changes DEF List, files
    <2>2. task'[p].expired = {f.name : f \in {g \in backups : Expired(g, task[p].at)}}
      BY <1>6, Changes
    <2>3. \A n \in task'[p].expired : n < clock
      BY <2>2, ExpiredIsDeletable
    <2>4. ASSUME NEW f \in backups, f.name \in task'[p].expired PROVE Deletable(f)
      <3>1. PICK g \in backups : Expired(g, task[p].at) /\ g.name = f.name
        BY <2>2, <2>4
      <3>2. g = f
        BY <3>1 DEF FileInv
      <3>3. QED
        BY <3>1, <3>2, ExpiredIsDeletable
    <2>5. QED
      BY <2>1, <2>3, <2>4 DEF ExpiredInv, At, Others, Deletable, Rank
  <1>7. ASSUME NEW p \in Processes, Delete(p) PROVE ExpiredInv'
    <2>1. clock' = clock /\ At(p, "delete") /\ Others(p)
      BY <1>7, Changes DEF Delete
    <2>2. CASE task'[p] = NoTask /\ UNCHANGED backups
      BY <2>1, <2>2 DEF ExpiredInv, At, Others, Deletable, Rank, NoTask
    <2>3. ASSUME NEW g \in backups, Takes(p, g), Becomes(p, "delete") PROVE ExpiredInv'
      <3>1. Deletable(g)
        BY <2>1, <2>3 DEF Takes, ExpiredInv
      <3>2. ASSUME NEW q \in Processes, At(q, "delete"), NEW f \in backups, f # g,
                   f.name \in task[q].expired
            PROVE  Deletable(f)'
        <4>1. Deletable(f)
          BY <3>2 DEF ExpiredInv
        <4>2. CASE Newer(g, f)
          BY <2>1, <2>3, <3>1, <3>2, <4>2, OlderOnesGo DEF Takes, Deletable, Rank
        <4>3. CASE ~Newer(g, f)
          <5>1. {h \in backups : Newer(h, f)} = {h \in backups \ {g} : Newer(h, f)}
            BY <4>3
          <5>2. Rank(f)' = Rank(f)
            BY <2>3, <5>1 DEF Takes, Rank
          <5>3. QED
            BY <2>1, <4>1, <5>2 DEF Deletable
        <4>4. QED
          BY <4>2, <4>3
      <3>3. /\ \A q \in Processes : At(q, "delete")' => At(q, "delete")
            /\ \A q \in Processes : At(q, "delete")' => task'[q].expired \subseteq task[q].expired
        BY <2>1, <2>3 DEF At, Others, Takes
      <3>4. \A f \in backups' : f \in backups /\ f # g
        BY <2>3 DEF Takes
      <3>5. QED
        BY <2>1, <3>2, <3>3, <3>4 DEF ExpiredInv
    <2>4. QED
      BY <1>7, <2>2, <2>3, Changes
  <1>8. QED
    BY <1>1, <1>2, <1>3, <1>4, <1>5, <1>6, <1>7, StepKinds

LEMMA FilesInvIsInductive ==
    /\ OperationsInit => FilesInv
    /\ FilesInv /\ [OperationsNext]_operationsVars => FilesInv'
  <1>1. ASSUME OperationsInit PROVE FilesInv
    <2>1. OperationsInv
      BY <1>1, IdleIsATask, FS_EmptySet DEF OperationsInit, OperationsInv, RowType
    <2>2. StepInv
      BY <1>1, IdleIsATask DEF OperationsInit, StepInv
    <2>3. FileInv /\ CopyInv /\ ExpiredInv
      BY <1>1 DEF OperationsInit, FileInv, CopyInv, ExpiredInv, Copying, At, NoTask
    <2>4. QED
      BY <2>1, <2>2, <2>3 DEF FilesInv
  <1>2. FilesInv /\ [OperationsNext]_operationsVars => FilesInv'
    BY FilesTyped, StepsKept, FilesKept, CopiesKept, ExpiredKept DEF FilesInv
  <1>3. QED
    BY <1>1, <1>2

LEMMA OnlyExpiredGo ==
    ASSUME FilesInv, [OperationsNext]_operationsVars, NEW f \in backups \ backups'
    PROVE  Deletable(f) /\ backups' = backups \ {f}
  <1> USE DEF FilesInv
  <1>1. PICK p \in Processes : Publish(p) \/ Delete(p)
    BY StepKinds DEF Stays, ClockTick, Moves, files, BeginCopy, Copied, BackupFails, List
  <1>2. CASE Publish(p)
    BY <1>2 DEF Publish, Named, CopyInv, Copying, At
  <1>3. CASE Delete(p)
    <2>1. PICK g \in backups : Takes(p, g)
      BY <1>3, Changes
    <2>2. g = f /\ f.name \in task[p].expired /\ At(p, "delete") /\ backups' = backups \ {f}
      BY <1>3, <2>1 DEF Takes, Delete
    <2>3. QED
      BY <2>2 DEF ExpiredInv
  <1>4. QED
    BY <1>1, <1>2, <1>3

(* Retention: whatever was listed before, a backup goes only when it is too  *)
(* old or Keep newer ones are there.                                         *)
THEOREM NewestBackupsStay == OperationsSpec => KeptBackupsStay
  <1>1. FilesInv /\ [OperationsNext]_operationsVars =>
           [\A f \in backups \ backups' :
               f.modified < minus(clock, BackupDays) \/ Rank(f) >= Keep]_operationsVars
    BY OnlyExpiredGo DEF Deletable
  <1>2. QED
    BY <1>1, FilesInvIsInductive, PTL DEF OperationsSpec, KeptBackupsStay

------------------------------------------------------------------------------
(* A maintenance and its backup.                                             *)

LEMMA NewerIsSince ==
    ASSUME FilesInv, NEW p \in Processes, NEW b \in backups, NEW g \in backups,
           Since(b, p), Newer(g, b)
    PROVE  g.modified > task[p].begun /\ Since(g, p)
  <1>1. /\ b \in FileType /\ g \in FileType /\ task[p].begun \in Nat
        /\ b.name <= b.modified /\ g.name <= g.modified
    BY DEF FilesInv, OperationsInv, FileInv, TaskType
  <1>2. QED
    BY <1>1 DEF Since, Newer, FileType

(* A maintenance is too young for a backup of its own to be too old.         *)
LEMMA OwnBackupIsOutranked ==
    ASSUME FilesInv, NEW p \in Processes, task[p].pc # "idle", NEW b \in backups, Since(b, p),
           Deletable(b)
    PROVE  \E g \in backups : Newer(g, b)
  <1>1. /\ clock \in Nat /\ task[p].begun \in Nat /\ clock <= task[p].begun + Longest
        /\ b \in FileType
    BY DEF FilesInv, OperationsInv, StepInv, TaskOK, TaskType
  <1>2. ~(b.modified < minus(clock, BackupDays))
    BY <1>1, Constants DEF Since, minus, FileType
  <1>3. Rank(b) >= Keep
    BY <1>2 DEF Deletable
  <1>4. Rank(b) # 0
    BY <1>3, Constants
  <1>5. {g \in backups : Newer(g, b)} # {}
    BY <1>4, FS_EmptySet DEF Rank
  <1>6. QED
    BY <1>5

(* No step brings a raw hit back to a listing not seen since, but a restore. *)
LEMMA UnseenShrinks ==
    ASSUME FilesInv, [OperationsNext]_operationsVars, ~undercut', NEW p \in Maintaining, NEW l \in Listings,
           database'[l].raw, database'[l].seen < task[p].begun
    PROVE  database[l].raw /\ database[l].seen < task[p].begun
  <1>0. /\ p \in Processes /\ task[p].begun \in Nat /\ clock \in Nat /\ task[p].begun <= clock
        /\ database \in [Listings -> RowType]
    BY DEF FilesInv, OperationsInv, StepInv, TaskOK, TaskType, Maintaining
  <1>1. ASSUME NEW q \in Processes, NEW m \in Listings, See(q, m)
        PROVE  database[l].raw /\ database[l].seen < task[p].begun
    BY <1>0, <1>1 DEF See
  <1>2. ASSUME NEW q \in Processes, Purge(q)
        PROVE  database[l].raw /\ database[l].seen < task[p].begun
    <2>1. PICK batch : database' = [k \in Listings |->
                            IF k \in batch THEN [database[k] EXCEPT !.raw = FALSE]
                                           ELSE database[k]]
      BY <1>2 DEF Purge
    <2>2. QED
      BY <1>0, <2>1 DEF RowType
  <1>3. ASSUME NEW q \in Processes, Replace(q) PROVE FALSE
    BY <1>3 DEF Replace
  <1>4. \/ UNCHANGED database
        \/ \E q \in Processes : Purge(q) \/ Replace(q) \/ \E m \in Listings : See(q, m)
    BY DEF OperationsNext, operationsVars, ClockTick, AppStep, TaskStep, Boot, OpenMarker, WriteMarker, Shutdown,
           RemoveMarker, Release, Exit, Kill, Start, BeginCopy, Copied, Publish, BackupFails,
           Count, List, RetentionFails, Delete, Verify, NoSource, ReadMarker, Unlink,
           LockForVacuum, Vacuum
  <1>5. QED
    BY <1>1, <1>2, <1>3, <1>4

(* What a maintenance was doing before a step.                               *)
Entered(p) ==
    \/ task'[p].pc = task[p].pc /\ task'[p].name = task[p].name
    \/ task'[p].pc \notin {"check", "count", "purge", "list", "delete"}
    \/ task[p].pc \in {"count", "purge", "list", "delete"} /\ task'[p].pc # "check"
    \/ Copied(p) \/ Publish(p)

LEMMA MaintenanceSteps ==
    ASSUME FilesInv, [OperationsNext]_operationsVars, NEW p \in Processes, task'[p].kind = "maintain"
    PROVE  \/ task'[p].pc = "copy" /\ task'[p].begun = clock
           \/ /\ task[p].kind = "maintain" /\ task'[p].begun = task[p].begun
              /\ Entered(p)
  <1> DEFINE Starts == task'[p].pc = "copy" /\ task'[p].begun = clock
             Goes == /\ task[p].kind = "maintain" /\ task'[p].begun = task[p].begun
                     /\ Entered(p)
  <1>0. task \in [Processes -> TaskType] /\ OperationsInv /\ StepInv /\ p \in Processes
    BY DEF FilesInv, OperationsInv
  <1>1. ASSUME task'[p] = task[p] PROVE Goes
    BY <1>1 DEF Entered
  <1>2. ASSUME NEW q \in Processes, Done(q) PROVE Goes
    <2>1. q # p
      BY <1>0, <1>2 DEF Done, NoTask
    <2>2. QED
      BY <1>0, <1>1, <1>2, <2>1 DEF Done
  <1>3. ASSUME NEW q \in Processes, NEW pc \in {"copy", "unlink", "vacuum"}, To(q, pc) PROVE Goes
    BY <1>0, <1>1, <1>3 DEF To, Entered, TaskType
  <1>4. ASSUME NEW q \in Processes, To(q, "list"), At(q, "purge") PROVE Goes
    BY <1>0, <1>1, <1>4 DEF To, At, Entered, TaskType
  <1>5. ASSUME NEW q \in Processes, NEW kind \in Kinds, Start(q, kind) PROVE Starts \/ Goes
    <2>1. CASE q = p
      <3>1. task'[p].kind = kind /\ task'[p].pc = First[kind] /\ task'[p].begun = clock
        BY <1>0, <1>5, <2>1 DEF Start, NoTask
      <3>2. QED
        BY <3>1 DEF First
    <2>2. CASE q # p
      BY <1>0, <1>1, <1>5, <2>2 DEF Start
    <2>3. QED
      BY <2>1, <2>2
  <1>6. ASSUME NEW q \in Processes,
               BeginCopy(q) \/ Copied(q) \/ Publish(q) \/ BackupFails(q) \/ List(q) \/ Delete(q)
        PROVE  Goes
    <2>1. Others(q)
      BY <1>0, <1>6, Changes
    <2>2. CASE q # p
      BY <1>1, <2>1, <2>2 DEF Others
    <2>3. CASE q = p
      <3>1. task'[p] # NoTask
        BY DEF NoTask
      <3>2. CASE BeginCopy(p)
        BY <1>0, <3>2, Changes DEF Becomes, Entered
      <3>3. CASE Copied(p) \/ Publish(p)
        BY <1>0, <3>1, <3>3, Changes DEF Becomes, Entered
      <3>4. CASE List(p)
        BY <1>0, <3>4, Changes DEF Becomes, Entered, List, At
      <3>5. CASE Delete(p)
        BY <1>0, <3>1, <3>5, Changes DEF Becomes, Entered, Delete, At
      <3>6. QED
        BY <1>0, <1>6, <2>3, <3>1, <3>2, <3>3, <3>4, <3>5, Changes
    <2>4. QED
      BY <2>2, <2>3
  <1>7. ASSUME NEW q \in Processes, Count(q) PROVE Goes
    <2>1. /\ At(q, "count")
          /\ task' = [task EXCEPT ![q].at = clock,
                                  ![q].pc = IF Due(database, clock) = {} THEN "list" ELSE "purge"]
      BY <1>7 DEF Count
    <2>2. CASE q = p
      <3>1. /\ task'[p].kind = task[p].kind /\ task'[p].begun = task[p].begun
            /\ task'[p].pc \in {"list", "purge"} /\ task[p].pc = "count"
        BY <1>0, <2>1, <2>2 DEF At, TaskType
      <3>2. QED
        BY <3>1 DEF Entered
    <2>3. QED
      BY <1>0, <1>1, <2>1, <2>2
  <1>8. ASSUME NEW q \in Processes, Verify(q) PROVE Goes
    <2>1. PICK f \in backups :
             task' = [task EXCEPT ![q].pc = "marker", ![q].source = f.name]
      BY <1>8 DEF Verify
    <2>2. QED
      BY <1>0, <1>1, <2>1 DEF Entered, TaskType
  <1>9. ASSUME NEW q \in Processes, Purge(q) PROVE Goes
    <2>1. At(q, "purge") /\ (To(q, "list") \/ UNCHANGED task)
      BY <1>9 DEF Purge
    <2>2. QED
      BY <1>1, <1>4, <2>1
  <1>10. ASSUME NEW q \in Processes, AppStep(q) PROVE Goes
    <2>1. CASE Kill(q)
      BY <1>2, <2>1 DEF Kill
    <2>2. CASE ~Kill(q)
      BY <1>1, <1>10, <2>2 DEF AppStep, Boot, OpenMarker, WriteMarker, See, Shutdown,
                               RemoveMarker, Release, Exit
    <2>3. QED
      BY <2>1, <2>2
  <1>11. ASSUME NEW q \in Processes,
                \/ RetentionFails(q) \/ NoSource(q) \/ ReadMarker(q) \/ Unlink(q) \/ Replace(q)
                \/ LockForVacuum(q) \/ Vacuum(q)
         PROVE  Goes
    <2>1. Done(q) \/ To(q, "copy") \/ To(q, "unlink") \/ To(q, "vacuum")
      BY <1>11 DEF RetentionFails, NoSource, ReadMarker, Unlink, Replace, LockForVacuum, Vacuum
    <2>2. QED
      BY <1>2, <1>3, <2>1
  <1>12. CASE ClockTick \/ UNCHANGED operationsVars
    BY <1>1, <1>12 DEF ClockTick, operationsVars
  <1>13. QED
    BY <1>5, <1>6, <1>7, <1>8, <1>9, <1>10, <1>11, <1>12 DEF OperationsNext, TaskStep

(* The files of a step are those from before, but for a copy.                *)
LEMMA OldFiles ==
    ASSUME FilesInv, [OperationsNext]_operationsVars, NEW f \in partial' \cup backups'
    PROVE  \/ f \in partial \cup backups /\ (f \in partial' => f \in partial)
           \/ \E name, whole : f = Backup(name, whole)
  <1>1. CASE Stays \/ ClockTick
    BY <1>1 DEF Stays, ClockTick, files
  <1>2. ASSUME NEW q \in Processes, NEW t \in TaskType, Moves(q, t) 
        PROVE  f \in partial \cup backups /\ (f \in partial' => f \in partial)
    BY <1>2 DEF Moves, files
  <1>3. ASSUME NEW q \in Processes, Publish(q) \/ BackupFails(q) \/ List(q) \/ Delete(q)
        PROVE  f \in partial \cup backups /\ (f \in partial' => f \in partial)
    BY <1>3 DEF Publish, BackupFails, List, Delete, files, Named
  <1>4. ASSUME NEW q \in Processes, BeginCopy(q) \/ Copied(q)
        PROVE  \/ f \in partial \cup backups /\ (f \in partial' => f \in partial)
               \/ \E name, whole : f = Backup(name, whole)
    <2>1. CASE f = Backup(clock, FALSE) \/ f = Backup(task[q].name, TRUE)
      BY <2>1
    <2>2. CASE f # Backup(clock, FALSE) /\ f # Backup(task[q].name, TRUE)
      BY <1>4, <2>2 DEF BeginCopy, Copied
    <2>3. QED
      BY <2>1, <2>2
  <1>5. QED
    BY <1>1, <1>2, <1>3, <1>4, StepKinds DEF FilesInv

LEMMA GoodKept ==
    ASSUME FilesInv, GoodInv, [OperationsNext]_operationsVars PROVE GoodInv'
  <1> SUFFICES ASSUME ~undercut', NEW p \in Processes, task'[p].kind = "maintain"
               PROVE  GoodFor(p)'
    BY DEF GoodInv, Maintaining
  <1> DEFINE begun == task[p].begun
             GoodNow(f) == \A l \in Listings :
                              database'[l].raw /\ database'[l].seen < begun => f.rows[l].raw
  <1>1. clock \in Nat /\ clock' \in Nat /\ clock <= clock' /\ FilesInv'
    <2>1. clock' = clock \/ clock' = clock + 1
      BY StepKinds DEF FilesInv, Stays, ClockTick, Moves, BeginCopy, Copied, Publish, BackupFails,
                       List, Delete
    <2>2. QED
      BY <2>1, FilesInvIsInductive DEF FilesInv, OperationsInv
  <1>2. ~undercut
    <2>1. undercut => undercut'
      BY DEF OperationsNext, operationsVars, ClockTick, AppStep, TaskStep, Boot, OpenMarker, WriteMarker, See, Shutdown,
             RemoveMarker, Release, Exit, Kill, Start, BeginCopy, Copied, Publish, BackupFails,
             Count, Purge, List, RetentionFails, Delete, Verify, NoSource, ReadMarker, Unlink,
             Replace, LockForVacuum, Vacuum
    <2>2. QED
      BY <2>1
  <1>3. CASE task'[p].pc = "copy" /\ task'[p].begun = clock
    <2>1. \A f \in partial \cup backups : f.modified \in Nat /\ f.modified <= clock
      BY DEF FilesInv, FileInv, OperationsInv, FileType
    <2>2. ASSUME NEW f \in partial' \cup backups' PROVE ~(f.modified > clock)
      BY <1>1, <2>1, OldFiles DEF Backup
    <2>3. QED
      BY <1>3, <2>2 DEF GoodFor, At
  <1>4. CASE task[p].kind = "maintain" /\ task'[p].begun = begun /\ Entered(p)
    <2>0. p \in Maintaining /\ GoodFor(p)
      BY <1>2, <1>4 DEF Maintaining, GoodInv
    <2>1. /\ begun \in Nat /\ begun <= clock /\ task[p] \in TaskType
          /\ task[p].kind = "maintain"
      BY <1>4 DEF FilesInv, StepInv, TaskOK, OperationsInv, TaskType
    <2>2. ASSUME NEW f, Good(f, p) PROVE GoodNow(f)
      BY <2>0, <2>2, UnseenShrinks DEF Good
    <2>3. \A f : GoodNow(f) => Good(f, p)'
      BY <1>4 DEF Good
    <2>4. ASSUME NEW name, NEW whole PROVE GoodNow(Backup(name, whole))
      <3>1. Backup(name, whole).rows = database
        BY DEF Backup
      <3>2. Good(Backup(name, whole), p)
        BY <3>1 DEF Good
      <3>3. QED
        BY <2>2, <3>2
    <2> HIDE DEF GoodNow, begun
    <2>5. ASSUME NEW f \in partial' \cup backups', f.modified > begun PROVE GoodNow(f)
      <3>1. CASE \E name, whole : f = Backup(name, whole)
        BY <2>4, <3>1
      <3>2. CASE f \in partial \cup backups
        BY <2>0, <2>2, <2>5, <3>2 DEF GoodFor, begun
      <3>3. QED
        BY <3>1, <3>2, OldFiles
    <2>6. ASSUME task'[p].pc = "check", NEW f \in partial', f.name = task'[p].name
          PROVE  f.modified >= begun /\ GoodNow(f)
      <3>1. CASE \E name, whole : f = Backup(name, whole)
        <4>1. f.modified = clock
          BY <3>1 DEF Backup
        <4>2. QED
          BY <2>1, <2>4, <3>1, <4>1
      <3>2. CASE f \in partial
        <4>1. ~Publish(p)
          BY <2>6, Changes DEF FilesInv, Becomes, NoTask
        <4>2. ASSUME Copied(p) PROVE \E name, whole : f = Backup(name, whole)
          <5>1. task'[p].name = task[p].name
            BY <4>2, Changes DEF FilesInv
          <5>2. QED
            BY <2>6, <4>2, <5>1 DEF Copied, Named
        <4>3. CASE task'[p].pc = task[p].pc /\ task'[p].name = task[p].name
          BY <2>0, <2>2, <2>6, <3>2, <4>3 DEF GoodFor, At, begun
        <4>4. QED
          BY <1>4, <2>6, <3>1, <4>1, <4>2, <4>3 DEF Entered
      <3>3. QED
        BY <3>1, <3>2, OldFiles
    <2>7. ASSUME task'[p].pc \in {"count", "purge", "list", "delete"}
          PROVE  \E b \in backups' : Since(b, p)' /\ GoodNow(b)
      <3>1. \A b : Since(b, p)' <=> Since(b, p)
        BY <1>4 DEF Since, begun
      <3>2. CASE task[p].pc \in {"count", "purge", "list", "delete"}
        <4>1. PICK b \in backups : Since(b, p) /\ Good(b, p)
          BY <2>0, <3>2 DEF GoodFor
        <4>2. CASE b \in backups'
          BY <2>2, <3>1, <4>1, <4>2
        <4>3. CASE b \notin backups'
          <5>1. Deletable(b) /\ backups' = backups \ {b}
            BY <4>3, OnlyExpiredGo
          <5>2. PICK g \in backups : Newer(g, b)
            BY <3>2, <4>1, <5>1, OwnBackupIsOutranked
          <5>3. g # b
            BY <5>2, NewerIsAnOrder DEF FilesInv, OperationsInv
          <5>4. g.modified > task[p].begun /\ Since(g, p)
            BY <4>1, <5>2, NewerIsSince
          <5>5. Good(g, p)
            BY <2>0, <5>4 DEF GoodFor
          <5>6. QED
            BY <2>2, <3>1, <5>1, <5>3, <5>4, <5>5
        <4>4. QED
          BY <4>2, <4>3
      <3>3. CASE Publish(p)
        <4>1. At(p, "check") /\ Copying(p)
          BY <3>3 DEF Publish, Copying, At
        <4>2. PICK b \in partial : b.name = task[p].name
          BY <4>1 DEF FilesInv, CopyInv
        <4>3. b \in backups'
          BY <3>3, <4>2 DEF Publish, Named
        <4>4. b.modified >= begun /\ Good(b, p)
          BY <2>0, <4>1, <4>2 DEF GoodFor, begun
        <4>5. task[p].name >= begun
          BY <4>1 DEF FilesInv, StepInv, TaskOK, At, begun
        <4>6. Since(b, p)
          <5>1. b \in FileType
            BY DEF FilesInv, OperationsInv
          <5>2. QED
            BY <2>1, <4>2, <4>4, <4>5, <5>1 DEF Since, begun, FileType
        <4>7. QED
          BY <2>2, <3>1, <4>3, <4>4, <4>6
      <3>4. ~Copied(p)
        BY <2>7, Changes DEF FilesInv, Becomes
      <3>5. QED
        BY <1>4, <2>7, <3>2, <3>3, <3>4 DEF Entered
    <2>8. QED
      BY <1>4, <2>3, <2>5, <2>6, <2>7 DEF GoodFor, At
  <1>5. QED
    BY <1>3, <1>4, MaintenanceSteps

LEMMA GoodInvIsInductive ==
    /\ OperationsInit => GoodInv
    /\ FilesInv /\ GoodInv /\ [OperationsNext]_operationsVars => GoodInv'
  <1>1. OperationsInit => GoodInv
    BY DEF OperationsInit, GoodInv, Maintaining, NoTask
  <1>2. QED
    BY <1>1, GoodKept

(* The weekly maintenance: a listing's raw hit is purged only when some      *)
(* backup and every newer one have it, whatever other processes copy, delete *)
(* and purge meanwhile, and wherever one is killed; unless a restore put     *)
(* another database under it.                                                *)
THEOREM PurgedListingsAreBackedUp == OperationsSpec => PurgedIsBackedUp
  <1>1. FilesInv /\ GoodInv /\ [OperationsNext]_operationsVars =>
           [\A p \in Maintaining : Purge(p) /\ ~undercut =>
              \A l \in Listings : database[l].raw /\ ~database'[l].raw =>
                 \E f \in backups : \A g \in backups : g = f \/ Newer(g, f) => g.rows[l].raw]_operationsVars
    <2> SUFFICES ASSUME FilesInv, GoodInv, [OperationsNext]_operationsVars, NEW p \in Maintaining, Purge(p), ~undercut,
                        NEW l \in Listings, database[l].raw, ~database'[l].raw
                 PROVE  \E f \in backups :
                           \A g \in backups : g = f \/ Newer(g, f) => g.rows[l].raw
      OBVIOUS
    <2>1. /\ p \in Processes /\ task[p].pc = "purge" /\ GoodFor(p)
      BY DEF Maintaining, Purge, At, GoodInv
    <2>2. PICK batch \in Batches(p) : database' = [k \in Listings |->
                            IF k \in batch THEN [database[k] EXCEPT !.raw = FALSE]
                                           ELSE database[k]]
      BY DEF Purge
    <2>3. l \in batch
      BY <2>2
    <2>4. batch \subseteq Due(database, task[p].at)
      BY <2>2 DEF Batches, kSubset
    <2>5. database[l].seen < minus(task[p].at, RawDays)
      BY <2>3, <2>4 DEF Due
    <2>6. /\ task[p] \in TaskType /\ task[p].at <= clock /\ clock <= task[p].begun + Longest
          /\ clock \in Nat /\ database \in [Listings -> RowType]
      BY <2>1 DEF FilesInv, OperationsInv, StepInv, TaskOK
    <2>7. database[l].seen < task[p].begun
      BY <2>5, <2>6, Constants DEF minus, TaskType, RowType
    <2>8. PICK b \in backups : Since(b, p) /\ Good(b, p)
      BY <2>1 DEF GoodFor
    <2>9. b.rows[l].raw
      BY <2>7, <2>8 DEF Good
    <2>10. ASSUME NEW g \in backups, Newer(g, b) PROVE g.rows[l].raw
      <3>1. g.modified > task[p].begun
        BY <2>1, <2>8, <2>10, NewerIsSince
      <3>2. Good(g, p)
        BY <2>1, <3>1 DEF GoodFor
      <3>3. QED
        BY <2>7, <3>2 DEF Good
    <2>11. QED
      BY <2>9, <2>10
  <1>2. QED
    BY <1>1, FilesInvIsInductive, GoodInvIsInductive, PTL DEF OperationsSpec, PurgedIsBackedUp
==============================================================================
