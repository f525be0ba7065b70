------------------------- MODULE CollectionRunProofs -------------------------
(* Proofs about CollectionRun for any number of runs, tasks, workers,       *)
(* clients and faults: the types, launch_lock, the tasks of a run and who   *)
(* works on them, the owner of an active row, and the refinement of         *)
(* SingleRun.                                                               *)
EXTENDS CollectionRun, TLAPS

------------------------------------------------------------------------------
(* Types: one lemma for each kind of actor, one step for each action.       *)

(* A handler or the scheduler keeps the types. *)
LEMMA CallerType ==
    ASSUME TypeOK, NEW c \in Callers, Launch(c) \/ Request(c) \/ Write(c)
    PROVE  TypeOK'
<1> USE CollectionRunAssumption DEF TypeOK
<1>1. ASSUME StartRun(c) PROVE TypeOK'
  BY <1>1 DEF StartRun, Await, Idle, Callers, Requests, WorkerStates, RowsTypeOK, RuntimeTypeOK, ProcessTypeOK,
     rowVars, jobVars
<1>2. ASSUME ClearRuns(c) PROVE TypeOK'
  BY <1>2 DEF ClearRuns, Await, Idle, Callers, Requests, WorkerStates, RowsTypeOK, RuntimeTypeOK, ProcessTypeOK,
     rowVars, jobVars
<1>3. ASSUME DecideStart(c) PROVE TypeOK'
  BY <1>3 DEF DecideStart, Await, Idle, Callers, Requests, WorkerStates, RowsTypeOK, RuntimeTypeOK, ProcessTypeOK,
     rowVars, jobVars
<1>4. ASSUME NEW r \in Runs, ResumeRun(c, r) PROVE TypeOK'
  BY <1>4 DEF ResumeRun, Await, Idle, Callers, Requests, WorkerStates, RowsTypeOK, RuntimeTypeOK, ProcessTypeOK,
     rowVars, jobVars
<1>5. ASSUME NEW r \in Runs, CancelRun(c, r) PROVE TypeOK'
  BY <1>5 DEF CancelRun, Await, Idle, Callers, Requests, WorkerStates, RowsTypeOK, RuntimeTypeOK, ProcessTypeOK,
     rowVars, jobVars
<1>6. ASSUME NEW r \in Runs, DeleteRun(c, r) PROVE TypeOK'
  BY <1>6 DEF DeleteRun, Await, Idle, Callers, Requests, WorkerStates, RowsTypeOK, RuntimeTypeOK, ProcessTypeOK,
     rowVars, jobVars
<1>7. ASSUME NEW r \in Runs, DecideResume(c, r) PROVE TypeOK'
  BY <1>7 DEF DecideResume, Await, Idle, Callers, Requests, WorkerStates, RowsTypeOK, RuntimeTypeOK, ProcessTypeOK,
     rowVars, jobVars
<1>8. ASSUME TakeLaunchLock(c) PROVE TypeOK'
  BY <1>8 DEF TakeLaunchLock, Await, Idle, Callers, Requests, WorkerStates, RowsTypeOK, RuntimeTypeOK, ProcessTypeOK,
     rowVars, jobVars
<1>9. ASSUME LaunchFails(c) PROVE TypeOK'
  BY <1>9 DEF LaunchFails, Answer, Idle, Callers, Requests, WorkerStates, RowsTypeOK, RuntimeTypeOK, ProcessTypeOK,
     rowVars, jobVars
<1>10. ASSUME PrepareResume(c) PROVE TypeOK'
  <2>1. req[c].run \in Runs
    BY <1>10 DEF PrepareResume, ProcessTypeOK, Requests, Idle
  <2>2. RowsTypeOK'
    BY <1>10, <2>1 DEF PrepareResume, RowsTypeOK, prepare_resume, RunStatus, Active, TaskStatus
  <2>3. RuntimeTypeOK'
    BY <1>10, <2>1 DEF PrepareResume, RuntimeTypeOK, WorkerStates, jobVars
  <2>4. ProcessTypeOK'
    BY <1>10, <2>1 DEF PrepareResume, ProcessTypeOK, Requests, Callers, Await
  <2> QED
    BY <2>2, <2>3, <2>4
<1>11. ASSUME RuntimeStart(c) PROVE TypeOK'
  BY <1>11 DEF RuntimeStart, Answer, Idle, JobStep, Callers, Requests, WorkerStates, RowsTypeOK, RuntimeTypeOK, ProcessTypeOK,
     rowVars, jobVars
<1>12. ASSUME NEW r \in Runs, CreateRun(c, r) PROVE TypeOK'
  BY <1>12 DEF CreateRun, Await, Idle, RunStatus, Active, TaskStatus, Callers, Requests, WorkerStates, RowsTypeOK, RuntimeTypeOK, ProcessTypeOK,
     rowVars, jobVars
<1>13. ASSUME CancelSignal(c) PROVE TypeOK'
  <2>1. req[c].run \in Runs
    BY <1>13 DEF CancelSignal, ProcessTypeOK, Requests, Idle
  <2>2. RowsTypeOK'
    BY <1>13, <2>1 DEF CancelSignal, RowsTypeOK, rowVars
  <2>3. RuntimeTypeOK'
    BY <1>13, <2>1 DEF CancelSignal, RuntimeTypeOK, WorkerStates
  <2>4. ProcessTypeOK'
    <3>1. req' \in [Callers -> Requests]
      BY <1>13, <2>1 DEF CancelSignal, ProcessTypeOK, Requests, Callers, Await, Answer, Idle
    <3>2. asked' \in SUBSET Runs
      BY <1>13, <2>1 DEF CancelSignal, ProcessTypeOK
    <3> QED
      BY <1>13, <3>1, <3>2 DEF CancelSignal, ProcessTypeOK
  <2> QED
    BY <2>2, <2>3, <2>4
<1>14. ASSUME CancelWrite(c) PROVE TypeOK'
  <2>1. req[c].run \in Runs
    BY <1>14 DEF CancelWrite, ProcessTypeOK, Requests, Idle
  <2>2. RowsTypeOK'
    BY <1>14, <2>1 DEF CancelWrite, RowsTypeOK, RunStatus, TERMINAL_RUN_STATUSES
  <2>3. RuntimeTypeOK'
    BY <1>14, <2>1 DEF CancelWrite, RuntimeTypeOK, WorkerStates, jobVars
  <2>4. ProcessTypeOK'
    BY <1>14, <2>1 DEF CancelWrite, ProcessTypeOK, Requests, Callers, Answer, Idle
  <2> QED
    BY <2>2, <2>3, <2>4
<1>15. ASSUME DeleteRows(c) PROVE TypeOK'
  BY <1>15 DEF DeleteRows, Answer, Idle, NoTasks, Callers, Requests, WorkerStates, RowsTypeOK, RuntimeTypeOK, ProcessTypeOK,
     rowVars, jobVars
<1> HIDE DEF TypeOK
<1>16. CASE Launch(c)
  BY <1>8, <1>9, <1>10, <1>11, <1>12, <1>16 DEF Launch
<1>17. CASE Request(c)
  <2>1. CASE StartRun(c) \/ ClearRuns(c) \/ DecideStart(c)
    BY <1>1, <1>2, <1>3, <2>1
  <2>2. ASSUME NEW r \in Runs, \/ ResumeRun(c, r) \/ CancelRun(c, r)
                               \/ DeleteRun(c, r) \/ DecideResume(c, r)
        PROVE  TypeOK'
    BY <1>4, <1>5, <1>6, <1>7, <2>2
  <2> QED
    BY <1>17, <2>1, <2>2 DEF Request
<1>18. CASE Write(c)
  BY <1>13, <1>14, <1>15, <1>18 DEF Write
<1> QED
  BY <1>16, <1>17, <1>18

(* A job keeps the types. *)
LEMMA JobType ==
    ASSUME TypeOK, NEW r \in Runs, Job(r)
    PROVE  TypeOK'
<1> USE CollectionRunAssumption DEF TypeOK
<1>1. ASSUME AcquireMarket(r) PROVE TypeOK'
  BY <1>1 DEF AcquireMarket, Goto, JobStep, Executing, Callers, Requests, WorkerStates, RowsTypeOK, RuntimeTypeOK, ProcessTypeOK,
     rowVars, jobVars
<1>2. ASSUME Begin(r) PROVE TypeOK'
  BY <1>2 DEF Begin, Goto, JobStep, Executing, RunStatus, TERMINAL_RUN_STATUSES, Active, Callers, Requests, WorkerStates, RowsTypeOK, RuntimeTypeOK, ProcessTypeOK,
     rowVars, jobVars
<1>3. ASSUME Prepare(r) PROVE TypeOK'
  BY <1>3 DEF Prepare, Goto, JobStep, Executing, Off, Callers, Requests, WorkerStates, RowsTypeOK, RuntimeTypeOK, ProcessTypeOK,
     rowVars, jobVars
<1>4. ASSUME Joined(r) PROVE TypeOK'
  BY <1>4 DEF Joined, Goto, JobStep, Executing, Off, Callers, Requests, WorkerStates, RowsTypeOK, RuntimeTypeOK, ProcessTypeOK,
     rowVars, jobVars
<1>5. ASSUME Settle(r) PROVE TypeOK'
  BY <1>5 DEF Settle, Goto, JobStep, Executing, RunStatus, TERMINAL_RUN_STATUSES, Active, Callers, Requests, WorkerStates, RowsTypeOK, RuntimeTypeOK, ProcessTypeOK,
     rowVars, jobVars
<1>6. ASSUME Group(r) PROVE TypeOK'
  BY <1>6 DEF Group, Goto, JobStep, Executing, Callers, Requests, WorkerStates, RowsTypeOK, RuntimeTypeOK, ProcessTypeOK,
     rowVars, jobVars
<1>7. ASSUME Finish(r) PROVE TypeOK'
  BY <1>7 DEF Finish, Goto, JobStep, Executing, RunStatus, TERMINAL_RUN_STATUSES, Active, aggregate_status, Callers, Requests, WorkerStates, RowsTypeOK, RuntimeTypeOK, ProcessTypeOK,
     rowVars, jobVars
<1>8. ASSUME JobError(r) PROVE TypeOK'
  BY <1>8 DEF JobError, Goto, JobStep, Executing, Callers, Requests, WorkerStates, RowsTypeOK, RuntimeTypeOK, ProcessTypeOK,
     rowVars, jobVars
<1>9. ASSUME MarkFailed(r) PROVE TypeOK'
  BY <1>9 DEF MarkFailed, Goto, JobStep, Executing, RunStatus, TERMINAL_RUN_STATUSES, Active, Callers, Requests, WorkerStates, RowsTypeOK, RuntimeTypeOK, ProcessTypeOK,
     rowVars, jobVars
<1>10. ASSUME MarkFailedLocked(r) PROVE TypeOK'
  BY <1>10 DEF MarkFailedLocked, Goto, JobStep, Executing, Callers, Requests, WorkerStates, RowsTypeOK, RuntimeTypeOK, ProcessTypeOK,
     rowVars, jobVars
<1>11. ASSUME Release(r) PROVE TypeOK'
  BY <1>11 DEF Release, Goto, JobStep, Executing, Callers, Requests, WorkerStates, RowsTypeOK, RuntimeTypeOK, ProcessTypeOK,
     rowVars, jobVars
<1> QED
  BY <1>1, <1>2, <1>3, <1>4, <1>5, <1>6, <1>7, <1>8, <1>9, <1>10, <1>11 DEF Job

(* A worker keeps the types. *)
LEMMA WorkType ==
    ASSUME TypeOK, NEW w \in Workers, Work(w)
    PROVE  TypeOK'
<1> USE CollectionRunAssumption DEF TypeOK
<1>1. ASSUME NEW t \in Tasks, Take(w, t) PROVE TypeOK'
  <2>1. worker[w].run \in Runs
    BY <1>1 DEF Take, RuntimeTypeOK, WorkerStates, Off, Busy
  <2>2. RowsTypeOK'
    BY <1>1, <2>1 DEF Take, RowsTypeOK, rowVars
  <2>3. RuntimeTypeOK'
    BY <1>1, <2>1 DEF Take, RuntimeTypeOK, WorkerStates, Step, Busy
  <2>4. ProcessTypeOK'
    BY <1>1, <2>1 DEF Take, ProcessTypeOK, Requests, Callers
  <2> QED
    BY <2>2, <2>3, <2>4
<1>2. ASSUME Claim(w) PROVE TypeOK'
  BY <1>2 DEF Claim, Step, Busy, Off, SetTask, TaskStatus, Callers, Requests, WorkerStates, RowsTypeOK, RuntimeTypeOK, ProcessTypeOK,
     rowVars, jobVars
<1>3. ASSUME Swept(w) PROVE TypeOK'
  BY <1>3 DEF Swept, Step, Busy, Off, Callers, Requests, WorkerStates, RowsTypeOK, RuntimeTypeOK, ProcessTypeOK,
     rowVars, jobVars
<1>4. ASSUME Withdraw(w) PROVE TypeOK'
  BY <1>4 DEF Withdraw, Step, Busy, Off, SetTask, TaskStatus, Callers, Requests, WorkerStates, RowsTypeOK, RuntimeTypeOK, ProcessTypeOK,
     rowVars, jobVars
<1>5. ASSUME FailTask(w) PROVE TypeOK'
  <2>1. worker[w].run \in Runs /\ worker[w].task \in Tasks
    BY <1>5 DEF FailTask, RuntimeTypeOK, WorkerStates, Off, Busy
  <2>2. RowsTypeOK'
    BY <1>5, <2>1 DEF FailTask, RowsTypeOK, SetTask, TaskStatus
  <2>3. RuntimeTypeOK'
    BY <1>5, <2>1 DEF FailTask, RuntimeTypeOK, WorkerStates, Step, count_throttle
  <2>4. ProcessTypeOK'
    BY <1>5, <2>1 DEF FailTask, ProcessTypeOK, Requests, Callers
  <2> QED
    BY <2>2, <2>3, <2>4
<1>6. ASSUME FailTaskLocked(w) PROVE TypeOK'
  BY <1>6 DEF FailTaskLocked, Step, Busy, Off, Callers, Requests, WorkerStates, RowsTypeOK, RuntimeTypeOK, ProcessTypeOK,
     rowVars, jobVars
<1>7. ASSUME NEW s \in {"done", "skipped", "truncated"}, Complete(w, s) PROVE TypeOK'
  <2>1. worker[w].run \in Runs /\ worker[w].task \in Tasks
    BY <1>7 DEF Complete, RuntimeTypeOK, WorkerStates, Off, Busy
  <2>2. RowsTypeOK'
    BY <1>7, <2>1 DEF Complete, RowsTypeOK, SetTask, TaskStatus
  <2>3. RuntimeTypeOK'
    BY <1>7, <2>1 DEF Complete, RuntimeTypeOK, WorkerStates, Step, Busy
  <2>4. ProcessTypeOK'
    BY <1>7, <2>1 DEF Complete, ProcessTypeOK, Requests, Callers
  <2> QED
    BY <2>2, <2>3, <2>4
<1>8. ASSUME NEW kind \in {"error", "throttle"}, Raise(w, kind) PROVE TypeOK'
  BY <1>8 DEF Raise, Step, Busy, Off, Callers, Requests, WorkerStates, RowsTypeOK, RuntimeTypeOK, ProcessTypeOK,
     rowVars, jobVars
<1> QED
  BY <1>1, <1>2, <1>3, <1>4, <1>5, <1>6, <1>7, <1>8 DEF Work

(* Scans, shutdown, crash and start keep the types. *)
LEMMA ProcessType ==
    ASSUME TypeOK, Process
    PROVE  TypeOK'
<1> USE CollectionRunAssumption DEF TypeOK
<1>1. ASSUME TakeMarket PROVE TypeOK'
  BY <1>1 DEF TakeMarket, Callers, Requests, WorkerStates, RowsTypeOK, RuntimeTypeOK, ProcessTypeOK,
     rowVars, jobVars
<1>2. ASSUME LeaveMarket PROVE TypeOK'
  BY <1>2 DEF LeaveMarket, Callers, Requests, WorkerStates, RowsTypeOK, RuntimeTypeOK, ProcessTypeOK,
     rowVars, jobVars
<1>3. ASSUME Close PROVE TypeOK'
  BY <1>3 DEF Close, Idle, Callers, Requests, WorkerStates, RowsTypeOK, RuntimeTypeOK, ProcessTypeOK,
     rowVars, jobVars
<1>4. ASSUME Down PROVE TypeOK'
  BY <1>4 DEF Down, Forget, JobStep, Off, Idle, Callers, Requests, WorkerStates, RowsTypeOK, RuntimeTypeOK, ProcessTypeOK,
     rowVars, jobVars
<1>5. ASSUME Boot PROVE TypeOK'
  BY <1>5 DEF Boot, reconcile_interrupted, RunStatus, TaskStatus, Active, Callers, Requests, WorkerStates, RowsTypeOK, RuntimeTypeOK, ProcessTypeOK,
     rowVars, jobVars
<1>6. ASSUME BootLocked PROVE TypeOK'
  BY <1>6 DEF BootLocked, Callers, Requests, WorkerStates, RowsTypeOK, RuntimeTypeOK, ProcessTypeOK,
     rowVars, jobVars
<1>7. ASSUME NEW r \in Runs, Interrupt(r) PROVE TypeOK'
  BY <1>7 DEF Interrupt, Goto, JobStep, Executing, RunStatus, Callers, Requests, WorkerStates, RowsTypeOK, RuntimeTypeOK, ProcessTypeOK,
     rowVars, jobVars
<1> QED
  BY <1>1, <1>2, <1>3, <1>4, <1>5, <1>6, <1>7 DEF Process

(* Type correctness of the collection runtime.                              *)
THEOREM TypeCorrect == Spec => []TypeOK
<1>1. Init => TypeOK
  <2>1. Init => RowsTypeOK
    BY DEF RowsTypeOK, Init, NoTasks
  <2>2. Init => RuntimeTypeOK
    BY DEF RuntimeTypeOK, WorkerStates, Init, JobStep
  <2>3. Init => ProcessTypeOK
    <3>1. Init => req \in [Callers -> Requests]
      BY DEF Init, Requests
    <3>2. Init => faults \in 0..MaxFaults
      BY CollectionRunAssumption DEF Init
    <3> QED
      BY <3>1, <3>2 DEF Init, ProcessTypeOK
  <2> QED
    BY <2>1, <2>2, <2>3 DEF TypeOK
<1>2. TypeOK /\ [Next]_vars => TypeOK'
  <2> SUFFICES ASSUME TypeOK, [Next]_vars PROVE TypeOK'
    OBVIOUS
  <2>1. CASE Next
    BY <2>1, CallerType, JobType, WorkType, ProcessType DEF Next
  <2>2. CASE UNCHANGED vars
    BY <2>2 DEF vars, rowVars, jobVars, TypeOK, RowsTypeOK, RuntimeTypeOK, ProcessTypeOK
  <2> QED
    BY <2>1, <2>2
<1> QED
  BY <1>1, <1>2, PTL DEF Spec

------------------------------------------------------------------------------
(* launch_lock: one step for each action that moves a caller, a status or a *)
(* job; every other action leaves the four variables of LaunchInv alone.    *)

LEMMA LaunchFrame ==
    ASSUME LaunchInv, UNCHANGED <<req, status, job, proc>>
    PROVE  LaunchInv'
  BY DEF LaunchInv, Holds, NoActiveRun, ActiveRow, active_run_ids, OneActiveRow

(* A handler or the scheduler. *)
LEMMA CallerLaunch ==
    ASSUME TypeOK, LaunchInv, NEW c \in Callers, Launch(c) \/ Request(c) \/ Write(c)
    PROVE  LaunchInv'
<1>1. ASSUME StartRun(c) PROVE LaunchInv'
  BY <1>1 DEF StartRun, LaunchFree, Await, Idle, LaunchInv, Holds, NoActiveRun, ActiveRow, active_run_ids,
     OneActiveRow, TypeOK, ProcessTypeOK, RowsTypeOK, RuntimeTypeOK, Callers, rowVars, jobVars
<1>2. ASSUME ClearRuns(c) PROVE LaunchInv'
  BY <1>2 DEF ClearRuns, Await, Idle, LaunchInv, Holds, NoActiveRun, ActiveRow, active_run_ids,
     OneActiveRow, TypeOK, ProcessTypeOK, RowsTypeOK, RuntimeTypeOK, Callers, rowVars, jobVars
<1>3. ASSUME DecideStart(c) PROVE LaunchInv'
  BY <1>3 DEF DecideStart, Await, Idle, LaunchInv, Holds, NoActiveRun, ActiveRow, active_run_ids,
     OneActiveRow, TypeOK, ProcessTypeOK, RowsTypeOK, RuntimeTypeOK, Callers, rowVars, jobVars
<1>4. ASSUME NEW r \in Runs, ResumeRun(c, r) PROVE LaunchInv'
  BY <1>4 DEF ResumeRun, LaunchFree, Await, Idle, LaunchInv, Holds, NoActiveRun, ActiveRow, active_run_ids,
     OneActiveRow, TypeOK, ProcessTypeOK, RowsTypeOK, RuntimeTypeOK, Callers, rowVars, jobVars
<1>5. ASSUME NEW r \in Runs, CancelRun(c, r) PROVE LaunchInv'
  BY <1>5 DEF CancelRun, Await, Idle, LaunchInv, Holds, NoActiveRun, ActiveRow, active_run_ids,
     OneActiveRow, TypeOK, ProcessTypeOK, RowsTypeOK, RuntimeTypeOK, Callers, rowVars, jobVars
<1>6. ASSUME NEW r \in Runs, DeleteRun(c, r) PROVE LaunchInv'
  BY <1>6 DEF DeleteRun, Await, Idle, LaunchInv, Holds, NoActiveRun, ActiveRow, active_run_ids,
     OneActiveRow, TypeOK, ProcessTypeOK, RowsTypeOK, RuntimeTypeOK, Callers, rowVars, jobVars
<1>7. ASSUME NEW r \in Runs, DecideResume(c, r) PROVE LaunchInv'
  BY <1>7 DEF DecideResume, Await, Idle, LaunchInv, Holds, NoActiveRun, ActiveRow, active_run_ids,
     OneActiveRow, TypeOK, ProcessTypeOK, RowsTypeOK, RuntimeTypeOK, Callers, rowVars, jobVars
<1>8. ASSUME TakeLaunchLock(c) PROVE LaunchInv'
  BY <1>8, CollectionRunAssumption DEF TakeLaunchLock, Await, Idle, LaunchFree, LaunchInv, Holds, NoActiveRun, ActiveRow, active_run_ids,
     OneActiveRow, TypeOK, ProcessTypeOK, RowsTypeOK, RuntimeTypeOK, Callers, rowVars, jobVars
<1>9. ASSUME LaunchFails(c) PROVE LaunchInv'
  BY <1>9 DEF LaunchFails, Answer, Idle, LaunchInv, Holds, NoActiveRun, ActiveRow, active_run_ids,
     OneActiveRow, TypeOK, ProcessTypeOK, RowsTypeOK, RuntimeTypeOK, Callers, rowVars, jobVars
<1>10. ASSUME PrepareResume(c) PROVE LaunchInv'
  BY <1>10 DEF PrepareResume, Await, Idle, prepare_resume, StillClear, LaunchInv, Holds, NoActiveRun, ActiveRow, active_run_ids,
     OneActiveRow, TypeOK, ProcessTypeOK, RowsTypeOK, RuntimeTypeOK, Callers, rowVars, jobVars
<1>11. ASSUME RuntimeStart(c) PROVE LaunchInv'
  BY <1>11 DEF RuntimeStart, Answer, Idle, LaunchInv, Holds, NoActiveRun, ActiveRow, active_run_ids,
     OneActiveRow, TypeOK, ProcessTypeOK, RowsTypeOK, RuntimeTypeOK, Callers, rowVars, jobVars
<1>12. ASSUME NEW r \in Runs, CreateRun(c, r) PROVE LaunchInv'
  BY <1>12 DEF CreateRun, Await, Idle, StillClear, LaunchInv, Holds, NoActiveRun, ActiveRow, active_run_ids,
     OneActiveRow, TypeOK, ProcessTypeOK, RowsTypeOK, RuntimeTypeOK, Callers, rowVars, jobVars
<1>13. ASSUME CancelSignal(c) PROVE LaunchInv'
  <2>1. req' \in [Callers -> Requests] /\ ~Holds(c) /\ ~Holds(c)'
    BY <1>13, CallerType DEF CancelSignal, Holds, Answer, Await, Idle, Write, TypeOK,
       ProcessTypeOK
  <2>2. \A d \in Callers : d # c => req'[d] = req[d]
    BY <1>13 DEF CancelSignal, Answer, Await, TypeOK, ProcessTypeOK
  <2>3. UNCHANGED <<status, job, proc>> /\ proc = "up"
    BY <1>13 DEF CancelSignal, rowVars, LaunchInv, Idle
  <2> QED
    BY <2>1, <2>2, <2>3 DEF LaunchInv, Holds, NoActiveRun, ActiveRow, active_run_ids,
       OneActiveRow, Callers, TypeOK, ProcessTypeOK
<1>14. ASSUME CancelWrite(c) PROVE LaunchInv'
  <2>1. req' = [req EXCEPT ![c] = Idle] /\ req[c].pc = "write" /\ UNCHANGED <<job, proc>>
    BY <1>14 DEF CancelWrite, Answer, jobVars
  <2>2. \A d \in Callers : req'[d] = req[d] \/ req'[d].pc = "idle"
    BY <2>1 DEF Idle, TypeOK, ProcessTypeOK
  <2>3. \A r \in Runs : status'[r] \in Active => status[r] \in Active
    BY <1>14 DEF CancelWrite, Active, TypeOK, RowsTypeOK
  <2>4. proc = "up"
    BY <2>1 DEF LaunchInv, Idle
  <2> HIDE DEF Active
  <2> QED
    BY <2>1, <2>2, <2>3, <2>4 DEF LaunchInv, Holds, NoActiveRun, ActiveRow, active_run_ids,
       OneActiveRow, Callers
<1>15. ASSUME DeleteRows(c) PROVE LaunchInv'
  <2>1. req' = [req EXCEPT ![c] = Idle] /\ req[c].pc = "write" /\ UNCHANGED <<job, proc>>
    BY <1>15 DEF DeleteRows, Answer, jobVars
  <2>2. \A d \in Callers : req'[d] = req[d] \/ req'[d].pc = "idle"
    BY <2>1 DEF Idle, TypeOK, ProcessTypeOK
  <2>3. \A r \in Runs : status'[r] \in Active => status[r] \in Active
    BY <1>15 DEF DeleteRows, Active
  <2>4. proc = "up"
    BY <2>1 DEF LaunchInv, Idle
  <2> HIDE DEF Active
  <2> QED
    BY <2>1, <2>2, <2>3, <2>4 DEF LaunchInv, Holds, NoActiveRun, ActiveRow, active_run_ids,
       OneActiveRow, Callers
<1>16. CASE Launch(c)
  BY <1>8, <1>9, <1>10, <1>11, <1>12, <1>16 DEF Launch
<1>17. CASE Request(c)
  <2>1. CASE StartRun(c) \/ ClearRuns(c) \/ DecideStart(c)
    BY <1>1, <1>2, <1>3, <2>1
  <2>2. ASSUME NEW r \in Runs, \/ ResumeRun(c, r) \/ CancelRun(c, r)
                               \/ DeleteRun(c, r) \/ DecideResume(c, r)
        PROVE  LaunchInv'
    BY <1>4, <1>5, <1>6, <1>7, <2>2
  <2> QED
    BY <1>17, <2>1, <2>2 DEF Request
<1>18. CASE Write(c)
  BY <1>13, <1>14, <1>15, <1>18 DEF Write
<1> QED
  BY <1>16, <1>17, <1>18

(* A job. *)
LEMMA JobLaunch ==
    ASSUME TypeOK, LaunchInv, NEW r \in Runs, Job(r)
    PROVE  LaunchInv'
<1>1. ASSUME AcquireMarket(r) PROVE LaunchInv'
  BY <1>1 DEF AcquireMarket, Goto, Active, LaunchInv, Holds, NoActiveRun, ActiveRow, active_run_ids,
     OneActiveRow, TypeOK, ProcessTypeOK, RowsTypeOK, RuntimeTypeOK, Callers, rowVars, jobVars
<1>2. ASSUME Begin(r) PROVE LaunchInv'
  BY <1>2 DEF Begin, Goto, Active, LaunchInv, Holds, NoActiveRun, ActiveRow, active_run_ids,
     OneActiveRow, TypeOK, ProcessTypeOK, RowsTypeOK, RuntimeTypeOK, Callers, rowVars, jobVars
<1>3. ASSUME Prepare(r) PROVE LaunchInv'
  BY <1>3 DEF Prepare, Goto, Active, LaunchInv, Holds, NoActiveRun, ActiveRow, active_run_ids,
     OneActiveRow, TypeOK, ProcessTypeOK, RowsTypeOK, RuntimeTypeOK, Callers, rowVars, jobVars
<1>4. ASSUME Joined(r) PROVE LaunchInv'
  BY <1>4 DEF Joined, Goto, Active, LaunchInv, Holds, NoActiveRun, ActiveRow, active_run_ids,
     OneActiveRow, TypeOK, ProcessTypeOK, RowsTypeOK, RuntimeTypeOK, Callers, rowVars, jobVars
<1>5. ASSUME Settle(r) PROVE LaunchInv'
  <2>1. \E step \in {"release", "group"} : job' = [job EXCEPT ![r] = step]
    BY <1>5 DEF Settle, Goto
  <2>2. status' = status \/ status' = [status EXCEPT ![r] = "cancelled"]
    BY <1>5 DEF Settle
  <2>3. job[r] = "settle" /\ UNCHANGED <<req, proc>>
    BY <1>5 DEF Settle
  <2> QED
    BY <2>1, <2>2, <2>3 DEF LaunchInv, Holds, NoActiveRun, ActiveRow, active_run_ids,
       OneActiveRow, Active, TypeOK, RowsTypeOK, RuntimeTypeOK, Callers
<1>6. ASSUME Group(r) PROVE LaunchInv'
  BY <1>6 DEF Group, Goto, Active, LaunchInv, Holds, NoActiveRun, ActiveRow, active_run_ids,
     OneActiveRow, TypeOK, ProcessTypeOK, RowsTypeOK, RuntimeTypeOK, Callers, rowVars, jobVars
<1>7. ASSUME Finish(r) PROVE LaunchInv'
  BY <1>7 DEF Finish, Goto, Active, aggregate_status, LaunchInv, Holds, NoActiveRun, ActiveRow, active_run_ids,
     OneActiveRow, TypeOK, ProcessTypeOK, RowsTypeOK, RuntimeTypeOK, Callers, rowVars, jobVars
<1>8. ASSUME JobError(r) PROVE LaunchInv'
  BY <1>8 DEF JobError, Goto, Active, LaunchInv, Holds, NoActiveRun, ActiveRow, active_run_ids,
     OneActiveRow, TypeOK, ProcessTypeOK, RowsTypeOK, RuntimeTypeOK, Callers, rowVars, jobVars
<1>9. ASSUME MarkFailed(r) PROVE LaunchInv'
  BY <1>9 DEF MarkFailed, Goto, Active, LaunchInv, Holds, NoActiveRun, ActiveRow, active_run_ids,
     OneActiveRow, TypeOK, ProcessTypeOK, RowsTypeOK, RuntimeTypeOK, Callers, rowVars, jobVars
<1>10. ASSUME MarkFailedLocked(r) PROVE LaunchInv'
  BY <1>10 DEF MarkFailedLocked, Goto, Active, LaunchInv, Holds, NoActiveRun, ActiveRow, active_run_ids,
     OneActiveRow, TypeOK, ProcessTypeOK, RowsTypeOK, RuntimeTypeOK, Callers, rowVars, jobVars
<1>11. ASSUME Release(r) PROVE LaunchInv'
  BY <1>11 DEF Release, Goto, Active, LaunchInv, Holds, NoActiveRun, ActiveRow, active_run_ids,
     OneActiveRow, TypeOK, ProcessTypeOK, RowsTypeOK, RuntimeTypeOK, Callers, rowVars, jobVars
<1> QED
  BY <1>1, <1>2, <1>3, <1>4, <1>5, <1>6, <1>7, <1>8, <1>9, <1>10, <1>11 DEF Job

(* Scans, shutdown, crash and start. *)
LEMMA ProcessLaunch ==
    ASSUME TypeOK, LaunchInv, Process
    PROVE  LaunchInv'
<1>1. ASSUME Close PROVE LaunchInv'
  BY <1>1 DEF Close, Idle, LaunchInv, Holds, NoActiveRun, ActiveRow, active_run_ids,
     OneActiveRow, TypeOK, ProcessTypeOK, RowsTypeOK, RuntimeTypeOK, Callers, rowVars, jobVars
<1>2. ASSUME Down PROVE LaunchInv'
  BY <1>2 DEF Down, Forget, Idle, LaunchInv, Holds, NoActiveRun, ActiveRow, active_run_ids,
     OneActiveRow, TypeOK, ProcessTypeOK, RowsTypeOK, RuntimeTypeOK, Callers, rowVars, jobVars
<1>3. ASSUME Boot PROVE LaunchInv'
  BY <1>3 DEF Boot, reconcile_interrupted, Active, LaunchInv, Holds, NoActiveRun, ActiveRow, active_run_ids,
     OneActiveRow, TypeOK, ProcessTypeOK, RowsTypeOK, RuntimeTypeOK, Callers, rowVars, jobVars
<1>4. ASSUME BootLocked PROVE LaunchInv'
  BY <1>4 DEF BootLocked, LaunchInv, Holds, NoActiveRun, ActiveRow, active_run_ids,
     OneActiveRow, TypeOK, ProcessTypeOK, RowsTypeOK, RuntimeTypeOK, Callers, rowVars, jobVars
<1>5. ASSUME NEW r \in Runs, Interrupt(r) PROVE LaunchInv'
  BY <1>5 DEF Interrupt, Goto, Active, LaunchInv, Holds, NoActiveRun, ActiveRow, active_run_ids,
     OneActiveRow, TypeOK, ProcessTypeOK, RowsTypeOK, RuntimeTypeOK, Callers, rowVars, jobVars
<1>6. ASSUME TakeMarket PROVE LaunchInv'
  BY <1>6 DEF TakeMarket, LaunchInv, Holds, NoActiveRun, ActiveRow, active_run_ids,
     OneActiveRow, TypeOK, ProcessTypeOK, RowsTypeOK, RuntimeTypeOK, Callers, rowVars, jobVars
<1>7. ASSUME LeaveMarket PROVE LaunchInv'
  BY <1>7 DEF LeaveMarket, LaunchInv, Holds, NoActiveRun, ActiveRow, active_run_ids,
     OneActiveRow, TypeOK, ProcessTypeOK, RowsTypeOK, RuntimeTypeOK, Callers, rowVars, jobVars
<1> QED
  BY <1>1, <1>2, <1>3, <1>4, <1>5, <1>6, <1>7 DEF Process

LEMMA WorkLaunch ==
    ASSUME TypeOK, LaunchInv, NEW w \in Workers, Work(w)
    PROVE  LaunchInv'
  BY LaunchFrame DEF Work, Take, Claim, Swept, Withdraw, FailTask, FailTaskLocked,
     Complete, Raise, rowVars, jobVars

(* The collection runtime keeps launch_lock's promise.                      *)
LEMMA LaunchInvariant == Spec => []LaunchInv
<1>1. Init => LaunchInv
  BY DEF Init, LaunchInv, Holds, Idle, NoActiveRun, ActiveRow, active_run_ids,
     OneActiveRow, Active, Callers
<1>2. TypeOK /\ LaunchInv /\ [Next]_vars => LaunchInv'
  <2> SUFFICES ASSUME TypeOK, LaunchInv, [Next]_vars PROVE LaunchInv'
    OBVIOUS
  <2>1. CASE Next
    BY <2>1, CallerLaunch, JobLaunch, WorkLaunch, ProcessLaunch DEF Next
  <2>2. CASE UNCHANGED vars
    BY <2>2, LaunchFrame DEF vars, rowVars, jobVars
  <2> QED
    BY <2>1, <2>2
<1> QED
  BY <1>1, <1>2, TypeCorrect, PTL DEF Spec

(* Runs are started by several handlers and by the scheduler, yet one run   *)
(* at most is ever in the runtime.                                          *)
THEOREM OneJobAtATime == Spec => []AtMostOneJob
<1>1. LaunchInv => AtMostOneJob
  BY DEF LaunchInv, AtMostOneJob
<1> QED
  BY <1>1, LaunchInvariant, PTL

(* runtime.start is never called while a job is in the runtime.             *)
THEOREM StartNeverRefused == Spec => []LaunchFindsNoJob
<1>1. LaunchInv => LaunchFindsNoJob
  BY DEF LaunchInv, LaunchFindsNoJob
<1> QED
  BY <1>1, LaunchInvariant, PTL

(* Two rows are never pending or running together.                          *)
THEOREM OneRowActive == Spec => []OneActiveRow
<1>1. LaunchInv => OneActiveRow
  BY DEF LaunchInv
<1> QED
  BY <1>1, LaunchInvariant, PTL

------------------------------------------------------------------------------
(* No task is collected twice and a completed run has collected them all.   *)

LEMMA RequestRuns ==
    ASSUME TypeOK, NEW c \in Callers, req[c].op = "resume" \/ req[c].pc = "start"
    PROVE  req[c].run \in Runs
  BY DEF TypeOK, ProcessTypeOK, Requests, Idle

(* A row is completed by the last step of its job only. *)

LEMMA NotYetCompletedInvariant == Spec => []NotYetCompleted
<1>1. Init => NotYetCompleted
  BY DEF Init, NotYetCompleted, Idle, Callers
<1>2. TypeOK /\ LaunchInv /\ NotYetCompleted /\ [Next]_vars => NotYetCompleted'
  <2> SUFFICES ASSUME TypeOK, LaunchInv, NotYetCompleted, [Next]_vars PROVE NotYetCompleted'
    OBVIOUS
  <2> USE DEF NotYetCompleted
  <2>1. ASSUME UNCHANGED <<status, job, req>> PROVE NotYetCompleted'
    BY <2>1
  <2>2. ASSUME NEW c \in Callers, Launch(c) PROVE NotYetCompleted'
    <3>1. CASE TakeLaunchLock(c)
      BY <3>1 DEF TakeLaunchLock, Await, rowVars, jobVars, TypeOK, ProcessTypeOK
    <3>2. CASE LaunchFails(c)
      BY <3>2 DEF LaunchFails, Answer, Idle, rowVars, jobVars, TypeOK, ProcessTypeOK
    <3>3. CASE PrepareResume(c)
      <4>1. req[c].run \in Runs
        BY <3>3, RequestRuns DEF PrepareResume
      <4> QED
        BY <3>3, <4>1 DEF PrepareResume, prepare_resume, Await, jobVars, TypeOK, RowsTypeOK, ProcessTypeOK
    <3>4. CASE RuntimeStart(c)
      BY <3>4 DEF RuntimeStart, Answer, Idle, rowVars, TypeOK, RuntimeTypeOK, ProcessTypeOK
    <3>5. ASSUME NEW r \in Runs, CreateRun(c, r) PROVE NotYetCompleted'
      BY <3>5 DEF CreateRun, Await, jobVars, TypeOK, RowsTypeOK, ProcessTypeOK
    <3> QED
      BY <2>2, <3>1, <3>2, <3>3, <3>4, <3>5 DEF Launch
  <2>3. ASSUME NEW c \in Callers, Request(c) PROVE NotYetCompleted'
    <3>1. UNCHANGED <<status, job>>
      BY <2>3 DEF Request, StartRun, ClearRuns, DecideStart, ResumeRun, CancelRun, DeleteRun, DecideResume,
         rowVars, jobVars
    <3>2. \E op, r : \E pc \in {"discover", "write", "lock", "signal"} : Await(c, op, pc, r)
      BY <2>3 DEF Request, StartRun, ClearRuns, DecideStart, ResumeRun, CancelRun, DeleteRun, DecideResume
    <3> QED
      BY <3>1, <3>2 DEF Await, TypeOK, ProcessTypeOK
  <2>4. ASSUME NEW c \in Callers, Write(c) PROVE NotYetCompleted'
    <3>1. CASE CancelSignal(c)
      BY <3>1 DEF CancelSignal, Answer, Await, Idle, rowVars, TypeOK, ProcessTypeOK
    <3>2. CASE CancelWrite(c)
      <4>1. \A d \in Callers : req'[d].pc = "start" => req'[d] = req[d] /\ req[d].run \in Runs
        BY <3>2, RequestRuns DEF CancelWrite, Answer, Idle, TypeOK, ProcessTypeOK
      <4>2. \A r \in Runs : status'[r] \in {status[r], "cancelled"}
        BY <3>2 DEF CancelWrite, TypeOK, RowsTypeOK
      <4>3. job' = job
        BY <3>2 DEF CancelWrite, jobVars
      <4> QED
        BY <4>1, <4>2, <4>3
    <3>3. CASE DeleteRows(c)
      <4>1. \A d \in Callers : req'[d].pc = "start" => req'[d] = req[d] /\ req[d].run \in Runs
        BY <3>3, RequestRuns DEF DeleteRows, Answer, Idle, TypeOK, ProcessTypeOK
      <4>2. \A r \in Runs : status'[r] \in {status[r], "absent"}
        BY <3>3 DEF DeleteRows
      <4>3. job' = job
        BY <3>3 DEF DeleteRows, jobVars
      <4> QED
        BY <4>1, <4>2, <4>3
    <3> QED
      BY <2>4, <3>1, <3>2, <3>3 DEF Write
  <2>5. ASSUME NEW r \in Runs, Job(r) PROVE NotYetCompleted'
    <3>1. UNCHANGED req
      BY <2>5 DEF Job, AcquireMarket, Begin, Prepare, Joined, Settle, Group, Finish, JobError, MarkFailed,
         MarkFailedLocked, Release
    <3>2. job[r] # "none" /\ \A q \in Runs \ {r} : job'[q] = job[q] /\ status'[q] = status[q]
      BY <2>5 DEF Job, AcquireMarket, Begin, Prepare, Joined, Settle, Group, Finish, JobError, MarkFailed,
         MarkFailedLocked, Release, Goto, rowVars, TypeOK, RuntimeTypeOK, RowsTypeOK
    <3>3. job'[r] \in {"none", "release"} \/ status'[r] # "completed"
      BY <2>5 DEF Job, AcquireMarket, Begin, Prepare, Joined, Settle, Group, Finish, JobError, MarkFailed,
         MarkFailedLocked, Release, Goto, rowVars, TypeOK, RuntimeTypeOK, RowsTypeOK
    <3>4. \A c \in Callers : req[c].pc # "start"
      BY <3>2 DEF LaunchInv, active_run_ids
    <3> QED
      BY <3>1, <3>2, <3>3, <3>4
  <2>6. ASSUME NEW w \in Workers, Work(w) PROVE NotYetCompleted'
    BY <2>1, <2>6 DEF Work, Take, Claim, Swept, Withdraw, FailTask, FailTaskLocked, Complete, Raise, rowVars
  <2>7. CASE Process
    <3>1. CASE TakeMarket \/ LeaveMarket \/ BootLocked
      BY <2>1, <3>1 DEF TakeMarket, LeaveMarket, BootLocked, rowVars, jobVars
    <3>2. CASE Close \/ Down
      BY <3>2 DEF Close, Down, Forget, Idle, rowVars
    <3>3. CASE Boot
      BY <3>3 DEF Boot, reconcile_interrupted, jobVars, TypeOK, RowsTypeOK, ProcessTypeOK, LaunchInv, Idle
    <3>4. ASSUME NEW r \in Runs, Interrupt(r) PROVE NotYetCompleted'
      BY <3>4 DEF Interrupt, Goto, TypeOK, RuntimeTypeOK, RowsTypeOK, ProcessTypeOK, LaunchInv, Idle
    <3> QED
      BY <2>7, <3>1, <3>2, <3>3, <3>4 DEF Process
  <2>8. CASE UNCHANGED vars
    BY <2>1, <2>8 DEF vars, rowVars, jobVars
  <2> QED
    BY <2>2, <2>3, <2>4, <2>5, <2>6, <2>7, <2>8 DEF Next
<1> QED
  BY <1>1, <1>2, TypeCorrect, LaunchInvariant, PTL DEF Spec

------------------------------------------------------------------------------
(* Workers work for the run that fetches, or for the one a shutdown left.   *)

LEMMA WorkersHaveRunInvariant == Spec => []WorkersHaveRun
<1>1. Init => WorkersHaveRun
  BY DEF Init, WorkersHaveRun, Off
<1>2. TypeOK /\ LaunchInv /\ NotYetCompleted /\ WorkersHaveRun /\ [Next]_vars => WorkersHaveRun'
  <2> SUFFICES ASSUME TypeOK, LaunchInv, NotYetCompleted, WorkersHaveRun, [Next]_vars
               PROVE  WorkersHaveRun'
    OBVIOUS
  <2> USE DEF WorkersHaveRun
  <2>1. ASSUME UNCHANGED <<status, job, worker, proc>> PROVE WorkersHaveRun'
    BY <2>1 DEF active_run_ids
  <2>2. ASSUME NEW w \in Workers, worker[w].pc # "off" PROVE worker[w].run \in Runs
    BY <2>2 DEF TypeOK, RuntimeTypeOK, WorkerStates, Off
  <2>3. ASSUME NEW c \in Callers, Launch(c) \/ Request(c) \/ Write(c) PROVE WorkersHaveRun'
    <3>1. UNCHANGED <<worker, proc>>
      BY <2>3 DEF Launch, Request, Write, TakeLaunchLock, LaunchFails, PrepareResume, RuntimeStart,
         CreateRun, StartRun, ClearRuns, DecideStart, ResumeRun, CancelRun, DeleteRun, DecideResume,
         CancelSignal, CancelWrite, DeleteRows, jobVars
    <3>2. \A r \in Runs : status'[r] = "completed" => status[r] = "completed"
      <4>1. CASE PrepareResume(c)
        BY <4>1 DEF PrepareResume, prepare_resume, TypeOK, RowsTypeOK
      <4>2. CASE CancelWrite(c)
        BY <4>2 DEF CancelWrite, TypeOK, RowsTypeOK
      <4>3. CASE DeleteRows(c)
        BY <4>3 DEF DeleteRows
      <4>4. ASSUME NEW r \in Runs, CreateRun(c, r) PROVE \A q \in Runs : status'[q] = "completed" => status[q] = "completed"
        BY <4>4 DEF CreateRun, TypeOK, RowsTypeOK
      <4>5. CASE ~PrepareResume(c) /\ ~CancelWrite(c) /\ ~DeleteRows(c) /\ ~\E r \in Runs : CreateRun(c, r)
        BY <2>3, <4>5 DEF Launch, Request, Write, TakeLaunchLock, LaunchFails, RuntimeStart,
           StartRun, ClearRuns, DecideStart, ResumeRun, CancelRun, DeleteRun, DecideResume,
           CancelSignal, rowVars
      <4> QED
        BY <4>1, <4>2, <4>3, <4>4, <4>5
    <3>3. CASE RuntimeStart(c)
      <4>1. proc = "up" /\ active_run_ids = {}
        BY <3>3 DEF RuntimeStart, LaunchInv, Idle, TypeOK, ProcessTypeOK
      <4>2. \A w \in Workers : worker[w].pc = "off"
        BY <2>2, <4>1 DEF active_run_ids
      <4> QED
        BY <3>1, <4>2
    <3>4. CASE ~RuntimeStart(c)
      <4>1. UNCHANGED job
        BY <2>3, <3>4 DEF Launch, Request, Write, TakeLaunchLock, LaunchFails, PrepareResume,
           CreateRun, StartRun, ClearRuns, DecideStart, ResumeRun, CancelRun, DeleteRun, DecideResume,
           CancelSignal, CancelWrite, DeleteRows, jobVars
      <4> QED
        BY <2>2, <3>1, <3>2, <4>1 DEF active_run_ids
    <3> QED
      BY <3>3, <3>4
  <2>4. ASSUME NEW r \in Runs, Job(r) PROVE WorkersHaveRun'
    <3>1. active_run_ids = {r} /\ job[r] # "none"
      <4>1. job[r] # "none"
        BY <2>4 DEF Job, AcquireMarket, Begin, Prepare, Joined, Settle, Group, Finish, JobError, MarkFailed,
           MarkFailedLocked, Release
      <4> QED
        BY <4>1 DEF LaunchInv, active_run_ids
    <3>2. \A w \in Workers : worker[w].pc # "off" => worker[w].run = r /\ job[r] = "fetch"
      BY <2>2, <3>1 DEF active_run_ids
    <3>3. CASE Prepare(r)
      BY <3>3 DEF Prepare, NotYetCompleted, Goto, rowVars, TypeOK, RuntimeTypeOK
    <3>4. CASE Joined(r)
      BY <3>4 DEF Joined, Off
    <3>5. CASE ~Prepare(r) /\ ~Joined(r)
      <4>1. UNCHANGED worker /\ job[r] # "fetch"
        BY <2>4, <3>5 DEF Job, AcquireMarket, Begin, Settle, Group, Finish, JobError, MarkFailed,
           MarkFailedLocked, Release
      <4> QED
        BY <3>2, <4>1
    <3> QED
      BY <3>3, <3>4, <3>5
  <2>5. ASSUME NEW w \in Workers, Work(w) PROVE WorkersHaveRun'
    <3>1. UNCHANGED <<status, job, proc>>
      BY <2>5 DEF Work, Take, Claim, Swept, Withdraw, FailTask, FailTaskLocked, Complete, Raise, rowVars
    <3>2. \/ worker' = worker
          \/ worker[w].pc # "off" /\ \E pc, t : Step(w, pc, t)
      BY <2>5 DEF Work, Take, Claim, Swept, Withdraw, FailTask, FailTaskLocked, Complete, Raise
    <3>3. \A v \in Workers : worker'[v].pc # "off" => worker[v].pc # "off" /\ worker'[v].run = worker[v].run
      BY <3>2 DEF Step, TypeOK, RuntimeTypeOK
    <3> QED
      BY <3>1, <3>3 DEF active_run_ids
  <2>6. CASE Process
    <3>1. CASE TakeMarket \/ LeaveMarket
      BY <2>1, <3>1 DEF TakeMarket, LeaveMarket, rowVars, jobVars
    <3>2. CASE Close
      BY <3>2 DEF Close, rowVars
    <3>3. CASE Down
      BY <3>3 DEF Down, Forget, Off
    <3>4. CASE Boot \/ BootLocked
      <4>1. \A w \in Workers : worker'[w].pc = "off"
        BY <2>2, <3>4 DEF Boot, BootLocked, jobVars, LaunchInv, active_run_ids
      <4> QED
        BY <4>1
    <3>5. ASSUME NEW r \in Runs, Interrupt(r) PROVE WorkersHaveRun'
      <4>1. active_run_ids' = {}
        BY <3>5 DEF Interrupt, Goto, LaunchInv, active_run_ids, TypeOK, RuntimeTypeOK
      <4>2. \A q \in Runs : status'[q] = "completed" => status[q] = "completed"
        BY <3>5 DEF Interrupt, TypeOK, RowsTypeOK
      <4> QED
        BY <2>2, <3>5, <4>1, <4>2 DEF Interrupt
    <3> QED
      BY <2>6, <3>1, <3>2, <3>3, <3>4, <3>5 DEF Process
  <2>7. CASE UNCHANGED vars
    BY <2>1, <2>7 DEF vars, rowVars, jobVars
  <2> QED
    BY <2>3, <2>4, <2>5, <2>6, <2>7 DEF Next
<1> QED
  BY <1>1, <1>2, TypeCorrect, LaunchInvariant, NotYetCompletedInvariant, PTL DEF Spec

LEMMA NobodyWorks ==
    ASSUME TypeOK, WorkersHaveRun, active_run_ids = {}, proc # "closing"
    PROVE  \A w \in Workers : worker[w].pc = "off"
<1>1. \A w \in Workers : worker[w].pc # "off" => worker[w].run \in Runs
  BY DEF TypeOK, RuntimeTypeOK, WorkerStates, Off
<1> QED
  BY <1>1 DEF WorkersHaveRun, active_run_ids

(* Whoever is about to write a row finds nothing active and nobody at work. *)
LEMMA LaunchIsClear ==
    ASSUME TypeOK, LaunchInv, WorkersHaveRun, NEW c \in Callers, req[c].pc = "discover", StillClear(c)
    PROVE  /\ active_run_ids = {} /\ ~ActiveRow
           /\ \A w \in Workers : worker[w].pc = "off"
           /\ \A d \in Callers : req[d].pc # "start"
<1>1. NoActiveRun
  BY DEF StillClear, LaunchInv, Callers
<1>2. proc = "up"
  BY DEF LaunchInv, Idle, TypeOK, ProcessTypeOK
<1>3. \A d \in Callers : req[d].pc # "start"
  BY DEF LaunchInv, Holds
<1> QED
  BY <1>1, <1>2, <1>3, NobodyWorks DEF NoActiveRun

(* The run of a worker has been started. *)
LEMMA WorkerRun ==
    ASSUME TypeOK, LaunchInv, WorkersHaveRun, NEW w \in Workers, worker[w].pc # "off"
    PROVE  worker[w].run \in Runs /\ ~Unstarted(worker[w].run)
<1>1. worker[w].run \in Runs
  BY DEF TypeOK, RuntimeTypeOK, WorkerStates, Off
<1>2. job[worker[w].run] \in {"fetch", "none"}
  BY <1>1 DEF WorkersHaveRun, active_run_ids
<1>3. \A c \in Callers : req[c].pc # "start"
  <2>1. CASE job[worker[w].run] = "fetch"
    BY <1>1, <2>1 DEF LaunchInv, active_run_ids
  <2>2. CASE proc = "closing"
    BY <2>2 DEF LaunchInv, Idle
  <2> QED
    BY <2>1, <2>2 DEF WorkersHaveRun
<1> QED
  BY <1>1, <1>2, <1>3 DEF Unstarted

(* What a worker does to the rows: nothing, or one step of its own task.    *)
LEMMA WorkRows ==
    ASSUME TypeOK, NEW w \in Workers, Work(w)
    PROVE  /\ UNCHANGED <<status, job, req, proc>>
           /\ \A r \in Runs, t \in Tasks :
                 \/ task'[r][t] = task[r][t]
                 \/ /\ worker[w].pc \in Busy /\ worker[w].run = r /\ worker[w].task = t
                    /\ task'[r][t] \in TaskStatus
<1>1. UNCHANGED <<status, job, req, proc>>
  BY DEF Work, Take, Claim, Swept, Withdraw, FailTask, FailTaskLocked, Complete, Raise, rowVars
<1>2. \/ task' = task
      \/ worker[w].pc \in Busy /\ \E s \in TaskStatus : SetTask(worker[w].run, worker[w].task, s)
  BY DEF Work, Take, Claim, Swept, Withdraw, FailTask, FailTaskLocked, Complete, Raise, rowVars, Busy, TaskStatus
<1>3. CASE task' = task
  BY <1>1, <1>3
<1>4. ASSUME worker[w].pc \in Busy, NEW s \in TaskStatus, SetTask(worker[w].run, worker[w].task, s)
      PROVE  \A r \in Runs, t \in Tasks :
                 \/ task'[r][t] = task[r][t]
                 \/ worker[w].run = r /\ worker[w].task = t /\ task'[r][t] \in TaskStatus
  BY <1>4 DEF SetTask, TypeOK, RowsTypeOK
<1> QED
  BY <1>1, <1>2, <1>3, <1>4

------------------------------------------------------------------------------
(* A run has all its tasks, none of them running before its workers start.  *)

LEMMA TasksPlannedInvariant == Spec => []TasksPlanned
<1>1. Init => TasksPlanned
  BY DEF Init, TasksPlanned, Exists
<1>2. TypeOK /\ LaunchInv /\ WorkersHaveRun /\ TasksPlanned /\ [Next]_vars => TasksPlanned'
  <2> SUFFICES ASSUME TypeOK, LaunchInv, WorkersHaveRun, TasksPlanned, [Next]_vars
               PROVE  TasksPlanned'
    OBVIOUS
  <2>1. ASSUME UNCHANGED task, \A r \in Runs : Exists(r)' => Exists(r),
               \A r \in Runs : Unstarted(r)' => Unstarted(r)
        PROVE  TasksPlanned'
    BY <2>1 DEF TasksPlanned
  <2>2. ASSUME NEW c \in Callers, Launch(c) PROVE TasksPlanned'
    <3>1. CASE TakeLaunchLock(c)
      <4>1. \A r \in Runs : Unstarted(r)' => Unstarted(r)
        BY <3>1 DEF TakeLaunchLock, Await, Unstarted, jobVars, TypeOK, ProcessTypeOK
      <4> QED
        BY <2>1, <3>1, <4>1 DEF TakeLaunchLock, Exists, rowVars
    <3>2. CASE LaunchFails(c)
      <4>1. \A r \in Runs : Unstarted(r)' => Unstarted(r)
        BY <3>2 DEF LaunchFails, Answer, Idle, Unstarted, jobVars, TypeOK, ProcessTypeOK
      <4> QED
        BY <2>1, <3>2, <4>1 DEF LaunchFails, Exists, rowVars
    <3>3. CASE PrepareResume(c)
      <4> DEFINE r == req[c].run
      <4>1. r \in Runs /\ Exists(r)
        BY <3>3, RequestRuns DEF PrepareResume, Resumable, Exists
      <4>2. \A q \in Runs \ {r} : task'[q] = task[q] /\ (Exists(q)' <=> Exists(q))
        BY <3>3, <4>1 DEF PrepareResume, prepare_resume, Exists, TypeOK, RowsTypeOK
      <4>3. \A t \in Tasks : task'[r][t] \in {"pending"} \cup Settled
        <5>1. \A t \in Tasks : task[r][t] \in TaskStatus
          BY <4>1 DEF TasksPlanned, TypeOK, RowsTypeOK
        <5> QED
          BY <3>3, <4>1, <5>1 DEF PrepareResume, prepare_resume, Settled, TaskStatus, TypeOK, RowsTypeOK
      <4>4. \A q \in Runs \ {r} : ~Unstarted(q)'
        BY <3>3, LaunchIsClear DEF PrepareResume, Await, Unstarted, active_run_ids, jobVars, TypeOK, ProcessTypeOK
      <4> QED
        BY <4>1, <4>2, <4>3, <4>4 DEF TasksPlanned, Settled
    <3>4. CASE RuntimeStart(c)
      <4>1. \A r \in Runs : Unstarted(r)' => Unstarted(r)
        BY <3>4 DEF RuntimeStart, Answer, Idle, Unstarted, TypeOK, ProcessTypeOK, RuntimeTypeOK
      <4> QED
        BY <2>1, <3>4, <4>1 DEF RuntimeStart, Exists, rowVars
    <3>5. ASSUME NEW r \in Runs, CreateRun(c, r) PROVE TasksPlanned'
      <4>1. \A q \in Runs \ {r} : task'[q] = task[q] /\ (Exists(q)' <=> Exists(q))
        BY <3>5 DEF CreateRun, Exists, TypeOK, RowsTypeOK
      <4>2. \A t \in Tasks : task'[r][t] = "pending"
        BY <3>5 DEF CreateRun, TypeOK, RowsTypeOK
      <4>3. \A q \in Runs \ {r} : ~Unstarted(q)'
        BY <3>5, LaunchIsClear DEF CreateRun, Await, Unstarted, active_run_ids, jobVars, TypeOK, ProcessTypeOK
      <4> QED
        BY <4>1, <4>2, <4>3 DEF TasksPlanned
    <3> QED
      BY <2>2, <3>1, <3>2, <3>3, <3>4, <3>5 DEF Launch
  <2>3. ASSUME NEW c \in Callers, Request(c) PROVE TasksPlanned'
    <3>1. UNCHANGED <<status, task, job>>
      BY <2>3 DEF Request, StartRun, ClearRuns, DecideStart, ResumeRun, CancelRun, DeleteRun, DecideResume,
         rowVars, jobVars
    <3>2. \E op, r : \E pc \in {"discover", "write", "lock", "signal"} : Await(c, op, pc, r)
      BY <2>3 DEF Request, StartRun, ClearRuns, DecideStart, ResumeRun, CancelRun, DeleteRun, DecideResume
    <3>3. \A r \in Runs : Unstarted(r)' => Unstarted(r)
      BY <3>1, <3>2 DEF Await, Unstarted, TypeOK, ProcessTypeOK
    <3> QED
      BY <2>1, <3>1, <3>3 DEF Exists
  <2>4. ASSUME NEW c \in Callers, Write(c) PROVE TasksPlanned'
    <3>1. \A r \in Runs : Unstarted(r)' => Unstarted(r)
      <4>1. UNCHANGED job
        BY <2>4 DEF Write, CancelSignal, CancelWrite, DeleteRows, jobVars
      <4>2. \A d \in Callers : req'[d].pc = "start" => req'[d] = req[d]
        BY <2>4 DEF Write, CancelSignal, CancelWrite, DeleteRows, Answer, Await, Idle, TypeOK, ProcessTypeOK
      <4> QED
        BY <4>1, <4>2 DEF Unstarted
    <3>2. CASE CancelSignal(c)
      BY <2>1, <3>1, <3>2 DEF CancelSignal, Exists, rowVars
    <3>3. CASE CancelWrite(c)
      <4>1. \A r \in Runs : Exists(r)' => Exists(r)
        BY <3>3 DEF CancelWrite, Exists, TypeOK, RowsTypeOK
      <4> QED
        BY <2>1, <3>1, <3>3, <4>1 DEF CancelWrite
    <3>4. CASE DeleteRows(c)
      <4>1. \A r \in Runs : Exists(r)' => Exists(r) /\ task'[r] = task[r]
        BY <3>4 DEF DeleteRows, Exists
      <4> QED
        BY <3>1, <4>1 DEF TasksPlanned
    <3> QED
      BY <2>4, <3>2, <3>3, <3>4 DEF Write
  <2>5. ASSUME NEW r \in Runs, Job(r) PROVE TasksPlanned'
    <3>1. UNCHANGED <<task, req>>
      BY <2>5 DEF Job, AcquireMarket, Begin, Prepare, Joined, Settle, Group, Finish, JobError, MarkFailed,
         MarkFailedLocked, Release, rowVars
    <3>2. \A q \in Runs : Exists(q)' => Exists(q)
      BY <2>5 DEF Job, AcquireMarket, Begin, Prepare, Joined, Settle, Group, Finish, JobError, MarkFailed,
         MarkFailedLocked, Release, Exists, rowVars, TypeOK, RowsTypeOK
    <3>3. \A q \in Runs : job'[q] \in {"waiting", "begin", "prepare"} => job[q] \in {"waiting", "begin", "prepare"}
      BY <2>5 DEF Job, AcquireMarket, Begin, Prepare, Joined, Settle, Group, Finish, JobError, MarkFailed,
         MarkFailedLocked, Release, Goto, TypeOK, RuntimeTypeOK
    <3> QED
      BY <2>1, <3>1, <3>2, <3>3 DEF Unstarted
  <2>6. ASSUME NEW w \in Workers, Work(w) PROVE TasksPlanned'
    <3>1. /\ UNCHANGED <<status, job, req, proc>>
          /\ \A r \in Runs, t \in Tasks :
                \/ task'[r][t] = task[r][t]
                \/ worker[w].pc \in Busy /\ worker[w].run = r /\ task'[r][t] \in TaskStatus
      BY <2>6, WorkRows
    <3>2. \A r \in Runs : worker[w].pc \in Busy /\ worker[w].run = r => ~Unstarted(r)
      BY WorkerRun DEF Busy
    <3> QED
      BY <3>1, <3>2 DEF TasksPlanned, Exists, Unstarted, TaskStatus
  <2>7. CASE Process
    <3>1. CASE TakeMarket \/ LeaveMarket \/ BootLocked
      BY <2>1, <3>1 DEF TakeMarket, LeaveMarket, BootLocked, rowVars, jobVars, Exists, Unstarted
    <3>2. CASE Close \/ Down
      <4>1. \A r \in Runs : Unstarted(r)' => Unstarted(r)
        BY <3>2 DEF Close, Down, Forget, Idle, Unstarted
      <4> QED
        BY <2>1, <3>2, <4>1 DEF Close, Down, rowVars, Exists
    <3>3. CASE Boot
      <4>1. \A r \in Runs : ~Unstarted(r)'
        BY <3>3 DEF Boot, jobVars, Unstarted, LaunchInv, active_run_ids, Idle
      <4>2. \A r \in Runs, t \in Tasks : Exists(r)' => Exists(r) /\ task'[r][t] \in {task[r][t], "pending"}
        BY <3>3 DEF Boot, reconcile_interrupted, Exists, Active, TypeOK, RowsTypeOK
      <4> QED
        BY <4>1, <4>2 DEF TasksPlanned
    <3>4. ASSUME NEW r \in Runs, Interrupt(r) PROVE TasksPlanned'
      <4>1. \A q \in Runs : Exists(q)' => Exists(q)
        BY <3>4 DEF Interrupt, Exists, TypeOK, RowsTypeOK
      <4>2. \A q \in Runs : Unstarted(q)' => Unstarted(q)
        BY <3>4 DEF Interrupt, Goto, Unstarted, TypeOK, RuntimeTypeOK
      <4> QED
        BY <2>1, <3>4, <4>1, <4>2 DEF Interrupt
    <3> QED
      BY <2>7, <3>1, <3>2, <3>3, <3>4 DEF Process
  <2>8. CASE UNCHANGED vars
    BY <2>1, <2>8 DEF vars, rowVars, jobVars, Exists, Unstarted
  <2> QED
    BY <2>2, <2>3, <2>4, <2>5, <2>6, <2>7, <2>8 DEF Next
<1> QED
  BY <1>1, <1>2, TypeCorrect, LaunchInvariant, WorkersHaveRunInvariant, PTL DEF Spec

------------------------------------------------------------------------------
(* A task is in the queue or with one worker, never both.                   *)

LEMMA OwnersFrame ==
    ASSUME TypeOK, TasksHaveOneOwner, UNCHANGED <<worker, queue>>,
           \A r \in Runs : Exists(r)' => Exists(r) /\ task'[r] = task[r]
    PROVE  TasksHaveOneOwner'
<1>1. \A w \in Workers : worker[w].pc # "off" => worker[w].run \in Runs
  BY DEF TypeOK, RuntimeTypeOK, WorkerStates, Off
<1> QED
  BY <1>1 DEF TasksHaveOneOwner, NoTaskFetchedTwice, OnTask, Exists

LEMMA NobodyOwns ==
    ASSUME \A w \in Workers :
              /\ worker'[w].pc \notin Busy
              /\ worker'[w].pc # "off" =>
                    \A t \in queue'[worker'[w].run] : task'[worker'[w].run][t] = "pending"
    PROVE  TasksHaveOneOwner'
  BY DEF TasksHaveOneOwner, NoTaskFetchedTwice, OnTask

(* How a worker's coroutine moves: it takes a task from the queue, keeps    *)
(* the one it has, or gives it up.                                          *)
LEMMA WorkMoves ==
    ASSUME TypeOK, NEW w \in Workers, Work(w)
    PROVE  /\ worker[w].pc # "off" /\ worker[w].run \in Runs
           /\ \A v \in Workers \ {w} : worker'[v] = worker[v]
           /\ \A r \in Runs \ {worker[w].run} : queue'[r] = queue[r]
           /\ \/ /\ worker'[w].pc \notin Busy
                 /\ queue'[worker[w].run] \subseteq queue[worker[w].run]
              \/ /\ worker[w].pc = "get" /\ worker'[w].pc = "claim" /\ worker'[w].run = worker[w].run
                 /\ worker'[w].task \in queue[worker[w].run]
                 /\ queue'[worker[w].run] = queue[worker[w].run] \ {worker'[w].task}
                 /\ UNCHANGED task
              \/ /\ worker[w].pc \in Busy /\ worker'[w].pc \in Busy /\ worker'[w].run = worker[w].run
                 /\ worker'[w].task = worker[w].task /\ worker'[w].pc # "claim"
                 /\ worker'[w].pc = "work" => task'[worker[w].run][worker[w].task] = "running"
                 /\ worker'[w].pc = "sweep" => task'[worker[w].run][worker[w].task] \in Settled
                 /\ UNCHANGED queue
<1>1. worker[w].pc # "off"
  BY DEF Work, Take, Claim, Swept, Withdraw, FailTask, FailTaskLocked, Complete, Raise
<1>2. worker[w].run \in Runs
  BY <1>1 DEF TypeOK, RuntimeTypeOK, WorkerStates, Off
<1>3. worker \in [Workers -> WorkerStates] /\ queue \in [Runs -> SUBSET Tasks]
  BY DEF TypeOK, RuntimeTypeOK
<1>4. ASSUME NEW t \in Tasks, Take(w, t)
      PROVE  /\ t \in queue[worker[w].run] /\ worker[w].pc = "get" /\ UNCHANGED task
             /\ queue' = [queue EXCEPT ![worker[w].run] = @ \ {t}]
             /\ worker' = worker \/ Step(w, "claim", t)
  BY <1>4 DEF Take, rowVars
<1>5. CASE \E t \in Tasks : Take(w, t)
  BY <1>1, <1>2, <1>3, <1>4, <1>5 DEF Step, Busy
<1>6. ASSUME UNCHANGED queue, NEW pc, NEW t, Step(w, pc, t), pc \notin Busy
      PROVE  /\ \A v \in Workers \ {w} : worker'[v] = worker[v]
             /\ \A r \in Runs \ {worker[w].run} : queue'[r] = queue[r]
             /\ worker'[w].pc \notin Busy /\ queue'[worker[w].run] \subseteq queue[worker[w].run]
  BY <1>3, <1>6 DEF Step
<1>7. CASE Swept(w) \/ Withdraw(w) \/ FailTask(w) \/ FailTaskLocked(w)
  <2>1. UNCHANGED queue /\ \E pc \in {"get", "dead"} : Step(w, pc, NoTask)
    BY <1>7 DEF Swept, Withdraw, FailTask, FailTaskLocked
  <2> QED
    BY <1>1, <1>2, <1>6, <2>1 DEF Busy
<1>8. ASSUME UNCHANGED queue, worker[w].pc \in Busy, NEW pc \in Busy \ {"claim"}, Step(w, pc, worker[w].task),
             pc = "work" => task'[worker[w].run][worker[w].task] = "running",
             pc = "sweep" => task'[worker[w].run][worker[w].task] \in Settled
      PROVE  /\ \A v \in Workers \ {w} : worker'[v] = worker[v]
             /\ worker'[w].pc \in Busy \ {"claim"} /\ worker'[w].run = worker[w].run
             /\ worker'[w].task = worker[w].task
             /\ worker'[w].pc = "work" => task'[worker[w].run][worker[w].task] = "running"
             /\ worker'[w].pc = "sweep" => task'[worker[w].run][worker[w].task] \in Settled
  BY <1>3, <1>8 DEF Step
<1>9. CASE Claim(w)
  <2>1. UNCHANGED queue /\ worker[w].pc \in Busy
    BY <1>9 DEF Claim, Busy
  <2>2. \/ Step(w, "get", NoTask)
        \/ Step(w, "work", worker[w].task) /\ task'[worker[w].run][worker[w].task] = "running"
    <3>1. worker[w].task \in Tasks
      BY <1>3, <2>1 DEF WorkerStates, Off, Busy
    <3> QED
      BY <1>2, <1>9, <3>1 DEF Claim, SetTask, TypeOK, RowsTypeOK
  <2>3. CASE Step(w, "get", NoTask)
    BY <1>1, <1>2, <1>6, <2>1, <2>3 DEF Busy
  <2>4. CASE Step(w, "work", worker[w].task) /\ task'[worker[w].run][worker[w].task] = "running"
    BY <1>1, <1>2, <1>8, <2>1, <2>4 DEF Busy
  <2> QED
    BY <2>2, <2>3, <2>4
<1>10. ASSUME NEW s \in {"done", "skipped", "truncated"}, Complete(w, s)
       PROVE  \/ Step(w, "get", NoTask)
              \/ Step(w, "sweep", worker[w].task) /\ task'[worker[w].run][worker[w].task] \in Settled
  <2>1. worker[w].task \in Tasks
    BY <1>3, <1>10 DEF Complete, WorkerStates, Off, Busy
  <2> QED
    BY <1>2, <1>10, <2>1 DEF Complete, SetTask, Settled, TypeOK, RowsTypeOK
<1>11. CASE \E s \in {"done", "skipped", "truncated"} : Complete(w, s)
  <2>1. UNCHANGED queue /\ worker[w].pc \in Busy
    BY <1>11 DEF Complete, Busy
  <2>2. CASE Step(w, "get", NoTask)
    BY <1>1, <1>2, <1>6, <2>1, <2>2 DEF Busy
  <2>3. CASE Step(w, "sweep", worker[w].task) /\ task'[worker[w].run][worker[w].task] \in Settled
    BY <1>1, <1>2, <1>8, <2>1, <2>3 DEF Busy
  <2> QED
    BY <1>10, <1>11, <2>2, <2>3
<1>12. CASE \E kind \in {"error", "throttle"} : Raise(w, kind)
  <2>1. UNCHANGED queue /\ worker[w].pc \in Busy
    BY <1>12 DEF Raise, Busy
  <2>2. \E kind \in {"error", "throttle"} : Step(w, kind, worker[w].task)
    BY <1>12 DEF Raise
  <2> QED
    BY <1>1, <1>2, <1>8, <2>1, <2>2 DEF Busy
<1> QED
  BY <1>5, <1>7, <1>9, <1>11, <1>12 DEF Work

LEMMA WorkRuns ==
    ASSUME TypeOK, NEW w \in Workers, Work(w)
    PROVE  worker[w].pc # "off" /\ worker'[w].run = worker[w].run
<1>1. worker' = worker \/ \E pc, t : Step(w, pc, t)
  BY DEF Work, Take, Claim, Swept, Withdraw, FailTask, FailTaskLocked, Complete, Raise
<1> QED
  BY <1>1, WorkMoves DEF Step, TypeOK, RuntimeTypeOK

LEMMA WorkQueue ==
    ASSUME NEW w \in Workers, Work(w), worker[w].pc \in Busy
    PROVE  UNCHANGED queue
  BY DEF Work, Take, Claim, Swept, Withdraw, FailTask, FailTaskLocked, Complete, Raise, Busy

LEMMA OneOwnerInvariant == Spec => []TasksHaveOneOwner
<1>1. Init => TasksHaveOneOwner
  BY DEF Init, TasksHaveOneOwner, NoTaskFetchedTwice, OnTask, Off, Busy
<1>2. TypeOK /\ LaunchInv /\ WorkersHaveRun /\ TasksHaveOneOwner /\ [Next]_vars => TasksHaveOneOwner'
  <2> SUFFICES ASSUME TypeOK, LaunchInv, WorkersHaveRun, TasksHaveOneOwner, [Next]_vars
               PROVE  TasksHaveOneOwner'
    OBVIOUS
  <2>1. ASSUME NEW c \in Callers, Launch(c) \/ Request(c) \/ Write(c) PROVE TasksHaveOneOwner'
    <3>1. UNCHANGED <<worker, queue>>
      BY <2>1 DEF Launch, Request, Write, TakeLaunchLock, LaunchFails, PrepareResume, RuntimeStart,
         CreateRun, StartRun, ClearRuns, DecideStart, ResumeRun, CancelRun, DeleteRun, DecideResume,
         CancelSignal, CancelWrite, DeleteRows, jobVars
    <3>2. CASE PrepareResume(c) \/ \E r \in Runs : CreateRun(c, r)
      <4>1. (\A w \in Workers : worker[w].pc = "off") /\ active_run_ids = {} /\ job' = job
        BY <3>2, LaunchIsClear DEF PrepareResume, CreateRun, jobVars
      <4> QED
        BY <3>1, <4>1, NobodyOwns DEF Busy
    <3>3. CASE ~PrepareResume(c) /\ ~\E r \in Runs : CreateRun(c, r)
      <4>2. \A r \in Runs : Exists(r)' => Exists(r) /\ task'[r] = task[r]
        <5>1. CASE DeleteRows(c)
          BY <5>1 DEF DeleteRows, Exists
        <5>2. CASE CancelWrite(c)
          BY <5>2 DEF CancelWrite, Exists, TypeOK, RowsTypeOK
        <5>3. CASE ~DeleteRows(c) /\ ~CancelWrite(c)
          BY <2>1, <3>3, <5>3 DEF Launch, Request, Write, TakeLaunchLock, LaunchFails, RuntimeStart, StartRun,
             ClearRuns, DecideStart, ResumeRun, CancelRun, DeleteRun, DecideResume, CancelSignal, rowVars, Exists
        <5> QED
          BY <5>1, <5>2, <5>3
      <4> QED
        BY <3>1, <4>2, OwnersFrame
    <3> QED
      BY <3>2, <3>3
  <2>2. ASSUME NEW r \in Runs, Job(r) PROVE TasksHaveOneOwner'
    <3>1. CASE Prepare(r)
      <4>1. \A w \in Workers : worker'[w].pc \notin Busy /\ worker'[w].run = r
        BY <3>1 DEF Prepare, Busy
      <4>2. \A t \in queue'[r] : task'[r][t] = "pending"
        BY <3>1 DEF Prepare, rowVars, TypeOK, RuntimeTypeOK
      <4> QED
        BY <4>1, <4>2, NobodyOwns
    <3>2. CASE Joined(r)
      <4>1. \A w \in Workers : worker'[w].pc = "off"
        BY <3>2 DEF Joined, Off
      <4> QED
        BY <4>1, NobodyOwns DEF Busy
    <3>3. CASE ~Prepare(r) /\ ~Joined(r)
      <4>1. UNCHANGED <<worker, queue, task>>
        BY <2>2, <3>3 DEF Job, AcquireMarket, Begin, Settle, Group, Finish, JobError, MarkFailed,
           MarkFailedLocked, Release, rowVars
      <4>3. \A q \in Runs : Exists(q)' => Exists(q)
        BY <2>2, <3>3 DEF Job, AcquireMarket, Begin, Settle, Group, Finish, JobError, MarkFailed,
           MarkFailedLocked, Release, Exists, rowVars, TypeOK, RowsTypeOK
      <4> QED
        BY <4>1, <4>3, OwnersFrame
    <3> QED
      BY <3>1, <3>2, <3>3
  <2>3. ASSUME NEW w \in Workers, Work(w) PROVE TasksHaveOneOwner'
    <3> DEFINE r == worker[w].run
    <3>1. /\ r \in Runs /\ UNCHANGED <<status, job>>
          /\ \A q \in Runs, t \in Tasks :
                task'[q][t] = task[q][t] \/ (worker[w].pc \in Busy /\ r = q /\ worker[w].task = t)
      BY <2>3, WorkMoves, WorkRows
    <3>2. \A q \in Runs : queue'[q] \subseteq queue[q] /\ queue[q] \subseteq Tasks
      BY <2>3, WorkMoves DEF TypeOK, RuntimeTypeOK
    <3>3. \A v \in Workers \ {w} : worker'[v] = worker[v]
      BY <2>3, WorkMoves
    <3>4. \A q \in Runs : \A t \in queue'[q] : task'[q][t] = task[q][t]
      BY <3>1, <3>2 DEF TasksHaveOneOwner, OnTask
    <3>5. \A v \in Workers : worker'[v].pc # "off" /\ status'[worker'[v].run] # "absent" =>
             \A t \in queue'[worker'[v].run] : task'[worker'[v].run][t] = "pending"
      <4>1. \A v \in Workers : worker'[v].pc # "off" =>
               worker[v].pc # "off" /\ worker'[v].run = worker[v].run /\ worker[v].run \in Runs
        BY <2>3, <3>3, WorkRuns DEF TypeOK, RuntimeTypeOK, WorkerStates, Off
      <4> SUFFICES ASSUME NEW v \in Workers, worker'[v].pc # "off", status'[worker'[v].run] # "absent",
                          NEW t \in queue'[worker'[v].run]
                   PROVE  task'[worker'[v].run][t] = "pending"
        OBVIOUS
      <4> DEFINE q == worker[v].run
      <4>2. worker[v].pc # "off" /\ worker'[v].run = q /\ q \in Runs /\ Exists(q)
        BY <3>1, <4>1 DEF Exists
      <4>3. t \in queue[q] /\ task'[q][t] = task[q][t]
        BY <3>2, <3>4, <4>2
      <4> QED
        BY <4>2, <4>3 DEF TasksHaveOneOwner
    <3>6. \A v \in Workers \ {w}, q \in Runs, t \in Tasks : OnTask(v, q, t)' =>
             OnTask(v, q, t) /\ t \notin queue'[q] /\ task'[q][t] = task[q][t]
      BY <3>1, <3>2, <3>3 DEF TasksHaveOneOwner, NoTaskFetchedTwice, OnTask
    <3>7. ASSUME NEW v \in Workers, NEW q \in Runs, NEW t \in Tasks, OnTask(v, q, t)'
          PROVE  /\ t \notin queue'[q]
                 /\ \A x \in Workers \ {v} : ~OnTask(x, q, t)'
                 /\ Exists(q)' => /\ worker'[v].pc = "claim" => task'[q][t] = "pending"
                                  /\ worker'[v].pc = "work" => task'[q][t] = "running"
                                  /\ worker'[v].pc = "sweep" => task'[q][t] \in Settled
      <4>1. CASE v = w
        <5>1. worker'[w].pc \in Busy /\ worker'[w].run = r /\ worker'[w].task = t /\ q = r
          BY <2>3, <3>7, <4>1, WorkRuns DEF OnTask
        <5>2. t \notin queue'[r]
          BY <2>3, <5>1, WorkMoves DEF TasksHaveOneOwner, OnTask
        <5>3. \A x \in Workers \ {w} : ~OnTask(x, r, t)
          BY <2>3, <5>1, WorkMoves DEF TasksHaveOneOwner, NoTaskFetchedTwice, OnTask
        <5>4. \A x \in Workers \ {w} : ~OnTask(x, r, t)'
          BY <3>3, <5>1, <5>3 DEF OnTask
        <5>5. worker'[w].pc = "claim" /\ Exists(r) => task'[r][t] = "pending"
          BY <2>3, <5>1, WorkMoves DEF TasksHaveOneOwner
        <5>6. /\ worker'[w].pc = "work" => task'[r][t] = "running"
              /\ worker'[w].pc = "sweep" => task'[r][t] \in Settled
          BY <2>3, <5>1, WorkMoves DEF Busy
        <5> QED
          BY <3>1, <4>1, <5>1, <5>2, <5>4, <5>5, <5>6 DEF Exists
      <4>2. CASE v # w
        <5>1. OnTask(v, q, t) /\ t \notin queue'[q] /\ task'[q][t] = task[q][t]
          BY <3>6, <3>7, <4>2
        <5>2. \A x \in Workers \ {v, w} : ~OnTask(x, q, t)'
          BY <3>3, <5>1 DEF TasksHaveOneOwner, NoTaskFetchedTwice, OnTask
        <5>3. ~OnTask(w, q, t)'
          BY <2>3, <4>2, <5>1, WorkMoves, WorkRuns DEF TasksHaveOneOwner, NoTaskFetchedTwice, OnTask
        <5>4. Exists(q)' => /\ worker'[v].pc = "claim" => task'[q][t] = "pending"
                            /\ worker'[v].pc = "work" => task'[q][t] = "running"
                            /\ worker'[v].pc = "sweep" => task'[q][t] \in Settled
          BY <3>1, <3>3, <4>2, <5>1 DEF TasksHaveOneOwner, Exists
        <5> QED
          BY <5>1, <5>2, <5>3, <5>4
      <4> QED
        BY <4>1, <4>2
    <3>8. \A v \in Workers : worker'[v].pc \in Busy => worker'[v].run \in Runs /\ worker'[v].task \in Tasks
      BY <2>3, WorkType DEF TypeOK, RuntimeTypeOK, WorkerStates, Off, Busy
    <3>9. NoTaskFetchedTwice'
      BY <3>7, <3>8 DEF NoTaskFetchedTwice, OnTask
    <3>10. \A v \in Workers, q \in Runs : \A t \in queue'[q] : ~OnTask(v, q, t)'
      BY <3>2, <3>7
    <3> QED
      BY <3>5, <3>7, <3>9, <3>10 DEF TasksHaveOneOwner, Exists
  <2>4. CASE Process
    <3>1. CASE TakeMarket \/ LeaveMarket \/ Close \/ BootLocked
      BY <3>1, OwnersFrame DEF TakeMarket, LeaveMarket, Close, BootLocked, rowVars, jobVars, Exists
    <3>2. CASE Down
      BY <3>2, NobodyOwns DEF Down, Forget, Off, Busy
    <3>3. CASE Boot
      <4>1. active_run_ids = {} /\ UNCHANGED <<job, worker>>
        BY <3>3 DEF Boot, jobVars, LaunchInv
      <4>2. \A w \in Workers : worker[w].pc = "off"
        BY <3>3, <4>1, NobodyWorks DEF Boot
      <4> QED
        BY <4>1, <4>2, NobodyOwns DEF Busy
    <3>4. ASSUME NEW r \in Runs, Interrupt(r) PROVE TasksHaveOneOwner'
      <4>1. \A q \in Runs : Exists(q)' => Exists(q)
        BY <3>4 DEF Interrupt, Exists, TypeOK, RowsTypeOK
      <4> QED
        BY <3>4, <4>1, OwnersFrame DEF Interrupt
    <3> QED
      BY <2>4, <3>1, <3>2, <3>3, <3>4 DEF Process
  <2>5. CASE UNCHANGED vars
    BY <2>5, OwnersFrame DEF vars, rowVars, jobVars, Exists
  <2> QED
    BY <2>1, <2>2, <2>3, <2>4, <2>5 DEF Next
<1> QED
  BY <1>1, <1>2, TypeCorrect, LaunchInvariant, WorkersHaveRunInvariant, PTL DEF Spec

(* No task is ever with two workers, also across resumes and shutdowns.     *)
THEOREM TaskFetchedOnce == Spec => []NoTaskFetchedTwice
<1>1. TasksHaveOneOwner => NoTaskFetchedTwice
  BY DEF TasksHaveOneOwner
<1> QED
  BY <1>1, OneOwnerInvariant, PTL

------------------------------------------------------------------------------
(* No task of a run is lost between the queue, the workers and the row.     *)

Working == {"fetch", "settle", "group", "finish"}

LEMMA LostFrame ==
    ASSUME TypeOK, NoTaskLost, UNCHANGED <<worker, queue, throttled>>,
           faults' = 0 => faults = 0,
           \A r \in Runs : job'[r] \in Working => job'[r] = job[r] /\ (cancelled[r] => cancelled'[r]),
           \A r \in Runs : Exists(r)' => Exists(r) /\ task'[r] = task[r]
    PROVE  NoTaskLost'
<1>1. cancelled \in [Runs -> BOOLEAN] /\ throttled \in [Runs -> BOOLEAN]
  BY DEF TypeOK, RuntimeTypeOK
<1> QED
  BY <1>1 DEF NoTaskLost, OnTask, Working

LEMMA NothingToLose ==
    ASSUME \A r \in Runs : job'[r] \notin Working
    PROVE  NoTaskLost'
  BY DEF NoTaskLost, Working

LEMMA NoTaskLostInvariant == Spec => []NoTaskLost
<1>1. Init => NoTaskLost
  BY DEF Init, NoTaskLost, Exists
<1>2. /\ TypeOK /\ LaunchInv /\ WorkersHaveRun /\ TasksPlanned /\ TasksHaveOneOwner
      /\ NoTaskLost /\ [Next]_vars
      => NoTaskLost'
  <2> SUFFICES ASSUME TypeOK, LaunchInv, WorkersHaveRun, TasksPlanned, TasksHaveOneOwner, NoTaskLost, [Next]_vars
               PROVE  NoTaskLost'
    OBVIOUS
  <2>1. ASSUME NEW c \in Callers, Launch(c) \/ Request(c) \/ Write(c) PROVE NoTaskLost'
    <3>1. UNCHANGED <<worker, queue, throttled, faults>>
      BY <2>1 DEF Launch, Request, Write, TakeLaunchLock, LaunchFails, PrepareResume, RuntimeStart,
         CreateRun, StartRun, ClearRuns, DecideStart, ResumeRun, CancelRun, DeleteRun, DecideResume,
         CancelSignal, CancelWrite, DeleteRows, jobVars
    <3>2. CASE PrepareResume(c) \/ \E r \in Runs : CreateRun(c, r)
      <4>1. active_run_ids = {} /\ job' = job
        BY <3>2, LaunchIsClear DEF PrepareResume, CreateRun, jobVars
      <4> QED
        BY <4>1, NothingToLose DEF Working, active_run_ids
    <3>3. CASE RuntimeStart(c)
      <4>1. active_run_ids = {}
        BY <3>3 DEF RuntimeStart, LaunchInv
      <4> QED
        BY <3>3, <4>1, NothingToLose DEF RuntimeStart, Working, active_run_ids, TypeOK, RuntimeTypeOK
    <3>4. CASE ~PrepareResume(c) /\ ~RuntimeStart(c) /\ ~\E r \in Runs : CreateRun(c, r)
      <4>1. UNCHANGED job
        BY <2>1, <3>4 DEF Launch, Request, Write, TakeLaunchLock, LaunchFails, StartRun, ClearRuns,
           DecideStart, ResumeRun, CancelRun, DeleteRun, DecideResume, CancelSignal, CancelWrite,
           DeleteRows, jobVars
      <4>2. \A r \in Runs : cancelled[r] => cancelled'[r]
        <5>1. CASE CancelSignal(c)
          BY <5>1 DEF CancelSignal, TypeOK, RuntimeTypeOK
        <5>2. CASE ~CancelSignal(c)
          BY <2>1, <3>4, <5>2 DEF Launch, Request, Write, TakeLaunchLock, LaunchFails, StartRun, ClearRuns,
             DecideStart, ResumeRun, CancelRun, DeleteRun, DecideResume, CancelWrite, DeleteRows, jobVars
        <5> QED
          BY <5>1, <5>2
      <4>3. \A r \in Runs : Exists(r)' => Exists(r) /\ task'[r] = task[r]
        <5>1. CASE DeleteRows(c)
          BY <5>1 DEF DeleteRows, Exists
        <5>2. CASE CancelWrite(c)
          BY <5>2 DEF CancelWrite, Exists, TypeOK, RowsTypeOK
        <5>3. CASE ~DeleteRows(c) /\ ~CancelWrite(c)
          BY <2>1, <3>4, <5>3 DEF Launch, Request, Write, TakeLaunchLock, LaunchFails, StartRun,
             ClearRuns, DecideStart, ResumeRun, CancelRun, DeleteRun, DecideResume, CancelSignal, rowVars, Exists
        <5> QED
          BY <5>1, <5>2, <5>3
      <4> QED
        BY <3>1, <4>1, <4>2, <4>3, LostFrame
    <3> QED
      BY <3>2, <3>3, <3>4
  <2>2. ASSUME NEW r \in Runs, Job(r) PROVE NoTaskLost'
    <3>1. active_run_ids = {r} /\ job[r] # "none"
      <4>1. job[r] # "none"
        BY <2>2 DEF Job, AcquireMarket, Begin, Prepare, Joined, Settle, Group, Finish, JobError, MarkFailed,
           MarkFailedLocked, Release
      <4> QED
        BY <4>1 DEF LaunchInv, active_run_ids
    <3>2. \A q \in Runs \ {r} : job'[q] = "none"
      BY <2>2, <3>1 DEF Job, AcquireMarket, Begin, Prepare, Joined, Settle, Group, Finish, JobError, MarkFailed,
         MarkFailedLocked, Release, Goto, active_run_ids, TypeOK, RuntimeTypeOK
    <3>3. UNCHANGED task /\ (faults' = 0 => faults = 0) /\ (Exists(r)' => Exists(r))
      BY <2>2, CollectionRunAssumption DEF Job, AcquireMarket, Begin, Prepare, Joined, Settle, Group, Finish, JobError, MarkFailed,
         MarkFailedLocked, Release, Exists, rowVars, TypeOK, RowsTypeOK, ProcessTypeOK
    <3>4. CASE Prepare(r)
      <4>1. job'[r] = "fetch" /\ queue'[r] = {t \in Tasks : task[r][t] = "pending"}
        BY <3>4 DEF Prepare, Goto, TypeOK, RuntimeTypeOK
      <4>2. Exists(r) => \A t \in Tasks : task[r][t] \in {"pending"} \cup Settled
        BY <3>4 DEF TasksPlanned, Unstarted, Prepare
      <4> QED
        BY <3>2, <3>3, <4>1, <4>2 DEF NoTaskLost
    <3>5. CASE Joined(r)
      <4>1. job[r] = "fetch" /\ job'[r] = "settle" /\ UNCHANGED <<cancelled, throttled>>
        BY <3>5 DEF Joined, Goto, TypeOK, RuntimeTypeOK
      <4>2. queue[r] = {} /\ \A w \in Workers, t \in Tasks : ~OnTask(w, r, t)
        BY <3>5 DEF Joined, OnTask
      <4>3. cancelled'[r] = cancelled[r]
        BY <4>1
      <4> QED
        BY <3>2, <3>3, <4>1, <4>2, <4>3 DEF NoTaskLost
    <3>6. CASE Settle(r)
      <4>1. job[r] = "settle" /\ cancelled' = cancelled /\ throttled' = throttled
        BY <3>6 DEF Settle
      <4>2. job'[r] = "release" \/ (job'[r] = "group" /\ (~cancelled[r] \/ throttled[r]))
        BY <3>6 DEF Settle, Goto, TypeOK, RuntimeTypeOK
      <4>3. cancelled[r] \in BOOLEAN /\ throttled[r] \in BOOLEAN
        BY DEF TypeOK, RuntimeTypeOK
      <4> QED
        BY <3>2, <3>3, <4>1, <4>2, <4>3 DEF NoTaskLost
    <3>7. CASE Group(r)
      <4>1. job[r] = "group" /\ job'[r] = "finish" /\ throttled' = throttled
        BY <3>7 DEF Group, Goto, TypeOK, RuntimeTypeOK
      <4> QED
        BY <3>2, <3>3, <4>1 DEF NoTaskLost
    <3>8. CASE ~Prepare(r) /\ ~Joined(r) /\ ~Settle(r) /\ ~Group(r)
      <4>1. job'[r] \notin Working
        BY <2>2, <3>8 DEF Job, AcquireMarket, Begin, Finish, JobError, MarkFailed,
           MarkFailedLocked, Release, Goto, Working, TypeOK, RuntimeTypeOK
      <4> QED
        BY <3>2, <4>1, NothingToLose DEF Working
    <3> QED
      BY <3>4, <3>5, <3>6, <3>7, <3>8
  <2>3. ASSUME NEW w \in Workers, Work(w) PROVE NoTaskLost'
    <3> DEFINE r == worker[w].run
    <3>1. /\ r \in Runs /\ UNCHANGED <<status, job>>
          /\ \A q \in Runs, t \in Tasks :
                task'[q][t] = task[q][t] \/ (worker[w].pc \in Busy /\ r = q /\ worker[w].task = t)
      BY <2>3, WorkMoves, WorkRows
    <3>2. \A q \in Runs \ {r} : job'[q] \notin Working
      <4>1. active_run_ids \subseteq {r}
        BY <2>3, <3>1, WorkMoves DEF WorkersHaveRun, LaunchInv, active_run_ids
      <4> QED
        BY <3>1, <4>1 DEF active_run_ids, Working
    <3>3. job[r] \in Working => job[r] = "fetch"
      BY <2>3, <3>1, WorkMoves DEF WorkersHaveRun, active_run_ids, Working
    <3>4. faults \in Nat /\ (faults' = 0 => faults = 0 /\ ~FailTaskLocked(w))
      BY <2>3, CollectionRunAssumption DEF Work, Take, Claim, Swept, Withdraw, FailTask, FailTaskLocked, Complete, Raise,
         TypeOK, ProcessTypeOK
    <3>5. cancelled[r] => cancelled'[r]
      <4>1. cancelled' = cancelled \/ FailTask(w)
        BY <2>3 DEF Work, Take, Claim, Swept, Withdraw, FailTaskLocked, Complete, Raise
      <4>2. CASE FailTask(w)
        BY <3>1, <4>2 DEF FailTask, count_throttle, TypeOK, RuntimeTypeOK
      <4> QED
        BY <4>1, <4>2
    <3>6. ASSUME faults' = 0, Exists(r), job[r] = "fetch", ~cancelled'[r], NEW t \in Tasks
          PROVE  task'[r][t] \in Settled \/ t \in queue'[r] \/ \E v \in Workers : OnTask(v, r, t)'
      <4>1. task[r][t] \in Settled \/ t \in queue[r] \/ \E v \in Workers : OnTask(v, r, t)
        BY <3>1, <3>4, <3>5, <3>6 DEF NoTaskLost
      <4>2. r' = r
        BY <2>3, WorkRuns
      <4>3. \A v \in Workers \ {w} : OnTask(v, r, t) => OnTask(v, r, t)'
        BY <2>3, <4>2, WorkMoves DEF OnTask
      <4>4. ASSUME worker[w].pc \in Busy, worker[w].task = t
            PROVE  task'[r][t] \in Settled \/ OnTask(w, r, t)'
        <5>1. CASE Claim(w)
          <6>1. task[r][t] = "pending"
            BY <3>1, <3>6, <4>4, <5>1 DEF Claim, TasksHaveOneOwner, OnTask, Exists
          <6> QED
            BY <4>2, <4>4, <5>1, <6>1 DEF Claim, Step, OnTask, Busy, TypeOK, RuntimeTypeOK
        <5>2. CASE Withdraw(w)
          BY <3>5, <3>6, <5>2 DEF Withdraw
        <5>3. CASE FailTask(w)
          BY <3>1, <3>6, <4>4, <5>3 DEF FailTask, SetTask, Settled, TypeOK, RowsTypeOK
        <5>4. CASE Swept(w)
          <6>1. task[r][t] \in Settled
            BY <3>1, <3>6, <4>4, <5>4 DEF Swept, TasksHaveOneOwner, OnTask, Exists
          <6> QED
            BY <5>4, <6>1 DEF Swept, rowVars
        <5>5. ASSUME NEW s \in {"done", "skipped", "truncated"}, Complete(w, s) PROVE task'[r][t] \in Settled
          BY <3>1, <3>6, <4>4, <5>5 DEF Complete, SetTask, Settled, TypeOK, RowsTypeOK
        <5>6. ASSUME NEW kind \in {"error", "throttle"}, Raise(w, kind) PROVE OnTask(w, r, t)'
          BY <4>2, <4>4, <5>6 DEF Raise, Step, OnTask, Busy, TypeOK, RuntimeTypeOK
        <5>7. ~\E u \in Tasks : Take(w, u)
          BY <4>4 DEF Take, Busy
        <5> QED
          BY <2>3, <3>4, <3>6, <5>1, <5>2, <5>3, <5>4, <5>5, <5>6, <5>7 DEF Work
      <4>5. CASE task[r][t] \in Settled
        BY <3>1, <4>4, <4>5
      <4>6. CASE t \in queue[r]
        <5>1. CASE worker[w].pc \in Busy
          BY <2>3, <4>6, <5>1, WorkQueue
        <5>2. CASE worker[w].pc \notin Busy
          <6>1. PICK u \in Tasks : Take(w, u)
            BY <2>3, <3>4, <3>6, <5>2 DEF Work, Claim, Swept, Withdraw, FailTask, Complete, Raise, Busy
          <6>2. ~cancelled[r]
            BY <3>5, <3>6
          <6> QED
            BY <3>1, <4>2, <4>6, <6>1, <6>2 DEF Take, Step, OnTask, Busy, TypeOK, RuntimeTypeOK
        <5> QED
          BY <5>1, <5>2
      <4> QED
        BY <4>1, <4>3, <4>4, <4>5, <4>6 DEF OnTask
    <3>7. r' = r
      BY <2>3, WorkRuns
    <3>8. ASSUME faults' = 0, NEW q \in Runs, Exists(q)', NEW t \in Tasks, job'[q] \in Working
          PROVE  /\ job'[q] = "fetch"
                 /\ ~cancelled'[q] => \/ task'[q][t] \in Settled
                                      \/ t \in queue'[q]
                                      \/ \E v \in Workers : OnTask(v, q, t)'
      BY <3>1, <3>2, <3>3, <3>6, <3>7, <3>8 DEF Exists, OnTask
    <3> QED
      BY <3>8 DEF NoTaskLost, Working
  <2>4. CASE Process
    <3>1. CASE TakeMarket \/ LeaveMarket
      BY <3>1, LostFrame DEF TakeMarket, LeaveMarket, rowVars, jobVars, Exists
    <3>2. CASE Close
      BY <3>2, LostFrame DEF Close, rowVars, Exists, TypeOK, RuntimeTypeOK
    <3>3. CASE Down
      BY <3>3, NothingToLose DEF Down, Forget, Working
    <3>4. CASE Boot \/ BootLocked
      BY <3>4, NothingToLose DEF Boot, BootLocked, jobVars, LaunchInv, active_run_ids, Working
    <3>5. ASSUME NEW r \in Runs, Interrupt(r) PROVE NoTaskLost'
      <4>1. \A q \in Runs : job'[q] = "none"
        BY <3>5 DEF Interrupt, Goto, LaunchInv, active_run_ids, TypeOK, RuntimeTypeOK
      <4> QED
        BY <4>1, NothingToLose DEF Working
    <3> QED
      BY <2>4, <3>1, <3>2, <3>3, <3>4, <3>5 DEF Process
  <2>5. CASE UNCHANGED vars
    BY <2>5, LostFrame DEF vars, rowVars, jobVars, Exists
  <2> QED
    BY <2>1, <2>2, <2>3, <2>4, <2>5 DEF Next
<1> QED
  BY <1>1, <1>2, TypeCorrect, LaunchInvariant, WorkersHaveRunInvariant, TasksPlannedInvariant, OneOwnerInvariant,
     PTL DEF Spec

(* A completed run left nothing behind: every task was collected, unless the *)
(* failure of a task could itself not be recorded.                          *)
THEOREM CompletedIsCollected == Spec => []CompletedMeansCollected
<1>1. Init => CompletedMeansCollected
  BY DEF Init, CompletedMeansCollected
<1>2. /\ TypeOK /\ LaunchInv /\ WorkersHaveRun /\ NoTaskLost
      /\ CompletedMeansCollected /\ [Next]_vars
      => CompletedMeansCollected'
  <2> SUFFICES ASSUME TypeOK, LaunchInv, WorkersHaveRun, NoTaskLost, CompletedMeansCollected, [Next]_vars
               PROVE  CompletedMeansCollected'
    OBVIOUS
  <2>1. ASSUME \A r \in Runs : status'[r] = "completed" => status[r] = "completed" /\ task'[r] = task[r],
               faults' = 0 => faults = 0
        PROVE  CompletedMeansCollected'
    BY <2>1 DEF CompletedMeansCollected
  <2>2. ASSUME NEW c \in Callers, Launch(c) \/ Request(c) \/ Write(c) PROVE CompletedMeansCollected'
    <3>1. UNCHANGED faults
      BY <2>2 DEF Launch, Request, Write, TakeLaunchLock, LaunchFails, PrepareResume, RuntimeStart,
         CreateRun, StartRun, ClearRuns, DecideStart, ResumeRun, CancelRun, DeleteRun, DecideResume,
         CancelSignal, CancelWrite, DeleteRows
    <3>2. \A r \in Runs : status'[r] = "completed" => status[r] = "completed" /\ task'[r] = task[r]
      <4>1. CASE PrepareResume(c)
        BY <4>1 DEF PrepareResume, prepare_resume, TypeOK, RowsTypeOK
      <4>2. CASE CancelWrite(c)
        BY <4>2 DEF CancelWrite, TypeOK, RowsTypeOK
      <4>3. CASE DeleteRows(c)
        BY <4>3 DEF DeleteRows
      <4>4. CASE \E q \in Runs : CreateRun(c, q)
        BY <4>4 DEF CreateRun, TypeOK, RowsTypeOK
      <4>5. CASE ~PrepareResume(c) /\ ~CancelWrite(c) /\ ~DeleteRows(c) /\ ~\E q \in Runs : CreateRun(c, q)
        BY <2>2, <4>5 DEF Launch, Request, Write, TakeLaunchLock, LaunchFails, RuntimeStart,
           StartRun, ClearRuns, DecideStart, ResumeRun, CancelRun, DeleteRun, DecideResume,
           CancelSignal, rowVars
      <4> QED
        BY <4>1, <4>2, <4>3, <4>4, <4>5
    <3> QED
      BY <2>1, <3>1, <3>2
  <2>3. ASSUME NEW r \in Runs, Job(r) PROVE CompletedMeansCollected'
    <3>1. UNCHANGED task /\ (faults' = 0 => faults = 0)
      BY <2>3, CollectionRunAssumption DEF Job, AcquireMarket, Begin, Prepare, Joined, Settle, Group, Finish,
         JobError, MarkFailed, MarkFailedLocked, Release, rowVars, TypeOK, ProcessTypeOK
    <3>2. CASE Finish(r)
      <4>1. \A q \in Runs \ {r} : status'[q] = status[q]
        BY <3>2 DEF Finish, TypeOK, RowsTypeOK
      <4>2. ASSUME status'[r] = "completed", faults = 0
            PROVE  \A t \in Tasks : task[r][t] \in {"done", "skipped"}
        <5>1. ~throttled[r] /\ aggregate_status(r) = "completed"
          BY <3>2, <4>2 DEF Finish, TypeOK, RowsTypeOK, RuntimeTypeOK
        <5>2. \A t \in Tasks : task[r][t] \notin {"failed", "truncated"}
          BY <5>1 DEF aggregate_status
        <5>3. \A t \in Tasks : task[r][t] \in Settled
          BY <3>2, <4>2, <5>1 DEF Finish, NoTaskLost
        <5> QED
          BY <5>2, <5>3 DEF Settled
      <4> QED
        BY <3>1, <4>1, <4>2 DEF CompletedMeansCollected
    <3>3. CASE ~Finish(r)
      <4>1. \A q \in Runs : status'[q] = "completed" => status[q] = "completed"
        BY <2>3, <3>3 DEF Job, AcquireMarket, Begin, Prepare, Joined, Settle, Group,
           JobError, MarkFailed, MarkFailedLocked, Release, rowVars, TypeOK, RowsTypeOK
      <4> QED
        BY <2>1, <3>1, <4>1
    <3> QED
      BY <3>2, <3>3
  <2>4. ASSUME NEW w \in Workers, Work(w) PROVE CompletedMeansCollected'
    <3>1. /\ UNCHANGED status
          /\ \A r \in Runs, t \in Tasks :
                task'[r][t] = task[r][t] \/ (worker[w].pc \in Busy /\ worker[w].run = r)
      BY <2>4, WorkRows
    <3>2. faults' = 0 => faults = 0
      BY <2>4, CollectionRunAssumption DEF Work, Take, Claim, Swept, Withdraw, FailTask, FailTaskLocked, Complete,
         Raise, TypeOK, ProcessTypeOK
    <3>3. worker[w].pc \in Busy => status[worker[w].run] # "completed"
      BY DEF WorkersHaveRun, Busy
    <3> QED
      BY <3>1, <3>2, <3>3 DEF CompletedMeansCollected
  <2>5. CASE Process
    <3>1. CASE TakeMarket \/ LeaveMarket \/ Close \/ Down \/ BootLocked
      BY <2>1, <3>1, CollectionRunAssumption DEF TakeMarket, LeaveMarket, Close, Down, BootLocked, rowVars, TypeOK, ProcessTypeOK
    <3>2. CASE Boot
      <4>1. \A r \in Runs : status'[r] = "completed" => status[r] = "completed" /\ status[r] \notin Active
        BY <3>2 DEF Boot, reconcile_interrupted, Active
      <4>2. \A r \in Runs : status[r] \notin Active => task'[r] = task[r]
        BY <3>2 DEF Boot, reconcile_interrupted, TypeOK, RowsTypeOK
      <4> QED
        BY <2>1, <3>2, <4>1, <4>2 DEF Boot
    <3>3. ASSUME NEW r \in Runs, Interrupt(r) PROVE CompletedMeansCollected'
      <4>1. \A q \in Runs : status'[q] = "completed" => status[q] = "completed"
        BY <3>3 DEF Interrupt, TypeOK, RowsTypeOK
      <4> QED
        BY <2>1, <3>3, <4>1 DEF Interrupt
    <3> QED
      BY <2>5, <3>1, <3>2, <3>3 DEF Process
  <2>6. CASE UNCHANGED vars
    BY <2>1, <2>6 DEF vars, rowVars
  <2> QED
    BY <2>2, <2>3, <2>4, <2>5, <2>6 DEF Next
<1> QED
  BY <1>1, <1>2, TypeCorrect, LaunchInvariant, WorkersHaveRunInvariant, NoTaskLostInvariant, PTL DEF Spec

------------------------------------------------------------------------------
(* What was collected stays collected.                                      *)

LEMMA NoRowNoTasksInvariant == Spec => []NoRowNoTasks
<1>1. Init => NoRowNoTasks
  BY DEF Init, NoRowNoTasks
<1>2. TypeOK /\ NoRowNoTasks /\ [Next]_vars => NoRowNoTasks'
  <2> SUFFICES ASSUME TypeOK, NoRowNoTasks, [Next]_vars PROVE NoRowNoTasks'
    OBVIOUS
  <2>1. ASSUME UNCHANGED task, \A r \in Runs : Exists(r) => Exists(r)' PROVE NoRowNoTasks'
    BY <2>1 DEF NoRowNoTasks, NoTasks
  <2>2. ASSUME NEW c \in Callers, Launch(c) \/ Request(c) \/ Write(c) PROVE NoRowNoTasks'
    <3>1. CASE PrepareResume(c)
      <4>1. req[c].run \in Runs
        BY <3>1, RequestRuns DEF PrepareResume
      <4>2. status'[req[c].run] = "pending"
        BY <3>1, <4>1 DEF PrepareResume, prepare_resume, TypeOK, RowsTypeOK
      <4>3. \A q \in Runs \ {req[c].run} : task'[q] = task[q] /\ status'[q] = status[q]
        BY <3>1, <4>1 DEF PrepareResume, prepare_resume, TypeOK, RowsTypeOK
      <4> QED
        BY <4>2, <4>3 DEF NoRowNoTasks, Exists, NoTasks
    <3>2. ASSUME NEW r \in Runs, CreateRun(c, r) PROVE NoRowNoTasks'
      <4>1. status'[r] = "pending" /\ \A q \in Runs \ {r} : task'[q] = task[q] /\ status'[q] = status[q]
        BY <3>2 DEF CreateRun, TypeOK, RowsTypeOK
      <4> QED
        BY <4>1 DEF NoRowNoTasks, Exists, NoTasks
    <3>3. CASE DeleteRows(c)
      BY <3>3 DEF DeleteRows, NoRowNoTasks, Exists, NoTasks
    <3>4. CASE CancelWrite(c)
      <4>1. \A r \in Runs : Exists(r) => Exists(r)'
        BY <3>4 DEF CancelWrite, Exists, TypeOK, RowsTypeOK
      <4> QED
        BY <2>1, <3>4, <4>1 DEF CancelWrite
    <3>5. CASE ~PrepareResume(c) /\ ~DeleteRows(c) /\ ~CancelWrite(c) /\ ~\E r \in Runs : CreateRun(c, r)
      BY <2>1, <2>2, <3>5 DEF Launch, Request, Write, TakeLaunchLock, LaunchFails, RuntimeStart, StartRun,
         ClearRuns, DecideStart, ResumeRun, CancelRun, DeleteRun, DecideResume, CancelSignal, rowVars, Exists
    <3> QED
      BY <3>1, <3>2, <3>3, <3>4, <3>5
  <2>3. ASSUME NEW r \in Runs, Job(r) PROVE NoRowNoTasks'
    <3>1. UNCHANGED task /\ \A q \in Runs : Exists(q) => Exists(q)'
      BY <2>3 DEF Job, AcquireMarket, Begin, Prepare, Joined, Settle, Group, Finish, JobError, MarkFailed,
         MarkFailedLocked, Release, aggregate_status, Exists, rowVars, TypeOK, RowsTypeOK
    <3> QED
      BY <2>1, <3>1
  <2>4. ASSUME NEW w \in Workers, Work(w) PROVE NoRowNoTasks'
    <3>1. UNCHANGED status
      BY <2>4, WorkRows
    <3>2. \/ task' = task
          \/ \E q \in Runs : Exists(q) /\ \E t, x : SetTask(q, t, x)
      <4>1. worker[w].pc # "off"
        BY <2>4, WorkMoves
      <4>2. worker[w].run \in Runs
        BY <2>4, WorkMoves
      <4>3. CASE Claim(w)
        <5>1. worker[w].task \in Tasks
          BY <4>3 DEF Claim, TypeOK, RuntimeTypeOK, WorkerStates, Off, Busy
        <5>2. task[worker[w].run][worker[w].task] = "pending" => Exists(worker[w].run)
          BY <4>2, <5>1 DEF NoRowNoTasks, NoTasks
        <5> QED
          BY <4>2, <4>3, <5>2 DEF Claim
      <4>4. CASE ~Claim(w)
        BY <2>4, <4>2, <4>4 DEF Work, Take, Swept, Withdraw, FailTask, FailTaskLocked, Complete, Raise, rowVars
      <4> QED
        BY <4>3, <4>4
    <3>3. ASSUME NEW q \in Runs, Exists(q), NEW t, NEW x, SetTask(q, t, x) PROVE NoRowNoTasks'
      <4>1. \A p \in Runs \ {q} : task'[p] = task[p]
        BY <3>3 DEF SetTask, TypeOK, RowsTypeOK
      <4> QED
        BY <3>1, <3>3, <4>1 DEF NoRowNoTasks, NoTasks, Exists
    <3> QED
      BY <2>1, <3>1, <3>2, <3>3 DEF Exists
  <2>5. CASE Process
    <3>1. CASE TakeMarket \/ LeaveMarket \/ Close \/ Down \/ BootLocked
      BY <2>1, <3>1 DEF TakeMarket, LeaveMarket, Close, Down, BootLocked, rowVars, Exists
    <3>2. CASE Boot
      <4>1. \A r \in Runs : Exists(r)' <=> Exists(r)
        BY <3>2 DEF Boot, reconcile_interrupted, Active, Exists
      <4>2. \A r \in Runs : ~Exists(r) => task'[r] = task[r]
        BY <3>2 DEF Boot, reconcile_interrupted, Active, Exists, TypeOK, RowsTypeOK
      <4> QED
        BY <4>1, <4>2 DEF NoRowNoTasks, NoTasks
    <3>3. ASSUME NEW r \in Runs, Interrupt(r) PROVE NoRowNoTasks'
      <4>1. \A q \in Runs : Exists(q) => Exists(q)'
        BY <3>3 DEF Interrupt, Exists, TypeOK, RowsTypeOK
      <4> QED
        BY <2>1, <3>3, <4>1 DEF Interrupt
    <3> QED
      BY <2>5, <3>1, <3>2, <3>3 DEF Process
  <2>6. CASE UNCHANGED vars
    BY <2>1, <2>6 DEF vars, rowVars, Exists
  <2> QED
    BY <2>2, <2>3, <2>4, <2>5, <2>6 DEF Next
<1> QED
  BY <1>1, <1>2, TypeCorrect, PTL DEF Spec

(* Resuming never collects a finished task again: nothing but deleting the  *)
(* run or a sweep that fails takes a task out of done or skipped.           *)
THEOREM FinishedStays == Spec => FinishedTasksStay
<1> DEFINE Stays == \A r \in Runs, t \in Tasks :
                       task[r][t] \in {"done", "skipped"} => task'[r][t] \in {task[r][t], "failed", "absent"}
<1>1. TypeOK /\ LaunchInv /\ WorkersHaveRun /\ TasksHaveOneOwner /\ NoRowNoTasks /\ [Next]_vars => Stays
  <2> SUFFICES ASSUME TypeOK, LaunchInv, WorkersHaveRun, TasksHaveOneOwner, NoRowNoTasks, [Next]_vars
               PROVE  Stays
    OBVIOUS
  <2>1. ASSUME NEW c \in Callers, Launch(c) \/ Request(c) \/ Write(c) PROVE Stays
    <3>1. CASE PrepareResume(c)
      <4>1. req[c].run \in Runs
        BY <3>1, RequestRuns DEF PrepareResume
      <4> QED
        BY <3>1, <4>1 DEF PrepareResume, prepare_resume, TypeOK, RowsTypeOK
    <3>2. ASSUME NEW r \in Runs, CreateRun(c, r) PROVE Stays
      <4>1. ~Exists(r)
        BY <3>2, CollectionRunAssumption DEF CreateRun, NextId
      <4>2. \A t \in Tasks : task[r][t] = "absent"
        BY <4>1 DEF NoRowNoTasks, NoTasks
      <4>3. \A q \in Runs \ {r} : task'[q] = task[q]
        BY <3>2 DEF CreateRun, TypeOK, RowsTypeOK
      <4> QED
        BY <4>2, <4>3
    <3>3. CASE DeleteRows(c)
      BY <3>3 DEF DeleteRows, NoTasks
    <3>4. CASE ~PrepareResume(c) /\ ~DeleteRows(c) /\ ~\E r \in Runs : CreateRun(c, r)
      BY <2>1, <3>4 DEF Launch, Request, Write, TakeLaunchLock, LaunchFails, RuntimeStart, StartRun,
         ClearRuns, DecideStart, ResumeRun, CancelRun, DeleteRun, DecideResume, CancelSignal, CancelWrite, rowVars
    <3> QED
      BY <3>1, <3>2, <3>3, <3>4
  <2>2. ASSUME NEW r \in Runs, Job(r) PROVE Stays
    BY <2>2 DEF Job, AcquireMarket, Begin, Prepare, Joined, Settle, Group, Finish, JobError, MarkFailed,
       MarkFailedLocked, Release, rowVars
  <2>3. ASSUME NEW w \in Workers, Work(w) PROVE Stays
    <3> DEFINE r == worker[w].run  u == worker[w].task
    <3>1. \A q \in Runs, t \in Tasks :
             task'[q][t] = task[q][t] \/ (worker[w].pc \in Busy /\ r = q /\ u = t)
      BY <2>3, WorkRows
    <3>2. r \in Runs
      BY <2>3, WorkMoves
    <3>3. ASSUME worker[w].pc \in Busy, u \in Tasks, task[r][u] \in {"done", "skipped"}
          PROVE  task'[r][u] \in {task[r][u], "failed"}
      <4>1. Exists(r)
        BY <3>2, <3>3 DEF NoRowNoTasks, NoTasks
      <4>2. worker[w].pc \notin {"claim", "work"}
        BY <3>2, <3>3, <4>1 DEF TasksHaveOneOwner, OnTask
      <4>3. CASE FailTask(w)
        BY <3>2, <3>3, <4>3 DEF FailTask, SetTask, TypeOK, RowsTypeOK
      <4>4. CASE ~FailTask(w)
        BY <2>3, <3>3, <4>2, <4>4 DEF Work, Take, Claim, Swept, Withdraw, FailTaskLocked, Complete, Raise, rowVars, Busy
      <4> QED
        BY <4>3, <4>4
    <3> QED
      BY <3>1, <3>3
  <2>4. CASE Process
    <3>1. CASE Boot
      BY <3>1 DEF Boot, reconcile_interrupted, TypeOK, RowsTypeOK
    <3>2. CASE ~Boot
      BY <2>4, <3>2 DEF Process, TakeMarket, LeaveMarket, Close, Down, BootLocked, Interrupt, rowVars
    <3> QED
      BY <3>1, <3>2
  <2>5. CASE UNCHANGED vars
    BY <2>5 DEF vars, rowVars
  <2> QED
    BY <2>1, <2>2, <2>3, <2>4, <2>5 DEF Next
<1>2. TypeOK /\ LaunchInv /\ WorkersHaveRun /\ TasksHaveOneOwner /\ NoRowNoTasks /\ [Next]_vars => [Stays]_vars
  BY <1>1
<1> QED
  BY <1>2, TypeCorrect, LaunchInvariant, WorkersHaveRunInvariant, OneOwnerInvariant, NoRowNoTasksInvariant, PTL
     DEF Spec, FinishedTasksStay

------------------------------------------------------------------------------
(* Every active row has an owner.                                           *)

OwnerInv == ActiveRowHasOwner /\ ClosedOnLeaving

(* Whoever owned a row still does, and no other row became active.          *)
LEMMA OwnersStay ==
    ASSUME OwnerInv,
           faults' = 0 => faults = 0,
           \A r \in Runs : status'[r] \in Active => status[r] \in Active,
           \A r \in Runs : job'[r] = "release" => job[r] = "release",
           proc' = "up" =>
              /\ proc = "up"
              /\ \A r \in Runs : job[r] # "none" => job'[r] # "none"
              /\ \A r \in Runs, c \in Callers : req[c].pc = "start" /\ req[c].run = r =>
                    job'[r] # "none" \/ \E d \in Callers : req'[d].pc = "start" /\ req'[d].run = r
    PROVE  OwnerInv'
  BY DEF OwnerInv, ActiveRowHasOwner, ClosedOnLeaving

(* A committed row has its launcher.                                        *)
LEMMA CommitOwned ==
    ASSUME TypeOK, LaunchInv, WorkersHaveRun, OwnerInv, NEW c \in Callers, NEW r \in Runs, NEW op,
           req[c].pc = "discover", StillClear(c), Await(c, op, "start", r),
           UNCHANGED job, \A q \in Runs \ {r} : status'[q] = status[q]
    PROVE  OwnerInv'
<1>1. req'[c].pc = "start" /\ req'[c].run = r
  BY DEF Await, TypeOK, ProcessTypeOK
<1>2. \A q \in Runs : job'[q] = "none" /\ status[q] \notin Active
  BY LaunchIsClear DEF active_run_ids, ActiveRow
<1>3. \A q \in Runs : status'[q] \in Active => q = r
  BY <1>2
<1> QED
  BY <1>1, <1>2, <1>3 DEF OwnerInv, ActiveRowHasOwner, ClosedOnLeaving

LEMMA OwnerInvariant == Spec => []OwnerInv
<1>1. Init => OwnerInv
  BY DEF Init, OwnerInv, ActiveRowHasOwner, ClosedOnLeaving, Active
<1>2. TypeOK /\ LaunchInv /\ WorkersHaveRun /\ OwnerInv /\ [Next]_vars => OwnerInv'
  <2> SUFFICES ASSUME TypeOK, LaunchInv, WorkersHaveRun, OwnerInv, [Next]_vars PROVE OwnerInv'
    OBVIOUS
  <2>1. ASSUME NEW c \in Callers, Launch(c) \/ Request(c) \/ Write(c) PROVE OwnerInv'
    <3>1. CASE PrepareResume(c)
      <4>1. req[c].run \in Runs
        BY <3>1, RequestRuns DEF PrepareResume
      <4>2. /\ req[c].pc = "discover" /\ StillClear(c) /\ Await(c, "resume", "start", req[c].run)
            /\ UNCHANGED job /\ \A q \in Runs \ {req[c].run} : status'[q] = status[q]
        BY <3>1, <4>1 DEF PrepareResume, prepare_resume, jobVars, TypeOK, RowsTypeOK
      <4> QED
        BY <4>1, <4>2, CommitOwned
    <3>2. ASSUME NEW r \in Runs, CreateRun(c, r) PROVE OwnerInv'
      <4>1. /\ req[c].pc = "discover" /\ StillClear(c) /\ Await(c, "start", "start", r)
            /\ UNCHANGED job /\ \A q \in Runs \ {r} : status'[q] = status[q]
        BY <3>2 DEF CreateRun, jobVars, TypeOK, RowsTypeOK
      <4> QED
        BY <4>1, CommitOwned
    <3>3. CASE ~PrepareResume(c) /\ ~\E r \in Runs : CreateRun(c, r)
      <4>1. UNCHANGED <<proc, faults>>
        BY <2>1, <3>3 DEF Launch, Request, Write, TakeLaunchLock, LaunchFails, RuntimeStart, StartRun,
           ClearRuns, DecideStart, ResumeRun, CancelRun, DeleteRun, DecideResume, CancelSignal, CancelWrite,
           DeleteRows
      <4>2. \A r \in Runs : status'[r] \in Active => status[r] \in Active
        <5>1. CASE CancelWrite(c)
          BY <5>1 DEF CancelWrite, Active, TypeOK, RowsTypeOK
        <5>2. CASE DeleteRows(c)
          BY <5>2 DEF DeleteRows, Active
        <5>3. CASE ~CancelWrite(c) /\ ~DeleteRows(c)
          BY <2>1, <3>3, <5>3 DEF Launch, Request, Write, TakeLaunchLock, LaunchFails, RuntimeStart, StartRun,
             ClearRuns, DecideStart, ResumeRun, CancelRun, DeleteRun, DecideResume, CancelSignal, rowVars
        <5> QED
          BY <5>1, <5>2, <5>3
      <4>3. \A r \in Runs : /\ job'[r] = "release" => job[r] = "release"
                            /\ job[r] # "none" => job'[r] # "none"
        <5>1. CASE RuntimeStart(c)
          BY <5>1 DEF RuntimeStart, TypeOK, RuntimeTypeOK
        <5>2. CASE ~RuntimeStart(c)
          BY <2>1, <3>3, <5>2 DEF Launch, Request, Write, TakeLaunchLock, LaunchFails, StartRun, ClearRuns,
             DecideStart, ResumeRun, CancelRun, DeleteRun, DecideResume, CancelSignal, CancelWrite,
             DeleteRows, jobVars
        <5> QED
          BY <5>1, <5>2
      <4>4. \A r \in Runs, d \in Callers : req[d].pc = "start" /\ req[d].run = r =>
               job'[r] # "none" \/ (req'[d].pc = "start" /\ req'[d].run = r)
        <5>1. CASE RuntimeStart(c)
          BY <5>1 DEF RuntimeStart, Answer, TypeOK, RuntimeTypeOK, ProcessTypeOK
        <5>2. CASE ~RuntimeStart(c)
          <6>1. req[c].pc # "start" /\ \A d \in Callers \ {c} : req'[d] = req[d]
            BY <2>1, <3>3, <5>2 DEF Launch, Request, Write, TakeLaunchLock, LaunchFails, StartRun, ClearRuns,
               DecideStart, ResumeRun, CancelRun, DeleteRun, DecideResume, CancelSignal, CancelWrite,
               DeleteRows, Await, Answer, Idle, TypeOK, ProcessTypeOK, Requests
          <6> QED
            BY <6>1
        <5> QED
          BY <5>1, <5>2
      <4> QED
        BY <4>1, <4>2, <4>3, <4>4, OwnersStay
    <3> QED
      BY <3>1, <3>2, <3>3
  <2>2. ASSUME NEW r \in Runs, Job(r) PROVE OwnerInv'
    <3>1. job[r] # "none" /\ faults \in Nat /\ (faults' = 0 => faults = 0)
      BY <2>2, CollectionRunAssumption DEF Job, AcquireMarket, Begin, Prepare, Joined, Settle, Group, Finish, JobError,
         MarkFailed, MarkFailedLocked, Release, TypeOK, ProcessTypeOK
    <3>2. \A q \in Runs \ {r} : job[q] = "none" /\ status[q] \notin Active
      BY <3>1 DEF LaunchInv
    <3>3. \A q \in Runs \ {r} : job'[q] = "none" /\ status'[q] \notin Active
      <4>1. \A q \in Runs \ {r} : job'[q] = job[q] /\ status'[q] = status[q]
        BY <2>2 DEF Job, AcquireMarket, Begin, Prepare, Joined, Settle, Group, Finish, JobError, MarkFailed,
           MarkFailedLocked, Release, Goto, rowVars, TypeOK, RuntimeTypeOK, RowsTypeOK
      <4> QED
        BY <3>2, <4>1
    <3>4. faults' = 0 /\ job'[r] \in {"none", "release"} => status'[r] \notin Active
      <4>1. CASE Release(r)
        BY <3>1, <4>1 DEF Release, OwnerInv, ClosedOnLeaving, rowVars
      <4>2. CASE Settle(r) \/ Finish(r)
        BY <4>2 DEF Settle, Finish, Goto, aggregate_status, Active, TypeOK, RowsTypeOK, RuntimeTypeOK
      <4>3. CASE MarkFailed(r)
        BY <4>3 DEF MarkFailed, Exists, Active, TypeOK, RowsTypeOK
      <4>4. CASE MarkFailedLocked(r)
        BY <3>1, <4>4 DEF MarkFailedLocked
      <4>5. CASE ~Release(r) /\ ~Settle(r) /\ ~Finish(r) /\ ~MarkFailed(r) /\ ~MarkFailedLocked(r)
        BY <2>2, <4>5 DEF Job, AcquireMarket, Begin, Prepare, Joined, Group, JobError, Goto, TypeOK, RuntimeTypeOK
      <4> QED
        BY <4>1, <4>2, <4>3, <4>4, <4>5
    <3> QED
      BY <3>3, <3>4 DEF OwnerInv, ActiveRowHasOwner, ClosedOnLeaving
  <2>3. ASSUME NEW w \in Workers, Work(w) PROVE OwnerInv'
    <3>1. UNCHANGED <<status, job, req, proc>>
      BY <2>3, WorkRows
    <3>2. faults' = 0 => faults = 0
      BY <2>3, CollectionRunAssumption DEF Work, Take, Claim, Swept, Withdraw, FailTask, FailTaskLocked, Complete,
         Raise, TypeOK, ProcessTypeOK
    <3> QED
      BY <3>1, <3>2, OwnersStay
  <2>4. CASE Process
    <3>1. CASE TakeMarket \/ LeaveMarket
      BY <3>1, OwnersStay DEF TakeMarket, LeaveMarket, rowVars, jobVars
    <3>2. CASE Close
      BY <3>2, OwnersStay DEF Close, rowVars
    <3>3. CASE Down
      BY <3>3, OwnersStay DEF Down, Forget, rowVars
    <3>4. CASE Boot
      <4>1. \A r \in Runs : status'[r] \notin Active
        BY <3>4 DEF Boot, reconcile_interrupted, Active
      <4> QED
        BY <4>1 DEF OwnerInv, ActiveRowHasOwner, ClosedOnLeaving
    <3>5. CASE BootLocked
      <4>1. faults' # 0
        BY <3>5, CollectionRunAssumption DEF BootLocked, TypeOK, ProcessTypeOK
      <4> QED
        BY <4>1 DEF OwnerInv, ActiveRowHasOwner, ClosedOnLeaving
    <3>6. ASSUME NEW r \in Runs, Interrupt(r) PROVE OwnerInv'
      <4>1. \A q \in Runs : status'[q] \in Active => status[q] \in Active
        BY <3>6 DEF Interrupt, Active, TypeOK, RowsTypeOK
      <4>2. \A q \in Runs : job'[q] = "release" => job[q] = "release"
        BY <3>6 DEF Interrupt, Goto, TypeOK, RuntimeTypeOK
      <4> QED
        BY <3>6, <4>1, <4>2, OwnersStay DEF Interrupt
    <3> QED
      BY <2>4, <3>1, <3>2, <3>3, <3>4, <3>5, <3>6 DEF Process
  <2>5. CASE UNCHANGED vars
    BY <2>5, OwnersStay DEF vars, rowVars, jobVars
  <2> QED
    BY <2>1, <2>2, <2>3, <2>4, <2>5 DEF Next
<1> QED
  BY <1>1, <1>2, TypeCorrect, LaunchInvariant, WorkersHaveRunInvariant, PTL DEF Spec

(* While the application serves, an active row has a job or a launcher about *)
(* to give it one, through every cancel, failure, shutdown and restart.     *)
THEOREM ActiveRowOwned == Spec => []ActiveRowHasOwner
<1>1. OwnerInv => ActiveRowHasOwner
  BY DEF OwnerInv
<1> QED
  BY <1>1, OwnerInvariant, PTL

------------------------------------------------------------------------------
(* market_lock, and the steps of SingleRun. *)

LEMMA MarketInvariant == Spec => []MarketInv
<1>1. Init => MarketInv
  BY DEF Init, MarketInv
<1>2. TypeOK /\ MarketInv /\ [Next]_vars => MarketInv'
  <2> SUFFICES ASSUME TypeOK, MarketInv, [Next]_vars PROVE MarketInv'
    OBVIOUS
  <2> USE DEF MarketInv
  <2>1. ASSUME NEW c \in Callers, Launch(c) \/ Request(c) \/ Write(c) PROVE MarketInv'
    <3>1. other' = other
      BY <2>1 DEF Launch, Request, Write, TakeLaunchLock, LaunchFails, PrepareResume, RuntimeStart,
         CreateRun, StartRun, ClearRuns, DecideStart, ResumeRun, CancelRun, DeleteRun, DecideResume,
         CancelSignal, CancelWrite, DeleteRows
    <3>2. \A r \in Runs : job'[r] \in Executing => job[r] \in Executing
      <4>1. CASE RuntimeStart(c)
        BY <4>1 DEF RuntimeStart, TypeOK, RuntimeTypeOK, Executing
      <4>2. CASE ~RuntimeStart(c)
        <5>1. job' = job
          BY <2>1, <4>2 DEF Launch, Request, Write, TakeLaunchLock, LaunchFails, PrepareResume,
             CreateRun, StartRun, ClearRuns, DecideStart, ResumeRun, CancelRun, DeleteRun, DecideResume,
             CancelSignal, CancelWrite, DeleteRows, jobVars
        <5> QED
          BY <5>1
      <4> QED
        BY <4>1, <4>2
    <3> QED
      BY <3>1, <3>2
  <2>2. ASSUME NEW r \in Runs, Job(r) PROVE MarketInv'
    <3>1. CASE AcquireMarket(r)
      BY <3>1 DEF AcquireMarket, MarketFree
    <3>2. CASE ~AcquireMarket(r)
      <4>1. other' = other /\ job[r] \in Executing
        BY <2>2, <3>2 DEF Job, Begin, Prepare, Joined, Settle, Group, Finish, JobError, MarkFailed,
           MarkFailedLocked, Release, Executing
      <4> QED
        BY <4>1
    <3> QED
      BY <3>1, <3>2
  <2>3. ASSUME NEW w \in Workers, Work(w) PROVE MarketInv'
    BY <2>3 DEF Work, Take, Claim, Swept, Withdraw, FailTask, FailTaskLocked, Complete, Raise, rowVars
  <2>4. ASSUME Process PROVE MarketInv'
    <3>1. CASE TakeMarket
      BY <3>1 DEF TakeMarket, MarketFree, jobVars
    <3>2. CASE LeaveMarket \/ Close \/ Down
      BY <3>2 DEF LeaveMarket, Close, Down, Forget
    <3>3. CASE Boot \/ BootLocked
      BY <3>3 DEF Boot, BootLocked, jobVars
    <3>4. ASSUME NEW r \in Runs, Interrupt(r) PROVE MarketInv'
      BY <3>4 DEF Interrupt, Goto, Executing, TypeOK, RuntimeTypeOK
    <3> QED
      BY <2>4, <3>1, <3>2, <3>3, <3>4 DEF Process
  <2>5. CASE UNCHANGED vars
    BY <2>5 DEF vars, jobVars
  <2> QED
    BY <2>1, <2>2, <2>3, <2>4, <2>5 DEF Next
<1> QED
  BY <1>1, <1>2, TypeCorrect, PTL DEF Spec

------------------------------------------------------------------------------
(* What the parts of the refinement mapping depend on. *)

LEMMA RequestFrame ==
    ASSUME UNCHANGED req
    PROVE  UNCHANGED <<Holders, Committed>>
  BY DEF Holders, Committed, Holds

LEMMA JobFrame ==
    ASSUME UNCHANGED <<job, other>>
    PROVE  UNCHANGED <<active_run_ids, AtMarket>>
  BY DEF active_run_ids, AtMarket

LEMMA RowFrame ==
    ASSUME UNCHANGED status
    PROVE  UNCHANGED OpenRows
  BY DEF OpenRows

(* A request moves between steps that do not hold launch_lock. *)
LEMMA RequestMoves ==
    ASSUME TypeOK, NEW c \in Callers, NEW x,
           req[c].pc \notin {"discover", "start"}, x.pc \notin {"discover", "start"},
           req' = [req EXCEPT ![c] = x]
    PROVE  UNCHANGED <<Holders, Committed>>
<1>1. req \in [Callers -> Requests]
  BY DEF TypeOK, ProcessTypeOK
<1>2. \A d \in Callers : Holds(d)' <=> Holds(d)
  BY <1>1 DEF Holds
<1>3. \A d \in Callers : (req'[d].pc = "start" <=> req[d].pc = "start")
                         /\ (req[d].pc = "start" => req'[d] = req[d])
  BY <1>1
<1> QED
  BY <1>2, <1>3 DEF Holders, Committed

(* The holder answers: it is the only one, so nobody holds the lock then. *)
LEMMA HolderLeaves ==
    ASSUME TypeOK, LaunchInv, NEW c \in Callers, Holds(c), Answer(c)
    PROVE  Holders = {c} /\ Holders' = {} /\ Committed' = {}
<1>1. req \in [Callers -> Requests] /\ req' = [req EXCEPT ![c] = Idle] /\ Idle.pc = "idle"
  BY DEF TypeOK, ProcessTypeOK, Answer, Idle
<1>2. \A d \in Callers : Holds(d) => d = c
  BY DEF LaunchInv
<1>3. \A d \in Callers : ~Holds(d)'
  BY <1>1, <1>2 DEF Holds
<1> QED
  BY <1>2, <1>3 DEF Holders, Committed, Holds

(* Whoever changes the row of one run closes all that is open, or nothing.  *)
LEMMA RowCloses ==
    ASSUME TypeOK, LaunchInv, NEW r \in Runs,
           \A q \in Runs \ {r} : status'[q] = status[q],
           status'[r] \notin Active \/ status'[r] = status[r]
    PROVE  OpenRows' = OpenRows \/ (OpenRows # {} /\ OpenRows' = {})
<1>1. \A p, q \in OpenRows : p = q
  BY DEF LaunchInv, OneActiveRow, OpenRows
<1>2. OpenRows' \subseteq OpenRows
  BY DEF OpenRows
<1> QED
  BY <1>1, <1>2

------------------------------------------------------------------------------
(* Each step of CollectionRun is a step of SingleRun or leaves its variables *)
(* alone; one lemma for each kind of actor.                                 *)

LEMMA CallerServed ==
    ASSUME TypeOK, LaunchInv, NEW c \in Callers, Launch(c) \/ Request(c) \/ Write(c)
    PROVE  [Single!Next]_(Single!vars)
<1> USE DEF Single!vars
<1>1. ASSUME NEW op, NEW r, Await(c, op, "discover", r), UNCHANGED <<rowVars, jobVars, other>>,
             req[c].pc \in {"idle", "lock"}, LaunchFree
      PROVE  Single!Lock(c)
  <2>1. Holders = {} /\ Holders' = {c}
    BY <1>1 DEF LaunchFree, Holders, Holds, Await, TypeOK, ProcessTypeOK
  <2>2. Committed = {} /\ Committed' = {}
    BY <1>1 DEF LaunchFree, Committed, Await, TypeOK, ProcessTypeOK
  <2> QED
    BY <1>1, <2>1, <2>2, JobFrame, RowFrame DEF Single!Lock, rowVars, jobVars
<1>2. CASE StartRun(c) \/ TakeLaunchLock(c) \/ \E r \in Runs : ResumeRun(c, r)
  <2>1. \E op, r : Await(c, op, "discover", r)
    BY <1>2 DEF StartRun, TakeLaunchLock, ResumeRun
  <2>2. req[c].pc \in {"idle", "lock"} /\ LaunchFree /\ UNCHANGED <<rowVars, jobVars, other>>
    BY <1>2 DEF StartRun, TakeLaunchLock, ResumeRun, Idle
  <2> QED
    BY <1>1, <2>1, <2>2 DEF Single!Next
<1>3. CASE LaunchFails(c)
  <2>1. Holders # {} /\ Holders' = {} /\ Committed' = {}
    BY <1>3, HolderLeaves DEF LaunchFails, Holds
  <2>2. Committed = {}
    BY <1>3, HolderLeaves DEF LaunchFails, Holds, Committed, LaunchInv
  <2> QED
    BY <1>3, <2>1, <2>2, JobFrame, RowFrame DEF LaunchFails, Single!Next, Single!Unlock, rowVars, jobVars
<1>4. ASSUME NEW op, NEW r \in Runs, Await(c, op, "start", r), req[c].pc = "discover", StillClear(c),
             status'[r] = "pending", \A q \in Runs \ {r} : status'[q] = status[q],
             UNCHANGED <<job, other>>
      PROVE  Single!Commit(r)
  <2>1. \A d \in Callers : Holds(d) <=> d = c
    BY <1>4 DEF LaunchInv, Holds
  <2>2. Holders = {c} /\ Holders' = {c}
    BY <1>4, <2>1 DEF Holders, Holds, Await, TypeOK, ProcessTypeOK
  <2>3. Committed = {} /\ Committed' = {r}
    BY <1>4, <2>1 DEF Committed, Holds, Await, TypeOK, ProcessTypeOK
  <2>4. NoActiveRun
    BY <1>4 DEF StillClear, LaunchInv, Callers
  <2>5. OpenRows = {} /\ OpenRows' = {r}
    BY <1>4, <2>4 DEF NoActiveRun, ActiveRow, OpenRows, Active
  <2> QED
    BY <1>4, <2>2, <2>3, <2>4, <2>5, JobFrame DEF Single!Commit, NoActiveRun
<1>5. ASSUME NEW r \in Runs, CreateRun(c, r) PROVE Single!Commit(r)
  BY <1>4, <1>5 DEF CreateRun, jobVars, TypeOK, RowsTypeOK
<1>6. CASE PrepareResume(c)
  <2>1. req[c].run \in Runs
    BY <1>6 DEF PrepareResume, TypeOK, ProcessTypeOK, Requests, Idle
  <2>2. Single!Commit(req[c].run)
    BY <1>4, <1>6, <2>1 DEF PrepareResume, prepare_resume, jobVars, TypeOK, RowsTypeOK
  <2> QED
    BY <2>1, <2>2 DEF Single!Next
<1>7. CASE RuntimeStart(c)
  <2>1. req[c].run \in Runs
    BY <1>7 DEF RuntimeStart, TypeOK, ProcessTypeOK, Requests, Idle
  <2>2. Holders' = {} /\ Committed' = {}
    BY <1>7, HolderLeaves DEF RuntimeStart, Holds
  <2>3. Committed = {req[c].run}
    BY <1>7 DEF RuntimeStart, Committed, LaunchInv, Holds
  <2>4. active_run_ids = {} /\ active_run_ids' = {req[c].run}
    BY <1>7, <2>1 DEF RuntimeStart, LaunchInv, active_run_ids, TypeOK, RuntimeTypeOK
  <2>5. UNCHANGED AtMarket
    BY <1>7, <2>1 DEF RuntimeStart, AtMarket, Executing, TypeOK, RuntimeTypeOK
  <2>6. UNCHANGED OpenRows
    BY <1>7, RowFrame DEF RuntimeStart, rowVars
  <2> QED
    BY <2>2, <2>3, <2>4, <2>5, <2>6 DEF Single!Next, Single!HandOver
<1>8. ASSUME req[c].pc \notin {"discover", "start"}, NEW x, x.pc \notin {"discover", "start"},
             req' = [req EXCEPT ![c] = x], UNCHANGED <<job, other>>,
             OpenRows' = OpenRows \/ (OpenRows # {} /\ OpenRows' = {})
      PROVE  [Single!Next]_(Single!vars)
  <2>1. UNCHANGED <<Holders, Committed>>
    BY <1>8, RequestMoves
  <2> QED
    BY <1>8, <2>1, JobFrame DEF Single!Next, Single!CloseRow
<1>9. CASE ClearRuns(c) \/ DecideStart(c)
        \/ \E r \in Runs : CancelRun(c, r) \/ DeleteRun(c, r) \/ DecideResume(c, r)
  <2>1. req[c].pc = "idle" /\ UNCHANGED <<rowVars, jobVars, other>>
    BY <1>9 DEF ClearRuns, DecideStart, CancelRun, DeleteRun, DecideResume, Idle
  <2>2. \E op, r : \E pc \in {"write", "lock", "signal"} : Await(c, op, pc, r)
    BY <1>9 DEF ClearRuns, DecideStart, CancelRun, DeleteRun, DecideResume
  <2> QED
    BY <1>8, <2>1, <2>2, RowFrame DEF Await, rowVars, jobVars
<1>10. CASE CancelSignal(c)
  <2>1. req[c].pc = "signal" /\ UNCHANGED <<rowVars, job, other>>
    BY <1>10 DEF CancelSignal
  <2>2. Answer(c) \/ Await(c, "cancel", "write", req[c].run)
    BY <1>10 DEF CancelSignal
  <2>3. CASE Answer(c)
    BY <1>8, <2>1, <2>3, RowFrame DEF Answer, Idle, rowVars
  <2>4. CASE Await(c, "cancel", "write", req[c].run)
    BY <1>8, <2>1, <2>4, RowFrame DEF Await, rowVars
  <2> QED
    BY <2>2, <2>3, <2>4
<1>11. CASE CancelWrite(c)
  <2>1. req[c].run \in Runs
    BY <1>11 DEF CancelWrite, TypeOK, ProcessTypeOK, Requests, Idle
  <2>2. OpenRows' = OpenRows \/ (OpenRows # {} /\ OpenRows' = {})
    BY <1>11, <2>1, RowCloses DEF CancelWrite, Active, TypeOK, RowsTypeOK
  <2> QED
    BY <1>8, <1>11, <2>2 DEF CancelWrite, Answer, Idle, jobVars
<1>12. CASE DeleteRows(c)
  <2>1. OpenRows' \subseteq OpenRows
    BY <1>12 DEF DeleteRows, OpenRows, Active
  <2>2. OpenRows' = OpenRows \/ (OpenRows # {} /\ OpenRows' = {})
    BY <2>1 DEF LaunchInv, OneActiveRow, OpenRows
  <2> QED
    BY <1>8, <1>12, <2>2 DEF DeleteRows, Answer, Idle, jobVars
<1> QED
  BY <1>2, <1>3, <1>5, <1>6, <1>7, <1>9, <1>10, <1>11, <1>12 DEF Launch, Request, Write, Single!Next

LEMMA JobServed ==
    ASSUME TypeOK, LaunchInv, MarketInv, NEW r \in Runs, Job(r)
    PROVE  [Single!Next]_(Single!vars)
<1> USE DEF Single!vars
<1>1. UNCHANGED <<Holders, Committed>>
  <2>1. UNCHANGED req
    BY DEF Job, AcquireMarket, Begin, Prepare, Joined, Settle, Group, Finish, JobError, MarkFailed,
       MarkFailedLocked, Release
  <2> QED
    BY <2>1, RequestFrame
<1>2. job[r] # "none" /\ active_run_ids = {r}
  <2>1. job[r] # "none"
    BY DEF Job, AcquireMarket, Begin, Prepare, Joined, Settle, Group, Finish, JobError, MarkFailed,
       MarkFailedLocked, Release
  <2> QED
    BY <2>1 DEF LaunchInv, active_run_ids
<1>3. OpenRows \subseteq {r}
  BY <1>2 DEF LaunchInv, OpenRows
<1>4. job[r] \in Executing => AtMarket = {"run"}
  BY DEF MarketInv, AtMarket
<1>5. ASSUME NEW step \in Executing, Goto(r, step), job[r] \in Executing, other' = other
      PROVE  UNCHANGED <<active_run_ids, AtMarket>>
  BY <1>5 DEF Goto, Executing, active_run_ids, AtMarket, TypeOK, RuntimeTypeOK
<1>6. CASE AcquireMarket(r)
  <2>1. AtMarket = {} /\ AtMarket' = {"run"}
    BY <1>6 DEF AcquireMarket, MarketFree, Goto, AtMarket, Executing, TypeOK, RuntimeTypeOK
  <2>2. UNCHANGED active_run_ids
    BY <1>6 DEF AcquireMarket, Goto, active_run_ids, TypeOK, RuntimeTypeOK
  <2>3. UNCHANGED OpenRows
    BY <1>6, RowFrame DEF AcquireMarket, rowVars
  <2> QED
    BY <1>1, <1>2, <2>1, <2>2, <2>3 DEF Single!Next, Single!Enter
<1>7. CASE Begin(r)
  <2>1. OpenRows' = {r}
    BY <1>3, <1>7 DEF Begin, OpenRows, Active, TypeOK, RowsTypeOK
  <2>2. AtMarket = {"run"} /\ UNCHANGED <<active_run_ids, AtMarket>>
    BY <1>4, <1>5, <1>7 DEF Begin, Executing
  <2> QED
    BY <1>1, <1>2, <2>1, <2>2 DEF Single!Next, Single!Reopen
<1>8. CASE Prepare(r) \/ Joined(r) \/ Group(r) \/ JobError(r) \/ MarkFailedLocked(r)
  <2>1. UNCHANGED <<status, other>> /\ job[r] \in Executing
    BY <1>8 DEF Prepare, Joined, Group, JobError, MarkFailedLocked, Executing, rowVars
  <2>2. \E step \in Executing : Goto(r, step)
    BY <1>8 DEF Prepare, Joined, Group, JobError, MarkFailedLocked, Executing
  <2> QED
    BY <1>1, <1>5, <2>1, <2>2, RowFrame
<1>9. CASE Settle(r) \/ Finish(r) \/ MarkFailed(r)
  <2>1. other' = other /\ job[r] \in Executing
    BY <1>9 DEF Settle, Finish, MarkFailed, Executing
  <2>2. \E step \in Executing : Goto(r, step)
    BY <1>9 DEF Settle, Finish, MarkFailed, Executing
  <2>3. UNCHANGED <<active_run_ids, AtMarket>>
    BY <1>5, <2>1, <2>2
  <2>4. /\ \A q \in Runs \ {r} : status'[q] = status[q]
        /\ status'[r] \notin Active \/ status'[r] = status[r]
    BY <1>9 DEF Settle, Finish, MarkFailed, aggregate_status, Active, TypeOK, RowsTypeOK
  <2>5. OpenRows' = OpenRows \/ (OpenRows # {} /\ OpenRows' = {})
    BY <2>4, RowCloses
  <2> QED
    BY <1>1, <2>3, <2>5 DEF Single!Next, Single!CloseRow
<1>10. CASE Release(r)
  <2>1. AtMarket = {"run"}
    BY <1>4, <1>10 DEF Release, Executing
  <2>2. active_run_ids' = {} /\ \A q \in Runs : job'[q] = "none"
    BY <1>2, <1>10 DEF Release, Goto, active_run_ids, TypeOK, RuntimeTypeOK
  <2>3. AtMarket' = {}
    BY <1>10, <2>1, <2>2 DEF Release, AtMarket, Executing
  <2>4. UNCHANGED OpenRows
    BY <1>10, RowFrame DEF Release, rowVars
  <2> QED
    BY <1>1, <2>1, <2>2, <2>3, <2>4 DEF Single!Next, Single!Leave
<1> QED
  BY <1>6, <1>7, <1>8, <1>9, <1>10 DEF Job

LEMMA WorkServed ==
    ASSUME NEW w \in Workers, Work(w)
    PROVE  UNCHANGED Single!vars
<1>1. UNCHANGED <<status, job, req, other>>
  BY DEF Work, Take, Claim, Swept, Withdraw, FailTask, FailTaskLocked, Complete, Raise, rowVars
<1> QED
  BY <1>1, RequestFrame, JobFrame, RowFrame DEF Single!vars

LEMMA ProcessServed ==
    ASSUME TypeOK, LaunchInv, MarketInv, Process
    PROVE  [Single!Next]_(Single!vars)
<1> USE DEF Single!vars
<1>1. CASE TakeMarket
  <2>1. AtMarket = {} /\ AtMarket' = {"other"}
    BY <1>1 DEF TakeMarket, MarketFree, AtMarket, jobVars
  <2>2. UNCHANGED <<Holders, Committed, active_run_ids, OpenRows>>
    BY <1>1, RequestFrame, RowFrame DEF TakeMarket, active_run_ids, rowVars, jobVars
  <2> QED
    BY <2>1, <2>2 DEF Single!Next, Single!OthersEnter
<1>2. CASE LeaveMarket
  <2>1. AtMarket = {"other"} /\ AtMarket' = {}
    BY <1>2 DEF LeaveMarket, MarketInv, AtMarket, jobVars
  <2>2. UNCHANGED <<Holders, Committed, active_run_ids, OpenRows>>
    BY <1>2, RequestFrame, RowFrame DEF LeaveMarket, active_run_ids, rowVars, jobVars
  <2> QED
    BY <2>1, <2>2 DEF Single!Next, Single!OthersLeave
<1>3. CASE Close
  <2>1. Holders' = {} /\ Committed' = {}
    BY <1>3 DEF Close, Holders, Committed, Holds, Idle
  <2>2. AtMarket' = AtMarket \ {"other"}
    BY <1>3 DEF Close, AtMarket
  <2>3. UNCHANGED <<active_run_ids, OpenRows>>
    BY <1>3, RowFrame DEF Close, active_run_ids, rowVars
  <2> QED
    BY <2>1, <2>2, <2>3 DEF Single!Next, Single!Shut
<1>4. ASSUME NEW r \in Runs, Interrupt(r) PROVE Single!Interrupt
  <2>1. active_run_ids = {r}
    BY <1>4 DEF Interrupt, LaunchInv, active_run_ids
  <2>2. active_run_ids' = {} /\ \A q \in Runs : job'[q] = "none"
    BY <1>4, <2>1 DEF Interrupt, Goto, active_run_ids, TypeOK, RuntimeTypeOK
  <2>3. AtMarket' = AtMarket \ {"run"}
    BY <1>4, <2>2 DEF Interrupt, AtMarket, Executing
  <2>4. /\ \A q \in Runs \ {r} : status'[q] = status[q]
        /\ status'[r] \notin Active \/ status'[r] = status[r]
    BY <1>4 DEF Interrupt, Active, TypeOK, RowsTypeOK
  <2>5. OpenRows' \in {OpenRows, {}}
    BY <2>4, RowCloses
  <2>6. UNCHANGED <<Holders, Committed>>
    BY <1>4, RequestFrame DEF Interrupt
  <2> QED
    BY <2>1, <2>2, <2>3, <2>5, <2>6 DEF Single!Interrupt
<1>5. CASE Down
  <2>1. Holders' = {} /\ Committed' = {}
    BY <1>5 DEF Down, Forget, Holders, Committed, Holds, Idle
  <2>2. active_run_ids' = {} /\ AtMarket' = {}
    BY <1>5 DEF Down, Forget, active_run_ids, AtMarket, Executing
  <2>3. UNCHANGED OpenRows
    BY <1>5, RowFrame DEF Down, rowVars
  <2> QED
    BY <2>1, <2>2, <2>3 DEF Single!Next, Single!Stop
<1>6. CASE Boot
  <2>1. OpenRows' = {}
    BY <1>6 DEF Boot, reconcile_interrupted, OpenRows, Active, TypeOK, RowsTypeOK
  <2>2. UNCHANGED <<Holders, Committed, active_run_ids, AtMarket>>
    BY <1>6, RequestFrame, JobFrame DEF Boot, jobVars
  <2> QED
    BY <2>1, <2>2 DEF Single!Next, Single!CloseRow
<1>7. CASE BootLocked
  BY <1>7, RequestFrame, JobFrame, RowFrame DEF BootLocked, rowVars, jobVars
<1> QED
  BY <1>1, <1>2, <1>3, <1>4, <1>5, <1>6, <1>7 DEF Process, Single!Next

(* Whatever handlers, scheduler, shutdowns and crashes do, one run at a time *)
(* is committed, handed to the runtime and executed, never beside a deal     *)
(* scan: the collection runtime implements SingleRun.                        *)
THEOREM ServesOneRun == Spec => OneRunIsServed
<1>1. Init => Single!Init
  BY DEF Init, Single!Init, Holders, Committed, Holds, Idle, active_run_ids, OpenRows, Active, AtMarket,
     Executing, Callers
<1>2. TypeOK /\ LaunchInv /\ MarketInv /\ [Next]_vars => [Single!Next]_(Single!vars)
  <2> SUFFICES ASSUME TypeOK, LaunchInv, MarketInv, [Next]_vars PROVE [Single!Next]_(Single!vars)
    OBVIOUS
  <2>1. CASE Next
    BY <2>1, CallerServed, JobServed, WorkServed, ProcessServed DEF Next
  <2>2. CASE UNCHANGED vars
    BY <2>2, RequestFrame, JobFrame, RowFrame DEF vars, rowVars, jobVars, Single!vars
  <2> QED
    BY <2>1, <2>2
<1> QED
  BY <1>1, <1>2, TypeCorrect, LaunchInvariant, MarketInvariant, PTL DEF Spec, OneRunIsServed, Single!Spec
==============================================================================
