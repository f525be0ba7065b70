------------------------------ MODULE SingleRun ------------------------------
(***************************************************************************)
(* What the two locks promise together, without callers, workers, tasks or *)
(* steps: launch_lock chooses one run at a time and hands it to the        *)
(* runtime, market_lock lets it work apart from deal scans and maintenance.*)
(* The row of a run may be closed at any moment (a late cancel, a deleted  *)
(* row), and what a stopped process leaves open is closed by the next boot.*)
(* CollectionRun implements this specification.                            *)
(***************************************************************************)
CONSTANTS Runs, Callers

VARIABLES
    holders,    \* callers that hold launch_lock: one at most
    committed,  \* the run whose row is committed and not yet in the runtime
    runtime,    \* the run in ParserRuntime
    open,       \* runs whose row is pending or running
    market      \* who holds market_lock: the run ("run") or anybody else

vars == <<holders, committed, runtime, open, market>>

Init ==
    /\ holders = {} /\ committed = {} /\ runtime = {}
    /\ open = {} /\ market = {}

(* launch_lock is taken by one caller and released without a run.           *)
Lock(c) ==
    /\ holders = {} /\ holders' = {c}
    /\ UNCHANGED <<committed, runtime, open, market>>

Unlock ==
    /\ holders # {} /\ committed = {} /\ holders' = {}
    /\ UNCHANGED <<committed, runtime, open, market>>

(* A row is opened only while no other run has one, or a job.               *)
Commit(r) ==
    /\ holders # {} /\ committed = {} /\ runtime = {} /\ open = {}
    /\ committed' = {r} /\ open' = {r}
    /\ UNCHANGED <<holders, runtime, market>>

HandOver ==
    /\ committed # {} /\ runtime = {}
    /\ runtime' = committed /\ committed' = {} /\ holders' = {}
    /\ UNCHANGED <<open, market>>

(* The run waits its turn, works (and says so in its row) and ends.         *)
Enter ==
    /\ runtime # {} /\ market = {} /\ market' = {"run"}
    /\ UNCHANGED <<holders, committed, runtime, open>>

Reopen ==
    /\ market = {"run"} /\ open' = runtime
    /\ UNCHANGED <<holders, committed, runtime, market>>

Leave ==
    /\ market = {"run"} /\ market' = {} /\ runtime' = {}
    /\ UNCHANGED <<holders, committed, open>>

(* By the run itself, by a late cancel, by a delete or by the boot.         *)
CloseRow ==
    /\ open # {} /\ open' = {}
    /\ UNCHANGED <<holders, committed, runtime, market>>

(* Deal scans and maintenance.                                              *)
OthersEnter ==
    /\ market = {} /\ market' = {"other"}
    /\ UNCHANGED <<holders, committed, runtime, open>>

OthersLeave ==
    /\ market = {"other"} /\ market' = {}
    /\ UNCHANGED <<holders, committed, runtime, open>>

(* A shutdown takes the locks from everybody but the run, then stops the    *)
(* run; after a crash the rows alone are left.                              *)
Shut ==
    /\ holders' = {} /\ committed' = {} /\ market' = market \ {"other"}
    /\ UNCHANGED <<runtime, open>>

Interrupt ==
    /\ runtime # {} /\ runtime' = {} /\ market' = market \ {"run"}
    /\ open' \in {open, {}}
    /\ UNCHANGED <<holders, committed>>

Stop ==
    /\ holders' = {} /\ committed' = {} /\ runtime' = {} /\ market' = {}
    /\ UNCHANGED open

Next ==
    \/ \E c \in Callers : Lock(c)
    \/ \E r \in Runs : Commit(r)
    \/ Unlock \/ HandOver \/ Enter \/ Reopen \/ Leave \/ CloseRow
    \/ OthersEnter \/ OthersLeave \/ Shut \/ Interrupt \/ Stop

Spec == Init /\ [][Next]_vars
=============================================================================
