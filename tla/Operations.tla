------------------------------ MODULE Operations ------------------------------
(***************************************************************************)
(* services/operations.py, core/runtime.py and the lifespan of main.py:    *)
(* operating-system processes around one SQLite file.  A process is the    *)
(* app, which locks app.lock, migrates, writes app.pid, serves and may run *)
(* the weekly maintenance in a thread, or a command: db-backup, retention, *)
(* db-restore or db-vacuum.  SQLite makes a copy and a write atomic; what  *)
(* lies between two of them is not, and a process may be killed anywhere.  *)
(*                                                                         *)
(* Process ids are the processes: one that ended may come back as another. *)
(* Backups have no sidecars here: they are written in DELETE mode.         *)
(***************************************************************************)
EXTENDS Naturals, FiniteSetsExt

CONSTANTS
    Processes,    \* process ids
    Listings,
    RawDays,      \* raw_data_retention_days
    BackupDays,   \* backup_retention_days
    Keep,         \* backup_keep_count
    Batch,        \* RETENTION_BATCH
    Longest,      \* how long an operation may take: far less than the days above
    NoOne,        \* no process
    Blank,        \* a marker that is opened and not yet written
    MaxTime,      \* bound: the clock stops here
    MaxStarts     \* bound: operations that are started

ASSUME OperationsAssumption ==
    /\ NoOne \notin Processes /\ Blank \notin Processes /\ NoOne # Blank
    /\ {RawDays, BackupDays, Keep, Batch} \subseteq Nat \ {0}
    /\ {MaxTime, MaxStarts} \subseteq Nat
    /\ Longest \in 0..RawDays /\ Longest <= BackupDays

VARIABLES
    clock,       \* the wall clock
    database,  \* database[l]: last_seen_at (0: no row) and whether raw_json is filled
    lock,      \* who holds the flock on app.lock
    marker,    \* the content of app.pid
    app,       \* app[p]: where p is in lifespan, "off" for no app
    task,      \* task[p]: the operation p executes, in a thread when p is an app
    partial,   \* temporary files: name, content, whether the copy is whole
    backups,   \* *.sqlite3: name, content, modification time, whether whole
    starts,    \* history: operations started
    undercut   \* history: a restore replaced the database under a maintenance

operationsVars == <<clock, database, lock, marker, app, task, partial, backups, starts, undercut>>
files == <<partial, backups>>
instance == <<lock, marker, app>>

Kinds == {"maintain", "backup", "retention", "restore", "vacuum"}
NoRow == [seen |-> 0, raw |-> FALSE]
NoTask == [kind |-> "none", pc |-> "idle", begun |-> 0, at |-> 0, source |-> 0, name |-> 0,
         expired |-> {}]
Alive(p) == app[p] # "off" \/ task[p].pc # "idle"
At(p, pc) == task[p].pc = pc
To(p, pc) == task' = [task EXCEPT ![p].pc = pc]
Done(p) == task' = [task EXCEPT ![p] = NoTask]
minus(a, b) == IF a > b THEN a - b ELSE 0

(* What a copy of the database holds.                                       *)
Backup(name, whole) ==
    [name |-> name, modified |-> clock, rows |-> database, whole |-> whole]

OperationsInit ==
    /\ clock = 1
    /\ database = [l \in Listings |-> [seen |-> 1, raw |-> TRUE]]
    /\ lock = NoOne /\ marker = NoOne
    /\ app = [p \in Processes |-> "off"]
    /\ task = [p \in Processes |-> NoTask]
    /\ partial = {} /\ backups = {}
    /\ starts = 0 /\ undercut = FALSE

ClockTick ==
    /\ clock < MaxTime /\ clock' = clock + 1
    /\ \A p \in Processes : ~At(p, "idle") => clock < task[p].begun + Longest
    /\ UNCHANGED <<database, instance, task, files, starts, undercut>>

------------------------------------------------------------------------------
(* The app. *)

Lifespan(p, from, to) == app[p] = from /\ app' = [app EXCEPT ![p] = to]

(* A second app ends here: another_backend_instance_is_running.             *)
Boot(p) ==
    /\ ~Alive(p) /\ lock = NoOne
    /\ lock' = p
    /\ Lifespan(p, "off", "migrating")
    /\ UNCHANGED <<clock, database, marker, task, files, starts, undercut>>

(* write_text truncates the marker before it writes.                        *)
OpenMarker(p) ==
    /\ Lifespan(p, "migrating", "marking")
    /\ marker' = Blank
    /\ UNCHANGED <<clock, database, lock, task, files, starts, undercut>>

(* If the marker was removed meanwhile, the write goes to a file without a name. *)
WriteMarker(p) ==
    /\ Lifespan(p, "marking", "serving")
    /\ marker' = IF marker = Blank THEN p ELSE marker
    /\ UNCHANGED <<clock, database, lock, task, files, starts, undercut>>

(* A collection or a deal scan; the maintenance holds the market lock.      *)
See(p, l) ==
    /\ app[p] = "serving" /\ At(p, "idle")
    /\ database' = [database EXCEPT ![l] = [seen |-> clock, raw |-> TRUE]]
    /\ UNCHANGED <<clock, instance, task, files, starts, undercut>>

(* A graceful end, or a startup that failed.                                *)
Shutdown(p) ==
    /\ \E from \in {"migrating", "marking", "serving"} : Lifespan(p, from, "closing")
    /\ UNCHANGED <<clock, database, lock, marker, task, files, starts, undercut>>

RemoveMarker(p) ==
    /\ Lifespan(p, "closing", "released")
    /\ marker' = IF marker = p THEN NoOne ELSE marker
    /\ UNCHANGED <<clock, database, lock, task, files, starts, undercut>>

(* The thread of a maintenance cannot be cancelled: the process outlives the *)
(* lock until it ends.                                                       *)
Release(p) ==
    /\ Lifespan(p, "released", IF At(p, "idle") THEN "off" ELSE "closed")
    /\ lock' = NoOne
    /\ UNCHANGED <<clock, database, marker, task, files, starts, undercut>>

Exit(p) ==
    /\ At(p, "idle") /\ Lifespan(p, "closed", "off")
    /\ UNCHANGED <<clock, database, lock, marker, task, files, starts, undercut>>

(* The system drops the flock of a killed process, and nothing else of it.  *)
Kill(p) ==
    /\ Alive(p)
    /\ app' = [app EXCEPT ![p] = "off"]
    /\ lock' = IF lock = p THEN NoOne ELSE lock
    /\ Done(p)
    /\ UNCHANGED <<clock, database, marker, files, starts, undercut>>

------------------------------------------------------------------------------
(* Operations. *)

(* Backups are named after the second they were started in; that no two are *)
(* started in one is assumed (README).                                      *)
Unnamed == ~ \E f \in backups \union partial : f.name = clock

First == [maintain |-> "copy", backup |-> "copy", retention |-> "count",
          restore |-> "verify", vacuum |-> "lock"]

Start(p, kind) ==
    /\ starts < MaxStarts
    /\ At(p, "idle")
    /\ app[p] = (IF kind = "maintain" THEN "serving" ELSE "off")
    /\ starts' = starts + 1
    /\ task' = [task EXCEPT ![p] = [NoTask EXCEPT !.kind = kind, !.pc = First[kind],
                                                !.begun = clock]]
    /\ UNCHANGED <<clock, database, instance, files, undercut>>

BeginCopy_InPlace(p) ==
    /\ At(p, "copy") /\ Unnamed
    /\ backups' = backups \union {Backup(clock, FALSE)}
    /\ partial' = partial \union {Backup(clock, FALSE)}
    /\ task' = [task EXCEPT ![p].pc = "copying", ![p].name = clock]
    /\ UNCHANGED <<clock, database, instance, starts, undercut>>

(* backup_database, in its own process or as a part of another operation.   *)
BeginCopy(p) ==
    /\ At(p, "copy") /\ Unnamed
    /\ partial' = partial \union {Backup(clock, FALSE)}
    /\ task' = [task EXCEPT ![p].pc = "copying", ![p].name = clock]
    /\ UNCHANGED <<clock, database, instance, backups, starts, undercut>>

Named(set, p) == {f \in set : f.name = task[p].name}

Copied(p) ==
    /\ At(p, "copying") /\ To(p, "check")
    /\ partial' = (partial \ Named(partial, p)) \union {Backup(task[p].name, TRUE)}
    /\ UNCHANGED <<clock, database, instance, backups, starts, undercut>>

(* What follows a backup.                                                   *)
AfterBackup == [maintain |-> "count", backup |-> "idle", restore |-> "replace"]

Proceed(p, pc) ==
    task' = [task EXCEPT ![p] = IF pc = "idle" THEN NoTask ELSE [@ EXCEPT !.pc = pc]]

Publish(p) ==
    /\ At(p, "check")
    /\ \A f \in Named(partial, p) : f.whole
    /\ backups' = (backups \ Named(backups, p)) \union Named(partial, p)
    /\ partial' = partial \ Named(partial, p)
    /\ Proceed(p, AfterBackup[task[p].kind])
    /\ UNCHANGED <<clock, database, instance, starts, undercut>>

(* No room, a failed check or a busy database: the temporary file goes, the *)
(* error ends the operation.                                                *)
AfterFailure_GoOn(kind) == IF kind = "maintain" THEN "count" ELSE "idle"

AfterFailure(kind) == "idle"

BackupFails(p) ==
    /\ task[p].pc \in {"copying", "check"}
    /\ partial' = partial \ Named(partial, p)
    /\ Proceed(p, AfterFailure(task[p].kind))
    /\ UNCHANGED <<clock, database, instance, backups, starts, undercut>>

(* retention: the clock is read once, rows are purged batch by batch.       *)
Due(rows, at) == {l \in Listings : rows[l].raw /\ rows[l].seen < minus(at, RawDays)}

Count(p) ==
    /\ At(p, "count")
    /\ task' = [task EXCEPT ![p].at = clock,
                            ![p].pc = IF Due(database, clock) = {} THEN "list" ELSE "purge"]
    /\ UNCHANGED <<clock, database, instance, files, starts, undercut>>

Batches(p) ==
    LET due == Due(database, task[p].at)
    IN IF Cardinality(due) <= Batch THEN {due} ELSE kSubset(Batch, due)

Purge(p) ==
    /\ At(p, "purge")
    /\ \E batch \in Batches(p) :
         /\ database' = [l \in Listings |->
                            IF l \in batch THEN [database[l] EXCEPT !.raw = FALSE]
                                           ELSE database[l]]
         /\ IF Cardinality(batch) < Batch THEN To(p, "list") ELSE UNCHANGED task
    /\ UNCHANGED <<clock, instance, files, starts, undercut>>

Newer(f, g) == f.modified > g.modified \/ (f.modified = g.modified /\ f.name > g.name)
Rank(f) == Cardinality({g \in backups : Newer(g, f)})

Expired_OldestFirst(f, at) ==
    \/ Cardinality({g \in backups : Newer(f, g)}) >= Keep
    \/ f.modified < minus(at, BackupDays)

Expired(f, at) == Rank(f) >= Keep \/ f.modified < minus(at, BackupDays)

List(p) ==
    /\ At(p, "list")
    /\ task' = [task EXCEPT ![p].pc = "delete",
                            ![p].expired = {f.name : f \in {g \in backups : Expired(g, task[p].at)}}]
    /\ UNCHANGED <<clock, database, instance, files, starts, undercut>>

(* unlink(missing_ok=True), the newest of them first.                       *)
Delete(p) ==
    /\ At(p, "delete")
    /\ LET here == {f \in backups : f.name \in task[p].expired}
       IN IF here = {} THEN Done(p) /\ UNCHANGED backups
          ELSE /\ \E f \in here :
                    /\ \A g \in here \ {f} : Newer(f, g)
                    /\ backups' = backups \ {f}
                    /\ task' = [task EXCEPT ![p].expired = @ \ {f.name}]
    /\ UNCHANGED <<clock, database, instance, partial, starts, undercut>>

(* retention gives the write lock up after BUSY_TIMEOUT_S.                  *)
RetentionFails(p) ==
    /\ task[p].pc \in {"count", "purge"}
    /\ Done(p)
    /\ UNCHANGED <<clock, database, instance, files, starts, undercut>>

------------------------------------------------------------------------------
(* db-restore --apply and db-vacuum. *)

Verify(p) ==
    /\ At(p, "verify")
    /\ \E f \in backups :
         /\ f.whole
         /\ task' = [task EXCEPT ![p].pc = "marker", ![p].source = f.name]
    /\ UNCHANGED <<clock, database, instance, files, starts, undercut>>

NoSource(p) ==
    /\ At(p, "verify") /\ backups = {}
    /\ Done(p)
    /\ UNCHANGED <<clock, database, instance, files, starts, undercut>>

(* _require_application_stopped: no marker; a marker of a live process,      *)
(* whatever it is; or one to remove.                                         *)
ReadMarker(p) ==
    /\ At(p, "marker")
    /\ IF marker = NoOne THEN To(p, "copy")
       ELSE IF marker # Blank /\ Alive(marker) THEN Done(p)
       ELSE To(p, "unlink")
    /\ UNCHANGED <<clock, database, instance, files, starts, undercut>>

Unlink(p) ==
    /\ At(p, "unlink") /\ To(p, "copy")
    /\ marker' = NoOne
    /\ UNCHANGED <<clock, database, lock, app, files, starts, undercut>>

(* SQLite creates the source it does not find, as an empty database.        *)
Source(p) ==
    LET found == {f \in backups : f.name = task[p].source}
    IN IF found = {} THEN [l \in Listings |-> NoRow]
                     ELSE (CHOOSE f \in found : TRUE).rows

Maintaining == {q \in Processes : task[q].kind = "maintain"}

Replace(p) ==
    /\ At(p, "replace") /\ Done(p)
    /\ database' = Source(p)
    /\ undercut' = (undercut \/ Maintaining # {})
    /\ UNCHANGED <<clock, instance, files, starts>>

LockForVacuum(p) ==
    /\ At(p, "lock")
    /\ IF lock = NoOne THEN lock' = p /\ To(p, "vacuum") ELSE UNCHANGED lock /\ Done(p)
    /\ UNCHANGED <<clock, database, marker, app, files, starts, undercut>>

(* Rewritten, or refused for want of room.                                  *)
Vacuum(p) ==
    /\ At(p, "vacuum") /\ Done(p)
    /\ lock' = NoOne
    /\ UNCHANGED <<clock, database, marker, app, files, starts, undercut>>

------------------------------------------------------------------------------
AppStep(p) ==
    \/ Boot(p) \/ OpenMarker(p) \/ WriteMarker(p) \/ Shutdown(p) \/ RemoveMarker(p)
    \/ Release(p) \/ Exit(p) \/ Kill(p)
    \/ \E l \in Listings : See(p, l)

TaskStep(p) ==
    \/ \E kind \in Kinds : Start(p, kind)
    \/ BeginCopy(p) \/ Copied(p) \/ Publish(p) \/ BackupFails(p)
    \/ Count(p) \/ Purge(p) \/ List(p) \/ Delete(p) \/ RetentionFails(p)
    \/ Verify(p) \/ NoSource(p) \/ ReadMarker(p) \/ Unlink(p) \/ Replace(p)
    \/ LockForVacuum(p) \/ Vacuum(p)

OperationsNext == ClockTick \/ \E p \in Processes : AppStep(p) \/ TaskStep(p)

OperationsSpec == OperationsInit /\ [][OperationsNext]_operationsVars

------------------------------------------------------------------------------
(* Every variable holds values of its type.                                 *)
Contents == [Listings -> [seen : 0..MaxTime, raw : BOOLEAN]]
Files == [name : 0..MaxTime, modified : 0..MaxTime, rows : Contents, whole : BOOLEAN]
OperationsTypeOK ==
    /\ clock \in 1..MaxTime /\ database \in Contents
    /\ lock \in Processes \union {NoOne} /\ marker \in Processes \union {NoOne, Blank}
    /\ app \in [Processes -> {"off", "migrating", "marking", "serving", "closing",
                              "released", "closed"}]
    /\ \A p \in Processes : task[p].kind \in Kinds \union {"none"}
    /\ partial \subseteq Files /\ backups \subseteq Files
    /\ starts \in 0..MaxStarts /\ undercut \in BOOLEAN

(* "A failed or interrupted backup never passes for the newest good one":   *)
(* whatever is killed or fails, every file that retention counts and that a *)
(* restore may be given is a whole copy.                                    *)
BackupsAreWhole == \A f \in backups : f.whole

(* "Retention never purges raw data the newest backup lacks": when the      *)
(* maintenance purges a listing, some backup and every newer one have its    *)
(* raw hit, although other processes back up, purge, delete backups and      *)
(* serve meanwhile.  A restore under the maintenance breaks it (README).     *)
PurgedIsBackedUp ==
    [][\A p \in Maintaining : Purge(p) /\ ~undercut =>
          \A l \in Listings : database[l].raw /\ ~database'[l].raw =>
             \E f \in backups : \A g \in backups : g = f \/ Newer(g, f) => g.rows[l].raw]_operationsVars

(* A backup is only deleted when it is too old, or Keep newer ones exist at *)
(* that moment: two retentions that listed the files before either deleted  *)
(* one never take more than either would alone.                             *)
KeptBackupsStay ==
    [][\A f \in backups \ backups' :
          f.modified < minus(clock, BackupDays) \/ Rank(f) >= Keep]_operationsVars

(* "Stop the application before restoring the database."  Does not hold:    *)
(* the marker is read once, is written after the migrations and can be      *)
(* removed by a restore that took it for a dead process's (README).         *)
RestoreFindsNoApp ==
    [][\A p \in Processes : Replace(p) => \A q \in Processes : app[q] # "serving"]_operationsVars

(* A restore brings back the backup it verified.  Does not hold: a retention *)
(* may delete the file in between (README).                                  *)
RestoreBringsTheBackup ==
    [][\A p \in Processes : Replace(p) => \E f \in backups : f.name = task[p].source]_operationsVars
=============================================================================
