----------------------------- MODULE Migration -----------------------------
(***************************************************************************)
(* init_schema and _migrate_aggregates_foreign_key (storage.py) statement  *)
(* by statement, run by processes that start on one database while another *)
(* still writes to it.  The transaction works on a copy of the database    *)
(* that COMMIT publishes and ROLLBACK or a crash discards.                 *)
(***************************************************************************)
EXTENDS Integers

CONSTANTS
  Process,     \* processes that initialise the database
  Control,     \* controls; each has one row of aggregates
  None,        \* no process
  MaxWrites,   \* bound on what a row counts
  MaxFaults    \* bound on failures and crashes

ASSUME MigrationAssumption ==
  None \notin Process /\ MaxWrites \in Nat /\ MaxFaults \in Nat

Absent == [form |-> "absent", count |-> [k \in Control |-> 0]]
Empty(form) == [form |-> form, count |-> [k \in Control |-> 0]]
Table == [form : {"absent", "legacy", "fk"}, count : [Control -> 0..MaxWrites]]
Database == [known : SUBSET Control, aggregates : Table, old : Table]

InTransaction == {"look", "drop_left", "rename", "create", "copy", "drop", "commit"}
Steps == {"controls", "aggregates", "begin", "rollback", "ready", "down"} \cup InTransaction

VARIABLES
  db,      \* the database as committed
  work,    \* the copy of the transaction in progress
  writer,  \* the process that holds the write lock
  stmt,    \* stmt[p]: the statement p executes next
  faults   \* failures and crashes so far

migrationVars == <<db, work, writer, stmt, faults>>

MigrationTypeOK ==
  /\ db \in Database /\ work \in Database
  /\ writer \in Process \cup {None}
  /\ stmt \in [Process -> Steps]
  /\ faults \in 0..MaxFaults

Referring(table, known) ==
  table.form = "fk" => \A k \in Control : table.count[k] > 0 => k \in known

\* A new database, one of an older version, perhaps with orphaned rows or a
\* table an interrupted upgrade without transaction has left, or a current one.
MigrationInit ==
  /\ \E known \in SUBSET Control, form \in {"absent", "legacy", "fk"},
        count \in [Control -> 0..MaxWrites], old \in {Absent, Empty("legacy")} :
       /\ form = "absent" => \A k \in Control : count[k] = 0
       /\ Referring([form |-> form, count |-> count], known)
       /\ db = [known |-> known, aggregates |-> [form |-> form, count |-> count], old |-> old]
  /\ work = db
  /\ writer = None
  /\ stmt = [p \in Process |-> "controls"]
  /\ faults = 0

GoOn(p, step) == stmt' = [stmt EXCEPT ![p] = step]

-----------------------------------------------------------------------------
(* The writes of a process that is up already.                             *)

Declare(k) ==
  /\ writer = None /\ k \notin db.known
  /\ db' = [db EXCEPT !.known = @ \cup {k}]
  /\ UNCHANGED <<work, writer, stmt, faults>>

Count(k) ==
  /\ writer = None /\ k \in db.known
  /\ db.aggregates.form # "absent" /\ db.aggregates.count[k] < MaxWrites
  /\ db' = [db EXCEPT !.aggregates.count[k] = @ + 1]
  /\ UNCHANGED <<work, writer, stmt, faults>>

-----------------------------------------------------------------------------
(* The statements.                                                         *)

\* CREATE TABLE IF NOT EXISTS controls: an empty table is one of no controls.
CreateControls(p) ==
  /\ stmt[p] = "controls" /\ writer = None
  /\ GoOn(p, "aggregates")
  /\ UNCHANGED <<db, work, writer, faults>>

CreateAggregates(p) ==
  /\ stmt[p] = "aggregates"
  /\ \/ /\ db.aggregates.form # "absent" /\ UNCHANGED db
     \/ /\ db.aggregates.form = "absent" /\ writer = None
        /\ db' = [db EXCEPT !.aggregates = Empty("fk")]
  /\ GoOn(p, "begin")
  /\ UNCHANGED <<work, writer, faults>>

\* Mutant: BEGIN, which does not take the write lock.
BeginDeferred(p) ==
  /\ stmt[p] = "begin"
  /\ work' = db /\ writer' = p
  /\ GoOn(p, "look")
  /\ UNCHANGED <<db, faults>>

\* BEGIN IMMEDIATE waits for the write lock.
Begin(p) ==
  /\ stmt[p] = "begin" /\ writer = None
  /\ work' = db /\ writer' = p
  /\ GoOn(p, "look")
  /\ UNCHANGED <<db, faults>>

\* sqlite_master and PRAGMA foreign_key_list
Inspect(p) ==
  /\ stmt[p] = "look"
  /\ GoOn(p, IF work.aggregates.form = "legacy" THEN "drop_left" ELSE "commit")
  /\ UNCHANGED <<db, work, writer, faults>>

\* Mutant: the statement commits at once.
ExecuteAutocommit(p, step, new, next) ==
  /\ stmt[p] = step
  /\ work' = new /\ db' = new
  /\ GoOn(p, next)
  /\ UNCHANGED <<writer, faults>>

\* Statement "step" of p turns the copy into "new"; "next" follows.
Execute(p, step, new, next) ==
  /\ stmt[p] = step
  /\ work' = new
  /\ GoOn(p, next)
  /\ UNCHANGED <<db, writer, faults>>

\* Mutant: a table left behind stays.
DropLeftNothing(p) == Execute(p, "drop_left", work, "rename")

\* DROP TABLE IF EXISTS aggregates_old
DropLeft(p) == Execute(p, "drop_left", [work EXCEPT !.old = Absent], "rename")

\* ALTER TABLE ... RENAME fails if the name is taken.
Rename(p) ==
  IF work.old = Absent
    THEN Execute(p, "rename", [work EXCEPT !.old = work.aggregates, !.aggregates = Absent], "create")
    ELSE Execute(p, "rename", work, "rollback")

CreateAnew(p) == Execute(p, "create", [work EXCEPT !.aggregates = Empty("fk")], "copy")

\* INSERT ... SELECT ... JOIN controls
Copy(p) ==
  Execute(p, "copy", [work EXCEPT !.aggregates.count =
    [k \in Control |-> IF k \in work.known THEN work.old.count[k] ELSE 0]], "drop")

DropOld(p) == Execute(p, "drop", [work EXCEPT !.old = Absent], "commit")

Rebuild(p) == DropLeft(p) \/ Rename(p) \/ CreateAnew(p) \/ Copy(p) \/ DropOld(p)

Commit(p) ==
  /\ stmt[p] = "commit"
  /\ db' = work /\ writer' = None
  /\ GoOn(p, "ready")
  /\ UNCHANGED <<work, faults>>

\* Any statement may fail, by a full disk or a lock not granted in time; the
\* transaction is rolled back.
Fail(p) ==
  /\ stmt[p] \notin {"rollback", "ready", "down"} /\ faults < MaxFaults
  /\ GoOn(p, IF stmt[p] \in InTransaction \cup {"begin"} THEN "rollback" ELSE "down")
  /\ faults' = faults + 1
  /\ UNCHANGED <<db, work, writer>>

\* ROLLBACK; create_main_app closes the connection and fails.
Rollback(p) ==
  /\ stmt[p] = "rollback"
  /\ writer' = IF writer = p THEN None ELSE writer
  /\ GoOn(p, "down")
  /\ UNCHANGED <<db, work, faults>>

\* The process dies: its lock goes, and the log of its transaction is ignored.
Crash(p) ==
  /\ stmt[p] # "down" /\ faults < MaxFaults
  /\ writer' = IF writer = p THEN None ELSE writer
  /\ GoOn(p, "down")
  /\ faults' = faults + 1
  /\ UNCHANGED <<db, work>>

Restart(p) ==
  /\ stmt[p] = "down"
  /\ GoOn(p, "controls")
  /\ UNCHANGED <<db, work, writer, faults>>

InitSchema(p) ==
  CreateControls(p) \/ CreateAggregates(p) \/ Begin(p) \/ Inspect(p) \/ Rebuild(p)
    \/ Commit(p) \/ Rollback(p) \/ Restart(p)

AllReady == (\A p \in Process : stmt[p] = "ready") /\ UNCHANGED migrationVars

MigrationNext ==
  \/ \E p \in Process : InitSchema(p) \/ Fail(p) \/ Crash(p)
  \/ \E k \in Control : Declare(k) \/ Count(k)
  \/ AllReady

MigrationSpec == MigrationInit /\ [][MigrationNext]_migrationVars

\* Every process executes its statements and is started again.
FairMigrationSpec == MigrationSpec /\ \A p \in Process : WF_migrationVars(InitSchema(p))

-----------------------------------------------------------------------------
(* Properties.                                                             *)

\* The table of aggregates as the upgrade leaves it.
Upgraded == [form  |-> "fk",
             count |-> [k \in Control |-> IF k \in db.known THEN db.aggregates.count[k] ELSE 0]]

\* What the statements before the one p is at have made of its copy.
Progress(p) ==
  /\ stmt[p] \in {"begin"} \cup InTransaction => db.aggregates.form # "absent"
  /\ stmt[p] \in InTransaction => writer = p /\ work.known = db.known
  /\ stmt[p] \in {"look", "drop_left"} => work = db
  /\ stmt[p] = "rename" => work.aggregates = db.aggregates
  /\ stmt[p] \in {"create", "copy"} => work.old = db.aggregates
  /\ stmt[p] = "copy" => work.aggregates = Empty("fk")
  /\ stmt[p] = "drop" => work.aggregates = Upgraded
  /\ stmt[p] = "commit" => work.aggregates \in {db.aggregates, Upgraded}

\* The lock belongs to the process in a transaction, whose copy differs from
\* the database by its own statements only, as far as these have come; a
\* committed table refers to controls that exist (storage.py:60-121).
MigrationInv ==
  /\ MigrationTypeOK
  /\ \A p \in Process : Progress(p)
  /\ Referring(db.aggregates, db.known)
  /\ db.aggregates.form = "absent" => db.aggregates = Absent

\* Everybody else sees the upgrade as one step that drops the orphans only,
\* and no write of another process is lost in it.
Abstract == INSTANCE SchemaUpgrade WITH
  known <- db.known, form <- db.aggregates.form, count <- db.aggregates.count
ImplementsUpgrade == Abstract!UpgradeSpec

\* Every process comes to serve requests in the end, on a table with its
\* foreign key, however its attempts were interrupted and whatever they left
\* (storage.py:60-121).
SchemaReady == \A p \in Process : <>[](stmt[p] = "ready" /\ db.aggregates.form = "fk")
=============================================================================
