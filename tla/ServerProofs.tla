---------------------------- MODULE ServerProofs ----------------------------
(***************************************************************************)
(* Proofs about a process of the two APIs, for any number of processes,    *)
(* controls and callers: the upgrade of the schema it begins with, and the *)
(* controller that builds, runs and stops its servers.                     *)
(***************************************************************************)
EXTENDS Controller, Migration, TLAPS

-----------------------------------------------------------------------------
(* The upgrade of the schema.                                              *)

\* The tables that occur, and the parts of a database.
LEMMA Tables ==
  /\ Absent \in Table /\ Empty("fk") \in Table /\ Empty("legacy") \in Table
  /\ Absent.form = "absent" /\ Empty("fk").form = "fk"
  /\ \A d \in Database : d.known \subseteq Control /\ d.aggregates \in Table /\ d.old \in Table
  /\ \A t \in Table : t.form \in {"absent", "legacy", "fk"} /\ t.count \in [Control -> 0..MaxWrites]
  /\ db \in Database => Upgraded \in Table /\ Referring(Upgraded, db.known)
<1>1. 0 \in 0..MaxWrites
  BY MigrationAssumption
<1>2. [k \in Control |-> 0] \in [Control -> 0..MaxWrites]
  BY <1>1
<1>3. Absent \in Table /\ Empty("fk") \in Table /\ Empty("legacy") \in Table
  BY <1>2 DEF Absent, Empty, Table
<1>4. Absent.form = "absent" /\ Empty("fk").form = "fk"
  BY DEF Absent, Empty
<1>5. \A d \in Database : d.known \subseteq Control /\ d.aggregates \in Table /\ d.old \in Table
  BY DEF Database
<1>6. \A t \in Table : t.form \in {"absent", "legacy", "fk"} /\ t.count \in [Control -> 0..MaxWrites]
  BY DEF Table
<1>7. ASSUME db \in Database PROVE Upgraded \in Table /\ Referring(Upgraded, db.known)
  <2> DEFINE c == [k \in Control |-> IF k \in db.known THEN db.aggregates.count[k] ELSE 0]
  <2>1. db.aggregates.count \in [Control -> 0..MaxWrites]
    BY <1>5, <1>6, <1>7
  <2>2. c \in [Control -> 0..MaxWrites]
    BY <1>1, <2>1
  <2>3. Upgraded = [form |-> "fk", count |-> c]
    BY DEF Upgraded
  <2>4. \A k \in Control : c[k] > 0 => k \in db.known
    OBVIOUS
  <2> HIDE DEF c
  <2> QED
    BY <2>2, <2>3, <2>4 DEF Table, Referring
<1> QED
  BY <1>3, <1>4, <1>5, <1>6, <1>7

\* The upgrade begins as the invariant wants it.
LEMMA MigrationInitInv == MigrationInit => MigrationInv
<1> SUFFICES ASSUME MigrationInit PROVE MigrationInv
  OBVIOUS
<1>1. PICK known \in SUBSET Control, form \in {"absent", "legacy", "fk"},
           count \in [Control -> 0..MaxWrites], old \in {Absent, Empty("legacy")} :
        /\ form = "absent" => \A k \in Control : count[k] = 0
        /\ Referring([form |-> form, count |-> count], known)
        /\ db = [known |-> known, aggregates |-> [form |-> form, count |-> count], old |-> old]
  BY DEF MigrationInit
<1> DEFINE t == [form |-> form, count |-> count]
<1>2. t \in Table /\ old \in Table
  BY Tables DEF Table
<1>3. db = [known |-> known, aggregates |-> t, old |-> old] /\ Referring(t, known)
  BY <1>1
<1>4. t.form = "absent" => t = Absent
  <2>1. ASSUME form = "absent" PROVE count = [k \in Control |-> 0]
    BY <1>1, <2>1
  <2> QED
    BY <2>1 DEF Absent
<1> HIDE DEF t
<1>5. db \in Database /\ db.known = known /\ db.aggregates = t
  BY <1>2, <1>3 DEF Database
<1>6. MigrationTypeOK
  BY <1>5, MigrationAssumption DEF MigrationInit, MigrationTypeOK, Steps
<1>7. \A p \in Process : Progress(p)
  BY DEF MigrationInit, Progress, InTransaction
<1> QED
  BY <1>3, <1>4, <1>5, <1>6, <1>7 DEF MigrationInv

\* Whoever is in a transaction holds the lock: there is one at most.
LEMMA OneTransaction ==
  ASSUME MigrationInv, NEW p \in Process, writer \in {p, None}, NEW q \in Process, q # p
  PROVE  stmt[q] \notin InTransaction
  BY MigrationAssumption DEF MigrationInv, Progress

\* A statement of a transaction changes the copy only.
LEMMA StatementStep ==
  ASSUME MigrationInv, NEW p \in Process, NEW step \in InTransaction, NEW new \in Database,
         NEW next \in Steps, Execute(p, step, new, next),
         next \in InTransaction => new.known = db.known,
         next \notin {"begin", "look", "drop_left"},
         next = "rename" => new.aggregates = db.aggregates,
         next \in {"create", "copy"} => new.old = db.aggregates,
         next = "copy" => new.aggregates = Empty("fk"),
         next = "drop" => new.aggregates = Upgraded,
         next = "commit" => new.aggregates \in {db.aggregates, Upgraded}
  PROVE  MigrationInv'
<1>1. /\ stmt[p] = step /\ work' = new /\ stmt' = [stmt EXCEPT ![p] = next]
      /\ db' = db /\ writer' = writer /\ faults' = faults
  BY DEF Execute, GoOn
<1>2. Progress(p) /\ writer = p /\ db.aggregates.form # "absent"
  BY <1>1 DEF MigrationInv, Progress
<1>3. MigrationTypeOK'
  BY <1>1 DEF MigrationInv, MigrationTypeOK
<1>4. Upgraded' = Upgraded
  BY <1>1 DEF Upgraded
<1>5. Progress(p)'
  BY <1>1, <1>2, <1>4 DEF MigrationInv, MigrationTypeOK, Progress
<1>6. ASSUME NEW q \in Process, q # p PROVE Progress(q)'
  <2>1. stmt'[q] = stmt[q] /\ stmt[q] \notin InTransaction
    BY <1>1, <1>2, <1>6, OneTransaction DEF MigrationInv, MigrationTypeOK
  <2> QED
    BY <1>1, <1>2, <2>1 DEF Progress, InTransaction
<1> QED
  BY <1>1, <1>3, <1>5, <1>6 DEF MigrationInv

\* A statement that leaves the copy and the lock alone and is none of a
\* transaction, or leaves it for good.
LEMMA OutsideStep ==
  ASSUME MigrationInv, NEW p \in Process,
         NEW next \in {"controls", "aggregates", "rollback", "ready", "down"},
         stmt' = [stmt EXCEPT ![p] = next], UNCHANGED <<db, work>>,
         writer' = writer \/ (writer = p /\ writer' = None), faults' \in 0..MaxFaults
  PROVE  MigrationInv'
<1>1. MigrationTypeOK'
  BY DEF MigrationInv, MigrationTypeOK, Steps
<1>2. Upgraded' = Upgraded
  BY DEF Upgraded
<1>3. ASSUME NEW q \in Process PROVE Progress(q)'
  <2>1. CASE q = p
    BY <2>1 DEF MigrationInv, MigrationTypeOK, Progress, InTransaction
  <2>2. CASE q # p
    <3>1. stmt'[q] = stmt[q] /\ (stmt[q] \in InTransaction => writer' = writer)
      BY <2>2, OneTransaction DEF MigrationInv, MigrationTypeOK
    <3> QED
      BY <1>2, <3>1 DEF MigrationInv, Progress
  <2> QED
    BY <2>1, <2>2
<1> QED
  BY <1>1, <1>3 DEF MigrationInv

\* A write of somebody else, while nobody is in a transaction.
LEMMA WriteStep ==
  ASSUME MigrationInv, writer = None, db' \in Database, UNCHANGED <<work, writer, stmt, faults>>,
         Referring(db'.aggregates, db'.known), db'.aggregates.form = db.aggregates.form,
         db.aggregates.form = "absent" => db'.aggregates = db.aggregates
  PROVE  MigrationInv'
<1>1. ASSUME NEW p \in Process PROVE Progress(p)'
  BY MigrationAssumption DEF MigrationInv, Progress, InTransaction
<1> QED
  BY <1>1 DEF MigrationInv, MigrationTypeOK

LEMMA DeclareStep ==
  ASSUME MigrationInv, NEW k \in Control, Declare(k)
  PROVE  MigrationInv'
<1>1. db \in Database /\ writer = None
  BY DEF MigrationInv, MigrationTypeOK, Declare
<1>2. /\ db' = [db EXCEPT !.known = @ \cup {k}]
      /\ db'.known = db.known \cup {k} /\ db'.aggregates = db.aggregates /\ db' \in Database
  BY <1>1 DEF Declare, Database
<1>3. Referring(db'.aggregates, db'.known)
  BY <1>2 DEF MigrationInv, Referring
<1> QED
  BY <1>1, <1>2, <1>3, WriteStep DEF Declare

LEMMA CountStep ==
  ASSUME MigrationInv, NEW k \in Control, Count(k)
  PROVE  /\ MigrationInv'
         /\ db'.known = db.known /\ db'.aggregates.form = db.aggregates.form
         /\ db'.aggregates.count = [db.aggregates.count EXCEPT ![k] = @ + 1]
<1> DEFINE c == [db.aggregates.count EXCEPT ![k] = @ + 1]
           t == [db.aggregates EXCEPT !.count = c]
<1>1. /\ db \in Database /\ db.aggregates \in Table /\ db.aggregates.count \in [Control -> 0..MaxWrites]
      /\ writer = None /\ k \in db.known /\ db.aggregates.form # "absent"
      /\ db.aggregates.count[k] < MaxWrites
  BY Tables DEF MigrationInv, MigrationTypeOK, Count
<1>2. c \in [Control -> 0..MaxWrites]
  BY <1>1, MigrationAssumption
<1>3. db' = [db EXCEPT !.aggregates = t]
  BY DEF Count
<1>4. t \in Table /\ t.form = db.aggregates.form /\ t.count = c
  BY <1>1, <1>2 DEF Table
<1>5. \A j \in Control : c[j] > 0 => j = k \/ db.aggregates.count[j] > 0
  BY <1>1
<1>6. Referring(t, db.known)
  BY <1>1, <1>4, <1>5 DEF MigrationInv, Referring
<1> HIDE DEF t, c
<1>7. db' \in Database /\ db'.known = db.known /\ db'.aggregates = t
  BY <1>1, <1>3, <1>4 DEF Database
<1>8. MigrationInv'
  BY <1>1, <1>4, <1>6, <1>7, WriteStep DEF Count
<1> QED
  BY <1>4, <1>7, <1>8 DEF c

LEMMA CreateAggregatesStep ==
  ASSUME MigrationInv, NEW p \in Process, CreateAggregates(p)
  PROVE  MigrationInv'
<1>1. db \in Database /\ stmt[p] = "aggregates" /\ stmt' = [stmt EXCEPT ![p] = "begin"]
  BY DEF MigrationInv, MigrationTypeOK, CreateAggregates, GoOn
<1>2. CASE db.aggregates.form # "absent" /\ UNCHANGED db
  <2>1. Upgraded' = Upgraded
    BY <1>2 DEF Upgraded
  <2>2. MigrationTypeOK'
    BY <1>1, <1>2 DEF CreateAggregates, MigrationInv, MigrationTypeOK, Steps
  <2>3. ASSUME NEW q \in Process PROVE Progress(q)'
    BY <1>1, <1>2, <2>1 DEF CreateAggregates, MigrationInv, MigrationTypeOK, Progress, InTransaction
  <2> QED
    BY <1>2, <2>2, <2>3 DEF MigrationInv
<1>3. CASE db.aggregates.form = "absent" /\ writer = None
           /\ db' = [db EXCEPT !.aggregates = Empty("fk")]
  <2>1. db' \in Database /\ db'.known = db.known /\ db'.aggregates = Empty("fk")
    BY <1>1, <1>3, Tables DEF Database
  <2>2. MigrationTypeOK'
    BY <1>1, <2>1 DEF CreateAggregates, MigrationInv, MigrationTypeOK, Steps
  <2>3. Referring(Empty("fk"), db.known) /\ Empty("fk").form # "absent"
    BY DEF Referring, Empty
  <2>4. ASSUME NEW q \in Process PROVE Progress(q)'
    <3>1. stmt[q] \notin InTransaction
      BY <1>3, MigrationAssumption DEF MigrationInv, Progress
    <3> QED
      BY <1>1, <2>1, <2>3, <3>1 DEF MigrationInv, MigrationTypeOK, Progress, InTransaction
  <2> QED
    BY <2>1, <2>2, <2>3, <2>4 DEF MigrationInv
<1> QED
  BY <1>2, <1>3 DEF CreateAggregates

LEMMA BeginStep ==
  ASSUME MigrationInv, NEW p \in Process, Begin(p)
  PROVE  MigrationInv'
<1>1. /\ stmt[p] = "begin" /\ writer = None /\ stmt' = [stmt EXCEPT ![p] = "look"]
      /\ work' = db /\ writer' = p /\ db' = db /\ faults' = faults
  BY DEF Begin, GoOn
<1>2. MigrationTypeOK'
  BY <1>1 DEF MigrationInv, MigrationTypeOK, Steps, InTransaction
<1>3. ASSUME NEW q \in Process PROVE Progress(q)'
  <2>1. stmt[q] \notin InTransaction
    BY <1>1, MigrationAssumption DEF MigrationInv, Progress
  <2> QED
    BY <1>1, <2>1 DEF MigrationInv, MigrationTypeOK, Progress, InTransaction
<1> QED
  BY <1>1, <1>2, <1>3 DEF MigrationInv

LEMMA InspectStep ==
  ASSUME MigrationInv, NEW p \in Process, Inspect(p)
  PROVE  MigrationInv'
<1>1. /\ stmt[p] = "look" /\ work' = work /\ db' = db /\ writer' = writer /\ faults' = faults
      /\ \E next \in {"drop_left", "commit"} : stmt' = [stmt EXCEPT ![p] = next]
  BY DEF Inspect, GoOn
<1>2. MigrationTypeOK' /\ Upgraded' = Upgraded
  BY <1>1 DEF MigrationInv, MigrationTypeOK, Steps, InTransaction, Upgraded
<1>3. ASSUME NEW q \in Process PROVE Progress(q)'
  <2>1. Progress(q) /\ Progress(p)
    BY DEF MigrationInv
  <2>2. CASE q = p
    BY <1>1, <1>2, <2>1, <2>2 DEF MigrationInv, MigrationTypeOK, Progress, InTransaction
  <2>3. CASE q # p
    BY <1>1, <1>2, <2>1, <2>3 DEF MigrationInv, MigrationTypeOK, Progress
  <2> QED
    BY <2>2, <2>3
<1> QED
  BY <1>1, <1>2, <1>3 DEF MigrationInv

\* The statements of the rebuild, one after the other.
LEMMA RebuildStep ==
  ASSUME MigrationInv, NEW p \in Process, Rebuild(p)
  PROVE  MigrationInv'
<1>1. Progress(p) /\ work \in Database /\ db \in Database /\ work.known \subseteq Control
      /\ work.aggregates \in Table /\ work.old \in Table
  BY Tables DEF MigrationInv, MigrationTypeOK
<1>2. ASSUME DropLeft(p) PROVE MigrationInv'
  <2> DEFINE new == [work EXCEPT !.old = Absent]
  <2>1. new \in Database /\ new.known = work.known /\ new.aggregates = work.aggregates
    BY <1>1, Tables DEF Database
  <2>2. stmt[p] = "drop_left" /\ Execute(p, "drop_left", new, "rename")
    BY <1>2 DEF DropLeft, Execute
  <2>3. work = db
    BY <1>1, <2>2 DEF Progress
  <2> HIDE DEF new
  <2> QED
    BY <2>1, <2>2, <2>3, StatementStep DEF InTransaction, Steps
<1>3. ASSUME Rename(p), work.old = Absent PROVE MigrationInv'
  <2> DEFINE new == [work EXCEPT !.old = work.aggregates, !.aggregates = Absent]
  <2>1. new \in Database /\ new.known = work.known /\ new.old = work.aggregates
    BY <1>1, Tables DEF Database
  <2>2. stmt[p] = "rename" /\ Execute(p, "rename", new, "create")
    BY <1>3 DEF Rename, Execute
  <2>3. work.known = db.known /\ work.aggregates = db.aggregates
    BY <1>1, <2>2 DEF Progress, InTransaction
  <2> HIDE DEF new
  <2> QED
    BY <2>1, <2>2, <2>3, StatementStep DEF InTransaction, Steps
<1>4. ASSUME Rename(p), work.old # Absent PROVE MigrationInv'
  <2>1. Execute(p, "rename", work, "rollback")
    BY <1>4 DEF Rename
  <2> QED
    BY <1>1, <2>1, StatementStep DEF InTransaction, Steps
<1>5. ASSUME CreateAnew(p) PROVE MigrationInv'
  <2> DEFINE new == [work EXCEPT !.aggregates = Empty("fk")]
  <2>1. new \in Database /\ new.known = work.known /\ new.old = work.old
        /\ new.aggregates = Empty("fk")
    BY <1>1, Tables DEF Database
  <2>2. stmt[p] = "create" /\ Execute(p, "create", new, "copy")
    BY <1>5 DEF CreateAnew, Execute
  <2>3. work.known = db.known /\ work.old = db.aggregates
    BY <1>1, <2>2 DEF Progress, InTransaction
  <2> HIDE DEF new
  <2> QED
    BY <2>1, <2>2, <2>3, StatementStep DEF InTransaction, Steps
<1>6. ASSUME Copy(p) PROVE MigrationInv'
  <2> DEFINE new == [work EXCEPT !.aggregates.count =
                       [k \in Control |-> IF k \in work.known THEN work.old.count[k] ELSE 0]]
  <2>1. stmt[p] = "copy" /\ Execute(p, "copy", new, "drop")
    BY <1>6 DEF Copy, Execute
  <2>2. work.known = db.known /\ work.old = db.aggregates /\ work.aggregates = Empty("fk")
    BY <1>1, <2>1 DEF Progress, InTransaction
  <2>3. new = [work EXCEPT !.aggregates = Upgraded]
    BY <1>1, <2>2 DEF Upgraded, Empty, Database
  <2> HIDE DEF new
  <2>4. new \in Database /\ new.known = work.known /\ new.aggregates = Upgraded
    BY <1>1, <2>3, Tables DEF Database
  <2> QED
    BY <2>1, <2>2, <2>4, StatementStep DEF InTransaction, Steps
<1>7. ASSUME DropOld(p) PROVE MigrationInv'
  <2> DEFINE new == [work EXCEPT !.old = Absent]
  <2>1. new \in Database /\ new.known = work.known /\ new.aggregates = work.aggregates
    BY <1>1, Tables DEF Database
  <2>2. stmt[p] = "drop" /\ Execute(p, "drop", new, "commit")
    BY <1>7 DEF DropOld, Execute
  <2>3. work.known = db.known /\ work.aggregates = Upgraded
    BY <1>1, <2>2 DEF Progress, InTransaction
  <2> HIDE DEF new
  <2> QED
    BY <2>1, <2>2, <2>3, StatementStep DEF InTransaction, Steps
<1> QED
  BY <1>2, <1>3, <1>4, <1>5, <1>6, <1>7 DEF Rebuild

LEMMA CommitStep ==
  ASSUME MigrationInv, NEW p \in Process, Commit(p)
  PROVE  /\ MigrationInv'
         /\ db'.known = db.known /\ db'.aggregates \in {db.aggregates, Upgraded}
<1>1. /\ stmt[p] = "commit" /\ stmt' = [stmt EXCEPT ![p] = "ready"]
      /\ db' = work /\ writer' = None /\ work' = work /\ faults' = faults
  BY DEF Commit, GoOn
<1>2. /\ writer = p /\ db'.known = db.known /\ db'.aggregates \in {db.aggregates, Upgraded}
      /\ db.aggregates.form # "absent"
  BY <1>1 DEF MigrationInv, Progress, InTransaction
<1>3. MigrationTypeOK' /\ db \in Database
  BY <1>1 DEF MigrationInv, MigrationTypeOK, Steps
<1>4. Upgraded.form = "fk"
  BY DEF Upgraded
<1>5. Referring(db'.aggregates, db'.known) /\ db'.aggregates.form # "absent"
  BY <1>2, <1>3, <1>4, Tables DEF MigrationInv
<1>6. ASSUME NEW q \in Process PROVE Progress(q)'
  <2>1. CASE q = p
    BY <1>1, <2>1 DEF MigrationInv, MigrationTypeOK, Progress, InTransaction
  <2>2. CASE q # p
    <3>1. stmt'[q] = stmt[q] /\ stmt[q] \notin InTransaction
      BY <1>1, <1>2, <2>2, OneTransaction DEF MigrationInv, MigrationTypeOK
    <3> QED
      BY <1>5, <3>1 DEF Progress, InTransaction
  <2> QED
    BY <2>1, <2>2
<1> QED
  BY <1>2, <1>3, <1>5, <1>6 DEF MigrationInv

\* Failures, crashes and restarts, and the first statement.
LEMMA InterruptionStep ==
  ASSUME MigrationInv, NEW p \in Process,
         CreateControls(p) \/ Rollback(p) \/ Restart(p) \/ Fail(p) \/ Crash(p)
  PROVE  MigrationInv'
<1>1. faults \in 0..MaxFaults /\ (faults < MaxFaults => faults + 1 \in 0..MaxFaults)
  BY MigrationAssumption DEF MigrationInv, MigrationTypeOK
<1>2. /\ \E next \in {"controls", "aggregates", "rollback", "ready", "down"} :
           stmt' = [stmt EXCEPT ![p] = next]
      /\ UNCHANGED <<db, work>>
      /\ writer' = writer \/ (writer = p /\ writer' = None)
      /\ faults' \in 0..MaxFaults
  <2>1. CASE CreateControls(p)
    BY <1>1, <2>1 DEF CreateControls, GoOn
  <2>2. CASE Rollback(p)
    BY <1>1, <2>2 DEF Rollback, GoOn
  <2>3. CASE Restart(p)
    BY <1>1, <2>3 DEF Restart, GoOn
  <2>4. CASE Fail(p)
    BY <1>1, <2>4 DEF Fail, GoOn
  <2>5. CASE Crash(p)
    BY <1>1, <2>5 DEF Crash, GoOn
  <2> QED
    BY <2>1, <2>2, <2>3, <2>4, <2>5
<1> QED
  BY <1>2, OutsideStep

\* Every step keeps the invariant, one lemma for each kind.
LEMMA MigrationNextInv == MigrationInv /\ [MigrationNext]_migrationVars => MigrationInv'
<1> SUFFICES ASSUME MigrationInv, [MigrationNext]_migrationVars PROVE MigrationInv'
  OBVIOUS
<1>1. ASSUME NEW p \in Process, InitSchema(p) \/ Fail(p) \/ Crash(p) PROVE MigrationInv'
  BY <1>1, CreateAggregatesStep, BeginStep, InspectStep, RebuildStep, CommitStep, InterruptionStep
     DEF InitSchema
<1>2. ASSUME NEW k \in Control, Declare(k) \/ Count(k) PROVE MigrationInv'
  BY <1>2, DeclareStep, CountStep
<1>3. ASSUME UNCHANGED migrationVars PROVE MigrationInv'
  BY <1>3 DEF migrationVars, MigrationInv, MigrationTypeOK, Progress, Upgraded
<1> QED
  BY <1>1, <1>2, <1>3 DEF MigrationNext, AllReady

\* The lock belongs to the process in a transaction, whose copy differs from
\* the database by its own statements only; committed rows refer to controls
\* (storage.py:60-121, for any number of processes, controls and crashes).
THEOREM MigrationInvariant == MigrationSpec => []MigrationInv
  BY MigrationInitInv, MigrationNextInv, PTL DEF MigrationSpec

\* What the database shows is a start of the abstract upgrade ...
LEMMA UpgradeStarts == MigrationInit /\ MigrationInv => Abstract!UpgradeInit
<1> SUFFICES ASSUME MigrationInit, MigrationInv PROVE Abstract!UpgradeInit
  OBVIOUS
<1>1. /\ db.known \subseteq Control /\ db.aggregates \in Table
      /\ db.aggregates.form \in {"absent", "legacy", "fk"}
      /\ db.aggregates.count \in [Control -> 0..MaxWrites]
  BY Tables DEF MigrationInv, MigrationTypeOK
<1>2. db.aggregates.form = "absent" => \A k \in Control : db.aggregates.count[k] = 0
  BY DEF MigrationInv, Absent
<1> QED
  BY <1>1, <1>2 DEF Abstract!UpgradeInit, MigrationInv, Referring

\* ... and every step shows as one of its steps, or not at all.
LEMMA UpgradeSteps ==
  MigrationInv /\ [MigrationNext]_migrationVars =>
    [Abstract!UpgradeNext]_(Abstract!upgradeVars)
<1> SUFFICES ASSUME MigrationInv, [MigrationNext]_migrationVars
             PROVE  Abstract!UpgradeNext \/ UNCHANGED Abstract!upgradeVars
  OBVIOUS
<1> USE DEF Abstract!upgradeVars, Abstract!UpgradeNext
<1>1. db \in Database
  BY DEF MigrationInv, MigrationTypeOK
<1>2. ASSUME UNCHANGED db PROVE UNCHANGED Abstract!upgradeVars
  BY <1>2
<1>3. ASSUME NEW k \in Control, Declare(k) PROVE Abstract!DeclareControl(k)
  BY <1>1, <1>3 DEF Declare, Abstract!DeclareControl, Database
<1>4. ASSUME NEW k \in Control, Count(k) PROVE Abstract!CountEvent(k)
  BY <1>4, CountStep DEF Count, Abstract!CountEvent
<1>5. ASSUME db'.known = db.known, db'.aggregates = Upgraded PROVE Abstract!Upgrade
  BY <1>5 DEF Upgraded, Abstract!Upgrade
<1>6. ASSUME NEW p \in Process, Commit(p)
      PROVE  Abstract!Upgrade \/ UNCHANGED Abstract!upgradeVars
  <2>1. db'.known = db.known /\ db'.aggregates \in {db.aggregates, Upgraded}
    BY <1>6, CommitStep
  <2> QED
    BY <1>5, <2>1
<1>7. ASSUME NEW p \in Process, CreateAggregates(p)
      PROVE  Abstract!Upgrade \/ UNCHANGED Abstract!upgradeVars
  <2>1. CASE UNCHANGED db
    BY <1>2, <2>1
  <2>2. CASE db.aggregates.form = "absent" /\ db' = [db EXCEPT !.aggregates = Empty("fk")]
    <3>1. db'.known = db.known /\ db'.aggregates = Empty("fk")
      BY <1>1, <2>2 DEF Database
    <3>2. \A k \in Control : db.aggregates.count[k] = 0
      BY <2>2 DEF MigrationInv, Absent
    <3>3. Upgraded = Empty("fk")
      BY <3>2 DEF Upgraded, Empty
    <3> QED
      BY <1>5, <3>1, <3>3
  <2> QED
    BY <1>7, <2>1, <2>2 DEF CreateAggregates
<1>8. ASSUME NEW p \in Process,
             \/ CreateControls(p) \/ Begin(p) \/ Inspect(p) \/ Rebuild(p)
             \/ Rollback(p) \/ Restart(p) \/ Fail(p) \/ Crash(p)
      PROVE  UNCHANGED Abstract!upgradeVars
  BY <1>2, <1>8
     DEF CreateControls, Begin, Inspect, Rebuild, DropLeft, Rename, CreateAnew, Copy, DropOld,
         Execute, Rollback, Restart, Fail, Crash
<1> QED
  BY <1>2, <1>3, <1>4, <1>6, <1>7, <1>8 DEF MigrationNext, InitSchema, AllReady, migrationVars

\* Everybody else sees the upgrade as one step that drops orphans only: no
\* half-built table is ever committed and no write of another process is lost
\* (storage.py:60-121), whoever fails or dies when.
THEOREM UpgradeIsOneStep == MigrationSpec => ImplementsUpgrade
<1>1. MigrationSpec => Abstract!UpgradeInit
  BY MigrationInitInv, UpgradeStarts DEF MigrationSpec
<1>2. MigrationSpec => [][Abstract!UpgradeNext]_(Abstract!upgradeVars)
  BY MigrationInvariant, UpgradeSteps, PTL DEF MigrationSpec
<1> QED
  BY <1>1, <1>2 DEF ImplementsUpgrade, Abstract!UpgradeSpec

-----------------------------------------------------------------------------
(* The controller.                                                         *)

\* What a caller has still to shut down.
LEMMA Turns ==
  /\ <<"main", "testing">> # <<"testing">> /\ <<"main", "testing">> # <<>>
  /\ <<"testing">> # <<>>
  /\ Head(<<"main", "testing">>) = "main" /\ Tail(<<"main", "testing">>) = <<"testing">>
  /\ Head(<<"testing">>) = "testing" /\ Tail(<<"testing">>) = <<>>
  /\ Len(<<"main", "testing">>) = 2 /\ Len(<<"testing">>) = 1
  OBVIOUS

LEMMA ControllerInit == Init => IInv
<1> SUFFICES ASSUME Init PROVE IInv
  OBVIOUS
<1> USE DEF Init
<1>1. TypeOK
  <2>1. frames \in Seq({"set", "held"})
    OBVIOUS
  <2>2. turn \in [Stopper -> {<<"main", "testing">>, <<"testing">>, <<>>}]
    OBVIOUS
  <2>3. /\ taken \in [Server -> 0..MaxRequests] /\ answered \in [Server -> 0..MaxRequests]
        /\ signals \in 0..MaxSignals /\ deaths \in 0..MaxDeaths
    BY ControllerAssumption
  <2> QED
    BY <2>1, <2>2, <2>3 DEF TypeOK, Stages, Building, Stopping
<1>2. StageInv /\ FirstInv
  BY DEF StageInv, FirstInv, Building, Running, Server
<1>3. \A s \in Server : LoopInv(s)
  BY DEF LoopInv
<1>4. \A c \in Stopper : StopInv(c)
  BY Turns DEF StopInv
<1> QED
  BY <1>1, <1>2, <1>3, <1>4 DEF IInv

\* The servers, loops and callers depend on each other, not on the handlers.
LEMMA SignallingStep ==
  ASSUME IInv, UNCHANGED <<pc, outcome, serving, stopping>>,
         flag' \in BOOLEAN, lock' \in BOOLEAN, frames' \in Seq({"set", "held"}),
         signals' \in 0..MaxSignals
  PROVE  IInv'
<1> USE DEF IInv, serving, stopping
<1>1. TypeOK'
  BY DEF TypeOK
<1>2. StageInv' /\ FirstInv'
  BY DEF StageInv, FirstInv, Running
<1>3. \A s \in Server : LoopInv(s)'
  BY DEF LoopInv
<1>4. \A c \in Stopper : StopInv(c)'
  BY DEF StopInv
<1> QED
  BY <1>1, <1>2, <1>3, <1>4

\* A step of the main thread that leaves servers and callers alone.
LEMMA MainStep ==
  ASSUME IInv, UNCHANGED <<serving, stopping>>, pc' \in Stages,
         outcome' \in {"none", "ok"} \cup Failures, StageInv',
         flag' \in BOOLEAN, lock' \in BOOLEAN, frames' \in Seq({"set", "held"}),
         signals' \in 0..MaxSignals
  PROVE  IInv'
<1> USE DEF IInv, serving, stopping
<1>1. TypeOK'
  BY DEF TypeOK
<1>2. FirstInv'
  BY DEF FirstInv
<1>3. \A s \in Server : LoopInv(s)'
  BY DEF LoopInv
<1>4. \A c \in Stopper : StopInv(c)'
  BY DEF StopInv
<1> QED
  BY <1>1, <1>2, <1>3, <1>4

\* While the servers are built nobody calls stop() and nothing is served.
LEMMA SocketStep ==
  ASSUME IInv, pc \in Building, socket' \in [Server -> {"none", "open", "closed"}],
         UNCHANGED <<loop, asked, isShut, taken, answered, deaths, stopping, signalling>>,
         pc' \in Stages, outcome' \in {"none", "ok"} \cup Failures, StageInv'
  PROVE  IInv'
<1> USE DEF IInv, stopping, signalling
<1>1. TypeOK'
  BY DEF TypeOK
<1>2. ~started /\ \A s \in Server : loop[s] = "unborn"
  BY DEF StageInv, Building, Server
<1>3. FirstInv'
  BY <1>2 DEF FirstInv
<1>4. \A s \in Server : LoopInv(s)'
  BY <1>2 DEF LoopInv
<1>5. ASSUME NEW c \in Stopper PROVE StopInv(c)'
  <2>1. at[c] = "idle" /\ turn[c] = <<"main", "testing">>
    BY <1>2 DEF StopInv
  <2> QED
    BY <1>2, <2>1, Turns DEF StopInv
<1> QED
  BY <1>1, <1>3, <1>4, <1>5

LEMMA LoadConfigStep ==
  ASSUME IInv, LoadConfig
  PROVE  /\ IInv' /\ outcome' \in {"none", "config_error"}
         /\ \A s \in Server : socket'[s] = "none"
<1> USE DEF LoadConfig, MainFree, Running, End, serving, stopping, signalling
<1>1. \A s \in Server : socket[s] = "none"
  BY DEF IInv, StageInv, Server
<1>2. outcome' \in {"none", "config_error"} /\ pc' \in {"main_app", "exit"}
  OBVIOUS
<1>3. StageInv'
  BY <1>1, <1>2 DEF IInv, StageInv, Building, Server
<1>4. IInv'
  BY <1>2, <1>3, MainStep DEF IInv, TypeOK, Stages, Building, Failures
<1> QED
  BY <1>1, <1>2, <1>4

LEMMA CreateAppStep ==
  ASSUME IInv, NEW s \in Server, CreateApp(s)
  PROVE  /\ IInv' /\ outcome' \in {"none", "app_error"}
         /\ outcome' = "app_error" => \A q \in Server : socket'[q] # "open"
<1> USE DEF CreateApp, AppStage, BindStage, MainFree, Running, End, CloseAll, Server
<1>1. pc \in Building /\ pc' \in Stages /\ outcome' \in {"none", "app_error"}
  BY DEF Building, Stages
<1>2. socket \in [Server -> {"none", "open", "closed"}] /\ StageInv
  BY DEF IInv, TypeOK
<1>3. socket' \in [Server -> {"none", "open", "closed"}]
  BY <1>2
<1>4. outcome' = "app_error" => \A q \in Server : socket'[q] # "open"
  BY <1>2
<1>5. StageInv'
  BY <1>2 DEF StageInv, Building, stopping
<1>6. IInv'
  BY <1>1, <1>3, <1>5, SocketStep DEF Failures
<1> QED
  BY <1>1, <1>4, <1>6

LEMMA BindStep ==
  ASSUME IInv, NEW s \in Server, Bind(s)
  PROVE  /\ IInv' /\ outcome' \in {"none", "bind_error", "system_exit"}
         /\ outcome' = "bind_error" => \A q \in Server : socket'[q] # "open"
         /\ outcome' = "system_exit" => \A q \in Server : socket'[q] = "open" => q = "main"
<1> USE DEF Bind, BindStage, MainFree, Running, End, CloseAll, Server
<1>1. pc \in Building /\ pc' \in Stages /\ outcome' \in {"none", "bind_error", "system_exit"}
  BY DEF Building, Stages
<1>2. socket \in [Server -> {"none", "open", "closed"}] /\ StageInv
  BY DEF IInv, TypeOK
<1>3. socket' \in [Server -> {"none", "open", "closed"}]
  BY <1>2
<1>4. /\ outcome' = "bind_error" => \A q \in Server : socket'[q] # "open"
      /\ outcome' = "system_exit" => \A q \in Server : socket'[q] = "open" => q = "main"
  BY <1>2 DEF StageInv
<1>5. StageInv'
  BY <1>2 DEF StageInv, Building, stopping
<1>6. IInv'
  BY <1>1, <1>3, <1>5, SocketStep DEF Failures
<1> QED
  BY <1>1, <1>4, <1>6

LEMMA StartStep ==
  ASSUME IInv, Start
  PROVE  IInv'
<1> USE DEF Start, MainFree, Running, Server, stopping, signalling
<1>1. /\ pc = "start" /\ StageInv /\ ~started /\ loop["testing"] = "unborn"
      /\ \A s \in Server : loop[s] = "unborn" => socket[s] = "open"
  BY DEF IInv, StageInv
<1>2. PICK s \in Server : /\ loop[s] = "unborn" /\ loop' = [loop EXCEPT ![s] = "started"]
                          /\ \/ s = "main" /\ pc' = "start"
                             \/ s = "testing" /\ pc' = "poll" /\ loop["main"] # "unborn"
  <2>1. CASE loop["main"] = "unborn"
    BY <1>1, <2>1
  <2>2. CASE loop["main"] # "unborn"
    BY <1>1, <2>2
  <2> QED
    BY <2>1, <2>2
<1>3. TypeOK'
  BY <1>2 DEF IInv, TypeOK, Stages, Building
<1>4. StageInv'
  BY <1>1, <1>2 DEF IInv, TypeOK, StageInv, Building
<1>5. FirstInv'
  BY <1>1 DEF FirstInv
<1>6. ASSUME NEW q \in Server PROVE LoopInv(q)'
  <2>1. LoopInv(q)
    BY DEF IInv
  <2> QED
    BY <1>1, <1>2, <2>1 DEF IInv, TypeOK, LoopInv
<1>7. ASSUME NEW c \in Stopper PROVE StopInv(c)'
  <2>1. at[c] = "idle" /\ turn[c] = <<"main", "testing">>
    BY <1>1 DEF IInv, StopInv
  <2> QED
    BY <2>1, Turns DEF StopInv
<1> QED
  BY <1>3, <1>4, <1>5, <1>6, <1>7 DEF IInv

\* The steps of the main thread that build nothing, and a signal's.
LEMMA PollStep ==
  ASSUME IInv, InstallHandlers \/ Look \/ GiveUp \/ Sleep \/ Return
  PROVE  /\ IInv' /\ outcome' \in {"none", "ok"} /\ UNCHANGED <<serving, stopping>>
         /\ outcome' = "ok" => at["main"] = "returned"
<1> USE DEF MainFree, Running, stopping, signalling
<1>1. /\ UNCHANGED <<serving, stopping>> /\ frames' = frames /\ signals' = signals
      /\ \/ pc = "handlers" /\ pc' = "start" /\ outcome' = outcome
         \/ /\ pc \in {"poll", "poll_set", "poll_held", "sleep"} /\ outcome' = outcome
            /\ pc' \in {"poll", "poll_set", "poll_held", "sleep", "stop"}
         \/ pc = "stop" /\ pc' = "exit" /\ outcome' = "ok" /\ at["main"] = "returned"
      /\ flag' \in BOOLEAN /\ lock' \in BOOLEAN
  <2> USE DEF IInv, TypeOK
  <2>1. CASE InstallHandlers
    BY <2>1 DEF InstallHandlers
  <2>2. CASE Look
    BY <2>2 DEF Look
  <2>3. CASE GiveUp
    BY <2>3 DEF GiveUp
  <2>4. CASE Sleep
    BY <2>4 DEF Sleep
  <2>5. CASE Return
    BY <2>5 DEF Return, End
  <2> QED
    BY <2>1, <2>2, <2>3, <2>4, <2>5
<1>2. outcome = "none" /\ TypeOK
  BY DEF InstallHandlers, Look, GiveUp, Sleep, Return, IInv
<1>3. StageInv'
  BY <1>1, <1>2 DEF IInv, StageInv, Building, serving
<1>4. IInv'
  BY <1>1, <1>2, <1>3, MainStep DEF TypeOK, Stages
<1> QED
  BY <1>1, <1>2, <1>4

LEMMA SignalStep ==
  ASSUME IInv, Signal
  PROVE  /\ IInv' /\ UNCHANGED <<serving, stopping>> /\ outcome' \in {"none", "killed"}
<1>1. /\ frames \in Seq({"set", "held"}) /\ signals' \in 0..MaxSignals /\ signals' = signals + 1
      /\ UNCHANGED <<serving, stopping, flag, lock>> /\ outcome = "none"
      /\ flag \in BOOLEAN /\ lock \in BOOLEAN /\ pc \in Stages
  BY ControllerAssumption DEF IInv, TypeOK, Signal, Running
<1>2. CASE pc \in Building /\ End("killed") /\ frames' = frames
  <2>1. pc' = "exit" /\ outcome' = "killed"
    BY <1>2 DEF End
  <2>2. StageInv'
    BY <1>1, <2>1 DEF StageInv, Building, Running
  <2> QED
    BY <1>1, <1>2, <2>1, <2>2, MainStep DEF Stages, Failures
<1>3. CASE frames' = Append(frames, "set") /\ UNCHANGED <<pc, outcome>>
  <2>1. frames' \in Seq({"set", "held"})
    BY <1>1, <1>3
  <2> QED
    BY <1>1, <1>3, <2>1, SignallingStep
<1> QED
  BY <1>2, <1>3 DEF Signal

LEMMA HandleStep ==
  ASSUME IInv, Handle
  PROVE  IInv'
<1>1. /\ frames \in Seq({"set", "held"}) /\ signals \in 0..MaxSignals
      /\ flag \in BOOLEAN /\ lock \in BOOLEAN
  BY DEF IInv, TypeOK
<1>2. /\ frames # <<>> /\ flag' \in BOOLEAN /\ lock' \in BOOLEAN /\ signals' = signals
      /\ UNCHANGED <<pc, outcome, serving, stopping>>
      /\ \/ frames' = [frames EXCEPT ![Len(frames)] = "held"]
         \/ frames' = SubSeq(frames, 1, Len(frames) - 1)
  BY <1>1 DEF Handle
<1>3. Len(frames) \in 1..Len(frames)
  BY <1>1, <1>2
<1>4. frames' \in Seq({"set", "held"})
  <2>1. CASE frames' = [frames EXCEPT ![Len(frames)] = "held"]
    BY <1>1, <1>3, <2>1
  <2>2. CASE frames' = SubSeq(frames, 1, Len(frames) - 1)
    BY <1>1, <1>3, <2>2
  <2> QED
    BY <1>2, <2>1, <2>2
<1> QED
  BY <1>1, <1>2, <1>4, SignallingStep

\* A loop goes on, and so does nothing else.
LEMMA ServingStep ==
  ASSUME IInv, Running, NEW s \in Server, Serve(s) \/ Accept(s) \/ Die(s)
  PROVE  IInv'
<1> USE DEF Running, Server, stopping, signalling
<1>1. LoopInv(s) /\ TypeOK /\ StageInv
  BY DEF IInv
<1>2. /\ socket[s] \in {"none", "open", "closed"}
      /\ loop[s] \in {"unborn", "started", "idle", "busy", "ended", "over"}
      /\ taken[s] \in 0..MaxRequests /\ answered[s] \in 0..MaxRequests
      /\ deaths \in 0..MaxDeaths
  BY <1>1 DEF TypeOK
<1>3. loop[s] # "unborn" /\ loop'[s] # "unborn" /\ UNCHANGED <<pc, outcome, started, at, turn>>
  BY <1>1 DEF Serve, Accept, Die, TypeOK
<1>4. \A q \in Server : q # s =>
        /\ socket'[q] = socket[q] /\ loop'[q] = loop[q] /\ isShut'[q] = isShut[q]
        /\ taken'[q] = taken[q] /\ answered'[q] = answered[q]
  BY <1>1 DEF Serve, Accept, Die, TypeOK
<1>5. TypeOK'
  <2>1. CASE Serve(s)
    <3>1. loop[s] = "busy" => answered[s] + 1 \in 0..MaxRequests
      BY <1>1, <1>2, ControllerAssumption DEF LoopInv
    <3>2. answered' \in [Server -> 0..MaxRequests]
      BY <1>1, <2>1, <3>1 DEF TypeOK, Serve
    <3>3. /\ loop' \in [Server -> {"unborn", "started", "idle", "busy", "ended", "over"}]
          /\ socket' \in [Server -> {"none", "open", "closed"}]
      BY <1>1, <2>1 DEF TypeOK, Serve
    <3>4. asked' \in [Server -> BOOLEAN] /\ isShut' \in [Server -> BOOLEAN]
      BY <1>1, <2>1 DEF TypeOK, Serve
    <3> QED
      BY <1>1, <2>1, <3>2, <3>3, <3>4 DEF TypeOK, Serve
  <2>2. CASE Accept(s)
    BY <1>1, <1>2, <2>2, ControllerAssumption DEF TypeOK, Accept
  <2>3. CASE Die(s)
    BY <1>1, <1>2, <2>3, ControllerAssumption DEF TypeOK, Die
  <2> QED
    BY <2>1, <2>2, <2>3
<1>6. /\ LoopInv(s)'
      /\ isShut[s] => isShut'[s] /\ (loop[s] = "over" => loop'[s] = "over")
      /\ socket[s] = "closed" => socket'[s] = "closed"
  <2>1. CASE Serve(s)
    BY <1>1, <1>2, <2>1, ControllerAssumption DEF TypeOK, Serve, LoopInv
  <2>2. CASE Accept(s)
    BY <1>1, <1>2, <2>2, ControllerAssumption DEF TypeOK, Accept, LoopInv
  <2>3. CASE Die(s)
    BY <1>1, <1>2, <2>3, ControllerAssumption DEF TypeOK, Die, LoopInv
  <2> QED
    BY <2>1, <2>2, <2>3
<1>7. StageInv'
  BY <1>1, <1>3, <1>4 DEF StageInv, Building
<1>8. FirstInv'
  BY <1>3 DEF IInv, FirstInv
<1>9. ASSUME NEW q \in Server PROVE LoopInv(q)'
  <2>1. CASE q = s
    BY <1>6, <2>1
  <2>2. CASE q # s
    BY <1>4, <2>2 DEF IInv, LoopInv
  <2> QED
    BY <2>1, <2>2
<1>10. ASSUME NEW c \in Stopper PROVE StopInv(c)'
  <2>1. StopInv(c) /\ turn[c] \in {<<"main", "testing">>, <<"testing">>, <<>>}
    BY <1>1 DEF IInv, TypeOK
  <2>2. \A q \in Server : isShut[q] => isShut'[q] /\ (loop[q] = "over" => loop'[q] = "over")
    BY <1>4, <1>6
  <2>3. \A q \in Server : socket[q] = "closed" => socket'[q] = "closed"
    BY <1>4, <1>6
  <2>4. turn[c] # <<>> => Head(turn[c]) \in Server
    BY <2>1, Turns
  <2> QED
    BY <1>3, <2>1, <2>2, <2>3, <2>4 DEF StopInv
<1> QED
  BY <1>5, <1>7, <1>8, <1>9, <1>10 DEF IInv

\* A caller of stop() goes on: what is left to show of such a step.
LEMMA CallerStep ==
  ASSUME IInv, NEW c \in Stopper, CallerFree(c), UNCHANGED <<pc, outcome>>, TypeOK',
         pc \notin Building \cup {"start"}, UNCHANGED <<loop, isShut, taken, answered>>,
         NEW step \in Stopping \ {"idle"}, at' = [at EXCEPT ![c] = step],
         \A q \in Stopper : q # c => turn'[q] = turn[q],
         \A s \in Server : socket'[s] = socket[s] \/ (socket'[s] = "closed" /\ isShut[s]),
         started', StopInv(c)', FirstInv'
  PROVE  IInv'
<1>1. TypeOK /\ StageInv /\ pc \notin Building \cup {"start"}
  BY DEF IInv
<1>2. outcome # "ok"
  BY DEF CallerFree, MainFree, Running
<1>3. StageInv'
  BY <1>1, <1>2 DEF StageInv, Building, Running
<1>4. ASSUME NEW s \in Server PROVE LoopInv(s)'
  BY DEF IInv, LoopInv
<1>5. ASSUME NEW q \in Stopper PROVE StopInv(q)'
  <2>1. CASE q = c
    BY <2>1
  <2>2. CASE q # c
    <3>1. StopInv(q) /\ at'[q] = at[q] /\ turn'[q] = turn[q]
      BY <1>1, <2>2 DEF IInv, TypeOK
    <3>2. \A s \in Server : socket[s] = "closed" => socket'[s] = "closed"
      OBVIOUS
    <3> QED
      BY <3>1, <3>2 DEF StopInv
  <2> QED
    BY <2>1, <2>2
<1> QED
  BY <1>3, <1>4, <1>5 DEF IInv

LEMMA EnterStep ==
  ASSUME IInv, NEW c \in Stopper, Enter(c)
  PROVE  IInv'
<1> USE DEF serving, signalling
<1>1. /\ CallerFree(c) /\ UNCHANGED <<pc, outcome>> /\ pc \notin Building \cup {"start"}
      /\ UNCHANGED <<loop, isShut, taken, answered, socket, turn>> /\ started'
      /\ at[c] = "idle" /\ TypeOK /\ StopInv(c) /\ FirstInv
  BY DEF IInv, Enter
<1>2. PICK step \in {"returned", "flag"} :
        at' = [at EXCEPT ![c] = step] /\ (step = "flag" <=> ~started)
  BY DEF Enter, Goto
<1>3. TypeOK'
  BY <1>1, <1>2 DEF Enter, TypeOK, Stopping
<1>4. turn[c] = <<"main", "testing">>
  BY <1>1 DEF StopInv
<1>5. StopInv(c)'
  BY <1>1, <1>2, <1>4, Turns DEF StopInv, TypeOK
<1>6. FirstInv'
  <2>1. CASE started
    <3>1. PICK q \in Stopper : at[q] # "idle" /\ (at[q] = "returned" => turn[q] = <<>>)
      BY <1>1, <2>1 DEF FirstInv
    <3>2. q # c /\ at'[q] = at[q]
      BY <1>1, <1>2, <3>1 DEF TypeOK
    <3> QED
      BY <1>1, <3>1, <3>2 DEF FirstInv
  <2>2. CASE ~started
    BY <1>1, <1>2, <2>2 DEF FirstInv, TypeOK
  <2> QED
    BY <2>1, <2>2
<1> QED
  BY <1>1, <1>2, <1>3, <1>5, <1>6, CallerStep DEF Stopping

\* A caller inside stop() knows that it was the first.
LEMMA Inside ==
  ASSUME IInv, NEW c \in Stopper, at[c] \notin {"idle", "returned"}
  PROVE  started /\ (CallerFree(c) => pc \notin Building \cup {"start"})
  BY DEF IInv, StopInv, StageInv

LEMMA SetFlagStep ==
  ASSUME IInv, NEW c \in Stopper, SetFlag(c)
  PROVE  IInv'
<1> USE DEF serving
<1>1. /\ CallerFree(c) /\ UNCHANGED <<pc, outcome>>
      /\ UNCHANGED <<loop, isShut, taken, answered, socket, turn, started>>
      /\ at[c] \in {"flag", "flag_held"} /\ TypeOK /\ StopInv(c) /\ FirstInv
  BY DEF IInv, SetFlag
<1>2. PICK step \in {"flag_held", "shut"} : at' = [at EXCEPT ![c] = step]
  BY DEF SetFlag, Goto
<1>3. TypeOK'
  BY <1>1, <1>2 DEF SetFlag, TypeOK, Stopping
<1>4. turn[c] = <<"main", "testing">>
  BY <1>1 DEF StopInv
<1>5. started /\ pc \notin Building \cup {"start"}
  BY <1>1, Inside
<1>6. StopInv(c)'
  BY <1>1, <1>2, <1>4, <1>5, Turns DEF StopInv, TypeOK
<1>7. FirstInv'
  BY <1>1, <1>2 DEF FirstInv, TypeOK
<1> QED
  BY <1>1, <1>2, <1>3, <1>5, <1>6, <1>7, CallerStep DEF Stopping

LEMMA AskOrWaitStep ==
  ASSUME IInv, NEW c \in Stopper, Ask(c) \/ Wait(c)
  PROVE  IInv'
<1> USE DEF serving, signalling
<1>1. /\ CallerFree(c) /\ UNCHANGED <<pc, outcome>>
      /\ UNCHANGED <<loop, isShut, taken, answered, socket, turn, started>>
      /\ at[c] \in {"shut", "wait"} /\ TypeOK /\ StopInv(c) /\ FirstInv
  BY DEF IInv, Ask, Wait
<1>2. PICK step \in {"wait", "close"} :
        at' = [at EXCEPT ![c] = step] /\ (step = "close" => isShut[Head(turn[c])])
  BY DEF Ask, Wait, Goto
<1>3. TypeOK'
  BY <1>1, <1>2 DEF Ask, Wait, TypeOK, Stopping
<1>4. started /\ pc \notin Building \cup {"start"}
  BY <1>1, Inside
<1>5. StopInv(c)'
  BY <1>1, <1>2, <1>4 DEF StopInv, TypeOK
<1>6. FirstInv'
  BY <1>1, <1>2 DEF FirstInv, TypeOK
<1> QED
  BY <1>1, <1>2, <1>3, <1>4, <1>5, <1>6, CallerStep DEF Stopping

LEMMA CloseStep ==
  ASSUME IInv, NEW c \in Stopper, Close(c)
  PROVE  IInv'
<1> USE DEF signalling
<1>1. /\ CallerFree(c) /\ UNCHANGED <<pc, outcome>>
      /\ UNCHANGED <<loop, isShut, taken, answered, started>>
      /\ at[c] = "close" /\ TypeOK /\ StopInv(c) /\ FirstInv
  BY DEF IInv, Close
<1>2. PICK s \in Server :
        /\ s = Head(turn[c]) /\ isShut[s] /\ socket' = [socket EXCEPT ![s] = "closed"]
        /\ \/ /\ s = "main" /\ turn[c] = <<"main", "testing">>
              /\ turn' = [turn EXCEPT ![c] = <<"testing">>] /\ at' = [at EXCEPT ![c] = "shut"]
           \/ /\ s = "testing" /\ turn[c] = <<"testing">>
              /\ turn' = [turn EXCEPT ![c] = <<>>] /\ at' = [at EXCEPT ![c] = "join"]
  <2>1. turn[c] \in {<<"main", "testing">>, <<"testing">>}
    BY <1>1 DEF TypeOK, StopInv
  <2>2. CASE turn[c] = <<"main", "testing">>
    BY <1>1, <2>2, Turns DEF Close, Goto, StopInv, Server
  <2>3. CASE turn[c] = <<"testing">>
    BY <1>1, <2>3, Turns DEF Close, Goto, StopInv, Server
  <2> QED
    BY <2>1, <2>2, <2>3
<1>3. TypeOK'
  <2>1. /\ socket' \in [Server -> {"none", "open", "closed"}] /\ at' \in [Stopper -> Stopping]
        /\ turn' \in [Stopper -> {<<"main", "testing">>, <<"testing">>, <<>>}]
    BY <1>1, <1>2 DEF TypeOK, Stopping
  <2> QED
    BY <1>1, <2>1 DEF Close, TypeOK
<1>4. started /\ pc \notin Building \cup {"start"}
  BY <1>1, Inside
<1>5. at'[c] \in {"shut", "join"} /\ socket'[s] = "closed" /\ isShut'[s]
  BY <1>1, <1>2 DEF TypeOK
<1>6. StopInv(c)'
  <2>1. CASE s = "main"
    <3>1. turn'[c] = <<"testing">> /\ at'[c] = "shut"
      BY <1>1, <1>2, <2>1 DEF TypeOK
    <3> QED
      BY <1>4, <1>5, <2>1, <3>1, Turns, <1>1 DEF StopInv
  <2>2. CASE s = "testing"
    <3>1. turn'[c] = <<>> /\ at'[c] = "join" /\ turn[c] = <<"testing">>
      BY <1>1, <1>2, <2>2 DEF TypeOK
    <3>2. isShut["main"] /\ socket'["main"] = "closed"
      BY <1>1, <1>2, <2>2, <3>1 DEF StopInv, TypeOK, Server
    <3> QED
      BY <1>1, <1>4, <1>5, <2>2, <3>1, <3>2, Turns DEF StopInv, Server
  <2> QED
    BY <2>1, <2>2 DEF Server
<1>7. FirstInv'
  BY <1>5 DEF FirstInv
<1>8. PICK step \in Stopping \ {"idle"} : at' = [at EXCEPT ![c] = step]
  BY <1>2 DEF Stopping
<1>9. /\ \A q \in Stopper : q # c => turn'[q] = turn[q]
      /\ \A q \in Server : socket'[q] = socket[q] \/ (socket'[q] = "closed" /\ isShut[q])
  BY <1>1, <1>2 DEF TypeOK
<1> QED
  BY <1>1, <1>3, <1>4, <1>6, <1>7, <1>8, <1>9, CallerStep

LEMMA JoinStep ==
  ASSUME IInv, NEW c \in Stopper, Join(c)
  PROVE  IInv'
<1> USE DEF serving, signalling
<1>1. /\ CallerFree(c) /\ UNCHANGED <<pc, outcome>>
      /\ UNCHANGED <<loop, isShut, taken, answered, socket, turn, started>>
      /\ at[c] = "join" /\ TypeOK /\ StopInv(c) /\ FirstInv
      /\ at' = [at EXCEPT ![c] = "returned"]
  BY DEF IInv, Join, Goto
<1>2. TypeOK'
  BY <1>1 DEF Join, TypeOK, Stopping
<1>3. started /\ pc \notin Building \cup {"start"}
  BY <1>1, Inside
<1>4. turn[c] = <<>> /\ \A s \in Server : isShut[s] /\ loop[s] = "over"
  BY <1>1 DEF StopInv, IInv, LoopInv, Join
<1>5. StopInv(c)'
  BY <1>1, <1>3, <1>4, Turns DEF StopInv, TypeOK
<1>6. FirstInv'
  BY <1>1, <1>4 DEF FirstInv, TypeOK
<1> QED
  BY <1>1, <1>2, <1>3, <1>5, <1>6, CallerStep DEF Stopping

\* Every step keeps the invariant, one lemma for each kind.
LEMMA ControllerNextInv == IInv /\ [Next]_vars => IInv'
<1> SUFFICES ASSUME IInv, [Next]_vars PROVE IInv'
  OBVIOUS
<1>1. ASSUME Main PROVE IInv'
  BY <1>1, LoadConfigStep, CreateAppStep, BindStep, StartStep, PollStep DEF Main
<1>2. ASSUME NEW s \in Server, Serve(s) \/ Accept(s) \/ Die(s) PROVE IInv'
  BY <1>2, ServingStep DEF Serve, Accept, Die
<1>3. ASSUME NEW c \in Stopper, Stop(c) PROVE IInv'
  BY <1>3, EnterStep, SetFlagStep, AskOrWaitStep, CloseStep, JoinStep DEF Stop
<1>4. ASSUME UNCHANGED vars PROVE IInv'
  <2>1. UNCHANGED <<pc, outcome, serving, stopping, flag, lock, frames, signals>>
    BY <1>4 DEF vars, signalling
  <2>2. flag \in BOOLEAN /\ lock \in BOOLEAN /\ frames \in Seq({"set", "held"})
        /\ signals \in 0..MaxSignals
    BY DEF IInv, TypeOK
  <2> QED
    BY <2>1, <2>2, SignallingStep
<1> QED
  BY <1>1, <1>2, <1>3, <1>4, SignalStep, HandleStep DEF Next, Done

\* No loop serves on a closed socket, and what each caller of stop() has shut
\* down and closed stays so (main.py:150-176), for any number of callers,
\* signals, deaths and requests.
THEOREM ControllerInvariant == Spec => []IInv
  BY ControllerInit, ControllerNextInv, PTL DEF Spec

\* Where run() has ended nothing changes any more.
LEMMA EndIsEnd ==
  ASSUME IInv, [Next]_vars, outcome # "none"
  PROVE  UNCHANGED <<outcome, socket>>
<1>1. ~Running /\ ~MainFree /\ \A c \in Stopper : ~CallerFree(c)
  BY DEF Running, MainFree, CallerFree
<1> QED
  BY <1>1
     DEF Next, vars, Done, serving, Main, LoadConfig, InstallHandlers, Start, Look, GiveUp, Sleep,
         Return, CreateApp, Bind, Serve, Accept, Die, Signal, Handle, Stop, Enter, SetFlag, Ask,
         Wait, Close, Join

\* A construction that fails leaves no socket open, but the main server's when
\* the testing server's bind ends with SystemExit (main.py:84-101).
THEOREM NoSocketLeaks == Spec => []NoLeak
<1>1. Init => NoLeak
  BY DEF Init, NoLeak, Failures
<1>2. IInv /\ NoLeak /\ [Next]_vars => NoLeak'
  <2> SUFFICES ASSUME IInv, NoLeak, [Next]_vars PROVE NoLeak'
    OBVIOUS
  <2>1. CASE outcome # "none"
    BY <2>1, EndIsEnd DEF NoLeak, Failures
  <2>2. CASE outcome = "none"
    <3>1. ASSUME LoadConfig \/ \E s \in Server : CreateApp(s) \/ Bind(s) PROVE NoLeak'
      BY <3>1, LoadConfigStep, CreateAppStep, BindStep DEF NoLeak, Failures
    <3>2. ASSUME ~(LoadConfig \/ \E s \in Server : CreateApp(s) \/ Bind(s))
          PROVE  outcome' \in {"none", "ok", "killed"}
      <4>1. ASSUME InstallHandlers \/ Look \/ GiveUp \/ Sleep \/ Return \/ Signal
            PROVE  outcome' \in {"none", "ok", "killed"}
        BY <4>1, PollStep, SignalStep
      <4>2. ASSUME Start \/ Handle \/ UNCHANGED vars \/ Done
                   \/ (\E s \in Server : Serve(s) \/ Accept(s) \/ Die(s))
                   \/ (\E c \in Stopper : Stop(c))
            PROVE  outcome' = outcome
        BY <4>2 DEF Start, Handle, vars, Done, Serve, Accept, Die, Stop, Enter, SetFlag, Ask, Wait,
                    Close, Join
      <4> QED
        BY <2>2, <3>2, <4>1, <4>2 DEF Next, Main
    <3> QED
      BY <3>1, <3>2 DEF NoLeak, Failures
  <2> QED
    BY <2>1, <2>2
<1> QED
  BY <1>1, <1>2, ControllerInvariant, PTL DEF Spec

\* When run() returns, every request that was accepted is answered, but on
\* servers another caller of stop() has still to shut down (main.py:157-176).
THEOREM ShutdownIsGraceful == Spec => []Graceful
<1>1. IInv => Graceful
  <2> SUFFICES ASSUME IInv, outcome = "ok"
               PROVE  Graceful
    BY DEF Graceful
  <2>1. at["main"] = "returned" /\ "main" \in Stopper /\ started
    BY DEF IInv, StageInv, StopInv, Stopper
  <2>2. PICK c \in Stopper : at[c] # "idle" /\ (at[c] = "returned" => turn[c] = <<>>)
    BY <2>1 DEF IInv, FirstInv
  <2>3. at[c] # "returned" => c \in Caller
    BY <2>1, <2>2 DEF Stopper
  <2>4. ASSUME NEW s \in Server, Passed(c, s)
        PROVE  /\ socket[s] = "closed" /\ answered[s] = taken[s]
               /\ at[c] = "returned" => loop[s] = "over"
    <3>1. isShut[s] /\ socket[s] = "closed" /\ (at[c] = "returned" => loop[s] = "over")
      BY <2>4 DEF IInv, StopInv, Passed, Server
    <3>2. loop[s] # "busy"
      BY <3>1 DEF IInv, LoopInv
    <3>3. taken[s] = answered[s] + 0 /\ answered[s] \in Nat
      BY <3>2 DEF IInv, LoopInv, TypeOK
    <3> QED
      BY <3>1, <3>3
  <2>5. at[c] = "returned" => \A s \in Server : Passed(c, s)
    BY <2>2 DEF Passed
  <2>6. at[c] # "returned" => c \in Caller /\ InStop(c)
    BY <2>2, <2>3 DEF InStop
  <2> QED
    BY <2>4, <2>5, <2>6 DEF Graceful
<1> QED
  BY <1>1, ControllerInvariant, PTL

=============================================================================
