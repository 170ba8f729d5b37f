------------------------------ MODULE TestDbs ------------------------------
(***************************************************************************)
(* The testing API (create_testing_app in app_factory.py): every request   *)
(* names a test and works on that test's own database file, under a lock   *)
(* of that test.  The schema is created by the first request that finds    *)
(* the test unknown to the process, or its file missing; reset deletes the *)
(* file.                                                                   *)
(*                                                                         *)
(* What a request does to a database is one step here, module Ingest has   *)
(* it in detail.  The file stands for its -wal, -shm and -journal too: an  *)
(* empty database ignores a log that outlived its file.  The lock of       *)
(* _initialized_test_dbs is held for single operations only.               *)
(***************************************************************************)
EXTENDS Integers

CONSTANTS
  Worker,     \* threads that serve requests
  Request,
  Test,       \* values of testName
  test,       \* test[r]: the test request r names
  op,         \* op[r]: what it asks for
  Deletable,  \* the tests whose file somebody else may delete
  NoWorker,   \* the lock is free
  NoRequest   \* the worker serves nobody

\* "write" stands for the three endpoints that change a database.
Ops == {"malformed", "write", "export", "reset"}

ASSUME RequestAssumption ==
  /\ test \in [Request -> Test] /\ op \in [Request -> Ops]
  /\ Deletable \subseteq Test
  /\ NoWorker \notin Worker /\ NoRequest \notin Request

\* The tables of SCHEMA_STATEMENTS.
Tables == 2

\* A database: how many tables it has, and the requests stored in them.
Database == [tables : 0..Tables, data : SUBSET Request]
Bare == [tables |-> 0, data |-> {}]
NoFile == [tables |-> -1, data |-> {}]

VARIABLES
  file,         \* file[t]: the file of test t
  orphan,       \* orphan[w]: the file worker w has open, if it has been deleted since
  initialized,  \* _initialized_test_dbs
  lock,         \* lock[t]: who holds the lock of test t
  pc,           \* pc[w]: the step worker w is about to take, or its outcome
  job,          \* job[w]: the request it serves
  fresh,        \* fresh[w]: should_init_schema
  copy,         \* copy[r]: what request r has exported
  answer        \* answer[r]: what the client was told

vars == <<file, orphan, initialized, lock, pc, job, fresh, copy, answer>>

Connected == {"init", "run"}
Locked == Connected \cup {"look", "open", "unlink", "forget"}
Outcomes == {"accepted", "rejected", "error"}

TypeOK ==
  /\ file \in [Test -> Database \cup {NoFile}]
  /\ orphan \in [Worker -> Database \cup {NoFile}]
  /\ initialized \subseteq Test
  /\ lock \in [Test -> Worker \cup {NoWorker}]
  /\ pc \in [Worker -> {"idle", "acquire"} \cup Locked \cup Outcomes]
  /\ job \in [Worker -> Request \cup {NoRequest}]
  /\ fresh \in [Worker -> BOOLEAN]
  /\ copy \in [Request -> SUBSET Request]
  /\ answer \in [Request -> Outcomes \cup {"none", "lost"}]

Init ==
  /\ file = [t \in Test |-> NoFile]
  /\ orphan = [w \in Worker |-> NoFile]
  /\ initialized = {}
  /\ lock = [t \in Test |-> NoWorker]
  /\ pc = [w \in Worker |-> "idle"]
  /\ job = [w \in Worker |-> NoRequest]
  /\ fresh = [w \in Worker |-> FALSE]
  /\ copy = [r \in Request |-> {}]
  /\ answer = [r \in Request |-> "none"]

InFlight(r) == \E w \in Worker : job[w] = r
TestOf(w) == test[job[w]]
Goto(w, stage) == pc' = [pc EXCEPT ![w] = stage]

\* The database worker w is connected to, which may have lost its name.
Contents(w) == IF orphan[w] = NoFile THEN file[TestOf(w)] ELSE orphan[w]

Store(w, db) ==
  IF orphan[w] = NoFile
    THEN file' = [file EXCEPT ![TestOf(w)] = db] /\ UNCHANGED orphan
    ELSE orphan' = [orphan EXCEPT ![w] = db] /\ UNCHANGED file

\* A file is deleted; who has it open keeps it.
Remove(t) ==
  /\ file' = [file EXCEPT ![t] = NoFile]
  /\ orphan' = [w \in Worker |->
       IF pc[w] \in Connected /\ TestOf(w) = t /\ orphan[w] = NoFile
         THEN file[t] ELSE orphan[w]]

\* Mutant: the lock is not released on an exception.
LeaveLocked(w, outcome) ==
  /\ Goto(w, outcome)
  /\ lock' = IF outcome = "error" THEN lock ELSE [lock EXCEPT ![TestOf(w)] = NoWorker]
  /\ fresh' = [fresh EXCEPT ![w] = FALSE]

\* The connection is closed and the lock released, whatever happened.
Leave(w, outcome) ==
  /\ Goto(w, outcome)
  /\ lock' = [lock EXCEPT ![TestOf(w)] = NoWorker]
  /\ fresh' = [fresh EXCEPT ![w] = FALSE]

-----------------------------------------------------------------------------
Receive(w, r) ==
  /\ pc[w] = "idle" /\ answer[r] = "none" /\ ~InFlight(r)
  /\ job' = [job EXCEPT ![w] = r]
  /\ Goto(w, IF op[r] = "malformed" THEN "rejected" ELSE "acquire")
  /\ UNCHANGED <<file, orphan, initialized, lock, fresh, copy, answer>>

\* Mutant: reset does not wait for the lock.
AcquireUnlessReset(w) ==
  /\ pc[w] = "acquire"
  /\ op[job[w]] = "reset" \/ lock[TestOf(w)] = NoWorker
  /\ lock' = [lock EXCEPT ![TestOf(w)] = w]
  /\ Goto(w, IF op[job[w]] = "reset" THEN "unlink" ELSE "look")
  /\ UNCHANGED <<file, orphan, initialized, job, fresh, copy, answer>>

\* with _test_db_init_lock(test_name)
Acquire(w) ==
  /\ pc[w] = "acquire"
  /\ lock[TestOf(w)] = NoWorker
  /\ lock' = [lock EXCEPT ![TestOf(w)] = w]
  /\ Goto(w, IF op[job[w]] = "reset" THEN "unlink" ELSE "look")
  /\ UNCHANGED <<file, orphan, initialized, job, fresh, copy, answer>>

\* Mutant: the existence of the file is not checked.
LookAtSetOnly(w) ==
  /\ pc[w] = "look"
  /\ fresh' = [fresh EXCEPT ![w] = TestOf(w) \notin initialized]
  /\ Goto(w, "open")
  /\ UNCHANGED <<file, orphan, initialized, lock, job, copy, answer>>

\* Is the test known to the process, and does its file exist?
Look(w) ==
  /\ pc[w] = "look"
  /\ fresh' = [fresh EXCEPT ![w] =
       TestOf(w) \notin initialized \/ file[TestOf(w)] = NoFile]
  /\ Goto(w, "open")
  /\ UNCHANGED <<file, orphan, initialized, lock, job, copy, answer>>

\* Mutant: a database to be initialised is created anew.
OpenAnew(w) ==
  /\ pc[w] = "open"
  /\ file' = IF fresh[w] THEN [file EXCEPT ![TestOf(w)] = Bare] ELSE file
  /\ orphan' = [orphan EXCEPT ![w] = NoFile]
  /\ Goto(w, IF fresh[w] THEN "init" ELSE "run")
  /\ UNCHANGED <<initialized, lock, job, fresh, copy, answer>>

\* open_db creates a missing file.
Open(w) ==
  /\ pc[w] = "open"
  /\ file' = IF file[TestOf(w)] = NoFile THEN [file EXCEPT ![TestOf(w)] = Bare] ELSE file
  /\ orphan' = [orphan EXCEPT ![w] = NoFile]
  /\ Goto(w, IF fresh[w] THEN "init" ELSE "run")
  /\ UNCHANGED <<initialized, lock, job, fresh, copy, answer>>

\* init_schema: CREATE TABLE IF NOT EXISTS, autocommitted one by one; in these
\* files the migration has nothing to do.
CreateTable(w) ==
  /\ pc[w] = "init" /\ Contents(w).tables < Tables
  /\ Store(w, [Contents(w) EXCEPT !.tables = @ + 1])
  /\ UNCHANGED <<initialized, lock, pc, job, fresh, copy, answer>>

Register(w) ==
  /\ pc[w] = "init" /\ Contents(w).tables = Tables
  /\ initialized' = initialized \cup {TestOf(w)}
  /\ Goto(w, "run")
  /\ UNCHANGED <<file, orphan, lock, job, fresh, copy, answer>>

\* Worker w is storing an event in a file that is still there.
Writing(w) ==
  /\ pc[w] = "run" /\ op[job[w]] = "write"
  /\ orphan[w] = NoFile /\ Contents(w).tables = Tables

\* The file of its test with that event.
WithEvent(w) == [file[TestOf(w)] EXCEPT !.data = @ \cup {job[w]}]

\* The callback of _with_test_db: an event is stored, perhaps only the first
\* quarters of it before an error, or is refused (400), or the database is
\* copied, whatever is in it.
Run(w) ==
  /\ pc[w] = "run"
  /\ orphan' = [orphan EXCEPT ![w] = NoFile]
  /\ \/ /\ Writing(w)
        /\ file' = [file EXCEPT ![TestOf(w)] = WithEvent(w)]
        /\ \E outcome \in {"accepted", "error"} : Leave(w, outcome)
        /\ UNCHANGED copy
     \/ /\ op[job[w]] = "write" /\ orphan[w] # NoFile
        /\ Contents(w).tables = Tables
        /\ Leave(w, "accepted")
        /\ UNCHANGED <<file, copy>>
     \/ /\ op[job[w]] = "write"
        /\ Leave(w, "rejected")
        /\ UNCHANGED <<file, copy>>
     \/ /\ op[job[w]] = "export"
        /\ copy' = [copy EXCEPT ![job[w]] = Contents(w).data]
        /\ Leave(w, "accepted")
        /\ UNCHANGED file
  /\ UNCHANGED <<initialized, job, answer>>

\* reset_test_db_files
Unlink(w) ==
  /\ pc[w] = "unlink"
  /\ Remove(TestOf(w))
  /\ Goto(w, "forget")
  /\ UNCHANGED <<initialized, lock, job, fresh, copy, answer>>

Forget(w) ==
  /\ pc[w] = "forget"
  /\ initialized' = initialized \ {TestOf(w)}
  /\ Leave(w, "accepted")
  /\ UNCHANGED <<file, orphan, job, copy, answer>>

\* An exception: the directory, the database or a sidecar file cannot be used,
\* a statement fails, a table is missing.
Fail(w) ==
  /\ pc[w] \in Locked
  /\ orphan' = [orphan EXCEPT ![w] = NoFile]
  /\ Leave(w, "error")
  /\ UNCHANGED <<file, initialized, job, copy, answer>>

Reply(w) ==
  /\ pc[w] \in Outcomes
  /\ answer' = [answer EXCEPT ![job[w]] = pc[w]]
  /\ job' = [job EXCEPT ![w] = NoRequest]
  /\ Goto(w, "idle")
  /\ UNCHANGED <<file, orphan, initialized, lock, fresh, copy>>

\* Somebody deletes a file from outside.
Delete(t) ==
  /\ t \in Deletable /\ file[t] # NoFile
  /\ Remove(t)
  /\ UNCHANGED <<initialized, lock, pc, job, fresh, copy, answer>>

\* The process dies and starts again: the set and the locks are gone.  Some of
\* the events that were being stored may have been committed.
Crash ==
  /\ \E W \in SUBSET {w \in Worker : Writing(w)} :
       file' = [t \in Test |-> IF lock[t] \in W THEN WithEvent(lock[t]) ELSE file[t]]
  /\ answer' = [r \in Request |-> IF InFlight(r) THEN "lost" ELSE answer[r]]
  /\ initialized' = {}
  /\ lock' = [t \in Test |-> NoWorker]
  /\ orphan' = [w \in Worker |-> NoFile]
  /\ pc' = [w \in Worker |-> "idle"]
  /\ job' = [w \in Worker |-> NoRequest]
  /\ fresh' = [w \in Worker |-> FALSE]
  /\ UNCHANGED copy

Serve(w) ==
  \/ Acquire(w) \/ Look(w) \/ Open(w) \/ CreateTable(w) \/ Register(w)
  \/ Run(w) \/ Unlink(w) \/ Forget(w) \/ Fail(w) \/ Reply(w)

Next ==
  \/ \E w \in Worker, r \in Request : Receive(w, r)
  \/ \E w \in Worker : Serve(w)
  \/ \E t \in Test : Delete(t)
  \/ Crash

Spec == Init /\ [][Next]_vars

\* Every thread that has a request keeps running while it can.
FairSpec == Spec /\ \A w \in Worker : WF_vars(Serve(w))

-----------------------------------------------------------------------------
Answered(r, outcome) ==
  answer[r] = outcome \/ \E w \in Worker : job[w] = r /\ pc[w] = outcome

\* A request of test t, a reset or another one, that has failed.
Failed(t, ops) == \E r \in Request : test[r] = t /\ op[r] \in ops /\ Answered(r, "error")

\* The file of t was deleted from outside; or a reset has failed before it
\* forgot the test, and an initialisation may have failed since, half-way and
\* with the test registered (DeletionHandled shows the same of a deleted file).
Disturbed(t) ==
  t \in Deletable \/ (Failed(t, {"reset"}) /\ Failed(t, {"write", "export"}))

\* A worker only comes to run a request on a complete schema: not after an
\* initialisation or a reset that failed half-way (only after both), a
\* reset that succeeded, a crash or a request that ran at the same time
\* (app_factory.py:216-227, 540-547).
RunsWithSchema ==
  \A w \in Worker :
    pc[w] = "run" /\ ~Disturbed(TestOf(w)) => Contents(w).tables = Tables

\* No database is deleted while a request is working on it
\* (app_factory.py:245, 542).
NoPulledFile ==
  \A w \in Worker : orphan[w] # NoFile => TestOf(w) \in Deletable

Untouched(r) == answer[r] = "none" /\ ~InFlight(r)

\* What was accepted for a test is there until somebody resets that test: not
\* lost by a restart, a repeated initialisation or another request
\* (app_factory.py:208-228).
AcceptedStays ==
  \A r \in Request :
    /\ answer[r] = "accepted" /\ op[r] = "write" /\ test[r] \notin Deletable
    /\ \A q \in Request : op[q] = "reset" /\ test[q] = test[r] => Untouched(q)
    => r \in file[test[r]].data

\* An export holds the events of its own test only, and none that was refused
\* (app_factory.py:516-518).
ExportsOwnEvents ==
  \A q, r \in Request :
    r \in copy[q] => op[r] = "write" /\ test[r] = test[q] /\ answer[r] # "rejected"

\* Every request is answered or lost: no failure keeps a lock, and nobody waits
\* for more than one (app_factory.py:48-55, 243-250, 542-545).
EveryRequestAnswered ==
  \A r \in Request : InFlight(r) ~> answer[r] # "none"

\* "the existence check also handles cases where files were deleted after the
\* process started" (app_factory.py:211-212): a test the process thinks
\* initialised, whose file is there, has its schema when nobody works on it.
DeletionHandled ==
  \A t \in initialized :
    lock[t] = NoWorker /\ file[t] # NoFile => file[t].tables = Tables

-----------------------------------------------------------------------------
\* The inductive invariant.
LockInv ==
  /\ \A w \in Worker : pc[w] \in Locked => lock[TestOf(w)] = w
  /\ \A t \in Test : lock[t] # NoWorker => pc[lock[t]] \in Locked /\ TestOf(lock[t]) = t

JobInv ==
  /\ \A w \in Worker : job[w] = NoRequest <=> pc[w] = "idle"
  /\ \A w \in Worker : job[w] # NoRequest => answer[job[w]] = "none"
  /\ \A v, w \in Worker : job[v] = job[w] /\ job[w] # NoRequest => v = w

StageInv(w) ==
  LET t == TestOf(w) IN
  /\ pc[w] \notin Connected => orphan[w] = NoFile
  /\ pc[w] \in Connected /\ t \notin Deletable => orphan[w] = NoFile /\ file[t] # NoFile
  /\ pc[w] = "open" /\ ~fresh[w] => t \in initialized
  /\ pc[w] = "open" /\ ~fresh[w] /\ t \notin Deletable => file[t] # NoFile
  /\ pc[w] = "run" => t \in initialized
  /\ pc[w] = "acquire" => op[job[w]] # "malformed"
  /\ pc[w] \in {"look", "open", "init", "run"} => op[job[w]] \in {"write", "export"}
  /\ pc[w] \in {"unlink", "forget"} => op[job[w]] = "reset"

\* A registered test has its tables, but between the two halves of a reset and
\* after one that has failed; then whoever comes next initialises it again.
SchemaInv ==
  \A t \in initialized :
    \/ Disturbed(t)
    \/ file[t].tables = Tables
    \/ file[t] = NoFile /\ lock[t] # NoWorker /\ pc[lock[t]] = "forget"
    \/ Failed(t, {"reset"}) /\ file[t] = NoFile
    \/ Failed(t, {"reset"}) /\ lock[t] # NoWorker /\ pc[lock[t]] = "init"

\* r is an event of test t that may have been stored: it was not refused.
Counted(r, t) ==
  /\ op[r] = "write" /\ test[r] = t
  /\ \E outcome \in {"accepted", "error", "lost"} : Answered(r, outcome)

DataInv ==
  /\ \A t \in Test : \A r \in file[t].data : Counted(r, t)
  /\ \A w \in Worker : \A r \in orphan[w].data : Counted(r, TestOf(w))
  /\ \A q \in Request : \A r \in copy[q] : Counted(r, test[q])

KeptInv ==
  \A r \in Request :
    /\ Answered(r, "accepted") /\ op[r] = "write" /\ test[r] \notin Deletable
    /\ \A q \in Request : op[q] = "reset" /\ test[q] = test[r] => Untouched(q)
    => r \in file[test[r]].data

IInv ==
  /\ TypeOK
  /\ LockInv
  /\ JobInv
  /\ \A w \in Worker : StageInv(w)
  /\ SchemaInv
  /\ DataInv
  /\ KeptInv

=============================================================================
