--------------------------- MODULE TestDbsProofs ---------------------------
(***************************************************************************)
(* Proofs about TestDbs, for every number of workers, requests and tests:  *)
(* the inductive invariant IInv and the safety properties that follow.     *)
(***************************************************************************)
EXTENDS TestDbs, TLAPS

USE DEF Connected, Locked, Outcomes

\* A worker that is busy serves a request, which names a test.
LEMMA Busy ==
  ASSUME TypeOK, JobInv, NEW w \in Worker, pc[w] # "idle"
  PROVE  job[w] \in Request /\ TestOf(w) \in Test /\ op[job[w]] \in Ops
  BY RequestAssumption DEF TypeOK, JobInv, TestOf

\* The lock of a test keeps its workers apart.
LEMMA Exclusive ==
  ASSUME LockInv, NEW v \in Worker, NEW w \in Worker,
         pc[v] \in Locked, pc[w] \in Locked, TestOf(v) = TestOf(w)
  PROVE  v = w
  BY DEF LockInv

LEMMA Databases ==
  /\ Bare \in Database /\ Bare # NoFile
  /\ NoFile.tables = -1 /\ NoFile.data = {} /\ Bare.data = {} /\ Bare.tables = 0
  /\ \A db \in Database : db # NoFile /\ db.tables \in 0..Tables /\ db.data \subseteq Request
  BY DEF Database, Bare, NoFile, Tables

-----------------------------------------------------------------------------
\* What the helpers do to the state types.
LEMMA ContentsType ==
  ASSUME TypeOK, JobInv, NEW w \in Worker, pc[w] # "idle"
  PROVE  Contents(w) \in Database \cup {NoFile}
  BY Busy DEF Contents, TypeOK

LEMMA LeaveType ==
  ASSUME TypeOK, NEW w \in Worker, NEW outcome \in Outcomes, Leave(w, outcome)
  PROVE  /\ pc' \in [Worker -> {"idle", "acquire"} \cup Locked \cup Outcomes]
         /\ lock' \in [Test -> Worker \cup {NoWorker}]
         /\ fresh' \in [Worker -> BOOLEAN]
  BY DEF TypeOK, Leave, Goto

LEMMA RemoveType ==
  ASSUME TypeOK, NEW t \in Test, Remove(t)
  PROVE  /\ file' \in [Test -> Database \cup {NoFile}]
         /\ orphan' \in [Worker -> Database \cup {NoFile}]
  BY DEF TypeOK, Remove

\* A file that has its tables is a database; storing an event leaves them.
LEMMA EventStored ==
  ASSUME TypeOK, JobInv, NEW w \in Worker, Writing(w)
  PROVE  /\ file[TestOf(w)] \in Database /\ WithEvent(w) \in Database
         /\ WithEvent(w).tables = file[TestOf(w)].tables
         /\ WithEvent(w).data = file[TestOf(w)].data \cup {job[w]}
<1>1. TestOf(w) \in Test /\ job[w] \in Request
  BY Busy DEF Writing
<1>2. file[TestOf(w)].tables = Tables
  BY DEF Writing, Contents
<1>3. file[TestOf(w)] \in Database
  BY <1>1, <1>2, Databases DEF TypeOK, Tables
<1> QED
  BY <1>1, <1>3 DEF WithEvent, Database

\* A request that runs adds itself to its test's database, or changes nothing.
LEMMA RunFile ==
  ASSUME TypeOK, JobInv, NEW w \in Worker, Run(w)
  PROVE  /\ file' \in [Test -> Database \cup {NoFile}]
         /\ \A t \in Test : t # TestOf(w) => file'[t] = file[t]
         /\ \A t \in Test : file'[t].tables = file[t].tables
         /\ \A t \in Test : file'[t] = NoFile <=> file[t] = NoFile
         /\ \A t \in Test : file[t].data \subseteq file'[t].data
         /\ \/ file' = file
            \/ /\ file'[TestOf(w)].data = file[TestOf(w)].data \cup {job[w]}
               /\ op[job[w]] = "write"
               /\ \E outcome \in {"accepted", "error"} : Leave(w, outcome)
<1> USE Databases
<1>1. TestOf(w) \in Test
  BY Busy DEF Run
<1>2. CASE file' = file
  BY <1>2 DEF TypeOK
<1>3. CASE /\ Writing(w) /\ file' = [file EXCEPT ![TestOf(w)] = WithEvent(w)]
           /\ \E outcome \in {"accepted", "error"} : Leave(w, outcome)
  <2>1. /\ file' \in [Test -> Database \cup {NoFile}]
        /\ file'[TestOf(w)] = WithEvent(w)
        /\ \A t \in Test : t # TestOf(w) => file'[t] = file[t]
    BY <1>1, <1>3, EventStored DEF TypeOK
  <2>2. \A t \in Test : /\ file'[t].tables = file[t].tables
                        /\ file'[t] = NoFile <=> file[t] = NoFile
                        /\ file[t].data \subseteq file'[t].data
    BY <1>3, <2>1, EventStored
  <2> QED
    BY <1>3, <2>1, <2>2, EventStored DEF Writing
<1> QED
  BY <1>2, <1>3 DEF Run

\* A crash leaves each file as it was or with the event that was being stored.
LEMMA CrashFile ==
  ASSUME TypeOK, JobInv, LockInv, Crash, NEW t \in Test
  PROVE  /\ file'[t] \in Database \cup {NoFile}
         /\ file[t].data \subseteq file'[t].data
         /\ \/ file'[t] = file[t]
            \/ /\ lock[t] \in Worker /\ TestOf(lock[t]) = t /\ op[job[lock[t]]] = "write"
               /\ file'[t].data = file[t].data \cup {job[lock[t]]}
<1>1. PICK W \in SUBSET {w \in Worker : Writing(w)} :
        file' = [u \in Test |-> IF lock[u] \in W THEN WithEvent(lock[u]) ELSE file[u]]
  BY DEF Crash
<1>2. CASE lock[t] \in W
  <2>1. lock[t] \in Worker /\ Writing(lock[t]) /\ file'[t] = WithEvent(lock[t])
    BY <1>1, <1>2
  <2>2. TestOf(lock[t]) = t
    BY <2>1, RequestAssumption DEF LockInv
  <2> QED
    BY <2>1, <2>2, EventStored DEF Writing
<1>3. CASE lock[t] \notin W
  BY <1>1, <1>3 DEF TypeOK
<1> QED
  BY <1>2, <1>3

\* The state types are kept by every step from a state of the invariant.
LEMMA TypeStep ==
  ASSUME TypeOK, JobInv, LockInv, [Next]_vars
  PROVE  TypeOK'
<1> USE RequestAssumption, Databases DEF TypeOK, Goto
<1>1. ASSUME NEW w \in Worker, NEW r \in Request, Receive(w, r)
      PROVE  TypeOK'
  BY <1>1 DEF Receive
<1>2. ASSUME NEW w \in Worker, Acquire(w)
      PROVE  TypeOK'
  BY <1>2 DEF Acquire
<1>3. ASSUME NEW w \in Worker, Look(w)
      PROVE  TypeOK'
  BY <1>3 DEF Look
<1>4. ASSUME NEW w \in Worker, Open(w)
      PROVE  TypeOK'
  BY <1>4 DEF Open
<1>5. ASSUME NEW w \in Worker, CreateTable(w)
      PROVE  TypeOK'
  <2> DEFINE db == [Contents(w) EXCEPT !.tables = @ + 1]
  <2>1. TestOf(w) \in Test /\ Contents(w) \in Database \cup {NoFile}
    BY <1>5, Busy, ContentsType DEF CreateTable
  <2>2. db \in Database
    BY <1>5, <2>1 DEF CreateTable, Database, NoFile, Tables
  <2>3. Store(w, db) /\ UNCHANGED <<initialized, lock, pc, job, fresh, copy, answer>>
    BY <1>5 DEF CreateTable
  <2> HIDE DEF db
  <2> QED
    BY <2>1, <2>2, <2>3 DEF Store
<1>6. ASSUME NEW w \in Worker, Register(w)
      PROVE  TypeOK'
  <2>1. TestOf(w) \in Test
    BY <1>6, Busy DEF Register
  <2> QED
    BY <1>6, <2>1 DEF Register
<1>7. ASSUME NEW w \in Worker, Run(w)
      PROVE  TypeOK'
  <2>1. job[w] \in Request /\ Contents(w).data \subseteq Request
    <3>1. Contents(w) \in Database \cup {NoFile}
      BY <1>7, ContentsType DEF Run
    <3> QED
      BY <1>7, <3>1, Busy DEF Run
  <2>2. PICK outcome \in Outcomes : Leave(w, outcome)
    BY <1>7 DEF Run
  <2>3. copy' \in [Request -> SUBSET Request]
    <3>1. copy' = copy \/ copy' = [copy EXCEPT ![job[w]] = Contents(w).data]
      BY <1>7 DEF Run
    <3> QED
      BY <2>1, <3>1
  <2>4. file' \in [Test -> Database \cup {NoFile}]
    BY <1>7, RunFile
  <2>5. /\ pc' \in [Worker -> {"idle", "acquire"} \cup Locked \cup Outcomes]
        /\ lock' \in [Test -> Worker \cup {NoWorker}]
        /\ fresh' \in [Worker -> BOOLEAN]
    BY <2>2, LeaveType
  <2>6. /\ orphan' = [orphan EXCEPT ![w] = NoFile]
        /\ UNCHANGED <<initialized, job, answer>>
    BY <1>7 DEF Run
  <2> QED
    BY <2>3, <2>4, <2>5, <2>6
<1>8. ASSUME NEW w \in Worker, Unlink(w)
      PROVE  TypeOK'
  <2>1. TestOf(w) \in Test
    BY <1>8, Busy DEF Unlink
  <2> QED
    BY <1>8, <2>1, RemoveType DEF Unlink
<1>9. ASSUME NEW w \in Worker, Forget(w)
      PROVE  TypeOK'
  BY <1>9, LeaveType DEF Forget
<1>10. ASSUME NEW w \in Worker, Fail(w)
       PROVE  TypeOK'
  BY <1>10, LeaveType DEF Fail
<1>11. ASSUME NEW w \in Worker, Reply(w)
       PROVE  TypeOK'
  <2>1. job[w] \in Request
    BY <1>11, Busy DEF Reply
  <2> QED
    BY <1>11, <2>1 DEF Reply
<1>12. ASSUME NEW t \in Test, Delete(t)
       PROVE  TypeOK'
  BY <1>12, RemoveType DEF Delete
<1>13. CASE Crash
  <2>1. file' = [t \in Test |-> file'[t]]
    BY <1>13 DEF Crash
  <2>2. file' \in [Test -> Database \cup {NoFile}]
    BY <1>13, <2>1, CrashFile
  <2> QED
    BY <1>13, <2>2 DEF Crash
<1>14. CASE UNCHANGED vars
  BY <1>14 DEF vars
<1> QED
  BY <1>1, <1>2, <1>3, <1>4, <1>5, <1>6, <1>7, <1>8, <1>9, <1>10, <1>11, <1>12,
     <1>13, <1>14 DEF Next, Serve

-----------------------------------------------------------------------------
\* A worker that leaves gives up one lock, its own.
LEMMA LeaveLock ==
  ASSUME TypeOK, LockInv, JobInv, NEW w \in Worker, NEW outcome \in Outcomes,
         pc[w] \in Locked, Leave(w, outcome), UNCHANGED job
  PROVE  LockInv'
<1>1. TestOf(w) \in Test
  BY Busy
<1>2. /\ pc' = [pc EXCEPT ![w] = outcome]
      /\ lock' = [lock EXCEPT ![TestOf(w)] = NoWorker]
  BY DEF Leave, Goto
<1> QED
  BY <1>1, <1>2, RequestAssumption DEF TypeOK, LockInv, TestOf

\* Every lock is held by the worker that works on its test.
LEMMA LockStep ==
  ASSUME TypeOK, LockInv, JobInv, [Next]_vars
  PROVE  LockInv'
<1> USE RequestAssumption DEF TypeOK, LockInv, TestOf, Goto
<1>1. ASSUME NEW w \in Worker, NEW r \in Request, Receive(w, r)
      PROVE  LockInv'
  BY <1>1 DEF Receive
<1>2. ASSUME NEW w \in Worker, Acquire(w)
      PROVE  LockInv'
  <2>1. TestOf(w) \in Test
    BY <1>2, Busy DEF Acquire
  <2> QED
    BY <1>2, <2>1 DEF Acquire
<1>3. ASSUME NEW w \in Worker, Look(w) \/ Open(w) \/ Register(w) \/ Unlink(w)
      PROVE  LockInv'
  <2>1. /\ pc[w] \in Locked /\ UNCHANGED <<lock, job>>
        /\ \E stage \in Locked : pc' = [pc EXCEPT ![w] = stage]
    BY <1>3 DEF Look, Open, Register, Unlink
  <2> QED
    BY <2>1
<1>4. ASSUME NEW w \in Worker, CreateTable(w)
      PROVE  LockInv'
  BY <1>4 DEF CreateTable
<1>5. ASSUME NEW w \in Worker, Run(w) \/ Forget(w) \/ Fail(w)
      PROVE  LockInv'
  <2>1. /\ pc[w] \in Locked /\ UNCHANGED job
        /\ \E outcome \in Outcomes : Leave(w, outcome)
    BY <1>5 DEF Run, Forget, Fail
  <2> QED
    BY <2>1, LeaveLock
<1>6. ASSUME NEW w \in Worker, Reply(w)
      PROVE  LockInv'
  BY <1>6 DEF Reply
<1>7. ASSUME NEW t \in Test, Delete(t)
      PROVE  LockInv'
  BY <1>7 DEF Delete
<1>8. CASE Crash
  BY <1>8 DEF Crash
<1>9. CASE UNCHANGED vars
  BY <1>9 DEF vars
<1> QED
  BY <1>1, <1>2, <1>3, <1>4, <1>5, <1>6, <1>7, <1>8, <1>9 DEF Next, Serve

\* A request is served by one worker, and not after it has been answered.
LEMMA JobStep ==
  ASSUME TypeOK, JobInv, [Next]_vars
  PROVE  JobInv'
<1> USE RequestAssumption DEF TypeOK, JobInv, Goto
<1>1. ASSUME NEW w \in Worker, NEW r \in Request, Receive(w, r)
      PROVE  JobInv'
  BY <1>1 DEF Receive, InFlight
<1>2. ASSUME NEW w \in Worker,
             Acquire(w) \/ Look(w) \/ Open(w) \/ Register(w) \/ Unlink(w)
      PROVE  JobInv'
  <2>1. /\ pc[w] # "idle" /\ UNCHANGED <<job, answer>>
        /\ \E stage \in Locked : pc' = [pc EXCEPT ![w] = stage]
    BY <1>2 DEF Acquire, Look, Open, Register, Unlink
  <2> QED
    BY <2>1
<1>3. ASSUME NEW w \in Worker, CreateTable(w)
      PROVE  JobInv'
  BY <1>3 DEF CreateTable
<1>4. ASSUME NEW w \in Worker, Run(w) \/ Forget(w) \/ Fail(w)
      PROVE  JobInv'
  <2>1. /\ pc[w] # "idle" /\ UNCHANGED <<job, answer>>
        /\ \E outcome \in Outcomes : pc' = [pc EXCEPT ![w] = outcome]
    BY <1>4 DEF Run, Forget, Fail, Leave
  <2> QED
    BY <2>1
<1>5. ASSUME NEW w \in Worker, Reply(w)
      PROVE  JobInv'
  BY <1>5 DEF Reply
<1>6. ASSUME NEW t \in Test, Delete(t)
      PROVE  JobInv'
  BY <1>6 DEF Delete
<1>7. CASE Crash
  BY <1>7 DEF Crash
<1>8. CASE UNCHANGED vars
  BY <1>8 DEF vars
<1> QED
  BY <1>1, <1>2, <1>3, <1>4, <1>5, <1>6, <1>7, <1>8 DEF Next, Serve

-----------------------------------------------------------------------------
\* What a deletion does to the workers: who works on the test keeps the file.
LEMMA RemoveOrphans ==
  ASSUME TypeOK, NEW t \in Test, Remove(t)
  PROVE  /\ \A u \in Test : u # t => file'[u] = file[u]
         /\ file'[t] = NoFile
         /\ \A v \in Worker :
              \/ orphan'[v] = orphan[v]
              \/ pc[v] \in Connected /\ TestOf(v) = t /\ orphan'[v] = file[t]
  BY DEF TypeOK, Remove

\* A table is added to the database the worker is connected to.
LEMMA TableAdded ==
  ASSUME TypeOK, JobInv, NEW w \in Worker, CreateTable(w)
  PROVE  \E db \in Database :
           /\ db.data = Contents(w).data /\ db.tables = Contents(w).tables + 1
           /\ \/ /\ orphan[w] = NoFile /\ orphan' = orphan
                 /\ file' = [file EXCEPT ![TestOf(w)] = db]
              \/ /\ orphan[w] # NoFile /\ file' = file
                 /\ orphan' = [orphan EXCEPT ![w] = db]
<1> DEFINE db == [Contents(w) EXCEPT !.tables = @ + 1]
<1>1. Contents(w) \in Database \cup {NoFile}
  BY ContentsType DEF CreateTable
<1>2. db \in Database /\ db.data = Contents(w).data /\ db.tables = Contents(w).tables + 1
  BY <1>1 DEF CreateTable, Database, NoFile, Tables
<1>3. Store(w, db)
  BY DEF CreateTable
<1> HIDE DEF db
<1> QED
  BY <1>2, <1>3 DEF Store

Workers == TypeOK /\ LockInv /\ JobInv /\ \A w \in Worker : StageInv(w)

\* What is known of a worker at each stage stays true, whatever others do.
LEMMA StageStep ==
  ASSUME Workers, [Next]_vars, NEW v \in Worker
  PROVE  StageInv(v)'
<1> USE RequestAssumption, Databases, Busy DEF Workers, TypeOK, Goto
<1>1. ASSUME NEW w \in Worker, NEW r \in Request, Receive(w, r)
      PROVE  StageInv(v)'
  BY <1>1 DEF Receive, StageInv, TestOf
<1>2. ASSUME NEW w \in Worker, Acquire(w)
      PROVE  StageInv(v)'
  BY <1>2 DEF Acquire, StageInv, TestOf, Ops
<1>3. ASSUME NEW w \in Worker, Look(w)
      PROVE  StageInv(v)'
  BY <1>3 DEF Look, StageInv, TestOf
<1>4. ASSUME NEW w \in Worker, Open(w)
      PROVE  StageInv(v)'
  BY <1>4 DEF Open, StageInv, TestOf
<1>5. ASSUME NEW w \in Worker, CreateTable(w)
      PROVE  StageInv(v)'
  <2>1. PICK db \in Database :
          \/ orphan' = orphan /\ file' = [file EXCEPT ![TestOf(w)] = db]
          \/ /\ orphan[w] # NoFile /\ file' = file
             /\ orphan' = [orphan EXCEPT ![w] = db]
    BY <1>5, TableAdded
  <2>2. pc[w] = "init" /\ UNCHANGED <<initialized, lock, pc, job, fresh, copy, answer>>
    BY <1>5 DEF CreateTable
  <2> QED
    BY <2>1, <2>2 DEF StageInv, TestOf
<1>6. ASSUME NEW w \in Worker, Register(w)
      PROVE  StageInv(v)'
  BY <1>6 DEF Register, StageInv, TestOf
<1>7. ASSUME NEW w \in Worker, Run(w)
      PROVE  StageInv(v)'
  <2>1. PICK outcome \in Outcomes : Leave(w, outcome)
    BY <1>7 DEF Run
  <2>2. /\ pc[w] = "run" /\ orphan' = [orphan EXCEPT ![w] = NoFile]
        /\ UNCHANGED <<initialized, job>>
    BY <1>7 DEF Run
  <2>3. pc' = [pc EXCEPT ![w] = outcome] /\ fresh' = [fresh EXCEPT ![w] = FALSE]
    BY <2>1 DEF Leave
  <2>4. \A t \in Test : file'[t] = NoFile <=> file[t] = NoFile
    BY <1>7, RunFile
  <2> QED
    BY <2>2, <2>3, <2>4 DEF StageInv, TestOf
<1>8. ASSUME NEW w \in Worker, Unlink(w)
      PROVE  StageInv(v)'
  <2>1. pc[v] \in Locked /\ v # w => TestOf(v) # TestOf(w)
    BY <1>8, Exclusive DEF Unlink
  <2>2. TestOf(w) \in Test /\ Remove(TestOf(w))
    BY <1>8 DEF Unlink
  <2> QED
    BY <1>8, <2>1, <2>2, RemoveOrphans DEF Unlink, StageInv, TestOf
<1>9. ASSUME NEW w \in Worker, Forget(w)
      PROVE  StageInv(v)'
  <2>1. pc[v] \in Locked /\ v # w => TestOf(v) # TestOf(w)
    BY <1>9, Exclusive DEF Forget
  <2> QED
    BY <1>9, <2>1 DEF Forget, Leave, StageInv, TestOf
<1>10. ASSUME NEW w \in Worker, Fail(w)
       PROVE  StageInv(v)'
  BY <1>10 DEF Fail, Leave, StageInv, TestOf
<1>11. ASSUME NEW w \in Worker, Reply(w)
       PROVE  StageInv(v)'
  BY <1>11 DEF Reply, StageInv, TestOf
<1>12. ASSUME NEW t \in Test, Delete(t)
       PROVE  StageInv(v)'
  BY <1>12, RemoveOrphans DEF Delete, StageInv, TestOf
<1>13. CASE Crash
  BY <1>13 DEF Crash, StageInv
<1>14. CASE UNCHANGED vars
  BY <1>14 DEF vars, StageInv, TestOf
<1> QED
  BY <1>1, <1>2, <1>3, <1>4, <1>5, <1>6, <1>7, <1>8, <1>9, <1>10, <1>11, <1>12,
     <1>13, <1>14 DEF Next, Serve

-----------------------------------------------------------------------------
\* An outcome stays until a restart.
LEMMA AnsweredStays ==
  ASSUME TypeOK, JobInv, [Next]_vars, ~Crash, NEW r \in Request,
         NEW outcome \in {"accepted", "error", "lost"}, Answered(r, outcome)
  PROVE  Answered(r, outcome)'
<1> USE RequestAssumption DEF TypeOK, JobInv, Goto
<1>1. ASSUME answer[r] = outcome
      PROVE  answer'[r] = outcome
  <2>1. ASSUME NEW w \in Worker, Reply(w)
        PROVE  answer'[r] = answer[r]
    BY <1>1, <2>1 DEF Reply
  <2>2. ASSUME NEW w \in Worker, Serve(w), ~Reply(w)
        PROVE  answer' = answer
    BY <2>2 DEF Serve, Acquire, Look, Open, CreateTable, Register, Run, Unlink, Forget, Fail
  <2> QED
    BY <1>1, <2>1, <2>2 DEF Next, Receive, Delete, vars
<1>2. ASSUME NEW v \in Worker, job[v] = r, pc[v] = outcome
      PROVE  Answered(r, outcome)'
  <2>1. ASSUME NEW w \in Worker, Reply(w)
        PROVE  Answered(r, outcome)'
    BY <1>2, <2>1 DEF Reply, Answered
  <2>2. ASSUME NEW w \in Worker, NEW q \in Request, Receive(w, q)
        PROVE  Answered(r, outcome)'
    BY <1>2, <2>2 DEF Receive, Answered
  <2>3. ASSUME NEW w \in Worker, Serve(w), ~Reply(w)
        PROVE  Answered(r, outcome)'
    <3>1. pc[w] \in Locked \cup {"acquire"} /\ UNCHANGED job
      BY <2>3 DEF Serve, Acquire, Look, Open, CreateTable, Register, Run, Unlink, Forget, Fail
    <3>2. pc' = pc \/ \E stage : pc' = [pc EXCEPT ![w] = stage]
      BY <2>3 DEF Serve, Acquire, Look, Open, CreateTable, Register, Run, Unlink, Forget,
         Fail, Leave
    <3> QED
      BY <1>2, <3>1, <3>2 DEF Answered
  <2> QED
    BY <1>2, <2>1, <2>2, <2>3 DEF Next, Delete, vars, Answered
<1> QED
  BY <1>1, <1>2 DEF Answered

\* A failure stays on record until a restart ...
LEMMA FailedStays ==
  ASSUME TypeOK, JobInv, [Next]_vars, ~Crash, NEW t \in Test, NEW ops, Failed(t, ops)
  PROVE  Failed(t, ops)'
BY AnsweredStays DEF Failed

\* ... and so does the chance that the file of a test has gone.
LEMMA DisturbedStays ==
  ASSUME TypeOK, JobInv, [Next]_vars, ~Crash, NEW t \in Test, Disturbed(t)
  PROVE  Disturbed(t)'
BY FailedStays DEF Disturbed

\* A worker that fails puts its request on record.
LEMMA FailRecords ==
  ASSUME Workers, NEW w \in Worker, Fail(w), NEW t \in Test, t = TestOf(w),
         NEW ops, op[job[w]] \in ops
  PROVE  Failed(t, ops)'
<1>1. job[w] \in Request /\ job' = job /\ pc'[w] = "error"
  BY DEF Fail, Leave, Goto, Workers, TypeOK, JobInv, Locked, Connected
<1>2. Answered(job[w], "error")'
  BY <1>1 DEF Answered
<1> QED
  BY <1>1, <1>2 DEF Failed, TestOf

\* A test the process takes for initialised has its schema.
LEMMA SchemaStep ==
  ASSUME Workers, SchemaInv, [Next]_vars
  PROVE  SchemaInv'
<1> USE RequestAssumption, Databases DEF Workers, TypeOK, Goto
<1> DEFINE Fine(t) == \/ file[t].tables = Tables
                      \/ file[t] = NoFile /\ lock[t] # NoWorker /\ pc[lock[t]] = "forget"
                      \/ Failed(t, {"reset"}) /\ file[t] = NoFile
                      \/ Failed(t, {"reset"}) /\ lock[t] # NoWorker /\ pc[lock[t]] = "init"
<1>0. \A t \in initialized : Disturbed(t) \/ Fine(t)
  BY DEF SchemaInv
<1>1. SUFFICES ASSUME NEW t \in Test, t \in initialized', ~Disturbed(t)'
               PROVE  Fine(t)'
  BY TypeStep DEF SchemaInv
<1>2. /\ ~Crash /\ ~Disturbed(t)
      /\ Failed(t, {"reset"}) => Failed(t, {"reset"})'
  BY <1>1, DisturbedStays, FailedStays DEF Crash
<1>3. ASSUME UNCHANGED <<file, lock, initialized>>,
             \A v \in Worker : pc[v] \in {"forget", "init"} => pc'[v] = pc[v]
      PROVE  Fine(t)'
  BY <1>0, <1>1, <1>2, <1>3
<1>4. ASSUME NEW w \in Worker, NEW r \in Request, Receive(w, r)
      PROVE  Fine(t)'
  BY <1>3, <1>4 DEF Receive
<1>5. ASSUME NEW w \in Worker, Acquire(w)
      PROVE  Fine(t)'
  BY <1>0, <1>1, <1>2, <1>5 DEF Acquire, LockInv
<1>6. ASSUME NEW w \in Worker, Look(w)
      PROVE  Fine(t)'
  BY <1>3, <1>6 DEF Look
<1>7. ASSUME NEW w \in Worker, Open(w)
      PROVE  Fine(t)'
  <2>1. TestOf(w) = t => lock[t] = w
    BY <1>7 DEF Open, LockInv
  <2>2. /\ pc[w] = "open" /\ UNCHANGED <<initialized, lock>>
        /\ pc' = [pc EXCEPT ![w] = IF fresh[w] THEN "init" ELSE "run"]
        /\ \/ file' = file
           \/ /\ file[TestOf(w)] = NoFile
              /\ \A u \in Test : u # TestOf(w) => file'[u] = file[u]
    BY <1>7 DEF Open
  <2>3. CASE TestOf(w) = t
    <3>1. file[t] = NoFile => fresh[w]
      BY <1>2, <2>2, <2>3 DEF StageInv, Disturbed
    <3> QED
      BY <1>0, <1>1, <1>2, <2>1, <2>2, <2>3, <3>1
  <2>4. CASE TestOf(w) # t
    BY <1>0, <1>1, <1>2, <2>2, <2>4 DEF LockInv
  <2> QED
    BY <2>3, <2>4
<1>8. ASSUME NEW w \in Worker, CreateTable(w)
      PROVE  Fine(t)'
  <2>1. PICK db \in Database :
          \/ /\ orphan[w] = NoFile /\ file' = [file EXCEPT ![TestOf(w)] = db]
          \/ file' = file
    BY <1>8, TableAdded
  <2>2. /\ pc[w] = "init" /\ Contents(w).tables < Tables
        /\ UNCHANGED <<initialized, lock, pc>>
    BY <1>8 DEF CreateTable
  <2>3. TestOf(w) = t => lock[t] = w
    BY <2>2 DEF LockInv
  <2>4. CASE orphan[w] = NoFile /\ TestOf(w) = t
    <3>1. file[t].tables # Tables
      BY <2>2, <2>4 DEF Contents, Tables
    <3> QED
      BY <1>0, <1>1, <1>2, <2>2, <2>3, <2>4, <3>1
  <2>5. CASE ~(orphan[w] = NoFile /\ TestOf(w) = t)
    BY <1>0, <1>1, <1>2, <2>1, <2>2, <2>5
  <2> QED
    BY <2>4, <2>5
<1>9. ASSUME NEW w \in Worker, Register(w)
      PROVE  Fine(t)'
  <2>1. CASE t = TestOf(w)
    <3>1. t \notin Deletable
      BY <1>2 DEF Disturbed
    <3>2. Contents(w) = file[t]
      BY <1>9, <2>1, <3>1 DEF Register, StageInv, Contents
    <3> QED
      BY <1>9, <2>1, <3>2 DEF Register
  <2>2. CASE t # TestOf(w)
    BY <1>0, <1>1, <1>2, <1>9, <2>2 DEF Register, LockInv
  <2> QED
    BY <2>1, <2>2
<1>10. ASSUME NEW w \in Worker, Run(w)
       PROVE  Fine(t)'
  <2>1. /\ pc[w] = "run" /\ UNCHANGED initialized
        /\ file'[t].tables = file[t].tables /\ (file[t] = NoFile => file'[t] = NoFile)
    BY <1>10, RunFile DEF Run
  <2>2. PICK outcome \in Outcomes : Leave(w, outcome)
    BY <1>10 DEF Run
  <2>3. /\ pc' = [pc EXCEPT ![w] = outcome]
        /\ lock' = [lock EXCEPT ![TestOf(w)] = NoWorker]
    BY <2>2 DEF Leave
  <2>4. TestOf(w) = t => lock[t] = w
    BY <2>1 DEF LockInv
  <2> QED
    BY <1>0, <1>1, <1>2, <2>1, <2>3, <2>4 DEF LockInv
<1>11. ASSUME NEW w \in Worker, Unlink(w)
       PROVE  Fine(t)'
  <2>1. TestOf(w) \in Test /\ Remove(TestOf(w))
    BY <1>11, Busy DEF Unlink
  <2>2. /\ \A u \in Test : u # TestOf(w) => file'[u] = file[u]
        /\ file'[TestOf(w)] = NoFile
    BY <2>1, RemoveOrphans
  <2>3. TestOf(w) = t => lock[t] = w
    BY <1>11 DEF Unlink, LockInv
  <2> QED
    BY <1>0, <1>1, <1>2, <1>11, <2>2, <2>3 DEF Unlink, LockInv
<1>12. ASSUME NEW w \in Worker, Forget(w)
       PROVE  Fine(t)'
  <2>1. TestOf(w) # t
    BY <1>1, <1>12 DEF Forget
  <2> QED
    BY <1>0, <1>1, <1>2, <1>12, <2>1 DEF Forget, Leave, LockInv
<1>12b. ASSUME NEW w \in Worker, Fail(w)
       PROVE  /\ TestOf(w) = t /\ pc[w] = "forget" => Failed(t, {"reset"})'
              /\ TestOf(w) = t /\ pc[w] = "init" => Failed(t, {"write", "export"})'
  <2>1. /\ pc[w] = "forget" => op[job[w]] \in {"reset"}
        /\ pc[w] = "init" => op[job[w]] \in {"write", "export"}
    BY DEF StageInv
  <2>2. Workers
    OBVIOUS
  <2> HIDE DEF Workers, TypeOK, Goto
  <2> QED
    BY ONLY <1>12b, <2>1, <2>2, FailRecords
<1>13. ASSUME NEW w \in Worker, Fail(w)
       PROVE  Fine(t)'
  <2>1. /\ pc[w] \in Locked /\ UNCHANGED <<file, initialized, job>>
        /\ pc' = [pc EXCEPT ![w] = "error"]
        /\ lock' = [lock EXCEPT ![TestOf(w)] = NoWorker]
    BY <1>13 DEF Fail, Leave
  <2>2. TestOf(w) = t => lock[t] = w
    BY <2>1 DEF LockInv
  <2>3. CASE TestOf(w) = t /\ pc[w] = "forget"
    <3>1. Failed(t, {"reset"})'
      BY <1>13, <1>12b, <2>3
    <3> QED
      BY <1>0, <1>1, <1>2, <2>1, <2>2, <2>3, <3>1
  <2>4. CASE TestOf(w) = t /\ pc[w] = "init"
    <3>1. Failed(t, {"write", "export"})'
      BY <1>13, <1>12b, <2>4
    <3>2. ~Failed(t, {"reset"})
      BY <1>1, <1>2, <3>1 DEF Disturbed
    <3> QED
      BY <1>0, <1>1, <1>2, <2>1, <2>2, <2>4, <3>2
  <2>5. CASE TestOf(w) # t \/ pc[w] \notin {"forget", "init"}
    BY <1>0, <1>1, <1>2, <2>1, <2>2, <2>5 DEF LockInv
  <2> QED
    BY <2>3, <2>4, <2>5
<1>14. ASSUME NEW w \in Worker, Reply(w)
       PROVE  Fine(t)'
  BY <1>3, <1>14 DEF Reply
<1>15. ASSUME NEW u \in Test, Delete(u)
       PROVE  Fine(t)'
  <2>1. u # t
    BY <1>2, <1>15 DEF Delete, Disturbed
  <2>2. file'[t] = file[t]
    BY <1>15, <2>1, RemoveOrphans DEF Delete
  <2> QED
    BY <1>0, <1>1, <1>2, <1>15, <2>2 DEF Delete
<1>16. CASE UNCHANGED vars
  BY <1>3, <1>16 DEF vars
<1> QED
  BY <1>2, <1>4, <1>5, <1>6, <1>7, <1>8, <1>9, <1>10, <1>11, <1>12, <1>13, <1>14,
     <1>15, <1>16 DEF Next, Serve

-----------------------------------------------------------------------------
\* So what has been counted stays counted.
LEMMA CountedStays ==
  ASSUME TypeOK, JobInv, [Next]_vars, NEW r \in Request, NEW t \in Test, Counted(r, t)
  PROVE  Counted(r, t)'
<1>1. PICK outcome \in {"accepted", "error", "lost"} : Answered(r, outcome)
  BY DEF Counted
<1>2. CASE ~Crash
  BY <1>1, <1>2, AnsweredStays DEF Counted
<1>3. CASE Crash
  <2>1. Answered(r, outcome)' \/ Answered(r, "lost")'
    BY <1>1, <1>3 DEF Crash, InFlight, Answered
  <2> QED
    BY <2>1 DEF Counted
<1> QED
  BY <1>2, <1>3

\* What is in a database, deleted or not, or in an export has been counted for
\* its test.
LEMMA DataStep ==
  ASSUME Workers, DataInv, [Next]_vars
  PROVE  DataInv'
<1> USE RequestAssumption, Databases, Busy DEF Workers, TypeOK, Goto
<1>1. \A r \in Request, t \in Test : Counted(r, t) => Counted(r, t)'
  BY CountedStays
<1>2. /\ \A t \in Test : file[t].data \subseteq Request
      /\ \A w \in Worker : orphan[w].data \subseteq Request
      /\ \A q \in Request : copy[q] \subseteq Request /\ test[q] \in Test
  OBVIOUS
<1>3. \A w \in Worker : pc[w] \notin Connected => orphan[w].data = {}
  BY DEF StageInv
<1>4. ASSUME UNCHANGED <<file, copy>>,
             \A v \in Worker : \A r \in orphan'[v].data :
                r \in orphan[v].data /\ job'[v] = job[v]
      PROVE  DataInv'
  BY <1>1, <1>2, <1>3, <1>4 DEF DataInv, TestOf
<1>5. ASSUME NEW w \in Worker, NEW r \in Request, Receive(w, r)
      PROVE  DataInv'
  <2>1. /\ UNCHANGED <<file, copy, orphan>> /\ pc[w] = "idle"
        /\ \A v \in Worker : v = w \/ job'[v] = job[v]
    BY <1>5 DEF Receive
  <2> QED
    BY <1>3, <1>4, <2>1
<1>6. ASSUME NEW w \in Worker, Acquire(w) \/ Look(w) \/ Register(w) \/ Forget(w)
      PROVE  DataInv'
  <2>1. UNCHANGED <<file, copy, orphan, job>>
    BY <1>6 DEF Acquire, Look, Register, Forget
  <2> QED
    BY <1>4, <2>1
<1>7. ASSUME NEW w \in Worker, Open(w)
      PROVE  DataInv'
  <2>1. \A t \in Test : file'[t].data = file[t].data
    BY <1>7 DEF Open
  <2>2. \A v \in Worker : orphan'[v].data = {} \/ orphan'[v] = orphan[v]
    BY <1>7 DEF Open
  <2>3. UNCHANGED <<copy, job>>
    BY <1>7 DEF Open
  <2> QED
    BY <1>1, <1>2, <1>3, <2>1, <2>2, <2>3 DEF DataInv, TestOf
<1>8. ASSUME NEW w \in Worker, CreateTable(w)
      PROVE  DataInv'
  <2>1. /\ \A t \in Test : file'[t].data = file[t].data
        /\ \A v \in Worker : orphan'[v].data = orphan[v].data
    BY <1>8, TableAdded DEF Contents, CreateTable
  <2>2. UNCHANGED <<copy, job, pc>> /\ pc[w] = "init"
    BY <1>8 DEF CreateTable
  <2> QED
    BY <1>1, <1>2, <1>3, <2>1, <2>2 DEF DataInv, TestOf
<1>9. ASSUME NEW w \in Worker, Run(w)
      PROVE  DataInv'
  <2>1. /\ pc[w] = "run" /\ job' = job /\ TestOf(w) \in Test /\ job[w] \in Request
        /\ orphan' = [orphan EXCEPT ![w] = NoFile]
    BY <1>9 DEF Run
  <2>2. \A t \in Test : \A r \in file'[t].data : Counted(r, t)'
    <3>1. CASE file' = file
      BY <1>1, <1>2, <3>1 DEF DataInv
    <3>2. CASE /\ file'[TestOf(w)].data = file[TestOf(w)].data \cup {job[w]}
               /\ op[job[w]] = "write"
               /\ \E outcome \in {"accepted", "error"} : Leave(w, outcome)
      <4>1. \A t \in Test, r \in Request : t = TestOf(w) /\ r = job[w] => Counted(r, t)'
        BY <2>1, <3>2 DEF Counted, Answered, Leave, TestOf
      <4>2. \A t \in Test : t # TestOf(w) => file'[t] = file[t]
        BY <1>9, RunFile
      <4>3. ASSUME NEW t \in Test, NEW r \in file'[t].data
            PROVE  r \notin file[t].data => t = TestOf(w) /\ r = job[w]
        BY <3>2, <4>2, <4>3
      <4>4. \A t \in Test : \A r \in file[t].data : Counted(r, t)'
        BY <1>1, <1>2 DEF DataInv
      <4> QED
        BY <2>1, <4>1, <4>3, <4>4
    <3> QED
      BY <1>9, <3>1, <3>2, RunFile
  <2>3. \A q \in Request : \A r \in copy'[q] : Counted(r, test[q])'
    <3>1. copy' = copy \/ copy' = [copy EXCEPT ![job[w]] = Contents(w).data]
      BY <1>9 DEF Run
    <3>2. \A r \in Contents(w).data : r \in Request /\ Counted(r, TestOf(w))
      BY <1>2, <2>1 DEF DataInv, Contents
    <3> QED
      BY <1>1, <1>2, <2>1, <3>1, <3>2 DEF DataInv, TestOf
  <2>4. \A v \in Worker : \A r \in orphan'[v].data : Counted(r, TestOf(v))'
    <3>1. \A v \in Worker : orphan'[v] = NoFile \/ orphan'[v] = orphan[v]
      BY <2>1
    <3> QED
      BY <1>1, <1>2, <1>3, <2>1, <3>1 DEF DataInv, TestOf
  <2> QED
    BY <2>2, <2>3, <2>4 DEF DataInv
<1>10. ASSUME NEW t \in Test, Remove(t), UNCHANGED <<job, copy>>
       PROVE  DataInv'
  <2>1. \A u \in Test : file'[u] = file[u] \/ file'[u] = NoFile
    BY <1>10, RemoveOrphans
  <2>2. \A v \in Worker :
          \/ orphan'[v] = orphan[v]
          \/ pc[v] \in Connected /\ TestOf(v) = t /\ orphan'[v] = file[t]
    BY <1>10, RemoveOrphans
  <2> QED
    BY <1>1, <1>2, <1>3, <1>10, <2>1, <2>2 DEF DataInv, TestOf
<1>11. ASSUME NEW w \in Worker, Unlink(w)
       PROVE  DataInv'
  BY <1>10, <1>11 DEF Unlink
<1>12. ASSUME NEW w \in Worker, Fail(w)
       PROVE  DataInv'
  <2>1. /\ UNCHANGED <<file, copy, job>>
        /\ \A v \in Worker : orphan'[v] = NoFile \/ orphan'[v] = orphan[v]
    BY <1>12 DEF Fail
  <2> QED
    BY <1>4, <2>1
<1>13. ASSUME NEW w \in Worker, Reply(w)
       PROVE  DataInv'
  <2>1. /\ UNCHANGED <<file, copy, orphan>> /\ pc[w] \notin Connected
        /\ \A v \in Worker : v = w \/ job'[v] = job[v]
    BY <1>13 DEF Reply
  <2> QED
    BY <1>3, <1>4, <2>1
<1>14. ASSUME NEW t \in Test, Delete(t)
       PROVE  DataInv'
  BY <1>10, <1>14 DEF Delete
<1>15. CASE Crash
  <2>1. copy' = copy /\ \A v \in Worker : orphan'[v] = NoFile
    BY <1>15 DEF Crash
  <2>2. ASSUME NEW t \in Test, NEW r \in file'[t].data, r \notin file[t].data
        PROVE  Counted(r, t)'
    <3>1. /\ lock[t] \in Worker /\ TestOf(lock[t]) = t /\ job[lock[t]] = r
          /\ op[r] = "write"
      BY <1>15, <2>2, CrashFile
    <3>2. job[lock[t]] # NoRequest
      BY <3>1 DEF LockInv, JobInv
    <3>3. r \in Request /\ test[r] = t /\ InFlight(r)
      BY <3>1, <3>2 DEF TestOf, InFlight
    <3>4. answer'[r] = "lost"
      BY <1>15, <3>3 DEF Crash
    <3> QED
      BY <3>1, <3>3, <3>4 DEF Counted, Answered
  <2>3. \A t \in Test : \A r \in file[t].data : Counted(r, t)'
    BY <1>1, <1>2 DEF DataInv
  <2>4. \A q \in Request : \A r \in copy'[q] : Counted(r, test[q])'
    BY <1>1, <1>2, <2>1 DEF DataInv
  <2> QED
    BY <2>1, <2>2, <2>3, <2>4 DEF DataInv
<1>16. CASE UNCHANGED vars
  <2>1. UNCHANGED <<file, copy, orphan, job>>
    BY <1>16 DEF vars
  <2> QED
    BY <1>4, <2>1
<1> QED
  BY <1>5, <1>6, <1>7, <1>8, <1>9, <1>11, <1>12, <1>13, <1>14, <1>15, <1>16 DEF Next, Serve

-----------------------------------------------------------------------------
\* A request that has been taken stays taken.
LEMMA TouchedStays ==
  ASSUME TypeOK, JobInv, [Next]_vars, NEW q \in Request, ~Untouched(q)
  PROVE  ~Untouched(q)'
<1> USE RequestAssumption DEF TypeOK, JobInv, Goto, Untouched, InFlight
<1>1. ASSUME NEW w \in Worker, NEW r \in Request, Receive(w, r)
      PROVE  ~Untouched(q)'
  BY <1>1 DEF Receive
<1>2. ASSUME NEW w \in Worker, Reply(w)
      PROVE  ~Untouched(q)'
  BY <1>2 DEF Reply
<1>3. ASSUME NEW w \in Worker, Serve(w), ~Reply(w)
      PROVE  ~Untouched(q)'
  <2>1. UNCHANGED <<job, answer>>
    BY <1>3 DEF Serve, Acquire, Look, Open, CreateTable, Register, Run, Unlink, Forget, Fail
  <2> QED
    BY <2>1
<1>4. CASE Crash
  BY <1>4 DEF Crash
<1> QED
  BY <1>1, <1>2, <1>3, <1>4 DEF Next, Delete, vars

\* An event becomes accepted by running, and is then in its database.
LEMMA NewlyAccepted ==
  ASSUME TypeOK, JobInv, \A w \in Worker : StageInv(w), [Next]_vars,
         NEW r \in Request, op[r] = "write", test[r] \notin Deletable, Answered(r, "accepted")',
         ~Answered(r, "accepted")
  PROVE  r \in file'[test[r]].data
<1> USE RequestAssumption DEF TypeOK, JobInv, Goto, Answered
<1>1. ASSUME NEW w \in Worker, NEW q \in Request, Receive(w, q)
      PROVE  FALSE
  BY <1>1 DEF Receive, Ops
<1>2. ASSUME NEW w \in Worker, Reply(w)
      PROVE  FALSE
  BY <1>2 DEF Reply
<1>3. ASSUME NEW w \in Worker,
             Acquire(w) \/ Look(w) \/ Open(w) \/ Register(w) \/ Unlink(w) \/ Fail(w)
      PROVE  FALSE
  <2>1. /\ UNCHANGED <<job, answer>>
        /\ \E stage \in Locked \cup {"error"} : pc' = [pc EXCEPT ![w] = stage]
    BY <1>3 DEF Acquire, Look, Open, Register, Unlink, Fail, Leave
  <2> QED
    BY <2>1
<1>4. ASSUME NEW w \in Worker, CreateTable(w)
      PROVE  FALSE
  BY <1>4 DEF CreateTable
<1>5. ASSUME NEW w \in Worker, Forget(w)
      PROVE  FALSE
  <2>1. /\ UNCHANGED <<job, answer>> /\ op[job[w]] = "reset"
        /\ pc' = [pc EXCEPT ![w] = "accepted"]
    BY <1>5 DEF Forget, Leave, StageInv
  <2> QED
    BY <2>1
<1>6. ASSUME NEW w \in Worker, Run(w)
      PROVE  r \in file'[test[r]].data
  <2>1. /\ UNCHANGED <<job, answer>> /\ pc[w] = "run"
        /\ \E outcome : pc' = [pc EXCEPT ![w] = outcome]
    BY <1>6 DEF Run, Leave
  <2>2. job[w] = r /\ pc'[w] = "accepted" /\ TestOf(w) = test[r]
    BY <2>1 DEF TestOf
  <2>3. orphan[w] = NoFile
    BY <2>1, <2>2 DEF StageInv
  <2>4. CASE Writing(w) /\ file' = [file EXCEPT ![TestOf(w)] = WithEvent(w)]
    BY <2>2, <2>4, EventStored
  <2>5. CASE Leave(w, "rejected")
    BY <2>2, <2>5 DEF Leave
  <2> QED
    BY <1>6, <2>2, <2>3, <2>4, <2>5 DEF Run
<1>7. CASE Crash
  BY <1>7 DEF Crash
<1> QED
  BY <1>1, <1>2, <1>3, <1>4, <1>5, <1>6, <1>7 DEF Next, Serve, Delete, vars

\* Nothing but a reset removes what has been stored.
LEMMA StoredStays ==
  ASSUME Workers, [Next]_vars, NEW r \in Request, test[r] \notin Deletable,
         \A q \in Request : op[q] = "reset" /\ test[q] = test[r] => Untouched(q),
         r \in file[test[r]].data
  PROVE  r \in file'[test[r]].data
<1> USE RequestAssumption, Databases, Busy DEF Workers, TypeOK, Goto
<1>1. test[r] \in Test /\ file[test[r]] # NoFile
  OBVIOUS
<1>2. ASSUME NEW w \in Worker, Open(w)
      PROVE  r \in file'[test[r]].data
  BY <1>1, <1>2 DEF Open
<1>3. ASSUME NEW w \in Worker, CreateTable(w)
      PROVE  r \in file'[test[r]].data
  BY <1>1, <1>3, TableAdded DEF CreateTable, Contents
<1>4. ASSUME NEW w \in Worker, Run(w)
      PROVE  r \in file'[test[r]].data
  BY <1>1, <1>4, RunFile
<1>5. ASSUME NEW w \in Worker, Unlink(w)
      PROVE  r \in file'[test[r]].data
  <2>1. job[w] \in Request /\ op[job[w]] = "reset" /\ InFlight(job[w])
    BY <1>5 DEF Unlink, StageInv, InFlight
  <2>2. TestOf(w) # test[r]
    BY <2>1 DEF Untouched, TestOf
  <2> QED
    BY <1>1, <1>5, <2>2, RemoveOrphans DEF Unlink
<1>6. ASSUME NEW t \in Test, Delete(t)
      PROVE  r \in file'[test[r]].data
  BY <1>1, <1>6, RemoveOrphans DEF Delete
<1>7. CASE Crash
  BY <1>1, <1>7, CrashFile
<1>8. ASSUME UNCHANGED file
      PROVE  r \in file'[test[r]].data
  BY <1>8
<1> QED
  BY <1>2, <1>3, <1>4, <1>5, <1>6, <1>7, <1>8 DEF Next, Serve, Receive, Acquire, Look,
     Register, Forget, Fail, Reply, vars

LEMMA KeptStep ==
  ASSUME Workers, KeptInv, [Next]_vars
  PROVE  KeptInv'
<1> SUFFICES ASSUME NEW r \in Request, Answered(r, "accepted")', op[r] = "write", test[r] \notin Deletable,
                    \A q \in Request : op[q] = "reset" /\ test[q] = test[r] => Untouched(q)'
             PROVE  r \in file'[test[r]].data
  BY DEF KeptInv
<1>1. \A q \in Request : op[q] = "reset" /\ test[q] = test[r] => Untouched(q)
  BY TouchedStays DEF Workers
<1>2. CASE Answered(r, "accepted")
  BY <1>1, <1>2, StoredStays DEF KeptInv
<1>3. CASE ~Answered(r, "accepted")
  BY <1>3, NewlyAccepted DEF Workers
<1> QED
  BY <1>2, <1>3

-----------------------------------------------------------------------------
LEMMA Initially ==
  Init => IInv
<1> USE RequestAssumption, Databases DEF Init
<1>1. Init => TypeOK
  BY DEF TypeOK
<1>2. Init => LockInv /\ JobInv
  BY DEF LockInv, JobInv
<1>3. Init => (\A w \in Worker : StageInv(w)) /\ SchemaInv
  BY DEF StageInv, SchemaInv
<1>4. Init => DataInv /\ KeptInv
  BY DEF DataInv, KeptInv, Answered
<1> QED
  BY <1>1, <1>2, <1>3, <1>4 DEF IInv

LEMMA Inductive ==
  IInv /\ [Next]_vars => IInv'
<1> SUFFICES ASSUME IInv, [Next]_vars
             PROVE  IInv'
  OBVIOUS
<1>1. Workers /\ SchemaInv /\ DataInv /\ KeptInv
  BY DEF IInv, Workers
<1>2. TypeOK' /\ LockInv' /\ JobInv'
  BY <1>1, TypeStep, LockStep, JobStep DEF Workers
<1>3. \A w \in Worker : StageInv(w)'
  BY <1>1, StageStep
<1> QED
  BY <1>1, <1>2, <1>3, SchemaStep, DataStep, KeptStep DEF IInv

\* The inductive invariant holds, for any threads serving any requests.
THEOREM Invariant == Spec => []IInv
BY Initially, Inductive, PTL DEF Spec

\* No request runs on an incomplete schema, unless the file was deleted from
\* outside or both a reset and another request of the test have failed
\* (app_factory.py:216-227, 540-547).
THEOREM RunsWithSchemaHolds == Spec => []RunsWithSchema
<1>1. ASSUME IInv, NEW w \in Worker, pc[w] = "run", ~Disturbed(TestOf(w))
      PROVE  Contents(w).tables = Tables
  <2>1. TestOf(w) \in initialized /\ TestOf(w) \notin Deletable
    BY <1>1 DEF IInv, StageInv, Disturbed
  <2>2. Contents(w) = file[TestOf(w)] /\ lock[TestOf(w)] = w /\ file[TestOf(w)] # NoFile
    BY <1>1, <2>1 DEF IInv, StageInv, LockInv, Contents, Connected, Locked
  <2> QED
    BY <1>1, <2>1, <2>2 DEF IInv, SchemaInv
<1>2. IInv => RunsWithSchema
  BY <1>1 DEF RunsWithSchema
<1> QED
  BY <1>2, Invariant, PTL

\* No database is deleted under a request by another (app_factory.py:245, 542).
THEOREM NoPulledFileHolds == Spec => []NoPulledFile
<1>1. IInv => NoPulledFile
  BY DEF IInv, StageInv, NoPulledFile
<1> QED
  BY <1>1, Invariant, PTL

\* What was accepted stays until a reset, whatever crashes and whatever fails
\* (app_factory.py:208-228).
THEOREM AcceptedStaysHolds == Spec => []AcceptedStays
<1>1. IInv => AcceptedStays
  BY DEF IInv, KeptInv, Answered, AcceptedStays
<1> QED
  BY <1>1, Invariant, PTL

\* An export holds what was stored for its own test, and nothing refused
\* (app_factory.py:516-518).
THEOREM ExportsOwnEventsHolds == Spec => []ExportsOwnEvents
<1>1. ASSUME IInv, NEW q \in Request, NEW r \in Request, r \in copy[q]
      PROVE  op[r] = "write" /\ test[r] = test[q] /\ answer[r] # "rejected"
  <2>1. Counted(r, test[q])
    BY <1>1 DEF IInv, DataInv
  <2>2. \A outcome \in {"accepted", "error", "lost"} :
          Answered(r, outcome) => answer[r] # "rejected"
    BY <1>1, RequestAssumption DEF Answered, IInv, JobInv
  <2> QED
    BY <2>1, <2>2 DEF Counted
<1>2. IInv => ExportsOwnEvents
  BY <1>1 DEF ExportsOwnEvents
<1> QED
  BY <1>2, Invariant, PTL

=============================================================================
