---------------------------- MODULE IngestProofs ----------------------------
(***************************************************************************)
(* Proofs about Ingest, for every number of workers, requests, controls,   *)
(* models and quarters: the inductive invariant IInv, the safety           *)
(* properties that follow from it, and the refinement of AggregateLedger.  *)
(***************************************************************************)
EXTENDS Ingest, TLAPS

USE DEF Stages, Outcomes, Kinds

\* Quarter numbers are integers, and an event accepted by the validators
\* touches at least one quarter; a declaration touches none.
LEMMA Spans ==
  ASSUME NEW r \in Request
  PROVE  /\ first[r] \in Int /\ last[r] \in Int
         /\ Span(r) = {q \in Int : first[r] <= q /\ q <= last[r]}
         /\ WellFormed(r) /\ Ingests(r) => first[r] <= last[r]
         /\ WellFormed(r) /\ Payload[r].kind = "control" => Span(r) = {}
<1>1. /\ Payload[r] \in Payloads
      /\ QuarterOf(Payload[r].start) \in Int
      /\ QuarterOf(Payload[r].end - 1) \in Int
  BY PayloadAssumption, CalendarAssumption
<1>2. first[r] = QuarterOf(Payload[r].start)
  BY DEF first
<1>3. /\ Payload[r].kind = "holding" => last[r] = QuarterOf(Payload[r].end - 1)
      /\ Payload[r].kind = "transition" => last[r] = first[r]
      /\ Payload[r].kind \notin {"holding", "transition"} => last[r] = first[r] - 1
  BY DEF last
<1>4. first[r] \in Int /\ last[r] \in Int
  BY <1>1, <1>2, <1>3 DEF Payloads
<1>5. Span(r) = {q \in Int : first[r] <= q /\ q <= last[r]}
  BY <1>4 DEF Span
<1>6. WellFormed(r) /\ Ingests(r) => first[r] <= last[r]
  BY <1>1, <1>2, <1>3, <1>4, CalendarAssumption DEF WellFormed, Ingests, Payloads
<1>7. WellFormed(r) /\ Payload[r].kind = "control" => Span(r) = {}
  BY <1>3, <1>4, <1>5
<1> QED
  BY <1>4, <1>5, <1>6, <1>7

\* The declared size of a well formed declaration is a usable state count.
LEMMA DeclaredSize ==
  ASSUME NEW r \in Request, WellFormed(r), Payload[r].kind = "control"
  PROVE  Payload[r].size \in Nat /\ Payload[r].size >= 2 /\ Payload[r].ctl \in Control
  BY PayloadAssumption DEF WellFormed, Payloads, MinStates, MaxStates

LEMMA RowTypes ==
  /\ NoRow \in Row
  /\ \A n \in Nat : Fresh(n) \in Row /\ Fresh(n).size = n /\ Fresh(n).applied = NoRow.applied
  /\ NoRow.size = 0
  /\ \A r \in Request : NoRow.applied[r] = 0
  BY DEF NoRow, Row, Fresh

\* Adding an event to a row changes one count and not the layout.
LEMMA ApplyRow ==
  ASSUME NEW row \in Row, NEW r \in Request
  PROVE  /\ Apply(row, r) \in Row
         /\ Apply(row, r).size = row.size
         /\ \A s \in Request :
              Apply(row, r).applied[s] = row.applied[s] + (IF s = r THEN 1 ELSE 0)
<1>1. Apply(row, r) = [size |-> row.size,
                       applied |-> [row.applied EXCEPT ![r] = row.applied[r] + 1]]
  BY DEF Apply, Row
<1>2. [row.applied EXCEPT ![r] = row.applied[r] + 1] \in [Request -> Nat]
  BY DEF Row
<1> QED
  BY <1>1, <1>2 DEF Row

\* The key of a request in a quarter of the calendar, and only in it.
LEMMA Keys ==
  ASSUME NEW r \in Request, NEW q \in Quarter
  PROVE  /\ KeyOf(r, q) \in Key
         /\ \A p : KeyOf(r, p) = KeyOf(r, q) => p = q
  BY PayloadAssumption DEF Key, KeyOf, Payloads

-----------------------------------------------------------------------------
\* A worker that has reached a row works on one of the table.
LEMMA TargetInKey ==
  ASSUME IInv, NEW w \in Worker, pc[w] \in {"begin", "read", "write"}
  PROVE  /\ job[w] \in Request
         /\ at[w] \in Quarter
         /\ Target(w) \in Key
<1>1. job[w] \in Request
  BY DEF IInv, TypeOK, JobInv
<1>2. Datable(job[w]) /\ at[w] \in Span(job[w])
  BY DEF IInv, StageInv
<1>3. at[w] \in Quarter
  BY <1>1, <1>2, Spans, PayloadAssumption DEF Datable, Quarter
<1> QED
  BY <1>1, <1>3, Keys DEF Target

\* The state types are kept by every step from a state of the invariant.
LEMMA TypeStep ==
  ASSUME IInv, [Next]_vars
  PROVE  TypeOK'
<1> USE PayloadAssumption, RowTypes DEF IInv, TypeOK, Goto, Finish
<1>1. ASSUME NEW w \in Worker, NEW r \in Request, Receive(w, r)
      PROVE  TypeOK'
  BY <1>1 DEF Receive
<1>2. ASSUME NEW w \in Worker, Upsert(w)
      PROVE  TypeOK'
  <2>1. job[w] \in Request /\ WellFormed(job[w]) /\ Payload[job[w]].kind = "control"
    BY <1>2 DEF Upsert, JobInv, StageInv
  <2>2. controls' \in [Control -> Nat]
    BY <1>2, <2>1, DeclaredSize DEF Upsert
  <2> QED
    BY <1>2, <2>2 DEF Upsert
<1>3. ASSUME NEW w \in Worker, Lookup(w)
      PROVE  TypeOK'
  <2>1. job[w] \in Request
    BY <1>3 DEF Lookup, JobInv
  <2>2. controls[Payload[job[w]].ctl] \in Nat /\ first[job[w]] \in Int
    BY <2>1, Spans DEF Payloads
  <2> QED
    BY <1>3, <2>1, <2>2 DEF Lookup
<1>4. ASSUME NEW w \in Worker, Begin(w)
      PROVE  TypeOK'
  BY <1>4 DEF Begin
<1>5. ASSUME NEW w \in Worker, LockTimeout(w)
      PROVE  TypeOK'
  BY <1>5 DEF LockTimeout
<1>6. ASSUME NEW w \in Worker, Read(w)
      PROVE  TypeOK'
  <2>1. Load(rows[Target(w)], size[w]) \in Row
    BY <1>6, TargetInKey DEF Read, Load
  <2> QED
    BY <1>6, <2>1 DEF Read
<1>7. ASSUME NEW w \in Worker, Mismatch(w)
      PROVE  TypeOK'
  BY <1>7 DEF Mismatch
<1>8. ASSUME NEW w \in Worker, Write(w)
      PROVE  TypeOK'
  <2>1. Apply(image[w], job[w]) \in Row
    BY <1>8, TargetInKey, ApplyRow DEF Write
  <2>2. rows' \in [Key -> Row]
    BY <1>8, <2>1 DEF Write
  <2> QED
    BY <1>8, <2>2 DEF Write
<1>9. ASSUME NEW w \in Worker, Break(w)
      PROVE  TypeOK'
  BY <1>9 DEF Break
<1>10. ASSUME NEW w \in Worker, Reply(w)
       PROVE  TypeOK'
  BY <1>10 DEF Reply, JobInv, Answers
<1>11. ASSUME Crash
       PROVE  TypeOK'
  BY <1>11 DEF Crash, Answers
<1>12. CASE UNCHANGED vars
  BY <1>12 DEF vars
<1> QED
  BY <1>1, <1>2, <1>3, <1>4, <1>5, <1>6, <1>7, <1>8, <1>9, <1>10, <1>11, <1>12
  DEF Next, Serve

\* BEGIN IMMEDIATE is the only way to the write lock, and every exit frees it.
LEMMA LockStep ==
  ASSUME IInv, [Next]_vars
  PROVE  LockInv'
<1> USE PayloadAssumption DEF IInv, TypeOK, LockInv, Goto, Finish
<1>1. ASSUME NEW w \in Worker, NEW r \in Request, Receive(w, r)
      PROVE  LockInv'
  BY <1>1 DEF Receive
<1>2. ASSUME NEW w \in Worker, Upsert(w)
      PROVE  LockInv'
  BY <1>2 DEF Upsert
<1>3. ASSUME NEW w \in Worker, Lookup(w)
      PROVE  LockInv'
  BY <1>3 DEF Lookup
<1>4. ASSUME NEW w \in Worker, Begin(w)
      PROVE  LockInv'
  BY <1>4 DEF Begin
<1>5. ASSUME NEW w \in Worker, LockTimeout(w)
      PROVE  LockInv'
  BY <1>5 DEF LockTimeout
<1>6. ASSUME NEW w \in Worker, Read(w)
      PROVE  LockInv'
  BY <1>6 DEF Read
<1>7. ASSUME NEW w \in Worker, Mismatch(w)
      PROVE  LockInv'
  BY <1>7 DEF Mismatch
<1>8. ASSUME NEW w \in Worker, Write(w)
      PROVE  LockInv'
  BY <1>8 DEF Write
<1>9. ASSUME NEW w \in Worker, Break(w)
      PROVE  LockInv'
  BY <1>9 DEF Break
<1>10. ASSUME NEW w \in Worker, Reply(w)
       PROVE  LockInv'
  BY <1>10 DEF Reply
<1>11. ASSUME Crash
      PROVE  LockInv'
  BY <1>11 DEF Crash
<1>12. CASE UNCHANGED vars
  BY <1>12 DEF vars
<1> QED
  BY <1>1, <1>2, <1>3, <1>4, <1>5, <1>6, <1>7, <1>8, <1>9, <1>10, <1>11, <1>12
  DEF Next, Serve

\* A request is taken by one worker, and only if nobody has it.
LEMMA JobStep ==
  ASSUME IInv, [Next]_vars
  PROVE  JobInv'
<1> USE PayloadAssumption DEF IInv, TypeOK, JobInv, InFlight, Goto, Finish
<1>1. ASSUME NEW w \in Worker, NEW r \in Request, Receive(w, r)
      PROVE  JobInv'
  BY <1>1 DEF Receive
<1>2. ASSUME NEW w \in Worker, Upsert(w)
      PROVE  JobInv'
  BY <1>2 DEF Upsert
<1>3. ASSUME NEW w \in Worker, Lookup(w)
      PROVE  JobInv'
  BY <1>3 DEF Lookup
<1>4. ASSUME NEW w \in Worker, Begin(w)
      PROVE  JobInv'
  BY <1>4 DEF Begin
<1>5. ASSUME NEW w \in Worker, LockTimeout(w)
      PROVE  JobInv'
  BY <1>5 DEF LockTimeout
<1>6. ASSUME NEW w \in Worker, Read(w)
      PROVE  JobInv'
  BY <1>6 DEF Read
<1>7. ASSUME NEW w \in Worker, Mismatch(w)
      PROVE  JobInv'
  BY <1>7 DEF Mismatch
<1>8. ASSUME NEW w \in Worker, Write(w)
      PROVE  JobInv'
  BY <1>8 DEF Write
<1>9. ASSUME NEW w \in Worker, Break(w)
      PROVE  JobInv'
  BY <1>9 DEF Break
<1>10. ASSUME NEW w \in Worker, Reply(w)
       PROVE  JobInv'
  BY <1>10 DEF Reply
<1>11. ASSUME Crash
      PROVE  JobInv'
  BY <1>11 DEF Crash
<1>12. CASE UNCHANGED vars
  BY <1>12 DEF vars
<1> QED
  BY <1>1, <1>2, <1>3, <1>4, <1>5, <1>6, <1>7, <1>8, <1>9, <1>10, <1>11, <1>12
  DEF Next, Serve

\* The counts before and after a commit: the image the worker read is still
\* the stored row, so its event is added to what everybody else has counted.
LEMMA WriteEffect ==
  ASSUME IInv, NEW w \in Worker, Write(w)
  PROVE  /\ job[w] \in Request /\ at[w] \in Quarter /\ at[w] \in Span(job[w])
         /\ Target(w) \in Key
         /\ \A k \in Key \ {Target(w)} : rows'[k] = rows[k]
         /\ rows'[Target(w)].size = size[w]
         /\ rows[Target(w)].size \in {0, size[w]}
         /\ \A r \in Request :
              rows'[Target(w)].applied[r] =
                rows[Target(w)].applied[r] + (IF r = job[w] THEN 1 ELSE 0)
         /\ \A r \in Request, q \in Quarter :
              Credited(r, q)' =
                Credited(r, q) + (IF r = job[w] /\ q = at[w] THEN 1 ELSE 0)
<1> DEFINE k == Target(w)
<1>1. pc[w] = "write"
  BY DEF Write
<1>2. job[w] \in Request /\ at[w] \in Quarter /\ k \in Key
  BY <1>1, TargetInKey
<1>3. /\ at[w] \in Span(job[w])
      /\ Usable(rows[k], size[w], Payload[job[w]].ctl)
      /\ image[w] = Load(rows[k], size[w])
  BY <1>1 DEF IInv, StageInv
<1>4. rows \in [Key -> Row] /\ size[w] \in Nat /\ image[w] \in Row
  BY DEF IInv, TypeOK
<1>5. rows' = [rows EXCEPT ![k] = Apply(image[w], job[w])]
  BY DEF Write
<1>6. rows'[k] = Apply(image[w], job[w]) /\ \A j \in Key \ {k} : rows'[j] = rows[j]
  BY <1>2, <1>4, <1>5
<1>7. image[w].size = size[w] /\ rows[k].size \in {0, size[w]}
  BY <1>2, <1>3, <1>4, RowTypes DEF Usable, Load
<1>8. \A r \in Request : image[w].applied[r] = rows[k].applied[r]
  <2>1. CASE rows[k].size = 0
    <3>1. rows[k] = NoRow
      BY <1>2, <2>1 DEF IInv, RowInv
    <3>2. image[w] = Fresh(size[w])
      BY <1>3, <2>1 DEF Load
    <3> QED
      BY <1>4, <3>1, <3>2, RowTypes
  <2>2. CASE rows[k].size # 0
    BY <1>3, <2>2 DEF Load
  <2> QED
    BY <2>1, <2>2
<1>9. /\ rows'[k].size = size[w]
      /\ \A r \in Request :
           rows'[k].applied[r] = rows[k].applied[r] + (IF r = job[w] THEN 1 ELSE 0)
  BY <1>2, <1>4, <1>6, <1>7, <1>8, ApplyRow
<1>10. ASSUME NEW r \in Request, NEW q \in Quarter
       PROVE  Credited(r, q)' =
                Credited(r, q) + (IF r = job[w] /\ q = at[w] THEN 1 ELSE 0)
  <2>1. KeyOf(r, q) \in Key /\ rows[KeyOf(r, q)].applied[r] \in Nat
    BY <1>4, Keys DEF Row
  <2>2. Credited(r, q)' = rows'[KeyOf(r, q)].applied[r]
    BY DEF Credited
  <2>3. CASE KeyOf(r, q) = k
    <3>1. q = at[w]
      BY <2>3 DEF KeyOf, Target
    <3> QED
      BY <2>2, <2>3, <3>1, <1>9 DEF Credited
  <2>4. CASE KeyOf(r, q) # k
    <3>1. ~(r = job[w] /\ q = at[w])
      BY <2>4 DEF Target
    <3> QED
      BY <2>1, <2>2, <2>4, <3>1, <1>6 DEF Credited
  <2> QED
    BY <2>3, <2>4
<1> QED
  BY <1>2, <1>3, <1>6, <1>7, <1>9, <1>10

\* A worker whose locals, row and control are left alone keeps what it has
\* established.
LEMMA StageFrame ==
  ASSUME IInv, NEW v \in Worker,
         pc'[v] = pc[v], job'[v] = job[v], size'[v] = size[v], at'[v] = at[v],
         image'[v] = image[v],
         pc[v] = "write" => rows'[Target(v)] = rows[Target(v)],
         pc[v] = "write" => controls' = controls
  PROVE  StageInv(v)'
<1>1. StageInv(v)
  BY DEF IInv
<1>2. Target(v)' = Target(v)
  BY DEF Target, KeyOf
<1>3. pc[v] = "write" => Usable(rows[Target(v)], size[v], Payload[job[v]].ctl)'
  BY <1>1, <1>2 DEF StageInv, Usable
<1>4. pc[v] = "write" => image'[v] = Load(rows[Target(v)], size[v])'
  BY <1>1, <1>2 DEF StageInv, Load
<1>5. /\ pc[v] \in Stages => WellFormed(job[v])'
      /\ pc[v] \in Stages \ {"upsert"} => Ingests(job[v])'
  BY <1>1 DEF StageInv, WellFormed, Ingests
<1>6. pc[v] \in {"begin", "read", "write"} =>
         /\ Datable(job[v])'
         /\ (at[v] \in Span(job[v]))'
         /\ (\A s \in States(job[v]) : s < size[v])'
  BY <1>1 DEF StageInv, Datable, Span, States, first, last
<1> QED
  BY <1>1, <1>3, <1>4, <1>5, <1>6 DEF StageInv

\* Once the handler is done there is nothing left to rely on.
LEMMA StageDone ==
  ASSUME NEW v \in Worker, pc'[v] \in {"idle"} \cup Outcomes
  PROVE  StageInv(v)'
  BY DEF StageInv

\* What a worker relies on when it reaches a statement is still true then,
\* whatever the other workers have done in between.
LEMMA StageStep ==
  ASSUME IInv, [Next]_vars, NEW v \in Worker
  PROVE  StageInv(v)'
<1> USE DEF IInv, TypeOK, Goto, Finish
<1>1. ASSUME NEW w \in Worker, NEW r \in Request, Receive(w, r)
      PROVE  StageInv(v)'
  <2>1. CASE v # w
    BY <1>1, <2>1, StageFrame DEF Receive
  <2>2. CASE v = w /\ ~WellFormed(r)
    BY <1>1, <2>2, StageDone DEF Receive
  <2>3. CASE v = w /\ WellFormed(r)
    <3>1. job'[w] = r /\ Payload[r].kind \in Kinds \ {"malformed"}
      BY <1>1, <2>3, PayloadAssumption DEF Receive, WellFormed, Payloads
    <3>2. \/ pc'[w] = "upsert" /\ Payload[r].kind = "control"
          \/ pc'[w] = "lookup" /\ Payload[r].kind # "control"
      BY <1>1, <2>3 DEF Receive
    <3>3. WellFormed(job[w])' /\ (pc'[w] = "lookup" => Ingests(job[w])')
      BY <2>3, <3>1, <3>2 DEF Ingests, WellFormed
    <3> QED
      BY <2>3, <3>1, <3>2, <3>3 DEF StageInv
  <2> QED
    BY <2>1, <2>2, <2>3
<1>2. ASSUME NEW w \in Worker, Upsert(w)
      PROVE  StageInv(v)'
  <2>1. CASE v # w
    BY <1>2, <2>1, StageFrame, PayloadAssumption DEF Upsert, LockInv
  <2>2. CASE v = w
    BY <1>2, <2>2, StageDone DEF Upsert
  <2> QED
    BY <2>1, <2>2
<1>3. ASSUME NEW w \in Worker, Lookup(w)
      PROVE  StageInv(v)'
  <2>1. CASE v # w
    BY <1>3, <2>1, StageFrame DEF Lookup
  <2>2. CASE v = w /\ InRange(job[w]) /\ Datable(job[w])
    <3>1. StageInv(w) /\ job[w] \in Request
      BY <1>3 DEF Lookup, JobInv
    <3>2. /\ pc[w] = "lookup" /\ pc'[w] = "begin" /\ job'[w] = job[w]
          /\ size'[w] = controls[Payload[job[w]].ctl]
          /\ at'[w] = first[job[w]]
      BY <1>3, <2>2 DEF Lookup
    <3>3. WellFormed(job[w]) /\ Ingests(job[w])
      BY <3>1, <3>2 DEF StageInv
    <3>4. first[job[w]] \in Span(job[w])
      BY <3>1, <3>3, Spans
    <3>5. WellFormed(job[w])' /\ Ingests(job[w])' /\ Datable(job[w])'
      BY <2>2, <3>2, <3>3 DEF WellFormed, Ingests, Datable, first, last
    <3>6. (at[w] \in Span(job[w]))'
      BY <3>2, <3>4 DEF Span, first, last
    <3>7. (\A s \in States(job[w]) : s < size[w])'
      BY <2>2, <3>2 DEF InRange, States
    <3> QED
      BY <2>2, <3>2, <3>5, <3>6, <3>7 DEF StageInv
  <2>3. CASE v = w /\ ~(InRange(job[w]) /\ Datable(job[w]))
    BY <1>3, <2>3, StageDone DEF Lookup
  <2> QED
    BY <2>1, <2>2, <2>3
<1>4. ASSUME NEW w \in Worker, Begin(w)
      PROVE  StageInv(v)'
  <2>1. CASE v # w
    BY <1>4, <2>1, StageFrame DEF Begin
  <2>2. CASE v = w
    <3>1. StageInv(w) /\ pc[w] = "begin" /\ pc'[w] = "read"
      BY <1>4 DEF Begin
    <3>2. job'[w] = job[w] /\ at'[w] = at[w] /\ size'[w] = size[w]
      BY <1>4 DEF Begin
    <3> QED
      BY <2>2, <3>1, <3>2
      DEF StageInv, WellFormed, Ingests, Datable, Span, States, first, last
  <2> QED
    BY <2>1, <2>2
<1>5. ASSUME NEW w \in Worker, LockTimeout(w)
      PROVE  StageInv(v)'
  BY <1>5, StageFrame, StageDone DEF LockTimeout
<1>6. ASSUME NEW w \in Worker, Read(w)
      PROVE  StageInv(v)'
  <2>1. CASE v # w
    BY <1>6, <2>1, StageFrame DEF Read
  <2>2. CASE v = w
    <3>1. StageInv(w) /\ pc[w] = "read" /\ pc'[w] = "write"
      BY <1>6 DEF Read
    <3>2. /\ job'[w] = job[w] /\ at'[w] = at[w] /\ size'[w] = size[w]
          /\ rows' = rows /\ controls' = controls
          /\ image'[w] = Load(rows[Target(w)], size[w])
          /\ Usable(rows[Target(w)], size[w], Payload[job[w]].ctl)
      BY <1>6 DEF Read
    <3>3. Target(w)' = Target(w)
      BY <3>2 DEF Target, KeyOf
    <3>4. /\ Usable(rows[Target(w)], size[w], Payload[job[w]].ctl)'
          /\ image'[w] = Load(rows[Target(w)], size[w])'
      BY <3>2, <3>3 DEF Usable, Load
    <3> QED
      BY <2>2, <3>1, <3>2, <3>4
      DEF StageInv, WellFormed, Ingests, Datable, Span, States, first, last
  <2> QED
    BY <2>1, <2>2
<1>7. ASSUME NEW w \in Worker, Mismatch(w)
      PROVE  StageInv(v)'
  BY <1>7, StageFrame, StageDone DEF Mismatch
<1>8. ASSUME NEW w \in Worker, Write(w)
      PROVE  StageInv(v)'
  <2>1. CASE v # w
    <3>1. pc[v] # "write"
      BY <1>8, <2>1 DEF Write, LockInv
    <3> QED
      BY <1>8, <2>1, <3>1, StageFrame DEF Write
  <2>2. CASE v = w /\ at[w] < last[job[w]]
    <3>1. StageInv(w) /\ pc[w] = "write" /\ pc'[w] = "begin" /\ job[w] \in Request
      BY <1>8, <2>2, WriteEffect DEF Write
    <3>2. job'[w] = job[w] /\ at'[w] = at[w] + 1 /\ size'[w] = size[w]
      BY <1>8, <2>2 DEF Write
    <3>3. at[w] + 1 \in Span(job[w])
      BY <2>2, <3>1, Spans DEF StageInv
    <3>4. (at[w] \in Span(job[w]))'
      BY <3>2, <3>3 DEF Span, first, last
    <3> QED
      BY <2>2, <3>1, <3>2, <3>4
      DEF StageInv, WellFormed, Ingests, Datable, States, first, last
  <2>3. CASE v = w /\ ~(at[w] < last[job[w]])
    BY <1>8, <2>3, StageDone DEF Write
  <2> QED
    BY <2>1, <2>2, <2>3
<1>9. ASSUME NEW w \in Worker, Break(w)
      PROVE  StageInv(v)'
  BY <1>9, StageFrame, StageDone DEF Break
<1>10. ASSUME NEW w \in Worker, Reply(w)
       PROVE  StageInv(v)'
  BY <1>10, StageFrame, StageDone DEF Reply
<1>11. ASSUME Crash
       PROVE  StageInv(v)'
  BY <1>11, StageDone DEF Crash
<1>12. CASE UNCHANGED vars
  BY <1>12, StageFrame DEF vars
<1> QED
  BY <1>1, <1>2, <1>3, <1>4, <1>5, <1>6, <1>7, <1>8, <1>9, <1>10, <1>11, <1>12
  DEF Next, Serve

-----------------------------------------------------------------------------
\* What is said of a request's counts depends on its counts alone.
LEMMA CountFrame ==
  ASSUME NEW r \in Request, \A q \in Quarter : Credited(r, q)' = Credited(r, q)
  PROVE  /\ Uncounted(r)' <=> Uncounted(r)
         /\ CountedFully(r)' <=> CountedFully(r)
         /\ \A n : CountedBefore(r, n)' <=> CountedBefore(r, n)
<1>1. Span(r)' = Span(r)
  BY DEF Span, first, last
<1>2. Uncounted(r)' <=> Uncounted(r)
  BY DEF Uncounted
<1>3. CountedFully(r)' <=> CountedFully(r)
  BY <1>1 DEF CountedFully
<1>4. ASSUME NEW n
      PROVE  CountedBefore(r, n)' <=> CountedBefore(r, n)
  BY <1>1 DEF CountedBefore
<1> QED
  BY <1>2, <1>3, <1>4

\* Only the commit of its own worker changes what a request has been counted.
LEMMA CreditFrame ==
  ASSUME IInv, [Next]_vars, NEW r \in Request,
         \A w \in Worker : Write(w) => job[w] # r
  PROVE  \A q \in Quarter : Credited(r, q)' = Credited(r, q)
<1>1. \A q \in Quarter : Credited(r, q) \in Nat
  BY Keys DEF IInv, TypeOK, Credited, Row
<1>2. CASE \E w \in Worker : Write(w)
  BY <1>1, <1>2, WriteEffect
<1>3. CASE ~\E w \in Worker : Write(w)
  <2>1. rows' = rows
    BY <1>3 DEF Next, Serve, vars, Receive, Upsert, Lookup, Begin, LockTimeout,
                Read, Mismatch, Break, Reply, Crash
  <2> QED
    BY <2>1 DEF Credited
<1> QED
  BY <1>2, <1>3

\* A commit counts the request in the next quarter of its event.
LEMMA WriteCounts ==
  ASSUME IInv, NEW w \in Worker, Write(w),
         NEW r \in Request, r = job[w], NEW n \in Int, n = at[w]
  PROVE  /\ CountedBefore(r, n + 1)'
         /\ ~(n < last[r]) => CountedFully(r)'
<1>1. /\ n \in Quarter /\ n \in Span(r)
      /\ \A q \in Quarter :
           Credited(r, q)' = Credited(r, q) + (IF q = n THEN 1 ELSE 0)
  BY WriteEffect
<1>2. CountedBefore(r, n) /\ Datable(r)
  BY DEF IInv, ProgressInv, StageInv, Write
<1>3. Span(r)' = Span(r)
  BY DEF Span, first, last
<1>4. \A q \in Quarter : Credited(r, q)' = IF q \in Span(r) /\ q < n + 1 THEN 1 ELSE 0
  BY <1>1, <1>2, PayloadAssumption DEF CountedBefore, Quarter
<1>5. CountedBefore(r, n + 1)'
  BY <1>3, <1>4 DEF CountedBefore
<1>6. ASSUME ~(n < last[r])
      PROVE  CountedFully(r)'
  <2>1. Span(r) \subseteq Quarter
    BY <1>1, <1>2, Spans, PayloadAssumption DEF Datable, Quarter
  <2>2. \A q \in Quarter : q \in Span(r) => q < n + 1
    BY <1>1, <1>6, Spans, PayloadAssumption DEF Quarter
  <2> QED
    BY <1>3, <1>4, <2>1, <2>2 DEF CountedFully
<1> QED
  BY <1>5, <1>6

\* The progress claim of a worker, stated of the request it will be serving.
LEMMA ProgressOf ==
  ASSUME NEW v \in Worker, NEW r, job'[v] = r,
         pc'[v] \in {"upsert", "lookup", "rejected"} => Uncounted(r)',
         pc'[v] \in {"begin", "read", "write"} =>
           \A n : n = at'[v] => CountedBefore(r, n)',
         pc'[v] = "accepted" => CountedFully(r)'
  PROVE  ProgressInv(v)'
<1>1. /\ pc'[v] \in {"upsert", "lookup", "rejected"} => Uncounted(job[v])'
      /\ pc'[v] = "accepted" => CountedFully(job[v])'
  BY DEF Uncounted, CountedFully, Span, first, last, Credited, KeyOf
<1>2. pc'[v] \in {"begin", "read", "write"} => CountedBefore(job[v], at[v])'
  BY DEF CountedBefore, Span, first, last, Credited, KeyOf
<1> QED
  BY <1>1, <1>2 DEF ProgressInv

\* What a worker's position says of its request's counts stays true as long as
\* nobody counts that request.
LEMMA ProgressFrame ==
  ASSUME IInv, NEW v \in Worker, pc'[v] = pc[v], job'[v] = job[v], at'[v] = at[v],
         job[v] \in Request =>
           \A q \in Quarter : \A r \in {job[v]} : Credited(r, q)' = Credited(r, q)
  PROVE  ProgressInv(v)'
<1>1. CASE job[v] \in Request
  <2>1. PICK r \in Request : r = job[v]
    BY <1>1
  <2>2. \A q \in Quarter : Credited(r, q)' = Credited(r, q)
    BY <2>1
  <2>3. /\ pc[v] \in {"upsert", "lookup", "rejected"} => Uncounted(r)'
        /\ pc[v] = "accepted" => CountedFully(r)'
        /\ pc[v] \in {"begin", "read", "write"} =>
             \A n : n = at[v] => CountedBefore(r, n)'
    BY <2>1, <2>2, CountFrame DEF IInv, ProgressInv
  <2> QED
    BY <2>1, <2>3, ProgressOf
<1>2. CASE job[v] \notin Request
  BY <1>2 DEF IInv, TypeOK, JobInv, ProgressInv
<1> QED
  BY <1>1, <1>2

\* A worker whose outcome claims nothing, or that has none, owes nothing.
LEMMA ProgressDone ==
  ASSUME NEW v \in Worker, pc'[v] \in {"idle", "busy", "mismatch", "error"}
  PROVE  ProgressInv(v)'
  BY DEF ProgressInv

\* A request's counts follow the position of its worker.
LEMMA ProgressStep ==
  ASSUME IInv, [Next]_vars, NEW v \in Worker
  PROVE  ProgressInv(v)'
<1> USE DEF IInv, TypeOK, Goto, Finish
<1>0. ASSUME NEW w \in Worker, pc[w] # "idle"
      PROVE  job[w] \in Request
  BY <1>0 DEF JobInv
<1>1. ASSUME NEW w \in Worker, Write(w)
      PROVE  ProgressInv(v)'
  <2>1. PICK r \in Request : r = job[w]
    BY <1>0, <1>1 DEF Write
  <2>2. PICK n \in Int : n = at[w]
    OBVIOUS
  <2>3. CASE v = w
    <3>1. job'[v] = r /\ pc'[v] \in {"begin", "accepted"}
      BY <1>1, <2>1, <2>3 DEF Write
    <3>2. pc'[v] = "begin" => at'[v] = n + 1
      BY <1>1, <2>2, <2>3 DEF Write
    <3>3. pc'[v] = "accepted" => ~(n < last[r])
      BY <1>1, <2>1, <2>2, <2>3 DEF Write
    <3>4. CountedBefore(r, n + 1)' /\ (~(n < last[r]) => CountedFully(r)')
      BY <1>1, <2>1, <2>2, WriteCounts
    <3>5. \A m : m = n + 1 => CountedBefore(r, m)'
      BY <3>4
    <3> QED
      BY <3>1, <3>2, <3>3, <3>4, <3>5, ProgressOf
  <2>4. CASE v # w
    <3>1. pc[v] # "write" /\ (pc[v] # "idle" => job[v] # r)
      BY <1>1, <2>1, <2>4 DEF Write, LockInv, JobInv
    <3>2. ASSUME NEW s \in Request, s = job[v]
          PROVE  \A q \in Quarter : Credited(s, q)' = Credited(s, q)
      <4>1. ASSUME NEW u \in Worker, Write(u)
            PROVE  job[u] # s
        BY <1>0, <3>1, <3>2, <4>1 DEF Write, JobInv
      <4> QED
        BY <4>1, CreditFrame
    <3>3. pc'[v] = pc[v] /\ job'[v] = job[v] /\ at'[v] = at[v]
      BY <1>1, <2>4 DEF Write
    <3> QED
      BY <3>2, <3>3, ProgressFrame
  <2> QED
    BY <2>3, <2>4
<1> SUFFICES ASSUME ~\E w \in Worker : Write(w)
             PROVE  ProgressInv(v)'
  BY <1>1
<1>2. \A r \in Request, q \in Quarter : Credited(r, q)' = Credited(r, q)
  BY CreditFrame
<1>3. ASSUME pc'[v] = pc[v], job'[v] = job[v], at'[v] = at[v]
      PROVE  ProgressInv(v)'
  BY <1>2, <1>3, ProgressFrame
<1>4. ASSUME NEW w \in Worker, NEW r \in Request, Receive(w, r)
      PROVE  ProgressInv(v)'
  <2>1. Uncounted(r)'
    BY <1>2, <1>4, CountFrame DEF Receive, RequestInv
  <2>2. CASE v = w
    BY <1>4, <2>1, <2>2, ProgressOf DEF Receive
  <2> QED
    BY <1>3, <1>4, <2>2 DEF Receive
<1>5. ASSUME NEW w \in Worker, Upsert(w)
      PROVE  ProgressInv(v)'
  <2>1. CASE v = w
    <3>1. PICK r \in Request : r = job[w]
      BY <1>0, <1>5 DEF Upsert
    <3>2. Uncounted(r) /\ Span(r) = {}
      BY <1>5, <3>1, Spans DEF Upsert, ProgressInv, StageInv
    <3>3. CountedFully(r)'
      BY <1>2, <3>2, CountFrame DEF CountedFully, Uncounted
    <3> QED
      BY <1>5, <2>1, <3>1, <3>3, ProgressOf DEF Upsert
  <2> QED
    BY <1>3, <1>5, <2>1 DEF Upsert
<1>6. ASSUME NEW w \in Worker, Lookup(w)
      PROVE  ProgressInv(v)'
  <2>1. CASE v = w
    <3>1. PICK r \in Request : r = job[w]
      BY <1>0, <1>6 DEF Lookup
    <3>2. Uncounted(r)'
      BY <1>2, <1>6, <3>1, CountFrame DEF Lookup, ProgressInv
    <3>3. \A n : n = first[r] => CountedBefore(r, n)'
      <4>1. Uncounted(r) /\ Span(r) = {q \in Int : first[r] <= q /\ q <= last[r]}
        BY <1>6, <3>1, Spans DEF Lookup, ProgressInv
      <4>2. CountedBefore(r, first[r])
        BY <4>1, Spans DEF Uncounted, CountedBefore
      <4> QED
        BY <1>2, <4>2, CountFrame
    <3>4. /\ job'[w] = r /\ pc'[w] \in {"begin", "rejected", "error"}
          /\ pc'[w] = "begin" => at'[w] = first[r]
      BY <1>6, <3>1 DEF Lookup
    <3> QED
      BY <2>1, <3>2, <3>3, <3>4, ProgressOf
  <2> QED
    BY <1>3, <1>6, <2>1 DEF Lookup
<1>7. ASSUME NEW w \in Worker, \/ Begin(w) \/ Read(w)
      PROVE  ProgressInv(v)'
  <2>1. CASE v = w
    <3>1. PICK r \in Request : r = job[w]
      BY <1>0, <1>7 DEF Begin, Read
    <3>2. CountedBefore(r, at[w])
      BY <1>7, <3>1 DEF Begin, Read, ProgressInv
    <3>3. \A n : n = at[w] => CountedBefore(r, n)'
      BY <1>2, <3>2, CountFrame
    <3>4. job'[w] = r /\ at'[w] = at[w] /\ pc'[w] \in {"read", "write"}
      BY <1>7, <3>1 DEF Begin, Read
    <3> QED
      BY <2>1, <3>3, <3>4, ProgressOf
  <2> QED
    BY <1>3, <1>7, <2>1 DEF Begin, Read
<1>8. ASSUME NEW w \in Worker, \/ LockTimeout(w) \/ Mismatch(w) \/ Break(w) \/ Reply(w)
      PROVE  ProgressInv(v)'
  <2>1. CASE v = w
    BY <1>8, <2>1, ProgressDone DEF LockTimeout, Mismatch, Break, Reply
  <2> QED
    BY <1>3, <1>8, <2>1 DEF LockTimeout, Mismatch, Break, Reply
<1>9. ASSUME Crash
      PROVE  ProgressInv(v)'
  BY <1>9, ProgressDone DEF Crash
<1>10. CASE UNCHANGED vars
  BY <1>3, <1>10 DEF vars
<1> QED
  BY <1>4, <1>5, <1>6, <1>7, <1>8, <1>9, <1>10 DEF Next, Serve

\* A request that nobody serves, or that has an answer, is never counted again.
LEMMA RequestStep ==
  ASSUME IInv, [Next]_vars, NEW r \in Request
  PROVE  RequestInv(r)'
<1> USE DEF IInv, TypeOK
<1>1. RequestInv(r)
  OBVIOUS
<1>2. CASE \E w \in Worker : Write(w) /\ job[w] = r
  <2>1. PICK w \in Worker : Write(w) /\ job[w] = r
    BY <1>2
  <2>2. PICK n \in Int : n = at[w]
    OBVIOUS
  <2>3. CountedBefore(r, n + 1)' /\ n \in Quarter
    BY <2>1, <2>2, WriteCounts, WriteEffect
  <2>4. n + 1 \in FirstQuarter..(LastQuarter + 1)
    BY <2>3, PayloadAssumption DEF Quarter
  <2>5. answer'[r] = "none" /\ InFlight(r)'
    BY <2>1 DEF Write, JobInv, InFlight
  <2>6. Datable(r)'
    BY <2>1 DEF Write, StageInv, Datable, first, last
  <2> QED
    BY <2>3, <2>4, <2>5, <2>6 DEF RequestInv
<1>3. CASE ~\E w \in Worker : Write(w) /\ job[w] = r
  <2>1. \A q \in Quarter : Credited(r, q)' = Credited(r, q)
    BY <1>3, CreditFrame
  <2>2. /\ \E n \in FirstQuarter..(LastQuarter + 1) : CountedBefore(r, n)'
        /\ (Ingests(r) /\ ~Datable(r) => Uncounted(r))'
    BY <1>1, <2>1, CountFrame DEF RequestInv, Ingests, Datable, first, last
  <2>3. ASSUME answer'[r] = answer[r], InFlight(r)' <=> InFlight(r)
        PROVE  RequestInv(r)'
    BY <1>1, <2>1, <2>2, <2>3, CountFrame DEF RequestInv
  <2>4. CASE \E w \in Worker : Reply(w) /\ job[w] = r
    <3>1. PICK w \in Worker : Reply(w) /\ job[w] = r
      BY <2>4
    <3>2. answer'[r] = pc[w] /\ pc[w] \in Outcomes
      BY <3>1 DEF Reply
    <3>3. /\ pc[w] = "rejected" => Uncounted(r)'
          /\ pc[w] = "accepted" => CountedFully(r)'
      BY <2>1, <3>1, CountFrame DEF ProgressInv
    <3> QED
      BY <2>2, <3>2, <3>3 DEF RequestInv
  <2>5. CASE Crash
    <3>1. answer'[r] = IF InFlight(r) THEN "lost" ELSE answer[r]
      BY <2>5 DEF Crash
    <3>2. ~InFlight(r)'
      BY <2>5, PayloadAssumption DEF Crash, InFlight
    <3> QED
      BY <1>1, <2>1, <2>2, <3>1, <3>2, CountFrame DEF RequestInv
  <2>6. ASSUME NEW w \in Worker, NEW s \in Request, Receive(w, s)
        PROVE  RequestInv(r)'
    <3>1. answer' = answer /\ (InFlight(r) => InFlight(r)')
      BY <2>6, PayloadAssumption DEF Receive, InFlight, JobInv
    <3> QED
      BY <1>1, <2>1, <2>2, <3>1, CountFrame DEF RequestInv
  <2>7. CASE answer' = answer /\ job' = job
    BY <2>3, <2>7 DEF InFlight
  <2>8. ASSUME NEW w \in Worker, Reply(w), job[w] # r
        PROVE  RequestInv(r)'
    <3>1. answer'[r] = answer[r]
      BY <2>8 DEF Reply, JobInv
    <3>2. InFlight(r) => InFlight(r)'
      BY <2>8 DEF Reply, InFlight
    <3> QED
      BY <1>1, <2>1, <2>2, <3>1, <3>2, CountFrame DEF RequestInv
  <2> QED
    BY <2>4, <2>5, <2>6, <2>7, <2>8
    DEF Next, Serve, vars, Upsert, Lookup, Begin, LockTimeout, Read, Mismatch,
        Write, Break
<1> QED
  BY <1>2, <1>3

\* A commit leaves a row whose layout has a place for all that is counted in it.
LEMMA RowStep ==
  ASSUME IInv, [Next]_vars
  PROVE  RowInv'
<1>1. RowInv /\ rows \in [Key -> Row]
  BY DEF IInv, TypeOK
<1>2. CASE \E w \in Worker : Write(w)
  <2>1. PICK w \in Worker : Write(w)
    BY <1>2
  <2>2. PICK j \in Key : j = Target(w)
    BY <2>1, WriteEffect
  <2>3. PICK r \in Request : r = job[w]
    BY <2>1, WriteEffect
  <2>4. /\ \A k \in Key \ {j} : rows'[k] = rows[k]
        /\ rows'[j].size = size[w] /\ rows[j].size \in {0, size[w]}
        /\ \A s \in Request :
             rows'[j].applied[s] = rows[j].applied[s] + (IF s = r THEN 1 ELSE 0)
    BY <2>1, <2>2, <2>3, WriteEffect
  <2>5. size[w] \in Nat /\ \A s \in States(r) : s < size[w]
    BY <2>1, <2>3 DEF IInv, TypeOK, StageInv, Write
  <2>6. size[w] # 0
    <3>1. Payload[r].from < size[w] /\ Payload[r].from \in Int /\ Payload[r].from >= 0
      <4>1. WellFormed(r) /\ Ingests(r)
        BY <2>1, <2>3 DEF IInv, StageInv, Write
      <4> QED
        BY <2>5, <4>1, PayloadAssumption DEF WellFormed, Ingests, States, Payloads
    <3> QED
      BY <2>5, <3>1
  <2>7. \A k \in Key : rows'[k].size = 0 => rows'[k] = NoRow
    BY <1>1, <2>4, <2>6 DEF RowInv
  <2>8. ASSUME NEW k \in Key, NEW s \in Request, rows'[k].applied[s] > 0
        PROVE  \A t \in States(s) : t < rows'[k].size
    <3>1. CASE k # j
      BY <1>1, <2>4, <2>8, <3>1 DEF RowInv, StatesFitLayout
    <3>2. CASE k = j /\ s = r
      BY <2>4, <2>5, <3>2
    <3>3. CASE k = j /\ s # r
      <4>1. rows[j].applied[s] > 0
        BY <1>1, <2>4, <2>8, <3>3 DEF Row
      <4>2. rows[j].size # 0
        BY <1>1, <4>1, RowTypes DEF RowInv
      <4> QED
        BY <1>1, <2>4, <3>3, <4>1, <4>2 DEF RowInv, StatesFitLayout
    <3> QED
      BY <3>1, <3>2, <3>3
  <2>9. StatesFitLayout'
    BY <2>8 DEF StatesFitLayout, States
  <2> QED
    BY <2>7, <2>9 DEF RowInv
<1>3. CASE ~\E w \in Worker : Write(w)
  <2>1. rows' = rows
    BY <1>3 DEF Next, Serve, vars, Receive, Upsert, Lookup, Begin, LockTimeout,
                Read, Mismatch, Break, Reply, Crash
  <2> QED
    BY <1>1, <2>1 DEF RowInv, StatesFitLayout, States
<1> QED
  BY <1>2, <1>3

-----------------------------------------------------------------------------
LEMMA InitInv == Init => IInv
<1> SUFFICES ASSUME Init PROVE IInv
  OBVIOUS
<1> USE PayloadAssumption, RowTypes DEF Init
<1>1. TypeOK
  BY DEF TypeOK, Answers
<1>2. LockInv /\ JobInv
  BY DEF LockInv, JobInv
<1>3. \A w \in Worker : StageInv(w) /\ ProgressInv(w)
  BY DEF StageInv, ProgressInv
<1>4. ASSUME NEW r \in Request
      PROVE  RequestInv(r)
  <2>1. \A q \in Quarter : Credited(r, q) = 0
    BY Keys DEF Credited
  <2>2. CountedBefore(r, FirstQuarter)
    BY <2>1 DEF CountedBefore, Quarter
  <2>3. FirstQuarter \in FirstQuarter..(LastQuarter + 1)
    OBVIOUS
  <2> QED
    BY <2>1, <2>2, <2>3 DEF RequestInv, Uncounted
<1>5. RowInv
  BY DEF RowInv, StatesFitLayout
<1> QED
  BY <1>1, <1>2, <1>3, <1>4, <1>5 DEF IInv

LEMMA NextInv == IInv /\ [Next]_vars => IInv'
  BY TypeStep, LockStep, JobStep, StageStep, ProgressStep, RequestStep, RowStep
  DEF IInv

\* IInv holds in every reachable state, for every number of workers, requests,
\* controls, models and quarters: the mutual exclusion of BEGIN IMMEDIATE, the
\* facts each handler relies on between two statements, and how far every
\* request has been counted (ingest.py:75-200, storage.py:170-212).
THEOREM Invariant == Spec => []IInv
  BY InitInv, NextInv, PTL DEF Spec

\* The variables range over their types in every reachable state.
THEOREM TypeCorrect == Spec => []TypeOK
  BY Invariant, PTL DEF IInv

\* What a client is told matches what has been counted of its request, through
\* every interleaving, time-out, failure and crash of the quarter by quarter
\* commits of ingest.py:94-141.
THEOREM AnswersAreTrue == Spec => []AnswersMatchCredit
<1>1. ASSUME IInv
      PROVE  AnswersMatchCredit
  <2> SUFFICES ASSUME NEW r \in Request
               PROVE  /\ answer[r] = "accepted" => \A q \in Span(r) : Credited(r, q) = 1
                      /\ answer[r] = "rejected" => \A q \in Quarter : Credited(r, q) = 0
                      /\ \A p, q \in Quarter :
                           p \in Span(r) /\ p < q /\ Credited(r, q) = 1
                             => Credited(r, p) = 1
    BY DEF AnswersMatchCredit
  <2>1. RequestInv(r)
    BY <1>1 DEF IInv
  <2>2. answer[r] = "accepted" => \A q \in Span(r) : Credited(r, q) = 1
    BY <2>1 DEF RequestInv, CountedFully
  <2>3. answer[r] = "rejected" => \A q \in Quarter : Credited(r, q) = 0
    BY <2>1 DEF RequestInv, Uncounted
  <2>4. ASSUME NEW p \in Quarter, NEW q \in Quarter,
               p \in Span(r), p < q, Credited(r, q) = 1
        PROVE  Credited(r, p) = 1
    <3>1. PICK n \in FirstQuarter..(LastQuarter + 1) : CountedBefore(r, n)
      BY <2>1 DEF RequestInv
    <3>2. q < n
      BY <2>4, <3>1 DEF CountedBefore
    <3>3. p < n
      BY <2>4, <3>2, PayloadAssumption DEF Quarter
    <3> QED
      BY <2>4, <3>1, <3>3 DEF CountedBefore
  <2> QED
    BY <2>2, <2>3, <2>4
<1> QED
  BY <1>1, Invariant, PTL

\* No counter is ever written outside the layout of its row, whatever is
\* redeclared between get_control and BEGIN IMMEDIATE (storage.py:189-193).
THEOREM LayoutsFit == Spec => []StatesFitLayout
<1>1. IInv => StatesFitLayout
  BY DEF IInv, RowInv
<1> QED
  BY <1>1, Invariant, PTL

\* An event that leaves the calendar leaves no trace (ingest.py:92, 160).
THEOREM OffCalendar == Spec => []OffCalendarUncounted
<1>1. IInv => OffCalendarUncounted
  BY DEF IInv, RequestInv, Uncounted, OffCalendarUncounted
<1> QED
  BY <1>1, Invariant, PTL

\* No update is lost: the layout of a row is fixed when it is created and its
\* counts never decrease (storage.py:170-212).
THEOREM NoLostUpdate == Spec => RowsOnlyGrow
<1> DEFINE Grow(k) == /\ rows[k].size # 0 => rows'[k].size = rows[k].size
                      /\ \A r \in Request : rows'[k].applied[r] >= rows[k].applied[r]
<1>1. ASSUME IInv, [Next]_vars
      PROVE  [\A k \in Key : Grow(k)]_rows
  <2>1. CASE \E w \in Worker : Write(w)
    <3>1. PICK w \in Worker : Write(w)
      BY <2>1
    <3>2. PICK j \in Key : j = Target(w)
      BY <1>1, <3>1, WriteEffect
    <3>3. /\ \A k \in Key \ {j} : rows'[k] = rows[k]
          /\ rows'[j].size = size[w] /\ rows[j].size \in {0, size[w]}
          /\ \A s \in Request :
               rows'[j].applied[s] = rows[j].applied[s] + (IF s = job[w] THEN 1 ELSE 0)
      BY <1>1, <3>1, <3>2, WriteEffect
    <3>4. \A k \in Key, s \in Request : rows[k].applied[s] \in Nat
      BY <1>1 DEF IInv, TypeOK, Row
    <3> QED
      BY <3>3, <3>4
  <2>2. CASE ~\E w \in Worker : Write(w)
    BY <1>1, <2>2 DEF Next, Serve, vars, Receive, Upsert, Lookup, Begin,
                      LockTimeout, Read, Mismatch, Break, Reply, Crash
  <2> QED
    BY <2>1, <2>2
<1> QED
  BY <1>1, Invariant, PTL DEF Spec, RowsOnlyGrow

\* A lock that a request is refused for belongs to a transaction in progress
\* (storage.py:176, 205-212).
THEOREM RefusalsHaveReasons == Spec => BusyForAReason
<1> DEFINE Reason(w) == pc[w] \in {"upsert", "begin"} /\ pc'[w] = "busy"
                          => \E v \in Worker \ {w} : pc[v] \in {"read", "write"}
<1>1. ASSUME IInv, [Next]_vars
      PROVE  [\A w \in Worker : Reason(w)]_vars
  <2>1. ASSUME NEW w \in Worker, LockTimeout(w)
        PROVE  Reason(w)
    <3>1. writer \in Worker /\ pc[writer] \in {"read", "write"}
      BY <1>1, <2>1 DEF IInv, TypeOK, LockInv, LockTimeout
    <3> QED
      BY <2>1, <3>1 DEF LockTimeout
  <2>2. ASSUME NEW w \in Worker, ~LockTimeout(w)
        PROVE  Reason(w)
    BY <1>1, <2>2 DEF IInv, TypeOK, Next, Serve, vars, Receive, Upsert, Lookup, Begin,
       LockTimeout, Read, Mismatch, Write, Break, Reply, Crash, Goto, Finish
  <2> QED
    BY <2>1, <2>2
<1> QED
  BY <1>1, Invariant, PTL DEF Spec, BusyForAReason

\* With one connection nobody waits for the write lock: it is free whenever a
\* handler asks for it (storage.py:176, 206-212).
THEOREM OneWorkerNeverBusy ==
  ASSUME \A v, w \in Worker : v = w
  PROVE  Spec => []NeverBusy
<1> DEFINE Calm == NeverBusy /\ \A w \in Worker : pc[w] # "busy"
<1>1. Init => Calm
  BY DEF Init, NeverBusy
<1>2. ASSUME IInv, Calm, [Next]_vars
      PROVE  Calm'
  <2>1. \A w \in Worker : ~LockTimeout(w)
    BY <1>2 DEF IInv, TypeOK, LockInv, LockTimeout
  <2> QED
    BY <1>2, <2>1 DEF IInv, TypeOK, JobInv, Next, Serve, vars, NeverBusy, Receive,
       Upsert, Lookup, Begin, Read, Mismatch, Write, Break, Reply, Crash, Goto, Finish
<1>3. Calm => NeverBusy
  OBVIOUS
<1> QED
  BY <1>1, <1>2, <1>3, Invariant, PTL DEF Spec

-----------------------------------------------------------------------------
\* The ledger's view of the database and of the answers.
CreditMap == [r \in Request |-> [q \in Quarter |-> Credited(r, q)]]
VerdictMap == [r \in Request |->
                 IF answer[r] \in {"busy", "mismatch", "error"} THEN "failed"
                                                                ELSE answer[r]]

\* A commit is the ledger's Credit of the next quarter.
LEMMA WriteIsCredit ==
  ASSUME IInv, NEW w \in Worker, Write(w), [Next]_vars
  PROVE  Ledger!LedgerNext
<1>1. PICK r \in Request : r = job[w]
  BY WriteEffect
<1>2. PICK n \in Quarter : n = at[w]
  BY WriteEffect
<1>3. /\ n \in Span(r) /\ n \in Int
      /\ \A s \in Request, q \in Quarter :
           Credited(s, q)' = Credited(s, q) + (IF s = r /\ q = n THEN 1 ELSE 0)
  BY <1>1, <1>2, WriteEffect, PayloadAssumption DEF Quarter
<1>4. CountedBefore(r, n) /\ Datable(r) /\ answer[r] = "none" /\ answer' = answer
  BY <1>1, <1>2 DEF Write, IInv, ProgressInv, StageInv, JobInv
<1>5. \A s \in Request, q \in Quarter : Credited(s, q) \in Nat
  BY Keys DEF IInv, TypeOK, Credited, Row
<1>6. VerdictMap[r] = "none" /\ VerdictMap' = VerdictMap
  BY <1>4 DEF VerdictMap
<1>7. Credited(r, n) = 0 /\ CreditMap[r][n] = 0
  BY <1>3, <1>4 DEF CountedBefore, CreditMap
<1>8. ASSUME NEW p \in Span(r), p < n
      PROVE  CreditMap[r][p] = 1
  <2>1. p \in Quarter
    BY <1>4, <1>8, Spans, PayloadAssumption DEF Datable, Quarter
  <2> QED
    BY <1>4, <1>8, <2>1 DEF CountedBefore, CreditMap
<1>9. CreditMap' = [CreditMap EXCEPT ![r][n] = 1]
  <2>1. ASSUME NEW s \in Request, NEW q \in Quarter
        PROVE  CreditMap'[s][q] = [CreditMap EXCEPT ![r][n] = 1][s][q]
    BY <1>3, <1>5, <1>7 DEF CreditMap
  <2> QED
    BY <2>1 DEF CreditMap
<1>10. Ledger!Credit(r, n)
  BY <1>3, <1>6, <1>7, <1>8, <1>9
  DEF Ledger!Credit, Ledger!Span, Span, CreditMap, VerdictMap
<1> QED
  BY <1>10 DEF Ledger!LedgerNext

\* Giving answers, one or several at once, is the ledger's Answer.
LEMMA AnsweringIsAnswer ==
  ASSUME IInv, IInv', rows' = rows,
         \A r \in Request : answer'[r] # answer[r] =>
           /\ answer[r] = "none" /\ answer'[r] # "none"
           /\ answer'[r] = "accepted" => CountedFully(r)
           /\ answer'[r] = "rejected" => Uncounted(r)
  PROVE  Ledger!Answer
<1>1. CreditMap' = CreditMap
  BY DEF CreditMap, Credited
<1>2. VerdictMap' \in [Request -> Ledger!Verdicts]
  BY DEF VerdictMap, Ledger!Verdicts, IInv, TypeOK, Answers
<1>3. ASSUME NEW r \in Request, VerdictMap'[r] # VerdictMap[r]
      PROVE  VerdictMap[r] = "none" /\ Ledger!Permitted(r, VerdictMap'[r])
  <2>1. answer'[r] # answer[r]
    BY <1>3 DEF VerdictMap
  <2>2. VerdictMap[r] = "none" /\ VerdictMap'[r] # "none"
    BY <2>1 DEF VerdictMap
  <2>3. VerdictMap'[r] = "accepted" => \A q \in Span(r) : CreditMap[r][q] = 1
    BY <2>1 DEF VerdictMap, CreditMap, CountedFully
  <2>4. VerdictMap'[r] = "rejected" => \A q \in Quarter : CreditMap[r][q] = 0
    BY <2>1 DEF VerdictMap, CreditMap, Uncounted
  <2> QED
    BY <1>2, <2>2, <2>3, <2>4
    DEF Ledger!Permitted, Ledger!Span, Span, CreditMap, VerdictMap
<1> QED
  BY <1>1, <1>2, <1>3 DEF Ledger!Answer, CreditMap, VerdictMap

\* The write path implements the ledger: clients see quarters credited once,
\* in order and atomically, and answers that match, whatever the workers, the
\* lock, the failures and the crashes do (ingest.py, storage.py:170-212).
THEOREM Refinement == Spec => ImplementsLedger
<1>1. Init => Ledger!LedgerInit
  <2> SUFFICES ASSUME Init PROVE Ledger!LedgerInit
    OBVIOUS
  <2>1. \A r \in Request, q \in Quarter : Credited(r, q) = 0
    BY Keys, RowTypes DEF Init, Credited
  <2> QED
    BY <2>1 DEF Init, Ledger!LedgerInit
<1>2. ASSUME IInv, IInv', [Next]_vars
      PROVE  [Ledger!LedgerNext]_(Ledger!ledgerVars)
  <2>1. CASE \E w \in Worker : Write(w)
    BY <1>2, <2>1, WriteIsCredit
  <2>2. CASE \E w \in Worker : Reply(w)
    <3>1. PICK w \in Worker : Reply(w)
      BY <2>2
    <3>2. PICK r \in Request : r = job[w]
      BY <1>2, <3>1 DEF Reply, IInv, TypeOK, JobInv
    <3>3. rows' = rows /\ answer' = [answer EXCEPT ![r] = pc[w]] /\ pc[w] \in Outcomes
      BY <3>1, <3>2 DEF Reply
    <3>4. /\ answer[r] = "none"
          /\ pc[w] = "accepted" => CountedFully(r)
          /\ pc[w] = "rejected" => Uncounted(r)
      BY <1>2, <3>2, <3>3 DEF IInv, JobInv, ProgressInv
    <3>5. Ledger!Answer
      BY <1>2, <3>3, <3>4, AnsweringIsAnswer DEF IInv, TypeOK
    <3> QED
      BY <3>5 DEF Ledger!LedgerNext
  <2>3. CASE Crash
    <3>1. \A r \in Request : answer'[r] # answer[r] =>
                               answer[r] = "none" /\ answer'[r] = "lost"
      BY <1>2, <2>3, PayloadAssumption DEF Crash, InFlight, IInv, TypeOK, JobInv
    <3>2. Ledger!Answer
      BY <1>2, <2>3, <3>1, AnsweringIsAnswer DEF Crash
    <3> QED
      BY <3>2 DEF Ledger!LedgerNext
  <2>4. CASE rows' = rows /\ answer' = answer
    BY <2>4 DEF Ledger!ledgerVars, Credited
  <2> QED
    BY <1>2, <2>1, <2>2, <2>3, <2>4
    DEF Next, Serve, vars, Receive, Upsert, Lookup, Begin, LockTimeout, Read,
        Mismatch, Break
<1> QED
  BY <1>1, <1>2, Invariant, PTL DEF Spec, ImplementsLedger, Ledger!LedgerSpec

-----------------------------------------------------------------------------
(***************************************************************************)
(* Where state counts come from: every num_states in use, in the controls  *)
(* table, in a handler and in the layout of a row, was once declared.      *)
(***************************************************************************)
Declared(c, n) == n \in MinStates..MaxStates /\ DeclaredAs(c, n)

Twice(c) ==
  \E m, n \in MinStates..MaxStates : m # n /\ DeclaredAs(c, m) /\ DeclaredAs(c, n)

ControlOrigin == \A c \in Control : controls[c] # 0 => Declared(c, controls[c])

JobOrigin(w) ==
  /\ pc[w] \in {"begin", "read", "write"} =>
       /\ controls[Payload[job[w]].ctl] # 0
       /\ Declared(Payload[job[w]].ctl, size[w])
  /\ pc[w] = "mismatch" => Twice(Payload[job[w]].ctl)

RowOrigin == \A k \in Key : rows[k].size # 0 => Declared(k[1], rows[k].size)

AnswerOrigin == \A r \in Request : answer[r] = "mismatch" => Twice(Payload[r].ctl)

Origin == /\ ControlOrigin
          /\ \A w \in Worker : JobOrigin(w)
          /\ RowOrigin
          /\ AnswerOrigin

\* What has been declared stays declared.
LEMMA DeclaredStep ==
  ASSUME IInv, [Next]_vars, NEW c
  PROVE  /\ \A n : Declared(c, n) => Declared(c, n)'
         /\ Twice(c) => Twice(c)'
<1>1. ASSUME NEW d \in Request, MayHaveRun(d)
      PROVE  MayHaveRun(d)'
  <2> USE DEF IInv, TypeOK, JobInv, MayHaveRun, Goto, Finish
  <2>1. ASSUME NEW w \in Worker, Reply(w)
        PROVE  MayHaveRun(d)'
    BY <1>1, <2>1 DEF Reply
  <2>2. ASSUME Crash
        PROVE  MayHaveRun(d)'
    BY <1>1, <2>2 DEF Crash, InFlight
  <2>3. ASSUME answer' = answer,
               \A w \in Worker : pc[w] = "accepted" =>
                                   pc'[w] = "accepted" /\ job'[w] = job[w]
        PROVE  MayHaveRun(d)'
    BY <1>1, <2>3
  <2>4. ASSUME NEW w \in Worker, NEW r \in Request, Receive(w, r)
        PROVE  MayHaveRun(d)'
    BY <2>3, <2>4 DEF Receive
  <2>5. ASSUME NEW w \in Worker, Upsert(w) \/ Lookup(w) \/ Begin(w) \/ LockTimeout(w)
        PROVE  MayHaveRun(d)'
    BY <2>3, <2>5 DEF Upsert, Lookup, Begin, LockTimeout
  <2>6. ASSUME NEW w \in Worker, Read(w) \/ Mismatch(w) \/ Write(w) \/ Break(w)
        PROVE  MayHaveRun(d)'
    BY <2>3, <2>6 DEF Read, Mismatch, Write, Break
  <2>7. CASE UNCHANGED vars
    BY <2>3, <2>7 DEF vars
  <2> QED
    BY <2>1, <2>2, <2>4, <2>5, <2>6, <2>7 DEF Next, Serve
<1>2. ASSUME NEW n, DeclaredAs(c, n)
      PROVE  DeclaredAs(c, n)'
  BY <1>1, <1>2 DEF DeclaredAs
<1> QED
  BY <1>2 DEF Declared, Twice

\* The origin of the state counts survives every step.
LEMMA OriginStep ==
  ASSUME IInv, Origin, [Next]_vars
  PROVE  Origin'
<1> USE DEF IInv, TypeOK, Goto, Finish
<1>1. ASSUME NEW w \in Worker, pc[w] # "idle"
      PROVE  job[w] \in Request /\ Payload[job[w]].ctl \in Control
  BY <1>1, PayloadAssumption DEF JobInv, Payloads
<1>2. ASSUME NEW c \in Control
      PROVE  /\ controls'[c] # 0 => \A n : n = controls'[c] => Declared(c, n)'
             /\ controls[c] # 0 => controls'[c] # 0
  <2>1. CASE controls'[c] = controls[c]
    BY <2>1, DeclaredStep DEF Origin, ControlOrigin
  <2>2. CASE \E w \in Worker : Upsert(w) /\ Payload[job[w]].ctl = c
    <3>1. PICK w \in Worker : Upsert(w) /\ Payload[job[w]].ctl = c
      BY <2>2
    <3>2. PICK d \in Request : d = job[w]
      BY <1>1, <3>1 DEF Upsert
    <3>3. PICK n \in MinStates..MaxStates : n = Payload[d].size
      BY <3>1, <3>2 DEF Upsert, StageInv, WellFormed
    <3>4. controls'[c] = n /\ n # 0
      BY <3>1, <3>2, <3>3 DEF Upsert, MinStates, MaxStates
    <3>5. MayHaveRun(d)' /\ Payload[d].kind = "control" /\ Payload[d].ctl = c
      BY <3>1, <3>2 DEF Upsert, StageInv, MayHaveRun
    <3>6. Declared(c, n)'
      BY <3>3, <3>5 DEF Declared, DeclaredAs
    <3> QED
      BY <3>4, <3>6
  <2>3. controls' = controls \/ \E w \in Worker : Upsert(w)
    BY DEF Next, Serve, vars, Receive, Lookup, Begin, LockTimeout, Read,
           Mismatch, Write, Break, Reply, Crash
  <2> QED
    BY <2>1, <2>2, <2>3 DEF Upsert
<1>3. ControlOrigin'
  BY <1>2 DEF ControlOrigin, Declared, DeclaredAs
<1>4. ASSUME NEW v \in Worker, pc'[v] \in {"begin", "read", "write"}
      PROVE  /\ controls'[Payload[job'[v]].ctl] # 0
             /\ \A e, n : e = Payload[job'[v]].ctl /\ n = size'[v] => Declared(e, n)'
  <2> DEFINE c == Payload[job[v]].ctl
  <2>1. /\ pc[v] \in {"lookup", "begin", "read", "write"}
        /\ job'[v] = job[v]
        /\ size'[v] = size[v] \/ (Lookup(v) /\ size'[v] = controls[c])
        /\ pc[v] = "lookup" => Lookup(v) /\ InRange(job[v])
    BY <1>4 DEF Next, Serve, vars, Receive, Upsert, Lookup, Begin, LockTimeout,
                Read, Mismatch, Write, Break, Reply, Crash
  <2>2. CASE Lookup(v)
    <3>1. pc[v] = "lookup" /\ InRange(job[v]) /\ size'[v] = controls[c]
      BY <1>4, <2>2 DEF Lookup
    <3>2. job[v] \in Request /\ c \in Control
      BY <1>1, <3>1
    <3>3. WellFormed(job[v]) /\ Ingests(job[v])
      BY <3>1 DEF StageInv
    <3>4. Payload[job[v]].from >= 0 /\ Payload[job[v]].from < controls[c]
      BY <3>1, <3>2, <3>3 DEF WellFormed, Ingests, InRange, States
    <3>5. controls[c] # 0
      BY <3>2, <3>4, PayloadAssumption DEF Payloads
    <3>6. PICK e \in Control : e = c
      BY <3>2
    <3>7. PICK n : n = controls[c]
      OBVIOUS
    <3>8. Declared(e, n)' /\ controls'[e] # 0
      BY <1>2, <3>5, <3>6, <3>7, DeclaredStep DEF Origin, ControlOrigin
    <3>9. Payload[job'[v]].ctl = e /\ size'[v] = n
      BY <2>1, <3>1, <3>6, <3>7
    <3> QED
      BY <3>8, <3>9
  <2>3. CASE ~Lookup(v)
    <3>1. pc[v] \in {"begin", "read", "write"} /\ size'[v] = size[v]
      BY <2>1, <2>3
    <3>2. PICK e \in Control : e = c
      BY <1>1, <3>1
    <3>3. PICK n : n = size[v]
      OBVIOUS
    <3>4. Declared(e, n)' /\ controls'[e] # 0
      BY <1>2, <3>1, <3>2, <3>3, DeclaredStep DEF Origin, JobOrigin
    <3>5. Payload[job'[v]].ctl = e /\ size'[v] = n
      BY <2>1, <3>1, <3>2, <3>3
    <3> QED
      BY <3>4, <3>5
  <2> QED
    BY <2>2, <2>3
<1>5. ASSUME NEW v \in Worker, pc'[v] = "mismatch"
      PROVE  \A c \in Control : c = Payload[job'[v]].ctl => Twice(c)'
  <2>1. job'[v] = job[v] /\ (pc[v] = "mismatch" \/ Mismatch(v))
    BY <1>5 DEF Next, Serve, vars, Receive, Upsert, Lookup, Begin, LockTimeout,
                Read, Write, Mismatch, Break, Reply, Crash
  <2>2. CASE Mismatch(v)
    <3>1. PICK c \in Control : c = Payload[job[v]].ctl
      BY <1>1, <2>2 DEF Mismatch
    <3>2. /\ controls[c] # 0 /\ Declared(c, size[v])
          /\ rows[Target(v)].size # 0 /\ rows[Target(v)].size # size[v]
      BY <2>2, <3>1 DEF Mismatch, Origin, JobOrigin, Usable
    <3>3. Target(v) \in Key /\ Target(v)[1] = c
      BY <2>2, <3>1, TargetInKey DEF Mismatch, Target, KeyOf
    <3>4. Declared(c, rows[Target(v)].size)
      BY <3>2, <3>3 DEF Origin, RowOrigin
    <3>5. Twice(c)
      BY <3>2, <3>4 DEF Twice, Declared
    <3> QED
      BY <2>1, <3>1, <3>5, DeclaredStep
  <2>3. CASE pc[v] = "mismatch"
    BY <2>1, <2>3, DeclaredStep DEF Origin, JobOrigin
  <2> QED
    BY <2>1, <2>2, <2>3
<1>6. ASSUME NEW v \in Worker
      PROVE  JobOrigin(v)'
  <2>1. pc'[v] = "mismatch" => Payload[job'[v]].ctl \in Control
    <3>1. pc'[v] = "mismatch" => job'[v] \in Request
      BY <1>1 DEF Next, Serve, vars, Receive, Upsert, Lookup, Begin, LockTimeout,
                Read, Write, Mismatch, Break, Reply, Crash
    <3> QED
      BY <3>1, PayloadAssumption DEF Payloads
  <2>2. pc'[v] = "mismatch" => Twice(Payload[job[v]].ctl)'
    BY <1>5, <2>1 DEF Twice, DeclaredAs
  <2>3. pc'[v] \in {"begin", "read", "write"} => Declared(Payload[job[v]].ctl, size[v])'
    BY <1>4 DEF Declared, DeclaredAs
  <2> QED
    BY <1>4, <2>2, <2>3 DEF JobOrigin
<1>7. ASSUME NEW k \in Key, rows'[k].size # 0
      PROVE  \A n : n = rows'[k].size => Declared(k[1], n)'
  <2> SUFFICES ASSUME NEW n, n = rows'[k].size
               PROVE  Declared(k[1], n)'
    OBVIOUS
  <2>1. n = rows'[k].size
    OBVIOUS
  <2>2. CASE rows'[k] = rows[k]
    <3>1. Declared(k[1], n)
      BY <1>7, <2>1, <2>2 DEF Origin, RowOrigin
    <3> QED
      BY <3>1, DeclaredStep
  <2>3. CASE \E w \in Worker : Write(w) /\ Target(w) = k
    <3>1. PICK w \in Worker : Write(w) /\ Target(w) = k
      BY <2>3
    <3>2. n = size[w] /\ pc[w] = "write" /\ k[1] = Payload[job[w]].ctl
      BY <2>1, <3>1, WriteEffect DEF Write, Target, KeyOf
    <3>3. Declared(Payload[job[w]].ctl, size[w])
      BY <3>2 DEF Origin, JobOrigin
    <3>4. Declared(k[1], n)
      BY <3>2, <3>3
    <3> QED
      BY <3>4, DeclaredStep
  <2>4. rows' = rows \/ \E w \in Worker : Write(w)
    BY DEF Next, Serve, vars, Receive, Upsert, Lookup, Begin, LockTimeout, Read,
           Mismatch, Break, Reply, Crash
  <2> QED
    BY <2>2, <2>3, <2>4, WriteEffect
<1>8. ASSUME NEW r \in Request, answer'[r] = "mismatch"
      PROVE  Twice(Payload[r].ctl)'
  <2>1. \/ answer[r] = "mismatch"
        \/ \E w \in Worker : job[w] = r /\ pc[w] = "mismatch"
    BY <1>8 DEF Next, Serve, vars, Receive, Upsert, Lookup, Begin, LockTimeout,
                Read, Write, Mismatch, Break, Reply, Crash
  <2>2. PICK c : c = Payload[r].ctl
    OBVIOUS
  <2>3. Twice(c)
    BY <2>1, <2>2 DEF Origin, JobOrigin, AnswerOrigin
  <2>4. Twice(c)'
    BY <2>3, DeclaredStep
  <2> QED
    BY <2>2, <2>4
<1>9. RowOrigin'
  BY <1>7 DEF RowOrigin, Declared, DeclaredAs
<1> QED
  BY <1>3, <1>6, <1>8, <1>9 DEF Origin, AnswerOrigin

\* "aggregate blob size mismatch" (storage.py:190-192) never comes out of the
\* blue: the control has been declared with two different state counts.
THEOREM MismatchExplained == Spec => []MismatchNeedsRedeclaration
<1>1. Init => Origin
  BY RowTypes, PayloadAssumption
  DEF Init, Origin, ControlOrigin, JobOrigin, RowOrigin, AnswerOrigin
<1>2. IInv /\ Origin /\ [Next]_vars => Origin'
  BY OriginStep
<1>3. Origin => MismatchNeedsRedeclaration
  BY DEF Origin, AnswerOrigin, Twice, MismatchNeedsRedeclaration
<1> QED
  BY <1>1, <1>2, <1>3, Invariant, PTL DEF Spec

=============================================================================
