--------------------------- MODULE ValidationFlow ---------------------------
(***************************************************************************)
(* The asset testing_api_snapshot_validation (assets.py): a run resets a   *)
(* test database, fills it with two controls and an event of each, exports *)
(* it and counts the snapshot's rows.  All runs use the same test and the  *)
(* same snapshot name.                                                     *)
(*                                                                         *)
(* The testing API serves its connections one after the other.  A client   *)
(* that gives up leaves its request in the server's backlog.               *)
(***************************************************************************)
EXTENDS Integers, Sequences, FiniteSets

CONSTANTS
  Run,        \* runs of the asset, numbered in the order of their launches
  MaxFaults   \* bound on internal errors, crashes and unreadable snapshots

ASSUME FlowAssumption == Run \subseteq Nat /\ MaxFaults \in Nat

Control == {"c1", "c2"}

\* The requests of a run, in this order.
Flow == << [op |-> "reset"],
           [op |-> "control", of |-> "c1"], [op |-> "control", of |-> "c2"],
           [op |-> "holding", of |-> "c1"], [op |-> "holding", of |-> "c2"],
           [op |-> "snapshot"] >>

\* What the test database and the snapshot hold: the controls, and for each
\* the runs whose event its row has counted.
Contents == [controls : SUBSET Control, counted : [Control -> SUBSET Run]]
Empty == [controls |-> {}, counted |-> [c \in Control |-> {}]]

VARIABLES
  db,       \* the test database
  snap,     \* the snapshot
  queue,    \* the server's backlog: pairs of a run and the number of its request
  up,       \* is the server there?
  step,     \* step[r]: the request r is at
  phase,    \* phase[r]: what r does, or how it ended
  answer,   \* answer[r]: the answer on its way to r
  seen,     \* seen[r]: the snapshot r has read
  with,     \* with[r]: runs that were active while r was
  faults    \* faults so far

vars == <<db, snap, queue, up, step, phase, answer, seen, with, faults>>

Active == {r \in Run : phase[r] \in {"send", "wait", "read"}}
Ended == {"success", "failure", "error"}

TypeOK ==
  /\ db \in Contents /\ snap \in Contents
  /\ queue \in Seq(Run \X (1..Len(Flow))) /\ up \in BOOLEAN
  /\ step \in [Run -> 1..Len(Flow)]
  /\ phase \in [Run -> {"idle", "send", "wait", "read"} \cup Ended]
  /\ answer \in [Run -> {"none", "ok", "refused"}]
  /\ seen \in [Run -> Contents] /\ with \in [Run -> SUBSET Run]
  /\ faults \in 0..MaxFaults

Init ==
  /\ db = Empty /\ snap = Empty /\ queue = <<>> /\ up = TRUE
  /\ step = [r \in Run |-> 1] /\ phase = [r \in Run |-> "idle"]
  /\ answer = [r \in Run |-> "none"]
  /\ seen = [r \in Run |-> Empty] /\ with = [r \in Run |-> {}]
  /\ faults = 0

Turn(r, new) == phase' = [phase EXCEPT ![r] = new]
Fault == faults < MaxFaults /\ faults' = faults + 1

-----------------------------------------------------------------------------
(* The server.                                                             *)

\* Mutant: a control replaces the others.
EffectReplacing(r, request) ==
  IF request.op = "reset" THEN Empty
  ELSE IF request.op = "control" THEN [db EXCEPT !.controls = {request.of}]
  ELSE IF request.op = "holding" THEN [db EXCEPT !.counted[request.of] = @ \cup {r}]
  ELSE db

\* The database after a request that is carried out.
Effect(r, request) ==
  IF request.op = "reset" THEN Empty
  ELSE IF request.op = "control" THEN [db EXCEPT !.controls = @ \cup {request.of}]
  ELSE IF request.op = "holding" THEN [db EXCEPT !.counted[request.of] = @ \cup {r}]
  ELSE db

\* An event of a control that is not declared is refused.
Unknown(request) == request.op = "holding" /\ request.of \notin db.controls

\* Mutant: requests are served in any order.
NextInAnyOrder == 1..Len(queue)

\* The backlog is served in the order of the connections.
NextInLine == {i \in 1..Len(queue) : i = 1}

Reply(r, n, a) ==
  answer' = IF phase[r] = "wait" /\ step[r] = n THEN [answer EXCEPT ![r] = a] ELSE answer

Handle(i) ==
  LET r == queue[i][1]  n == queue[i][2]  request == Flow[n] IN
    /\ \/ /\ ~Unknown(request)
          /\ db' = Effect(r, request)
          /\ snap' = (IF request.op = "snapshot" THEN db ELSE snap)
          /\ Reply(r, n, "ok") /\ UNCHANGED faults
       \/ /\ Unknown(request) /\ Reply(r, n, "refused") /\ UNCHANGED <<db, snap, faults>>
       \/ /\ Fault /\ Reply(r, n, "refused") /\ UNCHANGED <<db, snap>>   \* internal error
    /\ queue' = SubSeq(queue, 1, i - 1) \o SubSeq(queue, i + 1, Len(queue))

Serve ==
  /\ up
  /\ \E i \in NextInLine : Handle(i)
  /\ UNCHANGED <<up, step, phase, seen, with>>

\* The clients in the backlog find their connection reset while they wait for
\* the answer: no URLError, so the run ends with an error.
Crash ==
  /\ up /\ Fault
  /\ up' = FALSE /\ queue' = <<>>
  /\ phase' = [r \in Run |-> IF phase[r] = "wait" /\ answer[r] = "none" THEN "error" ELSE phase[r]]
  /\ UNCHANGED <<db, snap, step, answer, seen, with>>

Restart == ~up /\ up' = TRUE /\ UNCHANGED <<db, snap, queue, step, phase, answer, seen, with, faults>>

-----------------------------------------------------------------------------
(* The runs.                                                               *)

Launch(r) ==
  /\ \A q \in Run : phase[q] = "idle" <=> q >= r
  /\ Turn(r, "send")
  /\ with' = [q \in Run |-> IF q = r THEN Active
                            ELSE IF q \in Active THEN with[q] \cup {r} ELSE with[q]]
  /\ UNCHANGED <<db, snap, queue, up, step, answer, seen, faults>>

\* _post_json; a connection that is refused is a URLError and a Failure.
Send(r) ==
  /\ phase[r] = "send"
  /\ \/ up /\ queue' = Append(queue, <<r, step[r]>>) /\ Turn(r, "wait")
     \/ ~up /\ Turn(r, "failure") /\ UNCHANGED queue
  /\ UNCHANGED <<db, snap, up, step, answer, seen, with, faults>>

\* Mutant: the request is sent once more.
TimeoutRetrying(r) ==
  /\ phase[r] = "wait" /\ answer[r] = "none"
  /\ Turn(r, "send")
  /\ UNCHANGED <<db, snap, queue, up, step, answer, seen, with, faults>>

\* After ten seconds the read of the answer raises TimeoutError, which is no
\* URLError; the request stays in the backlog.
Timeout(r) ==
  /\ phase[r] = "wait" /\ answer[r] = "none"
  /\ Turn(r, "error")
  /\ UNCHANGED <<db, snap, queue, up, step, answer, seen, with, faults>>

\* _require_status, and the next request or the snapshot.
Receive(r) ==
  /\ phase[r] = "wait" /\ answer[r] # "none"
  /\ answer' = [answer EXCEPT ![r] = "none"]
  /\ \/ answer[r] = "refused" /\ Turn(r, "failure") /\ UNCHANGED step
     \/ answer[r] = "ok" /\ step[r] < Len(Flow) /\ Turn(r, "send")
          /\ step' = [step EXCEPT ![r] = @ + 1]
     \/ answer[r] = "ok" /\ step[r] = Len(Flow) /\ Turn(r, "read") /\ UNCHANGED step
  /\ UNCHANGED <<db, snap, queue, up, seen, with, faults>>

Rows(contents) == {c \in Control : contents.counted[c] # {}}

\* The counts; a snapshot that is missing or unreadable is a Failure.
Read(r) ==
  /\ phase[r] = "read"
  /\ \/ /\ seen' = [seen EXCEPT ![r] = snap]
        /\ Turn(r, IF Cardinality(snap.controls) < 2 \/ Cardinality(Rows(snap)) < 2
                     THEN "failure" ELSE "success")
        /\ UNCHANGED faults
     \/ Fault /\ Turn(r, "failure") /\ UNCHANGED seen
  /\ UNCHANGED <<db, snap, queue, up, step, answer, with>>

Advance(r) == Send(r) \/ Receive(r) \/ Read(r)

AllEnded == (\A r \in Run : phase[r] \in Ended) /\ queue = <<>> /\ up /\ UNCHANGED vars

Next ==
  \/ Serve \/ Crash \/ Restart
  \/ \E r \in Run : Launch(r) \/ Advance(r) \/ Timeout(r)
  \/ AllEnded

Spec == Init /\ [][Next]_vars

-----------------------------------------------------------------------------
(* Properties.                                                             *)

\* A run that succeeds has read its own events and those of runs that were
\* active at the same time, although earlier runs may have given up and left
\* requests behind (assets.py:154-176); alone it has read exactly its own.
FlowIsolated ==
  \A r \in Run : phase[r] = "success" =>
    \A c \in Control :
      /\ seen[r].counted[c] \subseteq {r} \cup with[r]
      /\ with[r] = {} => seen[r].counted[c] = {r}

\* A run that fails has met a fault of the server or another run that was
\* active, not the leavings of an earlier one that gave up (assets.py:285).
NoFalseAlarm == \A r \in Run : phase[r] = "failure" => faults > 0 \/ with[r] # {}

\* The requests of r in the backlog.
Pending(r) == {i \in 1..Len(queue) : queue[i][1] = r}

\* At most one request of a run is on its way, in the backlog or as an answer,
\* and none of a run that has something else to do.
PendingInv(r) ==
  /\ phase[r] = "idle" => step[r] = 1
  /\ phase[r] \in {"idle", "send", "read"} => Pending(r) = {} /\ answer[r] = "none"
  /\ phase[r] = "read" => step[r] = Len(Flow)
  /\ phase[r] = "wait" => (Pending(r) = {}) = (answer[r] # "none")
  /\ \A i \in Pending(r) : phase[r] = "wait" => queue[i][2] = step[r]
  /\ \A i, j \in Pending(r) : i = j

\* The n-th request of r has been carried out.
Executed(r, n) == step[r] > n \/ (step[r] = n /\ (answer[r] = "ok" \/ phase[r] = "read"))

\* Whose events an active run may find.
Company(r) == {r} \cup with[r]

\* What runs that had given up before r was launched have left in the backlog
\* comes before r's reset; behind it, only r and its company act.
OrderInv(r) ==
  /\ \A i, j \in 1..Len(queue) : queue[i][1] = r /\ i < j => queue[j][1] \in Company(r)
  /\ Executed(r, 1) =>
       /\ \A i \in 1..Len(queue) : queue[i][1] \in Company(r)
       /\ \A c \in Control : db.counted[c] \subseteq Company(r)
  /\ Executed(r, 6) => \A c \in Control : snap.counted[c] \subseteq Company(r)

\* Alone, r finds what its requests have made, and meets no refusal.
AloneInv(r) ==
  with[r] = {} =>
    /\ answer[r] = "refused" => faults > 0
    /\ Executed(r, 2) => "c1" \in db.controls
    /\ Executed(r, 3) => "c2" \in db.controls
    /\ Executed(r, 4) => r \in db.counted["c1"]
    /\ Executed(r, 5) => r \in db.counted["c2"]
    /\ Executed(r, 6) => snap.controls = Control /\ \A c \in Control : r \in snap.counted[c]

\* The order of the connections is what keeps runs apart that follow each
\* other (assets.py:154-176).
IInv ==
  /\ TypeOK
  /\ faults = 0 => up
  /\ \A r \in Run : PendingInv(r)
  /\ \A q, r \in Active : q \in Company(r)
  /\ \A r \in Active : OrderInv(r) /\ AloneInv(r)
=============================================================================
