------------------------------- MODULE Ingest -------------------------------
(***************************************************************************)
(* The main API's write path: POST /v1/controls, /v1/holding-intervals and *)
(* /v1/transitions (app_factory.py), the orchestration in ingest.py and    *)
(* the SQLite transactions of storage.py.                                  *)
(*                                                                         *)
(* Several workers, each with a connection of its own, serve requests on   *)
(* one database: storage.py opens every connection in WAL mode with a busy *)
(* timeout "because both Flask servers and tests may open multiple         *)
(* short-lived connections to the same database".  Statements outside a    *)
(* transaction autocommit (isolation_level=None); a transaction is opened  *)
(* by BEGIN IMMEDIATE and takes the database's only write lock; readers    *)
(* outside it see the last commit and never wait.                          *)
(*                                                                         *)
(* Abstraction.  A counter of a row is a sum of independent increments, so *)
(* a row is its layout (the num_states it was built for) and, for every    *)
(* request, how often that request's event has been added to it.  Which    *)
(* counters an event touches is the subject of module Blob.                *)
(***************************************************************************)
EXTENDS Integers

CONSTANTS
  Worker,       \* connections that serve requests concurrently
  Request,      \* requests; a client's retry is another member with the same payload
  Control,      \* control ids
  Model,        \* model ids
  FirstQuarter, \* quarter of datetime.min, the first the calendar can express
  LastQuarter,  \* quarter of datetime.max: Q4 of year 9999
  QuarterOf(_), \* quarter index of a timestamp
  Payload,      \* Payload[r]: the JSON body of request r
  NoWorker,     \* the write lock is free
  NoRequest     \* the worker serves nobody

\* MIN_STATES and MAX_STATES of blob.py.
MinStates == 2
MaxStates == 10

Quarter == FirstQuarter..LastQuarter
Kinds == {"malformed", "control", "holding", "transition"}

\* The fields an endpoint does not have are there but never looked at: size
\* is a control's num_states; from is the state of a holding interval; a
\* transition happens at start.
Payloads == [kind : Kinds, ctl : Control, model : Model, size : Int,
             from : Int, to : Int, start : Int, end : Int]

ASSUME PayloadAssumption ==
  /\ FirstQuarter \in Int /\ LastQuarter \in Int /\ FirstQuarter <= LastQuarter
  /\ Payload \in [Request -> Payloads]
  /\ NoWorker \notin Worker
  /\ NoRequest \notin Request

\* Quarters follow the order of time.
ASSUME CalendarAssumption ==
  \A r \in Request :
    /\ QuarterOf(Payload[r].start) \in Int
    /\ QuarterOf(Payload[r].end - 1) \in Int
    /\ Payload[r].start < Payload[r].end
         => QuarterOf(Payload[r].start) <= QuarterOf(Payload[r].end - 1)

Ingests(r) == Payload[r].kind \in {"holding", "transition"}

States(r) == IF Payload[r].kind = "holding" THEN {Payload[r].from}
                                            ELSE {Payload[r].from, Payload[r].to}

\* The checks made before the database is opened; a failed one answers 400.
WellFormed(r) ==
  LET p == Payload[r] IN
  /\ p.kind # "malformed"
  /\ p.kind = "control" => p.size \in MinStates..MaxStates
  /\ p.kind = "holding" => p.from >= 0 /\ p.start < p.end
  /\ p.kind = "transition" => /\ p.from >= 0 /\ p.to >= 0 /\ p.from # p.to
                              /\ p.start >= 0

first == [r \in Request |-> QuarterOf(Payload[r].start)]

last == [r \in Request |->
           CASE Payload[r].kind = "holding"    -> QuarterOf(Payload[r].end - 1)
             [] Payload[r].kind = "transition" -> first[r]
             [] OTHER                          -> first[r] - 1]

\* The holding splitter computes the boundary after the last quarter it
\* reaches, so an interval that reaches the calendar's last quarter raises
\* before anything is written; a timestamp only has to be on the calendar.
Datable(r) ==
  /\ first[r] \in Quarter
  /\ last[r] \in Quarter
  /\ Payload[r].kind = "holding" => last[r] < LastQuarter

Key == Control \X Model \X Quarter
KeyOf(r, q) == <<Payload[r].ctl, Payload[r].model, q>>

Row == [size : Nat, applied : [Request -> Nat]]
NoRow == [size |-> 0, applied |-> [r \in Request |-> 0]]
Fresh(n) == [NoRow EXCEPT !.size = n]

VARIABLES
  controls,     \* controls[c]: num_states of c in the controls table, 0 if absent
  rows,         \* rows[k]: the aggregates row with key k, NoRow if absent
  writer,       \* the worker inside BEGIN IMMEDIATE ... COMMIT
  pc,           \* pc[w]: the statement worker w is about to execute, or the
                \*        outcome it is about to send
  job,          \* job[w]: the request it serves
  size,         \* size[w]: num_states as get_control returned it
  at,           \* at[w]: the quarter whose row is updated next
  image,        \* image[w]: the Blob being updated in memory
  answer        \* answer[r]: what the client was told

vars == <<controls, rows, writer, pc, job, size, at, image, answer>>

Stages == {"upsert", "lookup", "begin", "read", "write"}

\* 202, 400, and the three ways to a 500: the lock was not obtained within
\* busy_timeout, the stored row has another layout, anything else.
Outcomes == {"accepted", "rejected", "busy", "mismatch", "error"}
Answers == Outcomes \cup {"none", "lost"}

TypeOK ==
  /\ controls \in [Control -> Nat]
  /\ rows \in [Key -> Row]
  /\ writer \in Worker \cup {NoWorker}
  /\ pc \in [Worker -> {"idle"} \cup Stages \cup Outcomes]
  /\ job \in [Worker -> Request \cup {NoRequest}]
  /\ size \in [Worker -> Nat]
  /\ at \in [Worker -> Int]
  /\ image \in [Worker -> Row]
  /\ answer \in [Request -> Answers]

Init ==
  /\ controls = [c \in Control |-> 0]
  /\ rows = [k \in Key |-> NoRow]
  /\ writer = NoWorker
  /\ pc = [w \in Worker |-> "idle"]
  /\ job = [w \in Worker |-> NoRequest]
  /\ size = [w \in Worker |-> 0]
  /\ at = [w \in Worker |-> FirstQuarter]
  /\ image = [w \in Worker |-> NoRow]
  /\ answer = [r \in Request |-> "none"]

InFlight(r) == \E w \in Worker : job[w] = r

Goto(w, stage) == pc' = [pc EXCEPT ![w] = stage]

\* The handler returns or raises; its locals are gone.
Finish(w, outcome) ==
  /\ Goto(w, outcome)
  /\ size' = [size EXCEPT ![w] = 0]
  /\ at' = [at EXCEPT ![w] = FirstQuarter]
  /\ image' = [image EXCEPT ![w] = NoRow]

\* The row worker w works on.
Target(w) == KeyOf(job[w], at[w])

-----------------------------------------------------------------------------
\* A request arrives once; its payload is checked before the database is used.
Receive(w, r) ==
  /\ pc[w] = "idle"
  /\ answer[r] = "none"
  /\ ~InFlight(r)
  /\ job' = [job EXCEPT ![w] = r]
  /\ Goto(w, IF ~WellFormed(r) THEN "rejected"
             ELSE IF Payload[r].kind = "control" THEN "upsert" ELSE "lookup")
  /\ UNCHANGED <<controls, rows, writer, size, at, image, answer>>

\* upsert_control: one autocommitted INSERT ... ON CONFLICT DO UPDATE.
Upsert(w) ==
  /\ pc[w] = "upsert"
  /\ writer = NoWorker
  /\ controls' = [controls EXCEPT ![Payload[job[w]].ctl] = Payload[job[w]].size]
  /\ Finish(w, "accepted")
  /\ UNCHANGED <<rows, writer, job, answer>>

\* Mutant: the comparison with num_states is off by one.
InRangeOffByOne(r) == \A s \in States(r) : s <= controls[Payload[r].ctl]

\* An unknown control has 0 states, so its requests are out of range too.
InRange(r) == \A s \in States(r) : s < controls[Payload[r].ctl]

\* Mutant: the interval is split lazily, so only its start is checked up front.
LookupLazy(w) ==
  LET r == job[w] IN
  /\ pc[w] = "lookup"
  /\ IF InRange(r) /\ first[r] \in Quarter
       THEN /\ size' = [size EXCEPT ![w] = controls[Payload[r].ctl]]
            /\ at' = [at EXCEPT ![w] = first[r]]
            /\ Goto(w, "begin")
            /\ UNCHANGED image
       ELSE Finish(w, "rejected")
  /\ UNCHANGED <<controls, rows, writer, job, answer>>

\* get_control, the range check and the quarter split; no transaction is open.
Lookup(w) ==
  LET r == job[w] IN
  /\ pc[w] = "lookup"
  /\ IF InRange(r) /\ Datable(r)
       THEN /\ size' = [size EXCEPT ![w] = controls[Payload[r].ctl]]
            /\ at' = [at EXCEPT ![w] = first[r]]
            /\ Goto(w, "begin")
            /\ UNCHANGED image
       ELSE Finish(w, IF InRange(r) THEN "error" ELSE "rejected")
  /\ UNCHANGED <<controls, rows, writer, job, answer>>

\* Mutant: BEGIN DEFERRED, two workers may read before one of them writes.
BeginDeferred(w) ==
  /\ pc[w] = "begin"
  /\ writer' = w
  /\ Goto(w, "read")
  /\ UNCHANGED <<controls, rows, job, size, at, image, answer>>

\* update_aggregate: BEGIN IMMEDIATE.
Begin(w) ==
  /\ pc[w] = "begin"
  /\ writer = NoWorker
  /\ writer' = w
  /\ Goto(w, "read")
  /\ UNCHANGED <<controls, rows, job, size, at, image, answer>>

\* SQLITE_BUSY: somebody else kept the write lock longer than busy_timeout.
LockTimeout(w) ==
  /\ pc[w] \in {"upsert", "begin"}
  /\ writer # NoWorker
  /\ Finish(w, "busy")
  /\ UNCHANGED <<controls, rows, writer, job, answer>>

\* A stored row is used if its length is the one num_states demands, a
\* missing one is created if the control exists.
Usable(row, n, ctl) == IF row.size = 0 THEN controls[ctl] # 0 ELSE row.size = n

Load(row, n) == IF row.size = 0 THEN Fresh(n) ELSE row

\* The SELECT inside the transaction, and the Blob made from it.
Read(w) ==
  /\ pc[w] = "read"
  /\ Usable(rows[Target(w)], size[w], Payload[job[w]].ctl)
  /\ image' = [image EXCEPT ![w] = Load(rows[Target(w)], size[w])]
  /\ Goto(w, "write")
  /\ UNCHANGED <<controls, rows, writer, job, size, at, answer>>

\* Mutant: the handler tries again instead of giving up.
MismatchRetried(w) ==
  /\ pc[w] = "read"
  /\ ~Usable(rows[Target(w)], size[w], Payload[job[w]].ctl)
  /\ writer' = NoWorker
  /\ Goto(w, "begin")
  /\ UNCHANGED <<controls, rows, job, size, at, image, answer>>

\* "aggregate blob size mismatch": raised inside the try, hence rolled back.
Mismatch(w) ==
  /\ pc[w] = "read"
  /\ ~Usable(rows[Target(w)], size[w], Payload[job[w]].ctl)
  /\ writer' = NoWorker
  /\ Finish(w, "mismatch")
  /\ UNCHANGED <<controls, rows, job, answer>>

Apply(row, r) == [row EXCEPT !.applied[r] = @ + 1]

\* Mutant: the loop over the quarters stops one short.
WriteShort(w) ==
  /\ pc[w] = "write"
  /\ rows' = [rows EXCEPT ![Target(w)] = Apply(image[w], job[w])]
  /\ writer' = NoWorker
  /\ IF at[w] < last[job[w]] - 1
       THEN /\ at' = [at EXCEPT ![w] = @ + 1]
            /\ image' = [image EXCEPT ![w] = NoRow]
            /\ Goto(w, "begin")
            /\ UNCHANGED size
       ELSE Finish(w, "accepted")
  /\ UNCHANGED <<controls, job, answer>>

\* update_fn, the INSERT ... ON CONFLICT DO UPDATE and COMMIT; then the next
\* quarter of the interval, in a transaction of its own.
Write(w) ==
  /\ pc[w] = "write"
  /\ rows' = [rows EXCEPT ![Target(w)] = Apply(image[w], job[w])]
  /\ writer' = NoWorker
  /\ IF at[w] < last[job[w]]
       THEN /\ at' = [at EXCEPT ![w] = @ + 1]
            /\ image' = [image EXCEPT ![w] = NoRow]
            /\ Goto(w, "begin")
            /\ UNCHANGED size
       ELSE Finish(w, "accepted")
  /\ UNCHANGED <<controls, job, answer>>

\* Mutant: the transaction stays open after an exception.
BreakLocked(w) ==
  /\ pc[w] \in Stages
  /\ Finish(w, "error")
  /\ UNCHANGED <<controls, rows, writer, job, answer>>

\* Any other exception: a statement fails (disk full, I/O error), a clock or
\* a counter overflows in update_fn.  ROLLBACK, or the close of the
\* connection at teardown, ends the transaction.
Break(w) ==
  /\ pc[w] \in Stages
  /\ writer' = IF writer = w THEN NoWorker ELSE writer
  /\ Finish(w, "error")
  /\ UNCHANGED <<controls, rows, job, answer>>

\* _handle_request turns the outcome into a response.
Reply(w) ==
  /\ pc[w] \in Outcomes
  /\ answer' = [answer EXCEPT ![job[w]] = pc[w]]
  /\ job' = [job EXCEPT ![w] = NoRequest]
  /\ Goto(w, "idle")
  /\ UNCHANGED <<controls, rows, writer, size, at, image>>

\* The process dies: what was committed stays, open transactions and pending
\* answers are gone.  A restart serves the same database file.
Crash ==
  /\ \E w \in Worker : pc[w] # "idle"
  /\ answer' = [r \in Request |-> IF InFlight(r) THEN "lost" ELSE answer[r]]
  /\ writer' = NoWorker
  /\ pc' = [w \in Worker |-> "idle"]
  /\ job' = [w \in Worker |-> NoRequest]
  /\ size' = [w \in Worker |-> 0]
  /\ at' = [w \in Worker |-> FirstQuarter]
  /\ image' = [w \in Worker |-> NoRow]
  /\ UNCHANGED <<controls, rows>>

\* What a worker does once it has a request, whatever the request is.
Serve(w) ==
  \/ Upsert(w)
  \/ Lookup(w)
  \/ Begin(w)
  \/ LockTimeout(w)
  \/ Read(w)
  \/ Mismatch(w)
  \/ Write(w)
  \/ Break(w)
  \/ Reply(w)

Next ==
  \/ \E w \in Worker, r \in Request : Receive(w, r)
  \/ \E w \in Worker : Serve(w)
  \/ Crash

Spec == Init /\ [][Next]_vars

\* Every thread that has a request keeps running.
Fairness == \A w \in Worker : WF_vars(Serve(w))

FairSpec == Spec /\ Fairness

-----------------------------------------------------------------------------
Credited(r, q) == rows[KeyOf(r, q)].applied[r]

\* The quarters r's event touches, on the calendar or not.
Span(r) == first[r]..last[r]

Ledger == INSTANCE AggregateLedger WITH
  credit  <- [r \in Request |-> [q \in Quarter |-> Credited(r, q)]],
  verdict <- [r \in Request |->
                IF answer[r] \in {"busy", "mismatch", "error"} THEN "failed"
                                                               ELSE answer[r]]

\* Seen through the counters, every interleaving, time-out, failure and crash
\* of the write path (ingest.py:75-200, storage.py:170-212) is a run of the
\* ledger: no increment is lost, duplicated or applied to a request already
\* answered, and a 202 or a 400 says what has been counted.
ImplementsLedger == Ledger!LedgerSpec

\* An answered request has been counted as its answer says: "accepted" in
\* every quarter of its event, "rejected" in none, and otherwise once in each
\* quarter of a prefix (ingest.py:94-141 commits quarter by quarter).
AnswersMatchCredit ==
  \A r \in Request :
    /\ answer[r] = "accepted" => \A q \in Span(r) : Credited(r, q) = 1
    /\ answer[r] = "rejected" => \A q \in Quarter : Credited(r, q) = 0
    /\ \A p, q \in Quarter : p \in Span(r) /\ p < q /\ Credited(r, q) = 1
                               => Credited(r, p) = 1

\* Nothing is ever counted in a row whose layout has no place for the states
\* concerned, although num_states is read outside the transaction and may be
\* redeclared before it (ingest.py:85-90, storage.py:189-193).
StatesFitLayout ==
  \A k \in Key, r \in Request :
    rows[k].applied[r] > 0 => \A s \in States(r) : s < rows[k].size

\* A row that exists keeps its layout and no count in it ever decreases:
\* not by a concurrent update, not by a redeclared control, not by a crash
\* (storage.py:170-212).
RowsOnlyGrow ==
  [][\A k \in Key :
       /\ rows[k].size # 0 => rows'[k].size = rows[k].size
       /\ \A r \in Request : rows'[k].applied[r] >= rows[k].applied[r]]_rows

\* An event that leaves the calendar is not counted at all: its quarters are
\* split before the first of them is written (ingest.py:92-94, 160).
OffCalendarUncounted ==
  \A r \in Request :
    Ingests(r) /\ ~Datable(r) => \A q \in Quarter : Credited(r, q) = 0

\* A request is refused for the write lock only while another one is in the
\* middle of a transaction: every way out of a transaction gives the lock back,
\* so that nobody waits in vain (storage.py:176, 205-212).
BusyForAReason ==
  [][\A w \in Worker :
       pc[w] \in {"upsert", "begin"} /\ pc'[w] = "busy"
         => \E v \in Worker \ {w} : pc[v] \in {"read", "write"}]_vars

\* With a single connection, as the deployed single-threaded server has, no
\* request is ever refused for the write lock: every way out of a transaction
\* gives the lock back (storage.py:206-212).
NeverBusy == \A r \in Request : answer[r] # "busy"

\* A declaration that has, or may have, reached the controls table.
MayHaveRun(d) ==
  \/ answer[d] \in {"accepted", "lost"}
  \/ \E w \in Worker : job[w] = d /\ pc[w] = "accepted"

DeclaredAs(c, n) ==
  \E d \in Request : /\ Payload[d].kind = "control"
                     /\ Payload[d].ctl = c /\ Payload[d].size = n
                     /\ MayHaveRun(d)

\* "aggregate blob size mismatch" (storage.py:190-192) is reported only for a
\* control that has been declared with two different state counts.
MismatchNeedsRedeclaration ==
  \A r \in Request :
    answer[r] = "mismatch" =>
      \E m, n \in MinStates..MaxStates :
        m # n /\ DeclaredAs(Payload[r].ctl, m) /\ DeclaredAs(Payload[r].ctl, n)

\* Every request a worker has taken is answered, or lost with the server: no
\* worker waits for the write lock for ever, since whoever holds it goes on
\* and busy_timeout ends the wait (storage.py:56, 176-212).
EveryRequestSettled ==
  \A r \in Request : InFlight(r) ~> answer[r] # "none"

-----------------------------------------------------------------------------
(***************************************************************************)
(* The inductive invariant.                                                *)
(***************************************************************************)
Uncounted(r) == \A q \in Quarter : Credited(r, q) = 0

\* Counted once in the quarters of its event before n, and nowhere else.
CountedBefore(r, n) ==
  \A q \in Quarter : Credited(r, q) = IF q \in Span(r) /\ q < n THEN 1 ELSE 0

CountedFully(r) ==
  /\ Span(r) \subseteq Quarter
  /\ \A q \in Quarter : Credited(r, q) = IF q \in Span(r) THEN 1 ELSE 0

\* The write lock belongs to the worker between BEGIN and COMMIT or ROLLBACK.
LockInv == \A w \in Worker : pc[w] \in {"read", "write"} <=> writer = w

\* A request is served by one worker, and has no answer until it is finished.
JobInv ==
  /\ \A w \in Worker : job[w] = NoRequest <=> pc[w] = "idle"
  /\ \A w \in Worker : pc[w] # "idle" => answer[job[w]] = "none"
  /\ \A v, w \in Worker : pc[w] # "idle" /\ job[v] = job[w] => v = w

\* What a worker has established by the time it reaches a statement.
StageInv(w) ==
  /\ pc[w] \in Stages => WellFormed(job[w])
  /\ pc[w] = "upsert" => Payload[job[w]].kind = "control"
  /\ pc[w] \in Stages \ {"upsert"} => Ingests(job[w])
  /\ pc[w] \in {"begin", "read", "write"} =>
       /\ Datable(job[w])
       /\ at[w] \in Span(job[w])
       /\ \A s \in States(job[w]) : s < size[w]
  /\ pc[w] = "write" =>
       /\ Usable(rows[Target(w)], size[w], Payload[job[w]].ctl)
       /\ image[w] = Load(rows[Target(w)], size[w])

\* How far the request of a worker has been counted.
ProgressInv(w) ==
  /\ pc[w] \in {"upsert", "lookup", "rejected"} => Uncounted(job[w])
  /\ pc[w] \in {"begin", "read", "write"} => CountedBefore(job[w], at[w])
  /\ pc[w] = "accepted" => CountedFully(job[w])

\* How far a request has been counted that nobody serves, and any request.
RequestInv(r) ==
  /\ answer[r] = "none" /\ ~InFlight(r) => Uncounted(r)
  /\ answer[r] = "rejected" => Uncounted(r)
  /\ answer[r] = "accepted" => CountedFully(r)
  /\ \E n \in FirstQuarter..(LastQuarter + 1) : CountedBefore(r, n)
  /\ Ingests(r) /\ ~Datable(r) => Uncounted(r)

RowInv ==
  /\ \A k \in Key : rows[k].size = 0 => rows[k] = NoRow
  /\ StatesFitLayout

IInv ==
  /\ TypeOK
  /\ LockInv
  /\ JobInv
  /\ \A w \in Worker : StageInv(w) /\ ProgressInv(w)
  /\ \A r \in Request : RequestInv(r)
  /\ RowInv

=============================================================================
