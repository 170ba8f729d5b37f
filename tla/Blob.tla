-------------------------------- MODULE Blob --------------------------------
(***************************************************************************)
(* The aggregate blob (blob.py) and the update functions that ingest.py    *)
(* runs on it inside update_aggregate's transaction: the counters of one   *)
(* row lie in one flat array, and an event adds to it clock by clock.      *)
(*                                                                         *)
(* A holding counter of state s is the cell <<s, s, clock, bucket>>, a     *)
(* transition counter from s to t the cell <<s, t, clock, bucket>>.  What  *)
(* a clock makes of an event is the subject of module ClockSplit: here it  *)
(* is a sequence of spans, or the exception it raises.  A transition has   *)
(* one span of amount 1 per clock.                                         *)
(***************************************************************************)
EXTENDS Integers, Sequences

CONSTANTS
  BucketsPerWeek,  \* BUCKETS_PER_WEEK
  ClockCount,      \* CLOCK_COUNT
  NumStates,       \* num_states of the row
  Limit,           \* 1 << 64
  Event,           \* the events sent to the row
  from, to,        \* the states of an event; equal for a holding interval
  raises,          \* raises[e][c]: what clock c raises for event e, or "nothing"
  spans,           \* spans[e][c]: what it returns otherwise
  NoEvent          \* no update is running

MinStates == 2
MaxStates == 10

State == 0..(NumStates - 1)
Clock == 0..(ClockCount - 1)
Bucket == 0..(BucketsPerWeek - 1)

\* The counters of a row for n states.
Cells(n) == (0..(n - 1)) \X (0..(n - 1)) \X Clock \X Bucket
Cell == Cells(NumStates)

\* What a clock may raise: UndefinedClockError, another ValueError, or an
\* exception that is neither (OverflowError).
Exceptions == {"undefined", "invalid", "other"}

ASSUME LayoutAssumption ==
  /\ BucketsPerWeek \in Nat \ {0} /\ ClockCount \in Nat \ {0}
  /\ NumStates \in MinStates..MaxStates
  /\ Limit \in Nat \ {0}

ASSUME EventAssumption ==
  /\ from \in [Event -> State] /\ to \in [Event -> State]
  /\ raises \in [Event -> [Clock -> Exceptions \cup {"nothing"}]]
  /\ \A e \in Event, c \in Clock :
       spans[e][c] \in Seq([bucket : Bucket, amount : Nat])
  /\ NoEvent \notin Event

GroupSize == BucketsPerWeek * ClockCount
ValueCount(n) == n * n * GroupSize

\* Mutant: buckets of neighbouring clocks overlap.
HoldIndexOverlapping(s, c, b) == s * GroupSize + c * (BucketsPerWeek - 1) + b

HoldIndex(s, c, b) == s * GroupSize + c * BucketsPerWeek + b

\* The groups of the transitions out of s follow each other without s itself.
TransGroupIndex(s, t, n) == s * (n - 1) + (IF t < s THEN t ELSE t - 1)

TransIndex(s, t, c, b, n) ==
  n * GroupSize + TransGroupIndex(s, t, n) * GroupSize + c * BucketsPerWeek + b

\* The place of a cell in a blob for n states.
IndexFor(x, n) == IF x[1] = x[2] THEN HoldIndex(x[1], x[3], x[4])
                                 ELSE TransIndex(x[1], x[2], x[3], x[4], n)

Index(x) == IndexFor(x, NumStates)

IsHolding(e) == from[e] = to[e]

VARIABLES
  stored,    \* the row's counters in the database, as last committed
  data,      \* Blob._data, while an update runs
  event,     \* the event whose update runs, or NoEvent
  clock,     \* the clock it has come to
  todo,      \* the spans of that clock still to be added
  verdict    \* verdict[e]: "none", "recorded" or "failed"

vars == <<stored, data, event, clock, todo, verdict>>

Counters == [0..(ValueCount(NumStates) - 1) -> 0..(Limit - 1)]
Zeros == [i \in 0..(ValueCount(NumStates) - 1) |-> 0]

Init ==
  /\ stored = Zeros /\ data = Zeros
  /\ event = NoEvent /\ clock = 0 /\ todo = <<>>
  /\ verdict = [e \in Event |-> "none"]

\* The end of an update: the Blob and the locals are dropped.
End(outcome) ==
  /\ verdict' = [verdict EXCEPT ![event] = outcome]
  /\ data' = Zeros /\ event' = NoEvent /\ clock' = 0 /\ todo' = <<>>

\* update_aggregate has read the row; the update function is called.
Start(e) ==
  /\ event = NoEvent /\ verdict[e] = "none"
  /\ event' = e /\ data' = stored
  /\ UNCHANGED <<stored, clock, todo, verdict>>

\* Holdings skip a clock that raises any ValueError, transitions only one that
\* is undefined.
Skipped(e, c) ==
  \/ raises[e][c] = "undefined"
  \/ raises[e][c] = "invalid" /\ IsHolding(e)

Aborts(e, c) == raises[e][c] # "nothing" /\ ~Skipped(e, c)

\* The next clock is asked for all its spans before the first one is added.
Split ==
  /\ event # NoEvent /\ todo = <<>> /\ clock < ClockCount
  /\ ~Aborts(event, clock)
  /\ clock' = clock + 1
  /\ todo' = IF raises[event][clock] = "nothing" THEN spans[event][clock] ELSE <<>>
  /\ UNCHANGED <<stored, data, event, verdict>>

\* Mutant: what has been added before a clock raises is stored.
SplitRaisesKeeping ==
  /\ event # NoEvent /\ todo = <<>> /\ clock < ClockCount
  /\ Aborts(event, clock)
  /\ stored' = data
  /\ End("failed")

\* The exception ends the update, and the transaction with it.
SplitRaises ==
  /\ event # NoEvent /\ todo = <<>> /\ clock < ClockCount
  /\ Aborts(event, clock)
  /\ End("failed")
  /\ UNCHANGED stored

\* The counter the next span belongs to; clock has already moved on.
Slot == Index(<<from[event], to[event], clock - 1, Head(todo).bucket>>)

Sum == data[Slot] + Head(todo).amount

\* get_u64, then set_u64.
Add ==
  /\ event # NoEvent /\ todo # <<>>
  /\ Sum < Limit
  /\ data' = [data EXCEPT ![Slot] = Sum]
  /\ todo' = Tail(todo)
  /\ UNCHANGED <<stored, event, clock, verdict>>

\* "u64 overflow": the ValueError of set_u64 is raised outside the handler
\* that skips clocks.
Overflow ==
  /\ event # NoEvent /\ todo # <<>>
  /\ Sum >= Limit
  /\ End("failed")
  /\ UNCHANGED stored

\* The blob is written back and committed.
Commit ==
  /\ event # NoEvent /\ todo = <<>> /\ clock = ClockCount
  /\ stored' = data
  /\ End("recorded")

Next ==
  \/ \E e \in Event : Start(e)
  \/ Split \/ SplitRaises \/ Add \/ Overflow \/ Commit

Spec == Init /\ [][Next]_vars

-----------------------------------------------------------------------------
TypeOK ==
  /\ stored \in Counters /\ data \in Counters
  /\ event \in Event \cup {NoEvent}
  /\ clock \in 0..ClockCount
  /\ todo \in Seq([bucket : Bucket, amount : Nat])
  /\ verdict \in [Event -> {"none", "recorded", "failed"}]

\* The inductive invariant: every index computed lies in the blob, so that
\* nothing is written outside it and no counter leaves its range.
IInv ==
  /\ TypeOK
  /\ todo # <<>> => event # NoEvent /\ clock > 0
  /\ event = NoEvent => data = Zeros /\ clock = 0
  /\ event # NoEvent => verdict[event] = "none"

Dense(n) ==
  /\ \A x \in Cells(n) : IndexFor(x, n) \in 0..(ValueCount(n) - 1)
  /\ \A i \in 0..(ValueCount(n) - 1) : \E x \in Cells(n) : IndexFor(x, n) = i
  /\ \A x, y \in Cells(n) : IndexFor(x, n) = IndexFor(y, n) => x = y

\* The layout is dense and free of collisions: each place of the stored blob
\* holds one counter, and every counter has its place (blob.py:26-32, 79-123).
LayoutIsDense == DOMAIN stored = {Index(x) : x \in Cell} /\ Dense(NumStates)

=============================================================================
