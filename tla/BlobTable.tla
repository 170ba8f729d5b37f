------------------------------ MODULE BlobTable ------------------------------
(***************************************************************************)
(* The blob as the table of counters it stands for.                        *)
(***************************************************************************)
EXTENDS Blob

\* What a span adds to bucket b.
Gain(span, b) == IF span.bucket = b THEN span.amount ELSE 0

\* What a sequence of spans adds to bucket b; a recursive function, because
\* proofs can unfold it.
AddedTo(s, b) ==
  LET added[n \in 0..Len(s)] == IF n = 0 THEN 0 ELSE added[n - 1] + Gain(s[n], b)
  IN  added[Len(s)]

\* Increment[e][x]: what event e adds to counter x, if nothing goes wrong.
Increment ==
  [e \in Event |-> [x \in Cell |->
     IF x[1] = from[e] /\ x[2] = to[e] /\ raises[e][x[3]] = "nothing"
       THEN AddedTo(spans[e][x[3]], x[4]) ELSE 0]]

Table == INSTANCE CounterTable WITH
  table      <- [x \in Cell |-> stored[Index(x)]],
  Computable <- LAMBDA e : \A c \in Clock : ~Aborts(e, c)

\* Seen as a table, an event is added to all its cells in one step, or to none:
\* although clocks and buckets are updated one after the other, a clock that
\* raises or a counter that overflows leaves no trace, and no two counters
\* share a place (ingest.py:130-137, 191-198; blob.py:60-123).
ImplementsTable == Table!TableSpec

\* What the update that runs has still to add to counter x.
Left(x) ==
  IF x[1] # from[event] \/ x[2] # to[event] THEN 0
  ELSE IF x[3] >= clock THEN Increment[event][x]
  ELSE IF x[3] = clock - 1 THEN AddedTo(todo, x[4]) ELSE 0

\* Why it does: what the update has added to each counter and what it has left
\* are the event's increment, and no clock so far has aborted it.
Underway ==
  event # NoEvent =>
    /\ \A c \in Clock : c < clock => ~Aborts(event, c)
    /\ \A x \in Cell : data[Index(x)] + Left(x) = stored[Index(x)] + Increment[event][x]
=============================================================================
