------------------------------ MODULE WeekSplit ------------------------------
(***************************************************************************)
(* The loop the five interval splitters of bucketing.py share: a holding   *)
(* interval [start, end) is cut at the boundaries of one clock's 5-minute  *)
(* buckets of the week.  The clocks are operators of module Clocks.        *)
(***************************************************************************)
EXTENDS Integers, Sequences

CONSTANTS
  Clock,             \* clock configurations: which clock, with what zone or place
  Interval,          \* the pairs <<start, end>> a splitter is called with
  BucketAt(_, _),    \* the bucket in which a clock sees an instant
  NextBoundary(_, _),\* where a clock's splitter ends a piece that begins at an instant
  Cuttable(_, _)     \* neither of the two raises

\* The instants a splitter may look at.
Instant == UNION {i[1]..(i[2] - 1) : i \in Interval}

ASSUME SplitAssumption ==
  /\ Interval \subseteq Int \X Int
  /\ \A c \in Clock, t \in Instant :
       Cuttable(c, t) => BucketAt(c, t) \in Int /\ NextBoundary(c, t) \in Int

VARIABLES
  clock, start, end, \* the arguments
  cur,               \* how far the interval has been cut
  spans,             \* the pieces; from is where one begins, which BucketSpan omits
  pc                 \* "loop", "done" or "error"

vars == <<clock, start, end, cur, spans, pc>>

Span == [bucket : Int, from : Int, millis : Int]

Init ==
  /\ clock \in Clock
  /\ \E i \in Interval : start = i[1] /\ end = i[2]
  /\ cur = start
  /\ spans = <<>>
  /\ pc = IF end <= start THEN "error" ELSE "loop"

Boundary ==
  LET boundary == NextBoundary(clock, cur) IN IF boundary < end THEN boundary ELSE end

Cut ==
  /\ pc = "loop" /\ cur < end
  /\ Cuttable(clock, cur) /\ Boundary > cur
  /\ spans' = Append(spans, [bucket |-> BucketAt(clock, cur), from |-> cur,
                             millis |-> Boundary - cur])
  /\ cur' = Boundary
  /\ UNCHANGED <<clock, start, end, pc>>

\* The clock is undefined, or the boundary found is not after cur: the pieces
\* collected so far are dropped with the exception.
Raise ==
  /\ pc = "loop" /\ cur < end
  /\ ~(Cuttable(clock, cur) /\ Boundary > cur)
  /\ spans' = <<>>
  /\ pc' = "error"
  /\ UNCHANGED <<clock, start, end, cur>>

\* Mutant: the loop goes on at the end of the interval.
ReturnLate ==
  /\ pc = "loop" /\ cur > end
  /\ pc' = "done"
  /\ UNCHANGED <<clock, start, end, cur, spans>>

Return ==
  /\ pc = "loop" /\ cur >= end
  /\ pc' = "done"
  /\ UNCHANGED <<clock, start, end, cur, spans>>

Next == Cut \/ Raise \/ Return

Spec == Init /\ [][Next]_vars
FairSpec == Spec /\ WF_vars(Next)

-----------------------------------------------------------------------------
TypeOK ==
  /\ clock \in Clock
  /\ <<start, end>> \in Interval
  /\ start \in Int /\ end \in Int /\ cur \in Int
  /\ spans \in Seq(Span)
  /\ pc \in {"loop", "done", "error"}

To(s) == s.from + s.millis

\* The pieces are the interval: every millisecond of it is counted once
\* (bucketing.py:108-120, 125-137, 257-278, 417-433).
Tiling ==
  /\ \A i \in 1..Len(spans) : spans[i].millis > 0
  /\ spans # <<>> => spans[1].from = start
  /\ \A i \in 1..(Len(spans) - 1) : spans[i + 1].from = To(spans[i])
  /\ pc = "loop" => cur = IF spans = <<>> THEN start ELSE To(spans[Len(spans)])
  /\ pc = "loop" => cur <= end
  /\ pc = "done" => spans # <<>> /\ To(spans[Len(spans)]) = end

\* The instants of a piece.
Instants(s) == s.from..(To(s) - 1)

\* The inductive invariant: the loop is entered with a non-empty interval only,
\* and cur stays in it.
Resting ==
  /\ start <= cur
  /\ pc = "loop" => start < end

\* Every piece was cut where it begins, within the interval.
Pieces ==
  \A i \in 1..Len(spans) :
    /\ spans[i].from \in start..(end - 1) /\ To(spans[i]) <= end
    /\ Cuttable(clock, spans[i].from)
    /\ spans[i].bucket = BucketAt(clock, spans[i].from)
    /\ To(spans[i]) <= NextBoundary(clock, spans[i].from)

IInv ==
  /\ TypeOK
  /\ Tiling
  /\ Resting
  /\ Pieces

\* Every millisecond is counted in the bucket its own clock time lies in
\* (contracts.py:107-110: "Elapsed milliseconds attributed to one weekly bucket").
FiledRightly ==
  \A i \in 1..Len(spans) :
    \A t \in Instants(spans[i]) : BucketAt(clock, t) = spans[i].bucket

\* The loop ends: the splitters run inside a write transaction.
Terminates == <>(pc # "loop")

=============================================================================
