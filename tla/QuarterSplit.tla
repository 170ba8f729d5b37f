---------------------------- MODULE QuarterSplit ----------------------------
(***************************************************************************)
(* split_interval_by_quarter_utc (quarter.py): a holding interval          *)
(* [start, end) is cut at the boundaries of UTC quarters, so that every    *)
(* piece belongs to one row of the aggregates table.                       *)
(*                                                                         *)
(* Python's datetime is the environment: months are numbered from January  *)
(* 1970 (month 0), MonthOf is the month datetime.fromtimestamp finds for a *)
(* timestamp and MonthStart the timestamp of datetime(year, month, 1).     *)
(* Months before FirstMonth and after LastMonth cannot be expressed.       *)
(***************************************************************************)
EXTENDS Integers, Sequences

CONSTANTS
  FirstMonth,   \* January of year 1
  LastMonth,    \* December of year 9999
  MonthStart,   \* MonthStart[n]: the first instant of month n
  MonthOf(_),   \* the month of an instant
  Interval      \* the pairs <<start, end>> the splitter is called with

Month == FirstMonth..LastMonth

\* The instants the calendar can express.
Instant == MonthStart[FirstMonth]..(MonthStart[LastMonth + 1] - 1)

ASSUME MonthAssumption ==
  /\ FirstMonth \in Int /\ LastMonth \in Int /\ FirstMonth <= LastMonth
  /\ FirstMonth % 12 = 0 /\ LastMonth % 12 = 11
  /\ MonthStart \in [FirstMonth..(LastMonth + 1) -> Int]
  /\ \A m, n \in FirstMonth..(LastMonth + 1) : m < n => MonthStart[m] < MonthStart[n]

ASSUME InstantAssumption ==
  \A t \in Instant : /\ MonthOf(t) \in Month
                     /\ MonthStart[MonthOf(t)] <= t /\ t < MonthStart[MonthOf(t) + 1]

ASSUME IntervalAssumption == Interval \subseteq Int \X Int

\* The fields of a datetime in month n.
Year(n) == 1970 + (n \div 12)
MonthOfYear(n) == (n % 12) + 1

\* Mutant: months counted from 1 when they are grouped by three.
QuarterIndexShifted(n) == (Year(n) - 1970) * 4 + MonthOfYear(n) \div 3

\* _quarter_index_from_dt
QuarterIndex(n) == (Year(n) - 1970) * 4 + (MonthOfYear(n) - 1) \div 3

QuarterAt(t) == QuarterIndex(MonthOf(t))

\* Mutant: the year is not carried into January.
BoundaryMonthNoCarry(n) ==
  LET nextMonth == ((QuarterIndex(n) % 4) + 1) * 3 + 1
  IN  (Year(n) - 1970) * 12 + (IF nextMonth = 13 THEN 1 ELSE nextMonth) - 1

\* The month the next quarter begins with: quarter_number is recovered from
\* the index, and month 13 is January of the next year.
BoundaryMonth(n) ==
  LET nextMonth == ((QuarterIndex(n) % 4) + 1) * 3 + 1
      year == IF nextMonth = 13 THEN Year(n) + 1 ELSE Year(n)
  IN  (year - 1970) * 12 + (IF nextMonth = 13 THEN 1 ELSE nextMonth) - 1

VARIABLES
  start, end,   \* the arguments
  cur,          \* how far the interval has been cut
  spans,        \* the pieces: a quarter, a first instant and the one after the last
  pc            \* "loop", "done" or "error"

vars == <<start, end, cur, spans, pc>>

Init ==
  /\ \E i \in Interval : start = i[1] /\ end = i[2]
  /\ cur = start
  /\ spans = <<>>
  /\ pc = IF end <= start THEN "error" ELSE "loop"

\* Mutant: only the instant is checked, the boundary is taken for granted.
ExpressibleInstant == cur \in Instant

\* datetime raises for an instant, or a boundary, it cannot express.
Expressible == cur \in Instant /\ BoundaryMonth(MonthOf(cur)) \in Month

\* Mutant: the last piece is not clipped to the interval.
BoundaryUnclipped == MonthStart[BoundaryMonth(MonthOf(cur))]

\* The end of the piece that begins at cur.
Boundary ==
  LET boundary == MonthStart[BoundaryMonth(MonthOf(cur))]
  IN  IF boundary > end THEN end ELSE boundary

Cut ==
  /\ pc = "loop" /\ cur < end
  /\ Expressible
  /\ spans' = Append(spans, [quarter |-> QuarterAt(cur), start |-> cur, end |-> Boundary])
  /\ cur' = Boundary
  /\ UNCHANGED <<start, end, pc>>

Raise ==
  /\ pc = "loop" /\ cur < end
  /\ ~Expressible
  /\ pc' = "error"
  /\ UNCHANGED <<start, end, cur, spans>>

Return ==
  /\ pc = "loop" /\ cur >= end
  /\ pc' = "done"
  /\ UNCHANGED <<start, end, cur, spans>>

Next == Cut \/ Raise \/ Return

Spec == Init /\ [][Next]_vars

-----------------------------------------------------------------------------
Span == [quarter : Int, start : Int, end : Int]

TypeOK ==
  /\ start \in Int /\ end \in Int /\ cur \in Int
  /\ spans \in Seq(Span)
  /\ pc \in {"loop", "done", "error"}

\* The pieces are the interval: no instant of it is lost, none is counted
\* twice and no piece is empty (quarter.py:41-59).
Tiling ==
  /\ spans = <<>> => cur = start
  /\ spans # <<>> => spans[1].start = start /\ spans[Len(spans)].end = cur
  /\ \A i \in 1..Len(spans) : spans[i].start < spans[i].end
  /\ \A i \in 1..(Len(spans) - 1) : spans[i + 1].start = spans[i].end
  /\ start < end => cur <= end
  /\ pc = "done" => cur = end

\* Every piece lies in the quarter it is filed under (quarter.py:44-57).
FiledRightly ==
  \A i \in 1..Len(spans) :
    \A t \in Instant :
      spans[i].start <= t /\ t < spans[i].end => QuarterAt(t) = spans[i].quarter

\* The pieces go to consecutive quarters, one row each: an interval updates no
\* row twice, and the last month of a year is followed by the next year
\* (quarter.py:46-52).
ConsecutiveQuarters ==
  \A i \in 1..(Len(spans) - 1) : spans[i + 1].quarter = spans[i].quarter + 1

\* The quarter of the last instants of the calendar, Q4 of year 9999.
LastQuarter == QuarterIndex(LastMonth)

\* The intervals that can be cut.
Inside ==
  /\ start < end
  /\ start \in Instant /\ end - 1 \in Instant
  /\ QuarterAt(end - 1) < LastQuarter

\* The splitter fails just for the intervals that are empty, that begin before
\* the calendar, or that reach its last quarter, whose end datetime(10000, 1, 1)
\* cannot express (quarter.py:38-39, 44, 52).
FailsAtTheEdges ==
  /\ pc = "error" => ~Inside
  /\ pc = "done" => Inside

\* The inductive invariant.  Between two cuts the loop stands on the first
\* instant of the quarter after the last piece's.
Resting ==
  /\ pc = "loop" => start < end
  /\ spans # <<>> =>
       /\ start \in Instant
       /\ spans[Len(spans)].end - 1 \in Instant
       /\ spans[Len(spans)].quarter < LastQuarter
       /\ cur < end => /\ cur \in Instant
                       /\ QuarterAt(cur) = spans[Len(spans)].quarter + 1

IInv ==
  /\ TypeOK
  /\ Tiling
  /\ FiledRightly
  /\ ConsecutiveQuarters
  /\ FailsAtTheEdges
  /\ Resting

=============================================================================
