----------------------------- MODULE ClockSplit -----------------------------
(***************************************************************************)
(* The splitters' loop together with the clocks: what the pieces mean in   *)
(* the time of the clock that made them.  BucketAt, NextBoundary and       *)
(* Cuttable are given the values ClockBucket, ClockBoundary and            *)
(* ClockCuttable.                                                          *)
(***************************************************************************)
EXTENDS WeekSplit, Clocks

ASSUME ClockWiring ==
  \A c \in Clock, t \in Instant :
    /\ BucketAt(c, t) = ClockBucket(c, t)
    /\ Cuttable(c, t) = ClockCuttable(c, t)
    /\ Cuttable(c, t) => NextBoundary(c, t) = ClockBoundary(c, t)

-----------------------------------------------------------------------------
\* How far the equation of time moves in an hour, and how far back.
Move(c) == IF c.drift < 0 THEN -c.drift ELSE c.drift
Back(c) == IF c.kind = "unequal" /\ c.drift < 0 THEN -c.drift ELSE 0

\* How far beyond the interval the search for a boundary may look: a bucket
\* of the night is at most twice as long as at the equinox.
LookAhead == 2 * (Bucket + Minute)

\* How many hours may begin within a time.
Hours(time) == (time + Hour - 1) \div Hour

\* Zones change at the end of a bucket of their old time; the search reaches
\* far enough, but less than a day, and the equation of time moves slowly.
ASSUME KindAssumption ==
  \A c \in Clock :
    /\ c.kind \in {"utc", "local", "solar", "unequal"}
    /\ c.kind = "local" => /\ c.before \in Int /\ c.after \in Int /\ c.at \in Int
                           /\ (c.at + c.before) % Bucket = 0
    /\ c.kind \in {"solar", "unequal"} => c.offset \in Int /\ c.drift \in Int

ASSUME SunAssumption ==
  /\ 1 < DaysPerWeek /\ Day % 4 = 0 /\ Minute < Hour /\ LookAhead <= ProbeLimit * Minute
  /\ \A c \in Clock : c.kind = "unequal" =>
       /\ c.half \in [0..(DaysPerWeek - 1) -> 0..(Day \div 2 - 1)]
       /\ Back(c) * Hours(LookAhead) <= Minute
       /\ ProbeLimit * Minute + Move(c) * Hours(ProbeLimit * Minute) <= Day

-----------------------------------------------------------------------------
\* Clocks that do not shift back or drift; unequal hours may drift forward,
\* since the search for a boundary goes by their own time.
Steady(c) ==
  /\ c.kind = "local" => c.before <= c.after
  /\ c.kind = "solar" => c.drift = 0
  /\ c.kind = "unequal" => c.drift >= 0

\* Every millisecond of UTC, mean solar time, unequal hours while the equation
\* of time does not fall, and local time in a zone that does not fall back is
\* counted in its own bucket (bucketing.py:53-137, 257-278, 370-433).
FiledWhereExact == Steady(clock) => FiledRightly

\* A millisecond is counted in the wrong local bucket only if its wall time
\* has been passed once already: the time before and after the repeated hour
\* of a fall-back is filed rightly (bucketing.py:81-91).
MisfiledOnlyInFold ==
  clock.kind = "local" =>
    \A i \in 1..Len(spans) : \A t \in Instants(spans[i]) :
      Fold(clock, t) = 0 => BucketAt(clock, t) = spans[i].bucket

\* A piece is cut with the offset of its first instant; since no piece is
\* longer than a bucket, what is counted in a neighbouring bucket of apparent
\* solar time is off by less than the equation of time moves in an hour
\* (bucketing.py:261-272).
DriftBounded ==
  clock.kind = "solar" =>
    \A i \in 1..Len(spans) : \A t \in Instants(spans[i]) :
      \E d \in (-Move(clock))..Move(clock) :
        BucketOf(t + Offset(clock, t) + d) = spans[i].bucket

Undefined(t) == clock.kind = "unequal" /\ ~SunDefined(clock, t)

\* A clock is skipped for an interval only if the sun fails to rise or set
\* within it or just after it, and whenever it does within it for longer than
\* the seconds by which solar time may fall back
\* (bucketing.py:237-238, 377-398; ingest.py:131-133).
SkippedIfUndefined ==
  /\ pc = "error" /\ start < end => \E t \in start..(end + LookAhead) : Undefined(t)
  /\ pc = "done" =>
       \A t \in start..(end - 1) :
         \E u \in (t - Back(clock))..(t + Back(clock)) : ~Undefined(u)

=============================================================================
