------------------------------- MODULE Clocks -------------------------------
(***************************************************************************)
(* The clocks of bucketing.py: in which 5-minute bucket of the week an     *)
(* instant lies, and where the splitters look for the next boundary.       *)
(*                                                                         *)
(* Instants and wall times are integers in one unit, counted from the      *)
(* epoch.  Bucket, hour, day and week keep their proportions as constants  *)
(* (300000 ms, 12, 24, 7, and Thursday for the epoch).  A zone has one     *)
(* change of its UTC offset: before, until the instant at, and after.      *)
(* Python's datetime and zoneinfo are the environment: Wall, Fold and      *)
(* Timestamp say what they compute (PEP 495).                              *)
(***************************************************************************)
EXTENDS Integers

CONSTANTS
  Bucket,          \* length of a bucket
  BucketsPerHour,
  HoursPerDay,
  DaysPerWeek,
  EpochDay,        \* the weekday of instant 0
  Minute,          \* how far _next_unequal_boundary_unchecked probes at a time
  ProbeLimit       \* and how often

ASSUME ClockAssumption ==
  /\ Bucket \in Nat \ {0} /\ BucketsPerHour \in Nat \ {0} /\ HoursPerDay \in Nat \ {0}
  /\ DaysPerWeek \in Nat \ {0} /\ EpochDay \in Int
  /\ Minute \in Nat \ {0} /\ ProbeLimit \in Nat

Hour == BucketsPerHour * Bucket
Day == HoursPerDay * Hour
BucketsPerDay == HoursPerDay * BucketsPerHour

\* The weekday of a wall time.
Weekday(w) == (EpochDay + w \div Day) % DaysPerWeek

\* _bucket_from_datetime, of the wall time w.
BucketOf(w) ==
  Weekday(w) * BucketsPerDay + ((w % Day) \div Hour) * BucketsPerHour + (w % Hour) \div Bucket

\* _next_boundary_utc: with a fixed offset the carry into the next hour needs
\* no case of its own.
NextBoundaryUtc(w) == w - (w % Hour) + ((w % Hour) \div Bucket + 1) * Bucket

-----------------------------------------------------------------------------
\* datetime.fromtimestamp(t, tz=zone): the wall time and the fold.
Wall(z, t) == t + IF t < z.at THEN z.before ELSE z.after
Fold(z, t) == IF t >= z.at /\ Wall(z, t) < z.at + z.before THEN 1 ELSE 0

\* dt.timestamp(): of two instants with one wall time fold 0 is the first; a
\* wall time that is skipped is read with the offset before (fold 0) or after.
Timestamp(z, w, fold) ==
  LET later == z.at + (IF (fold = 0) = (z.before > z.after) THEN z.before ELSE z.after)
  IN  w - IF w < later THEN z.before ELSE z.after

\* Mutant: the hour is not carried.
NextBoundaryLocalWrapped(z, t) ==
  LET w == Wall(z, t)
      minute == (((w % Hour) \div Bucket + 1) * Bucket) % Hour
      ms == Timestamp(z, w - (w % Hour) + minute, Fold(z, t))
  IN  IF ms <= t THEN t + Bucket ELSE ms

\* _next_boundary_local: replace() keeps the fold, + timedelta(hours=1) drops it.
NextBoundaryLocal(z, t) ==
  LET w == Wall(z, t)
      minute == ((w % Hour) \div Bucket + 1) * Bucket
      ms == IF minute >= Hour THEN Timestamp(z, w - (w % Hour) + Hour, 0)
                              ELSE Timestamp(z, w - (w % Hour) + minute, Fold(z, t))
  IN  IF ms <= t THEN t + Bucket ELSE ms

-----------------------------------------------------------------------------
\* longitude * 4, and the equation of time, which moves from hour to hour.
Offset(c, t) == c.offset + c.drift * (t \div Hour)

\* Mutant: the boundary is not converted back.
NextBoundaryOffsetOneWay(c, t) ==
  LET ms == NextBoundaryUtc(t + Offset(c, t)) IN IF ms <= t THEN t + Bucket ELSE ms

\* The boundary in _split_interval_with_offset.
NextBoundaryOffset(c, t) ==
  LET ms == NextBoundaryUtc(t + Offset(c, t)) - Offset(c, t)
  IN  IF ms <= t THEN t + Bucket ELSE ms

-----------------------------------------------------------------------------
\* Half of the time the sun is up on a day; 0 if it does not rise or set.
HalfDay(c, d) == c.half[d % DaysPerWeek]

SolarDay(c, t) == (t + Offset(c, t)) \div Day
SunDefined(c, t) == HalfDay(c, SolarDay(c, t)) # 0

\* _bucket_at_unequal_hours_unchecked: day and night have the same number of
\* buckets, of different lengths.
BucketUnequal(c, t) ==
  LET half    == HalfDay(c, SolarDay(c, t))
      sunrise == Day \div 2 - half
      sunset  == Day \div 2 + half
      minutes == (t + Offset(c, t)) % Day
      dusk    == IF minutes >= sunset THEN minutes - sunset ELSE minutes + Day - sunset
      pseudo  == IF sunrise <= minutes /\ minutes < sunset
                   THEN Day \div 4 + ((minutes - sunrise) * (Day \div 2)) \div (2 * half)
                   ELSE 3 * (Day \div 4) + (dusk * (Day \div 2)) \div (Day - 2 * half)
  IN  Weekday(t + Offset(c, t)) * BucketsPerDay + (pseudo % Day) \div Bucket

Differs(c, t, u) == BucketUnequal(c, u) # BucketUnequal(c, t)

\* Mutant: too few probes for the longest bucket of a night.
ProbesFew(c, t) == {k \in 1..(ProbeLimit \div 2) : /\ \A j \in 1..k : SunDefined(c, t + j * Minute)
                                                /\ Differs(c, t, t + k * Minute)}

\* The probes that find another bucket, if none before them has raised.
Probes(c, t) == {k \in 1..ProbeLimit : /\ \A j \in 1..k : SunDefined(c, t + j * Minute)
                                       /\ Differs(c, t, t + k * Minute)}
FirstProbe(c, t) == CHOOSE k \in Probes(c, t) : \A j \in Probes(c, t) : k <= j

\* Mutant: the bisection stops one instant early.
BisectEarly(c, t) ==
  LET f[p \in Int \X Int] ==
        LET mid == p[1] + (p[2] - p[1]) \div 2
        IN  IF p[2] - p[1] <= 2 THEN p[2]
            ELSE IF ~SunDefined(c, mid) THEN t
            ELSE IF Differs(c, t, mid) THEN f[<<p[1], mid>>] ELSE f[<<mid, p[2]>>]
      k == FirstProbe(c, t)
  IN  f[<<t + (k - 1) * Minute, t + k * Minute>>]

\* The bisection in _next_unequal_boundary_unchecked; t, which is no boundary
\* after t, if the clock is undefined where it looks.
Bisect(c, t) ==
  LET f[p \in Int \X Int] ==
        LET mid == p[1] + (p[2] - p[1]) \div 2
        IN  IF p[2] - p[1] <= 1 THEN p[2]
            ELSE IF ~SunDefined(c, mid) THEN t
            ELSE IF Differs(c, t, mid) THEN f[<<p[1], mid>>] ELSE f[<<mid, p[2]>>]
      k == FirstProbe(c, t)
  IN  f[<<t + (k - 1) * Minute, t + k * Minute>>]

-----------------------------------------------------------------------------
\* What the five splitters ask, clock by clock.
ClockBucket(c, t) ==
  CASE c.kind = "utc"     -> BucketOf(t)
    [] c.kind = "local"   -> BucketOf(Wall(c, t))
    [] c.kind = "solar"   -> BucketOf(t + Offset(c, t))
    [] c.kind = "unequal" -> BucketUnequal(c, t)

ClockBoundary(c, t) ==
  CASE c.kind = "utc"     -> NextBoundaryUtc(t)
    [] c.kind = "local"   -> NextBoundaryLocal(c, t)
    [] c.kind = "solar"   -> NextBoundaryOffset(c, t)
    [] c.kind = "unequal" -> Bisect(c, t)

\* Only unequal hours can be undefined; the search looks ahead of the interval.
ClockCuttable(c, t) ==
  c.kind = "unequal" => SunDefined(c, t) /\ Probes(c, t) # {}

=============================================================================
