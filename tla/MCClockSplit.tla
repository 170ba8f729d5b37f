---------------------------- MODULE MCClockSplit ----------------------------
(***************************************************************************)
(* A week of three days of two hours of four buckets of three instants.    *)
(***************************************************************************)
EXTENDS ClockSplit

Zone(before, after, at) ==
  [kind |-> "local", before |-> before, after |-> after, at |-> at]

Solar(offset, drift) == [kind |-> "solar", offset |-> offset, drift |-> drift]

\* half[d]: half the length of day d of the week.
Unequal(offset, drift, half) ==
  [kind |-> "unequal", offset |-> offset, drift |-> drift, half |-> half]

\* A short day, an equinox and a long day; a polar night between such days.
Seasons == [d \in 0..2 |-> <<2, 6, 10>>[d + 1]]
PolarNight == [d \in 0..2 |-> <<1, 0, 11>>[d + 1]]

\* UTC; zones that stay or jump ahead, by an hour or a bucket; mean solar
\* time; unequal hours with buckets shorter than a probe, and with polar days,
\* while the equation of time stands or rises.
ExactClocks ==
  {[kind |-> "utc"], Zone(6, 6, 0), Zone(-12, 0, 36), Zone(3, 6, 27), Zone(-3, 3, 24),
   Solar(-5, 0), Solar(4, 0),
   Unequal(2, 0, [d \in 0..2 |-> 6]), Unequal(0, 0, Seasons), Unequal(-4, 0, PolarNight),
   Unequal(3, 1, Seasons), Unequal(1, 2, PolarNight)}

\* Zones that fall back, by an hour or less, on the hour or off it; apparent
\* solar time; and unequal hours while the equation of time falls.
FallBackZones == {Zone(12, 0, 24), Zone(3, 0, 24), Zone(6, 0, 27), Zone(15, 3, 30)}

InexactClocks ==
  FallBackZones \cup {Solar(0, 1), Solar(-5, 1), Solar(7, 2), Solar(3, -2)}
                \cup {Unequal(2, -2, Seasons), Unequal(0, -2, PolarNight)}

MCClock == ExactClocks \cup InexactClocks

\* A zone that falls back by an hour on the hour, as most do.
OneFallBack == {Zone(12, 0, 24)}

MCInterval == {i \in (0..47) \X (0..72) : i[2] - i[1] \in -1..24}
=============================================================================
