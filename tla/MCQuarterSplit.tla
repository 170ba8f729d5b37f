--------------------------- MODULE MCQuarterSplit ---------------------------
(***************************************************************************)
(* Three years of months that are two or three instants long.              *)
(***************************************************************************)
EXTENDS QuarterSplit

MCFirstMonth == -12
MCLastMonth == 23

\* Even months have two instants, odd months three.
MCMonthStart == [n \in MCFirstMonth..(MCLastMonth + 1) |-> 2 * n + n \div 2]

MCMonthOf(t) ==
  CHOOSE n \in MCFirstMonth..MCLastMonth :
    MCMonthStart[n] <= t /\ t < MCMonthStart[n + 1]

\* All intervals between instants, and some that leave the calendar.
Bounds == (MCMonthStart[MCFirstMonth] - 2)..(MCMonthStart[MCLastMonth + 1] + 2)
MCInterval == Bounds \X Bounds
=============================================================================
