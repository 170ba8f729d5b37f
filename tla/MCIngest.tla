------------------------------ MODULE MCIngest ------------------------------
(***************************************************************************)
(* A small instance of Ingest.  Quarters are ten ticks long, and the       *)
(* calendar has the quarters -1, 0 and 1.                                  *)
(***************************************************************************)
EXTENDS Ingest, TLC

CONSTANTS w1, w2    \* the workers, as model values

MCWorkers == {w1, w2}

MCQuarterOf(t) == t \div 10

Declare(n) ==
  [kind |-> "control", ctl |-> "lamp", model |-> "m", size |-> n,
   from |-> 0, to |-> 0, start |-> 0, end |-> 0]

Hold(s, a, b) ==
  [kind |-> "holding", ctl |-> "lamp", model |-> "m", size |-> 0,
   from |-> s, to |-> s, start |-> a, end |-> b]

Switch(s, t, a) ==
  [kind |-> "transition", ctl |-> "lamp", model |-> "m", size |-> 0,
   from |-> s, to |-> t, start |-> a, end |-> a]

\* A control declared with 2 and redeclared with 3 states; an interval over
\* two quarters, the first of which is before 1970, for a state both
\* declarations have; a transition that only the larger one allows; and an
\* interval that reaches the calendar's last quarter, which cannot be split.
MCPayload ==
  ("two" :> Declare(2)) @@ ("three" :> Declare(3))
    @@ ("long" :> Hold(1, -5, 5))
    @@ ("flip" :> Switch(1, 2, 7))
    @@ ("beyond" :> Hold(0, 5, 15))

MCRequests == DOMAIN MCPayload

MCFirstQuarter == -1
=============================================================================
