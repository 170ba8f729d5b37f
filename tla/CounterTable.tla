---------------------------- MODULE CounterTable ----------------------------
(***************************************************************************)
(* What one aggregates row means, with no bytes in sight: a table of       *)
(* counters, one per cell.  An event adds its increments to all its cells  *)
(* at once, or it fails and adds nothing.                                  *)
(***************************************************************************)
EXTENDS Integers

CONSTANTS
  Event,         \* events sent to the row
  Cell,          \* the counters
  Increment,     \* Increment[e][x]: what event e adds to counter x
  Computable(_), \* none of the event's clocks raises what nobody catches
  Limit          \* counters stay below it

VARIABLES
  table,         \* table[x]: the counter of cell x
  verdict        \* verdict[e]: "none", "recorded" or "failed"

tableVars == <<table, verdict>>

TableInit ==
  /\ table = [x \in Cell |-> 0]
  /\ verdict = [e \in Event |-> "none"]

Fits(e) == \A x \in Cell : table[x] + Increment[e][x] < Limit

Record(e) ==
  /\ verdict[e] = "none" /\ Computable(e) /\ Fits(e)
  /\ table' = [x \in Cell |-> table[x] + Increment[e][x]]
  /\ verdict' = [verdict EXCEPT ![e] = "recorded"]

Fail(e) ==
  /\ verdict[e] = "none" /\ ~(Computable(e) /\ Fits(e))
  /\ verdict' = [verdict EXCEPT ![e] = "failed"]
  /\ UNCHANGED table

TableNext == \E e \in Event : Record(e) \/ Fail(e)

TableSpec == TableInit /\ [][TableNext]_tableVars

=============================================================================
