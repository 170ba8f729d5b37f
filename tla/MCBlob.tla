------------------------------- MODULE MCBlob -------------------------------
(***************************************************************************)
(* A row for three states, a week of two buckets, two clocks and counters  *)
(* that overflow at 5.                                                     *)
(***************************************************************************)
EXTENDS BlobTable, TLC

Span(b, n) == [bucket |-> b, amount |-> n]

\* from, to, what the clocks raise and the spans they return.
Case(f, t, r0, r1, s0, s1) ==
  [from |-> f, to |-> t, raises |-> [c \in 0..1 |-> <<r0, r1>>[c + 1]],
   spans |-> [c \in 0..1 |-> <<s0, s1>>[c + 1]]]

ok == "nothing"

\* Two intervals for one state that do not fit together twice, an interval
\* whose second clock is skipped and one whose second clock breaks the update;
\* transitions both ways, one with an undefined clock, one with a ValueError.
Cases ==
  ("hold"    :> Case(0, 0, ok, ok, <<Span(0, 1), Span(1, 2)>>, <<Span(1, 3)>>)) @@
  ("twice"   :> Case(0, 0, ok, ok, <<Span(1, 1), Span(0, 1)>>, <<Span(0, 1), Span(1, 1)>>)) @@
  ("again"   :> Case(0, 0, ok, ok, <<Span(0, 1)>>, <<Span(1, 1)>>)) @@
  ("partly"  :> Case(2, 2, ok, "invalid", <<Span(1, 2)>>, <<>>)) @@
  ("broken"  :> Case(2, 2, ok, "other", <<Span(0, 1)>>, <<>>)) @@
  ("there"   :> Case(0, 2, ok, ok, <<Span(0, 1)>>, <<Span(1, 1)>>)) @@
  ("back"    :> Case(2, 0, ok, "undefined", <<Span(1, 1)>>, <<>>)) @@
  ("invalid" :> Case(1, 2, ok, "invalid", <<Span(0, 1)>>, <<>>))

MCEvent == DOMAIN Cases
MCFrom == [e \in MCEvent |-> Cases[e].from]
MCTo == [e \in MCEvent |-> Cases[e].to]
MCRaises == [e \in MCEvent |-> Cases[e].raises]
MCSpans == [e \in MCEvent |-> Cases[e].spans]
=============================================================================
