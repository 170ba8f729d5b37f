----------------------------- MODULE MCTestDbs -----------------------------
(***************************************************************************)
(* Two workers and two tests; somebody deletes the file of the second.     *)
(***************************************************************************)
EXTENDS TestDbs, TLC

CONSTANTS w1, w2    \* the workers, as model values

MCWorkers == {w1, w2}

\* Test a: an event, an export and a reset; test b: an event.
Asked ==
  ("event" :> <<"a", "write">>) @@ ("export" :> <<"a", "export">>)
    @@ ("reset" :> <<"a", "reset">>) @@ ("other" :> <<"b", "write">>)

MCRequests == DOMAIN Asked
MCTest == [r \in MCRequests |-> Asked[r][1]]
MCOp == [r \in MCRequests |-> Asked[r][2]]

\* Two events of a test whose file somebody deletes.
DeletedAsked == ("first" :> <<"b", "write">>) @@ ("second" :> <<"b", "write">>)

DeletedRequests == DOMAIN DeletedAsked
DeletedTest == [r \in DeletedRequests |-> DeletedAsked[r][1]]
DeletedOp == [r \in DeletedRequests |-> DeletedAsked[r][2]]
=============================================================================
