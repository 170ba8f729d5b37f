---------------------------- MODULE MCSnapshots ----------------------------
(***************************************************************************)
(* Two exports of the main database, each to a name of its own.            *)
(***************************************************************************)
EXTENDS Snapshots, TLC

MCOut == ("e1" :> "n1") @@ ("e2" :> "n2")
MCSource == [e \in DOMAIN MCOut |-> "main"]
=============================================================================
