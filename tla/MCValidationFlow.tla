-------------------------- MODULE MCValidationFlow --------------------------
(* Runs of the validation flow that follow each other or overlap.          *)
EXTENDS ValidationFlow
=============================================================================
