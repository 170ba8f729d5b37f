---------------------------- MODULE MCMigration ----------------------------
(* Two processes upgrade a database of two controls.                       *)
EXTENDS Migration
=============================================================================
