---------------------------- MODULE SchemaUpgrade ----------------------------
(***************************************************************************)
(* What init_schema promises: whoever looks at the database sees the table *)
(* of aggregates as it was or with its foreign key, never anything in      *)
(* between, and the upgrade drops the rows of unknown controls only.       *)
(***************************************************************************)
EXTENDS Integers

CONSTANTS Control, MaxWrites

VARIABLES
  known,   \* controls declared
  form,    \* the table of aggregates: "absent", "legacy" or "fk"
  count    \* count[k]: what the row of control k has counted, 0 for no row

upgradeVars == <<known, form, count>>

UpgradeInit ==
  /\ known \in SUBSET Control
  /\ form \in {"absent", "legacy", "fk"}
  /\ count \in [Control -> 0..MaxWrites]
  /\ form = "absent" => \A k \in Control : count[k] = 0
  /\ form = "fk" => \A k \in Control : count[k] > 0 => k \in known

DeclareControl(k) ==
  /\ known' = known \cup {k}
  /\ UNCHANGED <<form, count>>

CountEvent(k) ==
  /\ k \in known /\ form # "absent"
  /\ count' = [count EXCEPT ![k] = @ + 1]
  /\ UNCHANGED <<known, form>>

Upgrade ==
  /\ form' = "fk"
  /\ count' = [k \in Control |-> IF k \in known THEN count[k] ELSE 0]
  /\ UNCHANGED known

UpgradeNext == Upgrade \/ \E k \in Control : DeclareControl(k) \/ CountEvent(k)

UpgradeSpec == UpgradeInit /\ [][UpgradeNext]_upgradeVars
=============================================================================
