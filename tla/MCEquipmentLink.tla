-------------------------- MODULE MCEquipmentLink --------------------------
(* The instance of EquipmentLink that TLC checks: two equipment, which the *)
(* sweep marks in one commit, and one crash of the host.                   *)
EXTENDS EquipmentLink

CONSTANTS e1, e2   \* model values
=============================================================================
