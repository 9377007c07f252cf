------------------------------- MODULE MCOee -------------------------------
(* Instances of Oee for TLC.                                               *)
EXTENDS OeeClaims, TLC

CONSTANTS E1, E2   \* model values: equipment

SameEquipment == Permutations({E1, E2})
=============================================================================
