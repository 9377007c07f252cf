---------------------------- MODULE MCLineClient ----------------------------
(* Instances of LineClient for TLC.                                        *)
EXTENDS LineClient, TLC

CONSTANTS C1, C2, L1, L2, L3, P1, P2, P3, P4, RA, RB   \* model values

LotOf == [p \in Panels |-> CASE p \in {P1, P4} -> L1 [] p = P2 -> L2 [] p = P3 -> L3]
AllOled == [l \in Lots |-> "OLED"]
RecipeOf == [l \in Lots |-> IF l = L3 THEN RB ELSE RA]
BothOled == [r \in Recipes |-> "OLED"]
AlwaysRA == [x \in Products |-> RA]
Slots == [p \in Panels |-> IF p = P4 THEN 2 ELSE 1]
OledLine == {"LOAD-01", "CLEAN-01", "PROC-01", "PROC-02", "ENC-01", "INSPECT-01"}
SameClients == Permutations(Clients)
=============================================================================
