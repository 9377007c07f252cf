-------------------------- MODULE MCDemonstration --------------------------
(* Instances of Demonstration for TLC.                                     *)
EXTENDS Demonstration, TLC

CONSTANTS L1, L2, L3, O1, O2, O3, C1,                  \* model values: lots
          P11, P12, P21, P31, P32, G1, G2, G3, G4,     \* their panels
          RA, RB, RC                                   \* recipes

LotOf == P11 :> L1 @@ P12 :> L1 @@ P21 :> L2 @@ P31 :> L3 @@ P32 :> L3
           @@ G1 :> O1 @@ G2 :> O2 @@ G3 :> O3 @@ G4 :> C1

ProductOfLot == [l \in Lots |-> IF l \in {L3, C1} THEN "LCD" ELSE "OLED"]
RecipeOfLot == [l \in Lots |-> IF l \in {L3, C1} THEN RC ELSE RA]
ProductOfRecipe == RA :> "OLED" @@ RB :> "OLED" @@ RC :> "LCD"
Defaults == "OLED" :> RA @@ "LCD" :> RC
Slots == [p \in Panels |-> IF p \in {P12, P32} THEN 2 ELSE 1]
AllEquipment == EquipmentIds
PracticeAndContact == Practice \cup Contact
=============================================================================
