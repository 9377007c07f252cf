----------------------------- MODULE MCFabCore -----------------------------
(* Instances of FabCore for TLC.                                           *)
EXTENDS FabClaims, TLC

CONSTANTS L1, L2, P1, P2, R1, R2   \* model values: lots, panels, recipes

BothInL1 == P1 :> L1 @@ P2 :> L1
OneEach == P1 :> L1 @@ P2 :> L2
OnlyP1 == P1 :> L1

AllLcd == [l \in Lots |-> "LCD"]
AllOled == [l \in Lots |-> "OLED"]
LcdAndOled == L1 :> "LCD" @@ L2 :> "OLED"

AllR1 == [l \in Lots |-> R1]
OneRecipeEach == L1 :> R1 @@ L2 :> R2

LcdAndUnknown == R1 :> "LCD" @@ R2 :> None
LcdAndOledRecipes == R1 :> "LCD" @@ R2 :> "OLED"
BothOled == R1 :> "OLED" @@ R2 :> "OLED"

LcdLine == {"LOAD-01", "PI-01", "LCD-01", "INSPECT-01"}
OledLine == {"LOAD-01", "CLEAN-01", "PROC-01", "PROC-02", "ENC-01", "INSPECT-01"}
LoadCoatCell == {"LOAD-01", "PI-01", "LCD-01"}

SamePanels == Permutations({P1, P2})
=============================================================================
