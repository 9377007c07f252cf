--------------------------- MODULE MCLineRunner ---------------------------
(* Instances of LineRunner for TLC.                                        *)
EXTENDS LineRunner, TLC

CONSTANTS L1, R1, R2, P1, P2, P3, P4, P5, P6, P7   \* model values

InL1 == [p \in Panels |-> L1]
OledLot == L1 :> "OLED"
OledRecipe == L1 :> R1
OledAndLcd == R1 :> "OLED" @@ R2 :> "LCD"
OneOfEach == "OLED" :> R1 @@ "LCD" :> R2
InOrder == [p \in Panels |->
  CASE p = P1 -> 1 [] p = P2 -> 2 [] p = P3 -> 3 [] p = P4 -> 4
    [] p = P5 -> 5 [] p = P6 -> 6 [] p = P7 -> 7]

OledLine == {"LOAD-01", "CLEAN-01", "PROC-01", "PROC-02", "ENC-01", "INSPECT-01"}
=============================================================================
