---------------------------- MODULE MCFabLine ----------------------------
(* FabCore together with the dispatcher that reads its state, for TLC.     *)
EXTENDS MCFabCore, Dispatch

Slots == [p \in Panels |-> IF p = P2 THEN 2 ELSE 1]
OnlyR1 == [x \in Products |-> R1]
=============================================================================
