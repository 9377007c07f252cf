----------------------------- MODULE LinkClaims -----------------------------
(* What a document says of the contact with equipment and the code does    *)
(* not keep; checked alone, by a run that ends with a counterexample.      *)
EXTENDS MCEquipmentLink

\* "When communication is back, COMMUNICATION_LOSS is resolved": no equipment
\* that is ONLINE has such an alarm open.  A refused event of an OFFLINE
\* equipment brings it ONLINE and raises the alarm in one handler.
RecoveryResolvesAlarm == \A e \in online : lossAlarms[e] = 0
=============================================================================
