----------------------------- MODULE FabClaims -----------------------------
(* What a document says of the production state and the code does not      *)
(* keep; checked alone, by a run that TLC ends with a counterexample.      *)
EXTENDS FabCore

\* "When all five are finished the order is done, the lot is complete": a
\* closed work order is that of a complete lot.  Scrapping the last panel that
\* was left closes the order and leaves the lot as it is.
DoneOrderHasCompleteLot ==
  \A l \in Lots : order[l] = "DONE" => lotStatus[l] = "COMPLETE"
=============================================================================
