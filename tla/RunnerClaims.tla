---------------------------- MODULE RunnerClaims ----------------------------
(* What a document says of the line runner and the code does not keep;     *)
(* checked alone, by a run that ends with a counterexample.                *)
EXTENDS MCLineRunner

\* "Runs one order to the end of the line": a run of an order whose lot is
\* not stopped, on a line that takes all its events in their order, does not
\* break off because of its own time stamps.  An OLED order of seven panels --
\* ten may be ordered -- needs 35 events, and the 32nd is stamped 31 s ahead.
RunReachesEnd == [][outcome' # "STALE_TIMESTAMP"]_<<vars, runVars>>
=============================================================================
