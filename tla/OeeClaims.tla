----------------------------- MODULE OeeClaims -----------------------------
(***************************************************************************)
(* What the documents say of the planned time and the code does not keep.  *)
(***************************************************************************)
EXTENDS Oee

\* "From the time equipment first reported today until now": the planned time
\* begins when the first report came, give or take the delay the host accepts.
\* A report that is refused because its stamp is hours old sets it back to then.
OpensWithFirstReport ==
  planned = 0 /\ LineOpenAt # Never => LineOpenAt >= heard - StaleAfter
=============================================================================
