----------------------------- MODULE RateLimit -----------------------------
(***************************************************************************)
(* The limit on the writes of one client: a sliding window of the requests *)
(* let in, kept in the host's memory.  A client that is turned away is told*)
(* after how many seconds to come back.                                    *)
(*                                                                         *)
(* Time passes in half seconds, so that the rounding to whole seconds      *)
(* matters.  Each client address has a window of its own; this is one.     *)
(***************************************************************************)
EXTENDS Integers, Sequences, FiniteSets

CONSTANTS
  PerWindow,   \* how many requests a window takes
  Window       \* its length, in seconds

ASSUME RateLimitAssumption == PerWindow \in Nat \ {0} /\ Window \in Nat \ {0}

VARIABLES
  hits,        \* the age of each request let in, the oldest first
  owed         \* half seconds until the client may come back, as it was told

limitVars == <<hits, owed>>

Unowed == -1

LimitTypeOK ==
  /\ hits \in Seq(0 .. 2 * Window + 1) /\ Len(hits) <= PerWindow
  /\ owed \in {Unowed} \cup (0 .. 2 * (Window + 1))

LimitInit == hits = <<>> /\ owed = Unowed

\* What is left of the window: the oldest requests leave it, those older than
\* the window.
Current ==
  SubSeq(hits, Cardinality({i \in DOMAIN hits : hits[i] > 2 * Window}) + 1, Len(hits))

\* Mutant: the rest of the window, rounded down.
RetryTooSoon == IF 2 * Window - Head(Current) >= 2 THEN (2 * Window - Head(Current)) \div 2 ELSE 1

\* The seconds to wait, a whole number.
RetryAfter ==
  LET rest == (2 * Window - Head(Current)) \div 2 + 1
  IN  IF rest > 1 THEN rest ELSE 1

LetIn ==
  /\ Len(Current) < PerWindow
  /\ hits' = Append(Current, 0)
  /\ owed' = Unowed

\* Only a client that keeps writing is turned away again before its time.
TurnAway ==
  /\ Len(Current) >= PerWindow
  /\ hits' = Current
  /\ owed' = IF owed \in 0 .. 2 * RetryAfter THEN owed ELSE 2 * RetryAfter

Forgotten == hits' = <<>> /\ owed' = Unowed

\* Half a second passes.
Passes ==
  /\ hits' = [i \in DOMAIN hits |-> IF hits[i] <= 2 * Window THEN hits[i] + 1 ELSE hits[i]]
  /\ owed' = IF owed > 0 THEN owed - 1 ELSE owed
=============================================================================
