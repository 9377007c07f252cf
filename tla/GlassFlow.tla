----------------------------- MODULE GlassFlow -----------------------------
(***************************************************************************)
(* What the host promises of the glass, without saying how: a panel goes   *)
(* through the steps of its product's route one after the other, repeating *)
(* steps it has been through if need be, but skipping none; it does so     *)
(* only while its cassette is not stopped and the panel is not scrapped;   *)
(* it is judged good or bad only by an inspection; a bad one stops its     *)
(* cassette; a scrapped one stays scrapped and a good one is not scrapped. *)
(* All of it ends when the day is started afresh, for all glass at once.   *)
(*                                                                         *)
(* FabCore implements this specification.                                  *)
(***************************************************************************)
EXTENDS Route

CONSTANTS Lots, Panels, PanelLot, LotProduct

VARIABLES
  passed,    \* the steps each panel has been through
  verdict,   \* what became of each panel so far
  stopped    \* the stopped cassettes

flowVars == <<passed, verdict, stopped>>

Verdicts == {"OPEN", "GOOD", "BAD", "SCRAPPED"}

FlowInit ==
  /\ passed = [p \in Panels |-> {}]
  /\ verdict = [p \in Panels |-> "OPEN"]
  /\ stopped = {}

\* The panel may do `step`: it has done the step before it on its route.
Reached(p, step) ==
  LET route == RouteFor(LotProduct[PanelLot[p]])
  IN  /\ step \in StepsOf(LotProduct[PanelLot[p]])
      /\ \A i \in 1 .. Len(route) - 1 : route[i + 1] = step => route[i] \in passed[p]

Advance(p, step) ==
  /\ PanelLot[p] \notin stopped
  /\ verdict[p] # "SCRAPPED"
  /\ Reached(p, step)
  /\ passed' = [passed EXCEPT ![p] = @ \cup {step}]
  /\ \/ /\ step = "INSPECT"
        /\ verdict' = [verdict EXCEPT ![p] = "GOOD"]
        /\ UNCHANGED stopped
     \/ /\ step = "INSPECT"
        /\ verdict' = [verdict EXCEPT ![p] = "BAD"]
        /\ stopped' = stopped \cup {PanelLot[p]}
     \/ /\ step # "INSPECT"
        /\ verdict' = [verdict EXCEPT ![p] = "OPEN"]
        /\ UNCHANGED stopped
     \/ /\ verdict' = [verdict EXCEPT ![p] = "OPEN"]
        /\ stopped' = stopped \cup {PanelLot[p]}

Discard(p) ==
  /\ verdict[p] \in {"OPEN", "BAD"}
  /\ verdict' = [verdict EXCEPT ![p] = "SCRAPPED"]
  /\ UNCHANGED <<passed, stopped>>

StopLot(l) == stopped' = stopped \cup {l} /\ UNCHANGED <<passed, verdict>>

ResumeLot(l) == stopped' = stopped \ {l} /\ UNCHANGED <<passed, verdict>>

StartAfresh ==
  /\ passed' = [p \in Panels |-> {}]
  /\ verdict' = [p \in Panels |-> "OPEN"]
  /\ stopped' = {}

FlowNext ==
  \/ \E p \in Panels, step \in Steps : Advance(p, step)
  \/ \E p \in Panels : Discard(p)
  \/ \E l \in Lots : StopLot(l)
  \/ \E l \in Lots : ResumeLot(l)
  \/ StartAfresh

FlowSpec == FlowInit /\ [][FlowNext]_flowVars
=============================================================================
