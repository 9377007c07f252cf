------------------------------ MODULE Dispatch ------------------------------
(***************************************************************************)
(* The dispatcher: which panel of a lot goes on, with which step, and on   *)
(* which equipment; and the recipe that is selected when the line is made  *)
(* ready for a lot.  The line runner asks it before every event.           *)
(***************************************************************************)
EXTENDS FabCore, FiniteSets

CONSTANTS
  Slot,           \* the slot of each panel in its cassette
  DefaultRecipe   \* what is selected on the other product's equipment

ASSUME DispatchAssumption ==
  /\ IsFiniteSet(Panels)
  /\ \A l \in Lots : PanelsOf(l) # {}   \* an order is for 1 to 10 panels
  /\ Slot \in [Panels -> Nat]
  /\ \A p, q \in Panels : PanelLot[p] = PanelLot[q] /\ Slot[p] = Slot[q] => p = q
  /\ DefaultRecipe \in [Products -> Recipes]
  /\ \A e \in Equipment : EquipmentProduct(e) # None =>
       RecipeProduct[DefaultRecipe[EquipmentProduct(e)]] = EquipmentProduct(e)
  /\ \A l \in Lots : \A step \in StepsOf(LotProduct[l]) :
       \E e \in Equipment : EquipmentStep(e) = step

LineOrder == <<"LOAD-01", "CLEAN-01", "PROC-01", "PROC-02", "ENC-01",
               "PI-01", "LCD-01", "INSPECT-01">>

\* What of S stands at place i of the line.
AtPlace(i, S) == IF LineOrder[i] \in S THEN <<LineOrder[i]>> ELSE <<>>

\* The equipment of S in the order of the line.
LineOf(S) ==
  AtPlace(1, S) \o AtPlace(2, S) \o AtPlace(3, S) \o AtPlace(4, S)
    \o AtPlace(5, S) \o AtPlace(6, S) \o AtPlace(7, S) \o AtPlace(8, S)

LineEquipment == LineOf(Equipment)

\* The recipe selected on an equipment of one product, for a lot of `recipe`.
RecipeFor(e, recipe) ==
  IF EquipmentProduct(e) = RecipeProduct[recipe] THEN recipe
  ELSE DefaultRecipe[EquipmentProduct(e)]

\* Mutant: the step after the cassette's latest, whichever panel that was.
NextStepOfLot(p) ==
  IF panelStatus[p] = "FAIL" THEN "INSPECT"
  ELSE NextOperation(ProductOf(p), lotStep[PanelLot[p]])

\* The step the panel is sent to next: a failed one is inspected again.
NextStep(p) ==
  IF panelStatus[p] = "FAIL" THEN "INSPECT" ELSE NextOperation(ProductOf(p), lastStep[p])

\* Mutant: a panel that only lacks its inspection counts as done.
DoneBeforeInspect(p) == panelStatus[p] \in Finished \/ NextStep(p) \in {None, "INSPECT"}

PanelDone(p) == panelStatus[p] \in Finished \/ NextStep(p) = None

\* How willing an equipment is to take a panel; the lowest is picked, the
\* first of the line on a tie.  (In a run, only equipment under maintenance can
\* be one never heard of, and maintenance weighs more.)
Reluctance(e) ==
  IF eqStatus[e] = "MAINTENANCE" THEN 50
  ELSE IF eqStatus[e] = "STOP" THEN 40
  ELSE IF e \in lost THEN 30
  ELSE IF eqLot[e] # None THEN 20
  ELSE IF eqStatus[e] = "RUN" THEN 10
  ELSE 0

PickEquipment(step) ==
  LET fit == {i \in 1 .. 8 : LineOrder[i] \in Equipment /\ EquipmentStep(LineOrder[i]) = step}
      Before(i, j) == \/ Reluctance(LineOrder[i]) < Reluctance(LineOrder[j])
                      \/ Reluctance(LineOrder[i]) = Reluctance(LineOrder[j]) /\ i < j
  IN  LineOrder[CHOOSE i \in fit : \A j \in fit \ {i} : Before(i, j)]

\* The panel the lot goes on with: the first that is neither bad nor done,
\* otherwise its last one.
NextPanel(l) ==
  LET open == {p \in PanelsOf(l) : panelStatus[p] \notin {"FAIL", "SCRAP"} /\ ~PanelDone(p)}
      last == CHOOSE p \in PanelsOf(l) : \A q \in PanelsOf(l) : Slot[q] <= Slot[p]
  IN  IF open = {} THEN last ELSE CHOOSE p \in open : \A q \in open : Slot[p] <= Slot[q]

-----------------------------------------------------------------------------
(* Property.                                                               *)

\* The dispatcher and the host's checks agree: whatever came in whatever order,
\* the step a panel is sent to is one the host takes from that panel, on an
\* equipment of that step and of the panel's product.
DispatchIsAcceptable ==
  \A p \in Panels :
    LET l == PanelLot[p]
        step == NextStep(p)
    IN  LotKnown(l) /\ ~PanelDone(p) =>
          /\ PanelNotScrapped(p)
          /\ StepAllowed(p, l, step)
          /\ StepMatchesEquipment(PickEquipment(step), step)
          /\ ProductMatches(PickEquipment(step), l)
=============================================================================
