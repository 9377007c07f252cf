--------------------------- MODULE DispatchProofs ---------------------------
(***************************************************************************)
(* The dispatcher and the host's checks agree, for every set of lots and   *)
(* panels and every line that has an equipment for each step.              *)
(***************************************************************************)
EXTENDS Dispatch, FabCoreProofs, FiniteSetTheorems, SequenceTheorems

-----------------------------------------------------------------------------
(* The tables.                                                             *)

\* A step of a product's route is done by equipment of that product or shared.
LEMMA StepFitsProduct ==
  ASSUME NEW e \in EquipmentIds, NEW product \in Products,
         EquipmentStep(e) \in StepsOf(product)
  PROVE  EquipmentProduct(e) \in {None, product}
  <1>1. StepsOf("LCD") = {"LOAD", "PI", "LCD_CELL", "INSPECT"}
    BY DEF StepsOf, RouteFor, LcdRoute
  <1>2. StepsOf("OLED") = {"LOAD", "CLEAN", "EVAP", "ENCAP", "INSPECT"}
    BY DEF StepsOf, RouteFor, OledRoute
  <1>3. CASE product = "LCD"
    BY <1>1, <1>3 DEF EquipmentIds, EquipmentStep, EquipmentProduct
  <1>4. CASE product = "OLED"
    BY <1>2, <1>4 DEF EquipmentIds, EquipmentStep, EquipmentProduct
  <1> QED
    BY <1>3, <1>4 DEF Products

\* The step a panel is sent to is one the sequence check lets through.
LEMMA NextOperationAllowed ==
  ASSUME NEW product \in Products, NEW last, NextOperation(product, last) # None
  PROVE  NextOperation(product, last) \in AllowedNextSteps(product, last)
  <1>1. CASE last \notin StepsOf(product)
    BY <1>1 DEF NextOperation, AllowedNextSteps
  <1>2. CASE last \in StepsOf(product)
    <2>1. Successors(product, last) # {}
      BY <1>2 DEF NextOperation
    <2>2. NextOperation(product, last) = CHOOSE step \in Successors(product, last) : TRUE
      BY <1>2, <2>1 DEF NextOperation
    <2> QED
      BY <1>2, <2>1, <2>2 DEF AllowedNextSteps
  <1> QED
    BY <1>1, <1>2

LEMMA ReluctanceType ==
  ASSUME NEW e
  PROVE  Reluctance(e) \in Nat
  BY DEF Reluctance

LEMMA LinePlaces ==
  /\ \A i \in 1 .. 8 : LineOrder[i] \in EquipmentIds
  /\ \A e \in EquipmentIds : \E i \in 1 .. 8 : LineOrder[i] = e
  BY DEF LineOrder, EquipmentIds

\* Two equipments that do the same step are neighbours in the line.
LEMMA NeighboursShare ==
  ASSUME NEW i \in 1 .. 8, NEW j \in 1 .. 8,
         EquipmentStep(LineOrder[i]) = EquipmentStep(LineOrder[j]), i # j
  PROVE  i \in {3, 4} /\ j \in {3, 4}
  BY DEF EquipmentStep, LineOrder

\* The dispatcher picks an equipment that does the step, if the line has one,
\* and of those that do it none is more willing.
LEMMA PickedFits ==
  ASSUME NEW step, NEW e \in Equipment, EquipmentStep(e) = step
  PROVE  /\ PickEquipment(step) \in Equipment
         /\ EquipmentStep(PickEquipment(step)) = step
         /\ Reluctance(PickEquipment(step)) <= Reluctance(e)
  <1> DEFINE fit == {i \in 1 .. 8 : LineOrder[i] \in Equipment
                                      /\ EquipmentStep(LineOrder[i]) = step}
             R(i) == Reluctance(LineOrder[i])
             Before(i, j) == R(i) < R(j) \/ (R(i) = R(j) /\ i < j)
             Best(i) == \A j \in fit \ {i} : Before(i, j)
  <1>1. PickEquipment(step) = LineOrder[CHOOSE i \in fit : Best(i)]
    BY DEF PickEquipment
  <1>2. \A i : R(i) \in Nat
    BY ReluctanceType
  <1>3. PICK i \in fit : TRUE
    BY LinePlaces, FabAssumption
  <1>4. \A j \in fit \ {i} : i \in {3, 4} /\ j \in {3, 4}
    BY NeighboursShare
  <1> HIDE DEF fit, R
  <1>5. \E k \in fit : Best(k)
    <2>1. CASE fit \ {i} = {}
      BY <2>1
    <2>2. CASE fit \ {i} # {}
      <3>1. PICK j \in fit : fit = {i, j} /\ i # j
        BY <2>2, <1>4
      <3>2. Before(i, j) \/ Before(j, i)
        BY <1>2, <1>4, <3>1
      <3> QED
        BY <3>1, <3>2
    <2> QED
      BY <2>1, <2>2
  <1>6. PICK k \in fit : PickEquipment(step) = LineOrder[k] /\ Best(k)
    <2> HIDE DEF Best
    <2> QED
      BY <1>1, <1>5
  <1>7. PICK j \in fit : LineOrder[j] = e
    BY LinePlaces, FabAssumption DEF fit
  <1>8. R(k) <= R(j)
    BY <1>2, <1>6
  <1> QED
    BY <1>6, <1>7, <1>8 DEF fit, R

-----------------------------------------------------------------------------
(* The panel the lot goes on with.                                         *)

\* Of some panels, one weighs least: no other has as few that are lighter.
LEMMA LightestPanel ==
  ASSUME NEW P \in SUBSET Panels, P # {}, NEW weight \in [P -> Int]
  PROVE  \E p \in P : \A q \in P : weight[p] <= weight[q]
  <1> DEFINE Below(p) == {q \in P : weight[q] < weight[p]}
             R == StrictSubsetOrdering(P)
  <1>1. IsWellFoundedOn(R, SUBSET P)
    <2>1. IsFiniteSet(P)
      BY FS_Subset, DispatchAssumption
    <2> QED
      BY <2>1, FS_StrictSubsetOrderingWellFounded, FS_FiniteSubsetsOfFinite
  <1>2. PICK X \in {Below(p) : p \in P} : \A Y \in {Below(p) : p \in P} : ~(<<Y, X>> \in R)
    <2>1. {Below(p) : p \in P} \subseteq SUBSET P /\ {Below(p) : p \in P} # {}
      OBVIOUS
    <2> HIDE DEF Below, R
    <2> QED
      BY <1>1, <2>1, WFMin
  <1>3. PICK p \in P : X = Below(p)
    BY <1>2
  <1>4. ASSUME NEW q \in P, weight[q] < weight[p] PROVE FALSE
    <2>1. Below(q) \subseteq Below(p)
      BY <1>4
    <2>2. q \in Below(p) /\ q \notin Below(q)
      BY <1>4
    <2>3. <<Below(q), Below(p)>> \in R
      BY <2>1, <2>2 DEF StrictSubsetOrdering
    <2> QED
      BY <1>2, <1>3, <2>3
  <1> QED
    BY <1>4

\* Some panel is first in its cassette, and some is last.
LEMMA FirstPanel ==
  ASSUME NEW P \in SUBSET Panels, P # {}
  PROVE  \E p \in P : \A q \in P : Slot[p] <= Slot[q]
  <1> DEFINE weight == [p \in P |-> Slot[p]]
  <1>1. weight \in [P -> Int]
    BY DispatchAssumption
  <1>2. \E p \in P : \A q \in P : weight[p] <= weight[q]
    <2> HIDE DEF weight
    <2> QED
      BY <1>1, LightestPanel
  <1> QED
    BY <1>2

LEMMA LastPanel ==
  ASSUME NEW P \in SUBSET Panels, P # {}
  PROVE  \E p \in P : \A q \in P : Slot[q] <= Slot[p]
  <1> DEFINE weight == [p \in P |-> 0 - Slot[p]]
  <1>1. weight \in [P -> Int]
    BY DispatchAssumption
  <1>2. \E p \in P : \A q \in P : weight[p] <= weight[q]
    <2> HIDE DEF weight
    <2> QED
      BY <1>1, LightestPanel
  <1> QED
    BY <1>2, DispatchAssumption

\* It is one of the lot's, and only done when each of the lot's is done or bad.
LEMMA NextPanelOfLot ==
  ASSUME NEW l \in Lots
  PROVE  /\ NextPanel(l) \in PanelsOf(l)
         /\ PanelDone(NextPanel(l)) =>
              \A p \in PanelsOf(l) : panelStatus[p] \in {"FAIL", "SCRAP"} \/ PanelDone(p)
  <1> DEFINE open == {p \in PanelsOf(l) : panelStatus[p] \notin {"FAIL", "SCRAP"} /\ ~PanelDone(p)}
             First(p) == \A q \in open : Slot[p] <= Slot[q]
             Last(p) == \A q \in PanelsOf(l) : Slot[q] <= Slot[p]
  <1>1. NextPanel(l) = IF open = {} THEN CHOOSE p \in PanelsOf(l) : Last(p)
                       ELSE CHOOSE p \in open : First(p)
    BY DEF NextPanel
  <1>2. PanelsOf(l) \in SUBSET Panels /\ PanelsOf(l) # {} /\ open \in SUBSET Panels
    BY DispatchAssumption DEF PanelsOf
  <1>3. (CHOOSE p \in PanelsOf(l) : Last(p)) \in PanelsOf(l)
    BY <1>2, LastPanel
  <1>4. open # {} => (CHOOSE p \in open : First(p)) \in open
    BY <1>2, FirstPanel
  <1> QED
    BY <1>1, <1>3, <1>4

-----------------------------------------------------------------------------
(* A failed panel is sent to its inspection again, whatever its latest     *)
(* step.  The latest step need not be the inspection -- its report may     *)
(* have come late -- but it is one that an inspection may follow.          *)

FailedIsInspectable ==
  \A p \in Panels :
    panelStatus[p] = "FAIL" => "INSPECT" \in AllowedNextSteps(ProductOf(p), lastStep[p])

LEMMA InspectAgain ==
  ASSUME NEW product \in Products
  PROVE  "INSPECT" \in AllowedNextSteps(product, "INSPECT")
  <1>1. "INSPECT" \in StepsOf("LCD")
    BY DEF StepsOf, RouteFor, LcdRoute
  <1>2. "INSPECT" \in StepsOf("OLED")
    BY DEF StepsOf, RouteFor, OledRoute
  <1> QED
    BY <1>1, <1>2 DEF AllowedNextSteps, Products

LEMMA FailedStaysInspectable == Spec => []FailedIsInspectable
  <1>1. Init => FailedIsInspectable
    BY DEF Init, FailedIsInspectable
  <1>2. TypeOK /\ FailedIsInspectable /\ [Next]_vars => FailedIsInspectable'
    <2> SUFFICES ASSUME TypeOK, FailedIsInspectable, [Next]_vars
                 PROVE  FailedIsInspectable'
      OBVIOUS
    <2>1. ASSUME NEW e \in Equipment, NEW l \in Lots, NEW p \in Panels, NEW step \in Steps,
                 NEW recipe \in Recipes \cup {None}, NEW status \in EventStatuses,
                 NEW fails \in BOOLEAN, NEW late \in BOOLEAN,
                 AcceptedEvent(e, l, p, step, recipe, status, fails, late)
          PROVE  FailedIsInspectable'
      <3>1. /\ step \in AllowedNextSteps(ProductOf(p), lastStep[p])
            /\ fails => step = "INSPECT"
            /\ lastStep' = IF late THEN lastStep ELSE [lastStep EXCEPT ![p] = step]
        BY <2>1 DEF AcceptedEvent, Acceptable, Apply, PanelInLot, StepAllowed, ProductOf
      <3>2. panelStatus'[p] = "FAIL" => fails
        <4> DEFINE mismatch == recipe \notin {None, LotRecipe[l]}
        <4>1. panelStatus' = [panelStatus EXCEPT ![p] = PanelAfter(step, mismatch, fails)]
          BY <2>1 DEF AcceptedEvent, Apply
        <4>2. PanelAfter(step, mismatch, fails) = "FAIL" => fails
          BY DEF PanelAfter
        <4> HIDE DEF mismatch
        <4> QED
          BY <4>1, <4>2 DEF TypeOK
      <3>3. \A q \in Panels \ {p} : panelStatus'[q] = panelStatus[q] /\ lastStep'[q] = lastStep[q]
        <4>1. \A q \in Panels \ {p} : panelStatus'[q] = panelStatus[q]
          BY <2>1, AcceptedEffect
        <4>2. \A q \in Panels \ {p} : lastStep'[q] = lastStep[q]
          BY <3>1 DEF TypeOK
        <4> QED
          BY <4>1, <4>2
      <3>4. ASSUME fails
            PROVE  "INSPECT" \in AllowedNextSteps(ProductOf(p), lastStep'[p])
        <4>1. ProductOf(p) \in Products
          BY FabAssumption DEF ProductOf
        <4>2. lastStep'[p] \in {lastStep[p], "INSPECT"}
          BY <3>1, <3>4 DEF TypeOK
        <4> QED
          BY <3>1, <3>4, <4>1, <4>2, InspectAgain
      <3> QED
        BY <3>2, <3>3, <3>4 DEF FailedIsInspectable, ProductOf
    <2>2. ASSUME \A p \in Panels : panelStatus'[p] = "FAIL" => panelStatus[p] = "FAIL",
                 UNCHANGED lastStep
          PROVE  FailedIsInspectable'
      BY <2>2 DEF FailedIsInspectable, ProductOf
    <2>3. ASSUME NEW l \in Lots, HoldLot(l) PROVE FailedIsInspectable'
      BY <2>2, <2>3 DEF HoldLot, panelVars
    <2>4. ASSUME NEW l \in Lots, ReleaseLot(l) PROVE FailedIsInspectable'
      BY <2>2, <2>4 DEF ReleaseLot
    <2>5. ASSUME NEW p \in Panels, ScrapPanel(p) PROVE FailedIsInspectable'
      BY <2>2, <2>5 DEF ScrapPanel, TypeOK
    <2>6. ASSUME NEW l \in Lots, CreateAndRelease(l) PROVE FailedIsInspectable'
      BY <2>2, <2>6 DEF CreateAndRelease, panelVars
    <2>7. ASSUME NEW e \in Equipment, WakeEquipment(e) PROVE FailedIsInspectable'
      BY <2>2, <2>7 DEF WakeEquipment, panelVars
    <2>8. ASSUME Reset PROVE FailedIsInspectable'
      BY <2>8 DEF Reset, FailedIsInspectable
    <2>9. ASSUME UNCHANGED <<lotVars, panelVars, order, eqLot>> PROVE FailedIsInspectable'
      BY <2>2, <2>9 DEF panelVars
    <2> QED
      BY <2>1, <2>3, <2>4, <2>5, <2>6, <2>7, <2>8, <2>9, LotCases, ZenonT(60)
  <1> QED
    BY <1>1, <1>2, TypeCorrect, PTL DEF Spec

-----------------------------------------------------------------------------
(* The dispatcher.                                                         *)

\* Whatever came in whatever order, the step the dispatcher names for a panel
\* that is not done is one the host takes from it, on the equipment it names.
THEOREM DispatchAccepted == Spec => []DispatchIsAcceptable
  <1>1. FailedIsInspectable => DispatchIsAcceptable
    <2> SUFFICES ASSUME FailedIsInspectable, NEW p \in Panels, ~PanelDone(p)
                 PROVE  /\ PanelNotScrapped(p)
                        /\ StepAllowed(p, PanelLot[p], NextStep(p))
                        /\ StepMatchesEquipment(PickEquipment(NextStep(p)), NextStep(p))
                        /\ ProductMatches(PickEquipment(NextStep(p)), PanelLot[p])
      BY DEF DispatchIsAcceptable
    <2>1. PanelLot[p] \in Lots /\ ProductOf(p) \in Products /\ ProductOf(p) = LotProduct[PanelLot[p]]
      BY FabAssumption DEF ProductOf
    <2>2. NextStep(p) \in AllowedNextSteps(ProductOf(p), lastStep[p])
      BY <2>1, NextOperationAllowed DEF FailedIsInspectable, PanelDone, NextStep
    <2>3. NextStep(p) \in StepsOf(ProductOf(p))
      BY <2>1, <2>2, AllowedStepsType
    <2>4. PICK e \in Equipment : EquipmentStep(e) = NextStep(p)
      BY <2>1, <2>3, DispatchAssumption
    <2>5. /\ PickEquipment(NextStep(p)) \in Equipment
          /\ EquipmentStep(PickEquipment(NextStep(p))) = NextStep(p)
      BY <2>4, PickedFits
    <2>6. EquipmentProduct(PickEquipment(NextStep(p))) \in {None, ProductOf(p)}
      BY <2>1, <2>3, <2>5, StepFitsProduct, FabAssumption
    <2> QED
      BY <2>1, <2>2, <2>5, <2>6
         DEF PanelDone, PanelNotScrapped, Finished, StepAllowed, StepMatchesEquipment, ProductMatches
  <1> QED
    BY <1>1, FailedStaysInspectable, PTL

-----------------------------------------------------------------------------
(* What those who run an order prepare and plan.                           *)

\* The line is a sequence of its equipment.
LEMMA LineOfType ==
  ASSUME NEW S
  PROVE  /\ LineOf(S) \in Seq(S)
         /\ LineOf(S) = <<>> => S \cap EquipmentIds = {}
  <1>1. \A i \in 1 .. 8 : /\ AtPlace(i, S) \in Seq(S)
                          /\ LineOrder[i] \in S => AtPlace(i, S) # <<>>
    BY DEF AtPlace
  <1>2. ASSUME NEW s \in Seq(S), NEW i \in 1 .. 8
        PROVE  /\ s \o AtPlace(i, S) \in Seq(S)
               /\ s \o AtPlace(i, S) = <<>> => s = <<>> /\ AtPlace(i, S) = <<>>
    BY <1>1, ConcatProperties, ConcatEqualIffEmpty
  <1> DEFINE to2 == AtPlace(1, S) \o AtPlace(2, S)
             to3 == to2 \o AtPlace(3, S)
             to4 == to3 \o AtPlace(4, S)
             to5 == to4 \o AtPlace(5, S)
             to6 == to5 \o AtPlace(6, S)
             to7 == to6 \o AtPlace(7, S)
             to8 == to7 \o AtPlace(8, S)
  <1>3. LineOf(S) = to8
    BY DEF LineOf
  <1>4. to2 \in Seq(S) /\ (to2 = <<>> => AtPlace(1, S) = <<>> /\ AtPlace(2, S) = <<>>)
    BY <1>1, <1>2
  <1> HIDE DEF to2
  <1>5. to3 \in Seq(S) /\ (to3 = <<>> => to2 = <<>> /\ AtPlace(3, S) = <<>>)
    BY <1>2, <1>4
  <1> HIDE DEF to3
  <1>6. to4 \in Seq(S) /\ (to4 = <<>> => to3 = <<>> /\ AtPlace(4, S) = <<>>)
    BY <1>2, <1>5
  <1> HIDE DEF to4
  <1>7. to5 \in Seq(S) /\ (to5 = <<>> => to4 = <<>> /\ AtPlace(5, S) = <<>>)
    BY <1>2, <1>6
  <1> HIDE DEF to5
  <1>8. to6 \in Seq(S) /\ (to6 = <<>> => to5 = <<>> /\ AtPlace(6, S) = <<>>)
    BY <1>2, <1>7
  <1> HIDE DEF to6
  <1>9. to7 \in Seq(S) /\ (to7 = <<>> => to6 = <<>> /\ AtPlace(7, S) = <<>>)
    BY <1>2, <1>8
  <1> HIDE DEF to7
  <1>10. to8 \in Seq(S) /\ (to8 = <<>> => to7 = <<>> /\ AtPlace(8, S) = <<>>)
    BY <1>2, <1>9
  <1> HIDE DEF to8
  <1>11. ASSUME to8 = <<>>, NEW e \in S \cap EquipmentIds PROVE FALSE
    <2>1. PICK i \in 1 .. 8 : LineOrder[i] = e
      BY LinePlaces
    <2>2. AtPlace(i, S) # <<>>
      BY <1>1, <2>1
    <2>3. i \in {1, 2, 3, 4, 5, 6, 7, 8}
      OBVIOUS
    <2>4. to7 = <<>> /\ to6 = <<>> /\ to5 = <<>> /\ to4 = <<>> /\ to3 = <<>> /\ to2 = <<>>
      BY <1>5, <1>6, <1>7, <1>8, <1>9, <1>10, <1>11
    <2> QED
      BY <1>4, <1>5, <1>6, <1>7, <1>8, <1>9, <1>10, <1>11, <2>2, <2>3, <2>4, Zenon
  <1> QED
    BY <1>3, <1>10, <1>11

\* All of it is a sequence of equipment, and an instance with a lot has some.
LEMMA LineIsThere ==
  /\ LineEquipment \in Seq(Equipment)
  /\ Lots # {} => LineEquipment # <<>>
  <1>1. LineEquipment \in Seq(Equipment)
    BY LineOfType DEF LineEquipment
  <1>2. ASSUME NEW l \in Lots PROVE LineEquipment # <<>>
    <2>1. StepsOf(LotProduct[l]) # {}
      BY FabAssumption DEF StepsOf, RouteFor, OledRoute, LcdRoute, Products
    <2>2. PICK e \in Equipment : TRUE
      BY <2>1, DispatchAssumption
    <2>3. e \in Equipment \cap EquipmentIds
      BY <2>2, FabAssumption
    <2> QED
      BY <2>3, LineOfType DEF LineEquipment
  <1> QED
    BY <1>1, <1>2

\* One equipment to prepare is a sequence of them.
LEMMA OneToPrepare ==
  ASSUME NEW e \in Equipment
  PROVE  <<e>> \in Seq(Equipment) /\ <<e>> # <<>>
  OBVIOUS

\* The routes, step by step: what a panel may do after each.
LEMMA OledSteps ==
  /\ StepsOf("OLED") = {"LOAD", "CLEAN", "EVAP", "ENCAP", "INSPECT"}
  /\ AllowedNextSteps("OLED", None) = {"LOAD"}
  /\ AllowedNextSteps("OLED", "LOAD") = {"LOAD", "CLEAN"}
  /\ AllowedNextSteps("OLED", "CLEAN") = {"CLEAN", "EVAP"}
  /\ AllowedNextSteps("OLED", "EVAP") = {"EVAP", "ENCAP"}
  /\ AllowedNextSteps("OLED", "ENCAP") = {"ENCAP", "INSPECT"}
  <1>1. StepsOf("OLED") = {"LOAD", "CLEAN", "EVAP", "ENCAP", "INSPECT"}
    BY DEF StepsOf, RouteFor, OledRoute
  <1>2. /\ Successors("OLED", "LOAD") = {"CLEAN"}
        /\ Successors("OLED", "CLEAN") = {"EVAP"}
        /\ Successors("OLED", "EVAP") = {"ENCAP"}
        /\ Successors("OLED", "ENCAP") = {"INSPECT"}
    BY DEF Successors, RouteFor, OledRoute
  <1>3. RouteFor("OLED")[1] = "LOAD"
    BY DEF RouteFor, OledRoute
  <1> QED
    BY <1>1, <1>2, <1>3, NoneIsNotAStep DEF AllowedNextSteps, Steps

LEMMA LcdSteps ==
  /\ StepsOf("LCD") = {"LOAD", "PI", "LCD_CELL", "INSPECT"}
  /\ AllowedNextSteps("LCD", None) = {"LOAD"}
  /\ AllowedNextSteps("LCD", "LOAD") = {"LOAD", "PI"}
  /\ AllowedNextSteps("LCD", "PI") = {"PI", "LCD_CELL"}
  /\ AllowedNextSteps("LCD", "LCD_CELL") = {"LCD_CELL", "INSPECT"}
  <1>1. StepsOf("LCD") = {"LOAD", "PI", "LCD_CELL", "INSPECT"}
    BY DEF StepsOf, RouteFor, LcdRoute
  <1>2. /\ Successors("LCD", "LOAD") = {"PI"}
        /\ Successors("LCD", "PI") = {"LCD_CELL"}
        /\ Successors("LCD", "LCD_CELL") = {"INSPECT"}
    BY DEF Successors, RouteFor, LcdRoute
  <1>3. RouteFor("LCD")[1] = "LOAD"
    BY DEF RouteFor, LcdRoute
  <1> QED
    BY <1>1, <1>2, <1>3, NoneIsNotAStep DEF AllowedNextSteps, Steps

\* The dispatcher sends a panel that is not done to an equipment of its next step.
LEMMA NextStepFits ==
  ASSUME NEW p \in Panels, ~PanelDone(p)
  PROVE  /\ NextStep(p) \in StepsOf(ProductOf(p))
         /\ NextStep(p) \in Steps
         /\ PickEquipment(NextStep(p)) \in Equipment
         /\ EquipmentStep(PickEquipment(NextStep(p))) = NextStep(p)
  <1>1. PanelLot[p] \in Lots /\ ProductOf(p) = LotProduct[PanelLot[p]] /\ ProductOf(p) \in Products
    BY FabAssumption DEF ProductOf
  <1>2. NextStep(p) \in StepsOf(ProductOf(p))
    <2>1. CASE panelStatus[p] = "FAIL"
      BY <1>1, <2>1, OledSteps, LcdSteps DEF NextStep, Products
    <2>2. CASE panelStatus[p] # "FAIL"
      <3>1. NextStep(p) = NextOperation(ProductOf(p), lastStep[p]) /\ NextStep(p) # None
        BY <2>2 DEF NextStep, PanelDone
      <3>2. NextStep(p) \in AllowedNextSteps(ProductOf(p), lastStep[p])
        BY <1>1, <3>1, NextOperationAllowed
      <3> QED
        BY <1>1, <3>2, AllowedStepsType
    <2> QED
      BY <2>1, <2>2
  <1>3. PICK e \in Equipment : EquipmentStep(e) = NextStep(p)
    BY <1>1, <1>2, DispatchAssumption
  <1> QED
    BY <1>1, <1>2, <1>3, PickedFits, RouteSteps

\* The plan names a panel of the lot, a step of its route and an equipment.
LEMMA PlanFits ==
  ASSUME NEW l \in Lots, ~PanelDone(NextPanel(l))
  PROVE  LET p == NextPanel(l)
         IN  /\ p \in Panels
             /\ NextStep(p) \in Steps
             /\ PickEquipment(NextStep(p)) \in Equipment
  <1>1. NextPanel(l) \in Panels
    BY NextPanelOfLot DEF PanelsOf
  <1> QED
    BY <1>1, NextStepFits

\* Only after the last step of its route is a panel sent nowhere.
LEMMA RouteEnds ==
  ASSUME NEW product \in Products, NEW last, NextOperation(product, last) = None
  PROVE  last = "INSPECT"
  <1>1. last \in StepsOf(product) /\ Successors(product, last) = {}
    <2>1. None \notin StepsOf(product)
      BY RouteSteps
    <2>2. RouteFor(product)[1] \in StepsOf(product)
      BY DEF StepsOf, RouteFor, OledRoute, LcdRoute, Products
    <2>3. Successors(product, last) \subseteq StepsOf(product)
      BY DEF Successors, StepsOf, RouteFor, OledRoute, LcdRoute, Products
    <2> QED
      BY <2>1, <2>2, <2>3 DEF NextOperation
  <1>2. CASE product = "LCD"
    BY <1>1, <1>2 DEF Successors, StepsOf, RouteFor, LcdRoute
  <1>3. CASE product = "OLED"
    BY <1>1, <1>3 DEF Successors, StepsOf, RouteFor, OledRoute
  <1> QED
    BY <1>2, <1>3 DEF Products

\* A panel that is done is finished, or its latest event is the inspection.
LEMMA DoneIsInspected ==
  ASSUME NEW p \in Panels, PanelDone(p)
  PROVE  panelStatus[p] \in Finished \/ lastStep[p] = "INSPECT"
  <1>1. ProductOf(p) \in Products
    BY FabAssumption DEF ProductOf
  <1>2. "INSPECT" # None
    BY NoneIsNotAStep DEF Steps
  <1> QED
    BY <1>1, <1>2, RouteEnds DEF PanelDone, NextStep
=============================================================================
