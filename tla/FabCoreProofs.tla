--------------------------- MODULE FabCoreProofs ---------------------------
(***************************************************************************)
(* Theorems about FabCore, for every set of lots, panels, recipes and      *)
(* equipment: what holds of panels and of occupancy, what relates a        *)
(* cassette to its panels, its work order and the equipment, and that      *)
(* FabCore implements GlassFlow.                                           *)
(***************************************************************************)
EXTENDS FabCore, TLAPS

-----------------------------------------------------------------------------
(* The tables.                                                             *)

LEMMA EquipmentStepType ==
  ASSUME NEW e \in EquipmentIds
  PROVE  EquipmentStep(e) \in Steps
  BY DEF EquipmentIds, EquipmentStep, Steps

\* A legacy step name is stored as a step of today.
LEMMA NormalizedSteps ==
  ASSUME NEW sent \in Steps \cup Aliases
  PROVE  NormalizeStep(sent) \in Steps
  BY DEF NormalizeStep, Steps, Aliases

LEMMA RouteSteps ==
  ASSUME NEW product \in Products
  PROVE  /\ StepsOf(product) \subseteq Steps
         /\ None \notin StepsOf(product)
  <1>1. StepsOf("LCD") = {"LOAD", "PI", "LCD_CELL", "INSPECT"}
    <2>1. DOMAIN LcdRoute = 1 .. 4
      BY DEF LcdRoute
    <2> QED
      BY <2>1 DEF StepsOf, RouteFor, LcdRoute
  <1>2. StepsOf("OLED") = {"LOAD", "CLEAN", "EVAP", "ENCAP", "INSPECT"}
    <2>1. DOMAIN OledRoute = 1 .. 5
      BY DEF OledRoute
    <2> QED
      BY <2>1 DEF StepsOf, RouteFor, OledRoute
  <1> QED
    BY <1>1, <1>2, NoneIsNotAStep DEF Steps, Products

LEMMA AllowedStepsType ==
  ASSUME NEW product \in Products, NEW last
  PROVE  AllowedNextSteps(product, last) \subseteq StepsOf(product)
  BY DEF AllowedNextSteps, Successors, StepsOf, RouteFor, LcdRoute, OledRoute, Products

-----------------------------------------------------------------------------
(* Every operation, one by one.  The steps of Next, with the parameters of *)
(* an accepted event spelled out.                                          *)

AcceptedEvent(e, l, p, step, recipe, status, fails, late) ==
  /\ Acceptable(e, l, p, step)
  /\ RecipeReady(e, recipe)
  /\ fails => step = "INSPECT"
  /\ late => history[p] # {}
  /\ Apply(e, l, p, step, recipe, status, fails, late)

LEMMA NextCases ==
  ASSUME [Next]_vars
  PROVE
    \/ \E e \in Equipment, l \in Lots, p \in Panels, step \in Steps,
          recipe \in Recipes \cup {None}, status \in EventStatuses,
          fails \in BOOLEAN, late \in BOOLEAN :
         AcceptedEvent(e, l, p, step, recipe, status, fails, late)
    \/ \E e \in Equipment : RejectProcess(e)
    \/ \E e \in Equipment, status \in EquipmentStatuses : Heartbeat(e, status)
    \/ \E silent \in SUBSET MaySilence : MarkOffline(silent)
    \/ \E l \in Lots : HoldLot(l)
    \/ \E l \in Lots : ReleaseLot(l)
    \/ \E e \in Equipment, status \in EquipmentStatuses : SetEquipmentStatus(e, status)
    \/ \E e \in Equipment, r \in Recipes : SelectRecipe(e, r)
    \/ \E p \in Panels : ScrapPanel(p)
    \/ \E l \in Lots : CreateAndRelease(l)
    \/ \E e \in Equipment : WakeEquipment(e)
    \/ Reset
    \/ UNCHANGED vars
  <1>1. ASSUME NEW e \in Equipment, NEW l \in Lots, NEW p \in Panels, NEW step \in Steps,
               AcceptProcess(e, l, p, step)
        PROVE  \E recipe \in Recipes \cup {None}, status \in EventStatuses,
                  fails \in BOOLEAN, late \in BOOLEAN :
                 AcceptedEvent(e, l, p, step, recipe, status, fails, late)
    BY <1>1 DEF AcceptProcess, AcceptedEvent
  <1>2. ASSUME NEW type \in Commands, Command(type)
        PROVE  \/ \E l \in Lots : HoldLot(l)
               \/ \E l \in Lots : ReleaseLot(l)
               \/ \E e \in Equipment, status \in EquipmentStatuses :
                    SetEquipmentStatus(e, status)
               \/ \E e \in Equipment, r \in Recipes : SelectRecipe(e, r)
               \/ \E p \in Panels : ScrapPanel(p)
    BY <1>2 DEF Command, MaintEnter, MaintExit, Start, Stop, EquipmentStatuses
  <1>3. ASSUME NEW e \in Equipment, NEW l \in Lots, NEW p \in Panels,
               NEW sent \in Steps \cup Aliases, AcceptProcess(e, l, p, NormalizeStep(sent))
        PROVE  \E step \in Steps, recipe \in Recipes \cup {None}, status \in EventStatuses,
                  fails \in BOOLEAN, late \in BOOLEAN :
                 AcceptedEvent(e, l, p, step, recipe, status, fails, late)
    BY <1>1, <1>3, NormalizedSteps
  <1> QED
    BY <1>2, <1>3 DEF Next

-----------------------------------------------------------------------------
(* Types.                                                                  *)

LEMMA RefreshType ==
  ASSUME TypeOK, NEW l \in Lots, NEW status
  PROVE  RefreshWorkOrder(status, l) \in [Lots -> OrderStatuses]
  BY DEF TypeOK, RefreshWorkOrder, OrderStatuses

LEMMA TypeStays ==
  ASSUME TypeOK, [Next]_vars
  PROVE  TypeOK'
  <1> USE FabAssumption
  <1>1. ASSUME NEW e \in Equipment, NEW l \in Lots, NEW p \in Panels, NEW step \in Steps,
               NEW recipe \in Recipes \cup {None}, NEW status \in EventStatuses,
               NEW fails \in BOOLEAN, NEW late \in BOOLEAN,
               AcceptedEvent(e, l, p, step, recipe, status, fails, late)
        PROVE  TypeOK'
    <2> DEFINE mismatch == recipe \notin {None, LotRecipe[l]}
               panels == [panelStatus EXCEPT ![p] = PanelAfter(step, mismatch, fails)]
               lotNow == LotAfter(l, step, mismatch \/ fails, panels)
    <2>1. PanelAfter(step, mismatch, fails) \in PanelStatuses
      BY DEF PanelAfter, PanelStatuses
    <2>2. lotNow \in LotStatuses
      BY DEF LotAfter, LotStatuses
    <2>3. Occupy(e, l, lotNow = "COMPLETE") \in [Equipment -> Lots \cup {None}]
      BY DEF Occupy, TypeOK
    <2>4. RefreshWorkOrder(panels, l) \in [Lots -> OrderStatuses]
      BY RefreshType
    <2>5. Apply(e, l, p, step, recipe, status, fails, late)
      BY <1>1 DEF AcceptedEvent
    <2> HIDE DEF panels, lotNow, mismatch
    <2>6. /\ panelStatus' = [panelStatus EXCEPT ![p] = PanelAfter(step, mismatch, fails)]
          /\ lotStatus' = [lotStatus EXCEPT ![l] = lotNow]
          /\ lotStep' = [lotStep EXCEPT ![l] = step]
          /\ lotEquipment' = [lotEquipment EXCEPT ![l] = e]
          /\ history' = [history EXCEPT ![p] = @ \cup {step}]
          /\ lastStep' = IF late THEN lastStep ELSE [lastStep EXCEPT ![p] = step]
          /\ order' = RefreshWorkOrder(panels, l)
          /\ eqStatus' = [eqStatus EXCEPT ![e] = IF lotNow = "COMPLETE" THEN "IDLE" ELSE status]
          /\ eqLot' = Occupy(e, l, lotNow = "COMPLETE")
          /\ eqRecipe' = [eqRecipe EXCEPT ![e] = IF recipe = None THEN LotRecipe[l] ELSE recipe]
          /\ lost' = lost \ {e}
      BY <2>5 DEF Apply, panels, lotNow, mismatch
    <2> QED
      BY <2>1, <2>2, <2>3, <2>4, <2>6 DEF TypeOK, EquipmentStatuses
  <1>2. ASSUME NEW e \in Equipment, RejectProcess(e) PROVE TypeOK'
    BY <1>2 DEF TypeOK, RejectProcess, lotVars, panelVars
  <1>3. ASSUME NEW e \in Equipment, NEW status \in EquipmentStatuses, Heartbeat(e, status)
        PROVE  TypeOK'
    BY <1>3 DEF TypeOK, Heartbeat, lotVars, panelVars, EquipmentStatuses
  <1>4. ASSUME NEW silent \in SUBSET MaySilence, MarkOffline(silent) PROVE TypeOK'
    BY <1>4 DEF TypeOK, MarkOffline, lotVars, panelVars
  <1>5. ASSUME NEW l \in Lots, HoldLot(l) PROVE TypeOK'
    BY <1>5 DEF TypeOK, HoldLot, panelVars, eqVars, LotStatuses
  <1>6. ASSUME NEW l \in Lots, ReleaseLot(l) PROVE TypeOK'
    BY <1>6 DEF TypeOK, ReleaseLot, eqVars, LotStatuses, PanelStatuses
  <1>7. ASSUME NEW e \in Equipment, NEW status \in EquipmentStatuses,
               SetEquipmentStatus(e, status)
        PROVE  TypeOK'
    BY <1>7 DEF TypeOK, SetEquipmentStatus, lotVars, panelVars
  <1>8. ASSUME NEW e \in Equipment, NEW r \in Recipes, SelectRecipe(e, r) PROVE TypeOK'
    BY <1>8 DEF TypeOK, SelectRecipe, lotVars, panelVars
  <1>9. ASSUME NEW p \in Panels, ScrapPanel(p) PROVE TypeOK'
    <2>1. order' \in [Lots -> OrderStatuses]
      BY <1>9, RefreshType DEF ScrapPanel
    <2> QED
      BY <1>9, <2>1 DEF TypeOK, ScrapPanel, lotVars, eqVars, PanelStatuses
  <1>10. ASSUME NEW l \in Lots, CreateAndRelease(l) PROVE TypeOK'
    BY <1>10 DEF TypeOK, CreateAndRelease, panelVars, eqVars, LotStatuses, OrderStatuses
  <1>11. ASSUME NEW e \in Equipment, WakeEquipment(e) PROVE TypeOK'
    BY <1>11 DEF TypeOK, WakeEquipment, lotVars, panelVars
  <1>12. ASSUME UNCHANGED vars PROVE TypeOK'
    BY <1>12 DEF TypeOK, vars
  <1>13. ASSUME Reset PROVE TypeOK'
    BY <1>13 DEF TypeOK, Reset, FreshLots, LotStatuses, PanelStatuses, OrderStatuses,
                 EquipmentStatuses
  <1> QED
    BY <1>1, <1>2, <1>3, <1>4, <1>5, <1>6, <1>7, <1>8, <1>9, <1>10, <1>11, <1>12, <1>13,
       NextCases

\* Every variable keeps its type, whatever the events and commands.
THEOREM TypeCorrect == Spec => []TypeOK
  <1>1. Init => TypeOK
    BY FabAssumption DEF Init, FreshLots, TypeOK, LotStatuses, PanelStatuses, OrderStatuses, EquipmentStatuses
  <1>2. TypeOK /\ [Next]_vars => TypeOK'
    BY TypeStays
  <1> QED
    BY <1>1, <1>2, PTL DEF Spec

-----------------------------------------------------------------------------
(* No panel skips a step.                                                  *)

\* A step the sequence check lets through keeps the steps on record a prefix
\* of the route.
LEMMA AllowedKeepsPrefix ==
  ASSUME NEW product \in Products, NEW done, NEW last \in done \cup {None}, NEW step,
         IsRoutePrefix(done, product), step \in AllowedNextSteps(product, last)
  PROVE  IsRoutePrefix(done \cup {step}, product)
  <1>1. CASE product = "LCD"
    BY <1>1, NoneIsNotAStep
       DEF IsRoutePrefix, AllowedNextSteps, Successors, StepsOf, RouteFor, LcdRoute, Steps
  <1>2. CASE product = "OLED"
    BY <1>2, NoneIsNotAStep
       DEF IsRoutePrefix, AllowedNextSteps, Successors, StepsOf, RouteFor, OledRoute, Steps
  <1> QED
    BY <1>1, <1>2 DEF Products

\* Only the whole route holds its last step.
LEMMA InspectedIsWhole ==
  ASSUME NEW product \in Products, NEW done, IsRoutePrefix(done, product), "INSPECT" \in done
  PROVE  done = StepsOf(product)
  <1>1. CASE product = "LCD"
    BY <1>1 DEF IsRoutePrefix, StepsOf, RouteFor, LcdRoute
  <1>2. CASE product = "OLED"
    BY <1>2 DEF IsRoutePrefix, StepsOf, RouteFor, OledRoute
  <1> QED
    BY <1>1, <1>2 DEF Products

\* No operation lets a panel skip a step.
LEMMA StepsStay ==
  ASSUME TypeOK, NoStepSkipped, [Next]_vars
  PROVE  NoStepSkipped'
  <1>1. ASSUME NEW e \in Equipment, NEW l \in Lots, NEW p \in Panels, NEW step \in Steps,
               NEW recipe \in Recipes \cup {None}, NEW status \in EventStatuses,
               NEW fails \in BOOLEAN, NEW late \in BOOLEAN,
               AcceptedEvent(e, l, p, step, recipe, status, fails, late)
        PROVE  NoStepSkipped'
    <2>1. PanelLot[p] = l /\ ProductOf(p) = LotProduct[l] /\ ProductOf(p) \in Products
      BY <1>1, FabAssumption DEF AcceptedEvent, Acceptable, PanelInLot, ProductOf
    <2>2. step \in AllowedNextSteps(ProductOf(p), lastStep[p])
      BY <1>1, <2>1 DEF AcceptedEvent, Acceptable, StepAllowed
    <2>3. history' = [history EXCEPT ![p] = @ \cup {step}]
      BY <1>1 DEF AcceptedEvent, Apply
    <2>4. lastStep' = IF late THEN lastStep ELSE [lastStep EXCEPT ![p] = step]
      BY <1>1 DEF AcceptedEvent, Apply
    <2>5. IsRoutePrefix(history[p] \cup {step}, ProductOf(p))
      BY <2>1, <2>2, AllowedKeepsPrefix DEF NoStepSkipped
    <2>6. PICK new : /\ panelStatus' = [panelStatus EXCEPT ![p] = new]
                     /\ new \in {"COMPLETE", "FAIL"} => step = "INSPECT"
      <3> DEFINE mismatch == recipe \notin {None, LotRecipe[l]}
      <3>1. panelStatus' = [panelStatus EXCEPT ![p] = PanelAfter(step, mismatch, fails)]
        BY <1>1 DEF AcceptedEvent, Apply
      <3>2. PanelAfter(step, mismatch, fails) \in {"COMPLETE", "FAIL"} => step = "INSPECT"
        BY <1>1 DEF AcceptedEvent, PanelAfter
      <3> HIDE DEF mismatch
      <3> QED
        BY <3>1, <3>2
    <2>7. ASSUME NEW q \in Panels, q # p
          PROVE  history'[q] = history[q] /\ lastStep'[q] = lastStep[q]
                 /\ panelStatus'[q] = panelStatus[q]
      BY <2>3, <2>4, <2>6, <2>7 DEF TypeOK
    <2>8. /\ history'[p] = history[p] \cup {step}
          /\ lastStep'[p] \in history'[p] \cup {None}
      BY <2>3, <2>4 DEF TypeOK, NoStepSkipped
    <2>9. panelStatus'[p] \in {"COMPLETE", "FAIL"} => history'[p] = StepsOf(ProductOf(p))
      BY <2>1, <2>5, <2>6, <2>8, InspectedIsWhole DEF TypeOK
    <2>10. ASSUME NEW q \in Panels
           PROVE  /\ IsRoutePrefix(history'[q], ProductOf(q))
                  /\ lastStep'[q] \in history'[q] \cup {None}
                  /\ panelStatus'[q] \in {"COMPLETE", "FAIL"}
                       => history'[q] = StepsOf(ProductOf(q))
      <3>1. CASE q = p
        BY <3>1, <2>5, <2>8, <2>9
      <3>2. CASE q # p
        BY <3>2, <2>7 DEF NoStepSkipped
      <3> QED
        BY <3>1, <3>2
    <2> QED
      BY <2>10 DEF NoStepSkipped, ProductOf
  <1>2. ASSUME UNCHANGED panelVars PROVE NoStepSkipped'
    BY <1>2 DEF panelVars, NoStepSkipped, ProductOf
  <1>3. ASSUME NEW l \in Lots, ReleaseLot(l) PROVE NoStepSkipped'
    <2>1. /\ \A q \in Panels : panelStatus'[q] \in {"COMPLETE", "FAIL"}
                                 => panelStatus'[q] = panelStatus[q]
          /\ UNCHANGED <<history, lastStep>>
      BY <1>3 DEF ReleaseLot, TypeOK
    <2> QED
      BY <2>1 DEF NoStepSkipped, ProductOf
  <1>4. ASSUME NEW p \in Panels, ScrapPanel(p) PROVE NoStepSkipped'
    <2>1. /\ \A q \in Panels : panelStatus'[q] \in {"COMPLETE", "FAIL"}
                                 => panelStatus'[q] = panelStatus[q]
          /\ UNCHANGED <<history, lastStep>>
      BY <1>4 DEF ScrapPanel, TypeOK
    <2> QED
      BY <2>1 DEF NoStepSkipped, ProductOf
  <1>5. ASSUME NEW e \in Equipment, RejectProcess(e) PROVE NoStepSkipped'
    BY <1>2, <1>5 DEF RejectProcess
  <1>6. ASSUME NEW e \in Equipment, WakeEquipment(e) PROVE NoStepSkipped'
    BY <1>2, <1>6 DEF WakeEquipment
  <1>7. ASSUME NEW e \in Equipment, NEW status \in EquipmentStatuses, Heartbeat(e, status)
        PROVE  NoStepSkipped'
    BY <1>2, <1>7 DEF Heartbeat
  <1>8. ASSUME NEW e \in Equipment, NEW status \in EquipmentStatuses,
               SetEquipmentStatus(e, status)
        PROVE  NoStepSkipped'
    BY <1>2, <1>8 DEF SetEquipmentStatus
  <1>9. ASSUME NEW silent \in SUBSET MaySilence, MarkOffline(silent)
        PROVE  NoStepSkipped'
    BY <1>2, <1>9 DEF MarkOffline
  <1>10. ASSUME NEW l \in Lots, HoldLot(l) PROVE NoStepSkipped'
    BY <1>2, <1>10 DEF HoldLot
  <1>11. ASSUME NEW l \in Lots, CreateAndRelease(l) PROVE NoStepSkipped'
    BY <1>2, <1>11 DEF CreateAndRelease
  <1>12. ASSUME NEW e \in Equipment, NEW r \in Recipes, SelectRecipe(e, r)
        PROVE  NoStepSkipped'
    BY <1>2, <1>12 DEF SelectRecipe
  <1>13. ASSUME UNCHANGED vars PROVE NoStepSkipped'
    BY <1>2, <1>13 DEF vars, panelVars
  <1>14. ASSUME Reset PROVE NoStepSkipped'
    BY <1>14, FabAssumption DEF Reset, NoStepSkipped, IsRoutePrefix, ProductOf
  <1> QED
    BY <1>1, <1>3, <1>4, <1>5, <1>6, <1>7, <1>8, <1>9, <1>10, <1>11, <1>12, <1>13, <1>14,
       NextCases, ZenonT(60)

\* Whatever the order of events and of their time stamps, the steps on record
\* of a panel are a prefix of its route, and an inspected panel has them all.
THEOREM StepsInOrder == Spec => []NoStepSkipped
  <1>1. Init => NoStepSkipped
    BY FabAssumption DEF Init, NoStepSkipped, IsRoutePrefix, ProductOf
  <1>2. TypeOK /\ NoStepSkipped /\ [Next]_vars => NoStepSkipped'
    BY StepsStay
  <1> QED
    BY <1>1, <1>2, TypeCorrect, PTL DEF Spec

-----------------------------------------------------------------------------
(* Occupancy.                                                              *)

\* No operation puts a cassette on a second equipment.
LEMMA StationStays ==
  ASSUME TypeOK, OneStationPerLot, [Next]_vars
  PROVE  OneStationPerLot'
  <1>1. ASSUME NEW e \in Equipment, NEW l \in Lots, NEW p \in Panels, NEW step \in Steps,
               NEW recipe \in Recipes \cup {None}, NEW status \in EventStatuses,
               NEW fails \in BOOLEAN, NEW late \in BOOLEAN,
               AcceptedEvent(e, l, p, step, recipe, status, fails, late)
        PROVE  OneStationPerLot'
    <2>1. PICK now : /\ lotStatus' = [lotStatus EXCEPT ![l] = now]
                     /\ eqLot' = Occupy(e, l, now = "COMPLETE")
      BY <1>1 DEF AcceptedEvent, Apply
    <2>2. /\ lotStep' = [lotStep EXCEPT ![l] = step]
          /\ lotEquipment' = [lotEquipment EXCEPT ![l] = e]
          /\ step = EquipmentStep(e)
          /\ EquipmentProduct(e) \in {None, LotProduct[l]}
      BY <1>1 DEF AcceptedEvent, Apply, Acceptable, StepMatchesEquipment, ProductMatches
    <2>3. /\ eqLot'[e] = IF now = "COMPLETE" THEN None ELSE l
          /\ \A x \in Equipment \ {e} :
               eqLot'[x] = IF eqLot[x] = l THEN None ELSE eqLot[x]
      BY <2>1 DEF Occupy
    <2>4. ASSUME NEW x \in Equipment, eqLot'[x] # None, x # e
          PROVE  /\ lotEquipment'[eqLot'[x]] = x
                 /\ lotStep'[eqLot'[x]] = EquipmentStep(x)
                 /\ EquipmentProduct(x) \in {None, LotProduct[eqLot'[x]]}
                 /\ lotStatus'[eqLot'[x]] # "COMPLETE"
      <3>1. eqLot'[x] = eqLot[x] /\ eqLot[x] # l /\ eqLot[x] \in Lots
        BY <2>3, <2>4 DEF TypeOK
      <3> QED
        BY <3>1, <2>1, <2>2, <2>4 DEF OneStationPerLot, TypeOK
    <2>5. ASSUME eqLot'[e] # None
          PROVE  /\ lotEquipment'[eqLot'[e]] = e
                 /\ lotStep'[eqLot'[e]] = EquipmentStep(e)
                 /\ EquipmentProduct(e) \in {None, LotProduct[eqLot'[e]]}
                 /\ lotStatus'[eqLot'[e]] # "COMPLETE"
      BY <2>5, <2>1, <2>2, <2>3 DEF TypeOK
    <2> QED
      BY <2>4, <2>5 DEF OneStationPerLot
  <1>2. ASSUME UNCHANGED <<lotVars, eqLot>> PROVE OneStationPerLot'
    BY <1>2 DEF lotVars, OneStationPerLot
  <1>3. ASSUME NEW l \in Lots, NEW to \in {"HOLD", "WAIT", "PROCESSING"},
               lotStatus' = [lotStatus EXCEPT ![l] = to],
               UNCHANGED <<lotStep, lotEquipment, eqLot>>
        PROVE  OneStationPerLot'
    BY <1>3 DEF OneStationPerLot, TypeOK
  <1>4. ASSUME NEW e \in Equipment, WakeEquipment(e) PROVE OneStationPerLot'
    <2>1. /\ UNCHANGED lotVars
          /\ \A x \in Equipment : eqLot'[x] \in {None, eqLot[x]}
      BY <1>4 DEF WakeEquipment, TypeOK
    <2> QED
      BY <2>1 DEF OneStationPerLot, lotVars
  <1>5. ASSUME NEW l \in Lots, HoldLot(l) PROVE OneStationPerLot'
    BY <1>3, <1>5 DEF HoldLot, eqVars
  <1>6. ASSUME NEW l \in Lots, ReleaseLot(l) PROVE OneStationPerLot'
    BY <1>3, <1>6 DEF ReleaseLot, eqVars
  <1>7. ASSUME NEW l \in Lots, CreateAndRelease(l) PROVE OneStationPerLot'
    BY <1>3, <1>7 DEF CreateAndRelease, eqVars
  <1>8. ASSUME NEW e \in Equipment, RejectProcess(e) PROVE OneStationPerLot'
    BY <1>2, <1>8 DEF RejectProcess
  <1>9. ASSUME NEW e \in Equipment, NEW status \in EquipmentStatuses, Heartbeat(e, status)
        PROVE  OneStationPerLot'
    BY <1>2, <1>9 DEF Heartbeat
  <1>10. ASSUME NEW e \in Equipment, NEW status \in EquipmentStatuses,
               SetEquipmentStatus(e, status)
        PROVE  OneStationPerLot'
    BY <1>2, <1>10 DEF SetEquipmentStatus
  <1>11. ASSUME NEW silent \in SUBSET MaySilence, MarkOffline(silent)
        PROVE  OneStationPerLot'
    BY <1>2, <1>11 DEF MarkOffline
  <1>12. ASSUME NEW e \in Equipment, NEW r \in Recipes, SelectRecipe(e, r)
        PROVE  OneStationPerLot'
    BY <1>2, <1>12 DEF SelectRecipe
  <1>13. ASSUME NEW p \in Panels, ScrapPanel(p) PROVE OneStationPerLot'
    BY <1>2, <1>13 DEF ScrapPanel, eqVars
  <1>14. ASSUME UNCHANGED vars PROVE OneStationPerLot'
    BY <1>2, <1>14 DEF vars, lotVars
  <1>15. ASSUME Reset PROVE OneStationPerLot'
    BY <1>15 DEF Reset, OneStationPerLot
  <1> QED
    BY <1>1, <1>4, <1>5, <1>6, <1>7, <1>8, <1>9, <1>10, <1>11, <1>12, <1>13, <1>14, <1>15,
       NextCases, ZenonT(60)

\* Whatever equipment reports and operators command, a cassette stands on one
\* equipment at most: two that both claimed it would both be the one of its
\* latest event.
THEOREM OneStation == Spec => []OneStationPerLot
  <1>1. Init => OneStationPerLot
    BY FabAssumption DEF Init, OneStationPerLot
  <1>2. TypeOK /\ OneStationPerLot /\ [Next]_vars => OneStationPerLot'
    BY StationStays
  <1> QED
    BY <1>1, <1>2, TypeCorrect, PTL DEF Spec

\* An equipment never changes from one lot to another in one step.
THEOREM NotDisplaced == Spec => NoLotDisplaced
  <1> DEFINE Kept == \A e \in Equipment :
                       eqLot[e] # None /\ eqLot'[e] # None => eqLot'[e] = eqLot[e]
  <1>1. TypeOK /\ [Next]_vars => Kept
    <2> SUFFICES ASSUME TypeOK, [Next]_vars PROVE Kept
      OBVIOUS
    <2>1. ASSUME NEW e \in Equipment, NEW l \in Lots, NEW p \in Panels, NEW step \in Steps,
                 NEW recipe \in Recipes \cup {None}, NEW status \in EventStatuses,
                 NEW fails \in BOOLEAN, NEW late \in BOOLEAN,
                 AcceptedEvent(e, l, p, step, recipe, status, fails, late)
          PROVE  Kept
      <3>1. eqLot[e] \in {None, l}
        BY <2>1 DEF AcceptedEvent, Acceptable, NotBusy
      <3>2. PICK complete : eqLot' = Occupy(e, l, complete)
        BY <2>1 DEF AcceptedEvent, Apply
      <3> QED
        BY <3>1, <3>2 DEF Occupy
    <2>2. ASSUME NEW e \in Equipment, WakeEquipment(e) PROVE Kept
      BY <2>2 DEF WakeEquipment, TypeOK
    <2>3. ASSUME UNCHANGED eqLot PROVE Kept
      BY <2>3
    <2> HIDE DEF Kept
    <2>4. ASSUME NEW e \in Equipment, RejectProcess(e) PROVE Kept
      BY <2>3, <2>4 DEF RejectProcess
    <2>5. ASSUME NEW e \in Equipment, NEW status \in EquipmentStatuses, Heartbeat(e, status)
          PROVE  Kept
      BY <2>3, <2>5 DEF Heartbeat
    <2>6. ASSUME NEW e \in Equipment, NEW status \in EquipmentStatuses,
                 SetEquipmentStatus(e, status)
          PROVE  Kept
      BY <2>3, <2>6 DEF SetEquipmentStatus
    <2>7. ASSUME NEW silent \in SUBSET MaySilence, MarkOffline(silent) PROVE Kept
      BY <2>3, <2>7 DEF MarkOffline
    <2>8. ASSUME NEW l \in Lots, HoldLot(l) PROVE Kept
      BY <2>3, <2>8 DEF HoldLot, eqVars
    <2>9. ASSUME NEW l \in Lots, ReleaseLot(l) PROVE Kept
      BY <2>3, <2>9 DEF ReleaseLot, eqVars
    <2>10. ASSUME NEW l \in Lots, CreateAndRelease(l) PROVE Kept
      BY <2>3, <2>10 DEF CreateAndRelease, eqVars
    <2>11. ASSUME NEW e \in Equipment, NEW r \in Recipes, SelectRecipe(e, r) PROVE Kept
      BY <2>3, <2>11 DEF SelectRecipe
    <2>12. ASSUME NEW p \in Panels, ScrapPanel(p) PROVE Kept
      BY <2>3, <2>12 DEF ScrapPanel, eqVars
    <2>13. ASSUME UNCHANGED vars PROVE Kept
      BY <2>3, <2>13 DEF vars
    <2>14. ASSUME Reset PROVE \A e \in Equipment : eqLot'[e] = None
      BY <2>14 DEF Reset
    <2>15. ASSUME Reset PROVE Kept
      BY <2>14, <2>15 DEF Kept
    <2> QED
      BY <2>1, <2>2, <2>4, <2>5, <2>6, <2>7, <2>8, <2>9, <2>10, <2>11, <2>12, <2>13, <2>15,
         NextCases
  <1>2. TypeOK /\ [Next]_vars => [Kept]_vars
    BY <1>1
  <1> QED
    BY <1>2, TypeCorrect, PTL DEF Spec, NoLotDisplaced

-----------------------------------------------------------------------------
(* The operations that touch a cassette, a panel, an order or an           *)
(* occupancy; all the others leave the four alone.                         *)

LEMMA LotCases ==
  ASSUME [Next]_vars
  PROVE
    \/ \E e \in Equipment, l \in Lots, p \in Panels, step \in Steps,
          recipe \in Recipes \cup {None}, status \in EventStatuses,
          fails \in BOOLEAN, late \in BOOLEAN :
         AcceptedEvent(e, l, p, step, recipe, status, fails, late)
    \/ \E l \in Lots : HoldLot(l)
    \/ \E l \in Lots : ReleaseLot(l)
    \/ \E p \in Panels : ScrapPanel(p)
    \/ \E l \in Lots : CreateAndRelease(l)
    \/ \E e \in Equipment : WakeEquipment(e)
    \/ Reset
    \/ UNCHANGED <<lotVars, panelVars, order, eqLot>>
  <1> DEFINE Quiet == UNCHANGED <<lotVars, panelVars, order, eqLot>>
  <1>1. ASSUME NEW e \in Equipment, RejectProcess(e) PROVE Quiet
    BY <1>1 DEF RejectProcess
  <1>2. ASSUME NEW e \in Equipment, NEW status \in EquipmentStatuses, Heartbeat(e, status)
        PROVE  Quiet
    BY <1>2 DEF Heartbeat
  <1>3. ASSUME NEW silent \in SUBSET MaySilence, MarkOffline(silent) PROVE Quiet
    BY <1>3 DEF MarkOffline
  <1>4. ASSUME NEW e \in Equipment, NEW status \in EquipmentStatuses,
               SetEquipmentStatus(e, status)
        PROVE  Quiet
    BY <1>4 DEF SetEquipmentStatus
  <1>5. ASSUME NEW e \in Equipment, NEW r \in Recipes, SelectRecipe(e, r) PROVE Quiet
    BY <1>5 DEF SelectRecipe
  <1>6. ASSUME UNCHANGED vars PROVE Quiet
    BY <1>6 DEF vars, lotVars, panelVars
  <1> HIDE DEF Quiet
  <1>7. \/ \E e \in Equipment, l \in Lots, p \in Panels, step \in Steps,
              recipe \in Recipes \cup {None}, status \in EventStatuses,
              fails \in BOOLEAN, late \in BOOLEAN :
             AcceptedEvent(e, l, p, step, recipe, status, fails, late)
        \/ \E l \in Lots : HoldLot(l)
        \/ \E l \in Lots : ReleaseLot(l)
        \/ \E p \in Panels : ScrapPanel(p)
        \/ \E l \in Lots : CreateAndRelease(l)
        \/ \E e \in Equipment : WakeEquipment(e)
        \/ Reset
        \/ Quiet
    BY <1>1, <1>2, <1>3, <1>4, <1>5, <1>6, NextCases, ZenonT(60)
  <1> QED
    BY <1>7 DEF Quiet

\* What an accepted event does to the four, and the checks it has passed.
LEMMA AcceptedEffect ==
  ASSUME NEW e \in Equipment, NEW l \in Lots, NEW p \in Panels, NEW step \in Steps,
         NEW recipe, NEW status, NEW fails \in BOOLEAN, NEW late \in BOOLEAN, TypeOK,
         AcceptedEvent(e, l, p, step, recipe, status, fails, late)
  PROVE  /\ PanelLot[p] = l
         /\ lotStatus[l] \notin {"ABSENT", "HOLD"}
         /\ panelStatus[p] # "SCRAP"
         /\ panelStatus'[p] \in PanelStatuses \ {"WAIT", "SCRAP"}
         /\ \A q \in Panels \ {p} : panelStatus'[q] = panelStatus[q] /\ history'[q] = history[q]
         /\ lotStatus'[l] \in LotStatuses \ {"WAIT"}
         /\ panelStatus'[p] = "HOLD" => lotStatus'[l] = "HOLD"
         /\ lotStatus'[l] = "COMPLETE" => AllFinished(panelStatus', l)
         /\ lotStep'[l] = step
         /\ \A k \in Lots \ {l} : lotStatus'[k] = lotStatus[k] /\ lotStep'[k] = lotStep[k]
         /\ eqLot' = Occupy(e, l, lotStatus'[l] = "COMPLETE")
         /\ order' = RefreshWorkOrder(panelStatus', l)
  <1> DEFINE mismatch == recipe \notin {None, LotRecipe[l]}
             new == PanelAfter(step, mismatch, fails)
             now == LotAfter(l, step, mismatch \/ fails, panelStatus')
  <1>1. /\ panelStatus' = [panelStatus EXCEPT ![p] = new]
        /\ lotStatus' = [lotStatus EXCEPT ![l] = now]
        /\ eqLot' = Occupy(e, l, now = "COMPLETE")
        /\ lotStep' = [lotStep EXCEPT ![l] = step]
        /\ history' = [history EXCEPT ![p] = @ \cup {step}]
        /\ order' = RefreshWorkOrder(panelStatus', l)
    BY DEF AcceptedEvent, Apply
  <1>2. /\ PanelLot[p] = l
        /\ lotStatus[l] \notin {"ABSENT", "HOLD"}
        /\ panelStatus[p] # "SCRAP"
    BY DEF AcceptedEvent, Acceptable, PanelInLot, LotKnown, LotNotHeld, PanelNotScrapped
  <1>3. /\ new \in PanelStatuses \ {"WAIT", "SCRAP"}
        /\ new = "HOLD" => mismatch
    BY DEF PanelAfter, PanelStatuses
  <1>4. /\ now \in LotStatuses \ {"WAIT"}
        /\ mismatch => now = "HOLD"
        /\ now = "COMPLETE" => AllFinished(panelStatus', l)
    BY DEF LotAfter, LotStatuses
  <1> HIDE DEF mismatch, new, now
  <1>5. panelStatus'[p] = new /\ lotStatus'[l] = now
    BY <1>1 DEF TypeOK
  <1> QED
    BY <1>1, <1>2, <1>3, <1>4, <1>5 DEF TypeOK

-----------------------------------------------------------------------------
(* A complete cassette, and a stopped panel.                               *)

\* No operation lets a lot and its panels disagree.
LEMMA AgreementStays ==
  ASSUME TypeOK, LotAgreesWithPanels, [Next]_vars
  PROVE  LotAgreesWithPanels'
  <1>1. ASSUME NEW e \in Equipment, NEW l \in Lots, NEW p \in Panels, NEW step \in Steps,
               NEW recipe \in Recipes \cup {None}, NEW status \in EventStatuses,
               NEW fails \in BOOLEAN, NEW late \in BOOLEAN,
               AcceptedEvent(e, l, p, step, recipe, status, fails, late)
        PROVE  LotAgreesWithPanels'
    <2>1. /\ PanelLot[p] = l
          /\ lotStatus[l] # "HOLD"
          /\ \A q \in Panels \ {p} : panelStatus'[q] = panelStatus[q]
          /\ panelStatus'[p] = "HOLD" => lotStatus'[l] = "HOLD"
          /\ lotStatus'[l] = "COMPLETE" => AllFinished(panelStatus', l)
          /\ \A k \in Lots \ {l} : lotStatus'[k] = lotStatus[k]
      BY <1>1, AcceptedEffect
    <2> QED
      BY <2>1, FabAssumption DEF LotAgreesWithPanels, AllFinished, PanelsOf
  <1>2. ASSUME NEW l \in Lots, HoldLot(l) PROVE LotAgreesWithPanels'
    BY <1>2, FabAssumption DEF HoldLot, panelVars, TypeOK, LotAgreesWithPanels
  <1>3. ASSUME NEW l \in Lots, ReleaseLot(l) PROVE LotAgreesWithPanels'
    <2>1. PICK back \in {"WAIT", "PROCESSING"} :
            /\ lotStatus' = [lotStatus EXCEPT ![l] = back]
            /\ panelStatus' = [p \in Panels |->
                                 IF PanelLot[p] = l /\ panelStatus[p] = "HOLD"
                                 THEN back ELSE panelStatus[p]]
      BY <1>3 DEF ReleaseLot
    <2> QED
      BY <2>1, FabAssumption DEF TypeOK, LotAgreesWithPanels
  <1>4. ASSUME NEW p \in Panels, ScrapPanel(p) PROVE LotAgreesWithPanels'
    BY <1>4 DEF ScrapPanel, lotVars, TypeOK, LotAgreesWithPanels, Finished
  <1>5. ASSUME NEW l \in Lots, CreateAndRelease(l) PROVE LotAgreesWithPanels'
    BY <1>5, FabAssumption DEF CreateAndRelease, panelVars, TypeOK, LotAgreesWithPanels
  <1>6. ASSUME UNCHANGED <<lotVars, panelVars>> PROVE LotAgreesWithPanels'
    BY <1>6 DEF lotVars, panelVars, LotAgreesWithPanels
  <1>7. ASSUME NEW e \in Equipment, WakeEquipment(e) PROVE LotAgreesWithPanels'
    BY <1>6, <1>7 DEF WakeEquipment
  <1>8. ASSUME Reset PROVE LotAgreesWithPanels'
    BY <1>8, FabAssumption DEF Reset, FreshLots, LotAgreesWithPanels
  <1> QED
    BY <1>1, <1>2, <1>3, <1>4, <1>5, <1>6, <1>7, <1>8, LotCases, ZenonT(60)

\* Whatever is inspected again, scrapped, stopped or released, a COMPLETE lot
\* has no panel left to process and a stopped panel is in a stopped lot.
THEOREM LotsAgree == Spec => []LotAgreesWithPanels
  <1>1. Init => LotAgreesWithPanels
    BY FabAssumption DEF Init, FreshLots, LotAgreesWithPanels
  <1>2. TypeOK /\ LotAgreesWithPanels /\ [Next]_vars => LotAgreesWithPanels'
    BY AgreementStays
  <1> QED
    BY <1>1, <1>2, TypeCorrect, PTL DEF Spec

-----------------------------------------------------------------------------
(* A waiting cassette.                                                     *)

\* No operation touches a lot that goes on waiting.
LEMMA UntouchedStays ==
  ASSUME TypeOK, WaitingLotIsUntouched, [Next]_vars
  PROVE  WaitingLotIsUntouched'
  <1>1. ASSUME NEW e \in Equipment, NEW l \in Lots, NEW p \in Panels, NEW step \in Steps,
               NEW recipe \in Recipes \cup {None}, NEW status \in EventStatuses,
               NEW fails \in BOOLEAN, NEW late \in BOOLEAN,
               AcceptedEvent(e, l, p, step, recipe, status, fails, late)
        PROVE  WaitingLotIsUntouched'
    <2>1. /\ PanelLot[p] = l
          /\ \A q \in Panels \ {p} : panelStatus'[q] = panelStatus[q] /\ history'[q] = history[q]
          /\ lotStatus'[l] \in LotStatuses \ {"WAIT"}
          /\ lotStep'[l] = step
          /\ \A k \in Lots \ {l} : lotStatus'[k] = lotStatus[k] /\ lotStep'[k] = lotStep[k]
          /\ eqLot' = Occupy(e, l, lotStatus'[l] = "COMPLETE")
      BY <1>1, AcceptedEffect
    <2>2. lotStatus'[l] \notin {"WAIT", "ABSENT"} /\ lotStep'[l] # None
      BY <2>1, NoneIsNotAStep DEF LotStatuses
    <2>3. ASSUME NEW k \in Lots, k # l
          PROVE  \A x \in Equipment : eqLot'[x] = k => eqLot[x] = k
      BY <2>1, <2>3, FabAssumption DEF Occupy
    <2> QED
      BY <2>1, <2>2, <2>3 DEF WaitingLotIsUntouched, PanelsOf
  <1>2. ASSUME NEW l \in Lots, HoldLot(l) PROVE WaitingLotIsUntouched'
    BY <1>2 DEF HoldLot, panelVars, eqVars, TypeOK, WaitingLotIsUntouched, PanelsOf
  <1>3. ASSUME NEW l \in Lots, ReleaseLot(l) PROVE WaitingLotIsUntouched'
    <2> DEFINE back == IF lotStep[l] = None THEN "WAIT" ELSE "PROCESSING"
    <2>1. /\ lotStatus' = [lotStatus EXCEPT ![l] = back]
          /\ panelStatus' = [p \in Panels |->
                               IF PanelLot[p] = l /\ panelStatus[p] = "HOLD"
                               THEN back ELSE panelStatus[p]]
          /\ UNCHANGED <<lotStep, history, eqLot>>
      BY <1>3 DEF ReleaseLot, eqVars
    <2>2. ASSUME NEW k \in Lots, lotStep[k] = None, NEW q \in PanelsOf(k)
          PROVE  panelStatus'[q] = panelStatus[q]
      BY <2>1, <2>2 DEF WaitingLotIsUntouched, PanelsOf
    <2>3. \A k \in Lots : lotStatus'[k] \in {"WAIT", "ABSENT"} => lotStep[k] = None
      BY <2>1 DEF WaitingLotIsUntouched, TypeOK
    <2> HIDE DEF back
    <2> QED
      BY <2>1, <2>2, <2>3 DEF WaitingLotIsUntouched, PanelsOf
  <1>4. ASSUME NEW p \in Panels, ScrapPanel(p) PROVE WaitingLotIsUntouched'
    <2>1. /\ panelStatus' = [panelStatus EXCEPT ![p] = "SCRAP"]
          /\ UNCHANGED <<lotStatus, lotStep, history, eqLot>>
      BY <1>4 DEF ScrapPanel, lotVars, eqVars
    <2> QED
      BY <2>1 DEF WaitingLotIsUntouched, PanelsOf, TypeOK
  <1>5. ASSUME NEW l \in Lots, CreateAndRelease(l) PROVE WaitingLotIsUntouched'
    <2>1. /\ lotStatus[l] = "ABSENT"
          /\ lotStatus' = [lotStatus EXCEPT ![l] = "WAIT"]
          /\ UNCHANGED <<lotStep, panelStatus, history, eqLot>>
      BY <1>5 DEF CreateAndRelease, panelVars, eqVars
    <2> QED
      BY <2>1 DEF WaitingLotIsUntouched, PanelsOf, TypeOK
  <1>6. ASSUME UNCHANGED <<lotVars, panelVars, eqLot>> PROVE WaitingLotIsUntouched'
    BY <1>6 DEF lotVars, panelVars, WaitingLotIsUntouched, PanelsOf
  <1>7. ASSUME NEW e \in Equipment, WakeEquipment(e) PROVE WaitingLotIsUntouched'
    <2>1. /\ UNCHANGED <<lotVars, panelVars>>
          /\ \A x \in Equipment : eqLot'[x] \in {None, eqLot[x]}
      BY <1>7 DEF WakeEquipment, TypeOK
    <2> QED
      BY <2>1, FabAssumption DEF lotVars, panelVars, WaitingLotIsUntouched, PanelsOf
  <1>8. ASSUME Reset PROVE WaitingLotIsUntouched'
    BY <1>8, FabAssumption, NoneIsNotAStep DEF Reset, WaitingLotIsUntouched, PanelsOf
  <1> QED
    BY <1>1, <1>2, <1>3, <1>4, <1>5, <1>6, <1>7, <1>8, LotCases, ZenonT(60)

\* A lot that waits or is not there has no event on record, its panels wait
\* or were scrapped, and no equipment is occupied by it -- whatever was
\* stopped, released and freed before.
THEOREM WaitingIsUntouched == Spec => []WaitingLotIsUntouched
  <1>1. Init => WaitingLotIsUntouched
    BY FabAssumption, NoneIsNotAStep DEF Init, WaitingLotIsUntouched, PanelsOf
  <1>2. TypeOK /\ WaitingLotIsUntouched /\ [Next]_vars => WaitingLotIsUntouched'
    BY UntouchedStays
  <1> QED
    BY <1>1, <1>2, TypeCorrect, PTL DEF Spec

-----------------------------------------------------------------------------
(* A work order.  What is needed besides: a work order comes with panels   *)
(* that wait, so that the one of a lot nobody touched yet is not done.     *)

AbsentPanelsWait ==
  \A p \in Panels : lotStatus[PanelLot[p]] = "ABSENT" => panelStatus[p] = "WAIT"

OrderInv == OrderClosesWithLastPanel /\ AbsentPanelsWait

\* The order is closed with the last panel, and the others are left alone.
LEMMA RefreshCloses ==
  ASSUME TypeOK, NEW l \in Lots, NEW status
  PROVE  LET after == RefreshWorkOrder(status, l)
         IN  /\ after[l] # "NONE" /\ PanelsOf(l) # {} /\ AllFinished(status, l)
                  => after[l] = "DONE"
             /\ \A k \in Lots \ {l} : after[k] = order[k]
  BY DEF RefreshWorkOrder, TypeOK

\* No operation leaves an order open with its last panel finished, or touches
\* the panels of a lot that is not there yet.
LEMMA OrderStays ==
  ASSUME TypeOK, OrderInv, [Next]_vars
  PROVE  OrderInv'
  <1>1. ASSUME NEW e \in Equipment, NEW l \in Lots, NEW p \in Panels, NEW step \in Steps,
               NEW recipe \in Recipes \cup {None}, NEW status \in EventStatuses,
               NEW fails \in BOOLEAN, NEW late \in BOOLEAN,
               AcceptedEvent(e, l, p, step, recipe, status, fails, late)
        PROVE  OrderInv'
    <2>1. /\ PanelLot[p] = l
          /\ \A q \in Panels \ {p} : panelStatus'[q] = panelStatus[q]
          /\ lotStatus'[l] \in LotStatuses
          /\ \A k \in Lots \ {l} : lotStatus'[k] = lotStatus[k]
          /\ order' = RefreshWorkOrder(panelStatus', l)
      BY <1>1, AcceptedEffect
    <2>2. AbsentPanelsWait'
      BY <2>1, FabAssumption DEF OrderInv, AbsentPanelsWait, LotStatuses
    <2>3. ASSUME NEW k \in Lots \ {l}
          PROVE  order'[k] = order[k] /\ (AllFinished(panelStatus', k) => AllFinished(panelStatus, k))
      BY <2>1, RefreshCloses, FabAssumption DEF AllFinished, PanelsOf
    <2>4. order'[l] # "NONE" /\ PanelsOf(l) # {} /\ AllFinished(panelStatus', l)
            => order'[l] = "DONE"
      BY <2>1, RefreshCloses, FabAssumption
    <2> QED
      BY <2>2, <2>3, <2>4 DEF OrderInv, OrderClosesWithLastPanel, PanelsOf, AllFinished
  <1>2. ASSUME NEW l \in Lots, HoldLot(l) PROVE OrderInv'
    BY <1>2 DEF HoldLot, panelVars, TypeOK, OrderInv, OrderClosesWithLastPanel, AbsentPanelsWait,
                AllFinished, PanelsOf
  <1>3. ASSUME NEW l \in Lots, ReleaseLot(l) PROVE OrderInv'
    <2>1. PICK back \in {"WAIT", "PROCESSING"} :
            /\ lotStatus[l] = "HOLD"
            /\ lotStatus' = [lotStatus EXCEPT ![l] = back]
            /\ panelStatus' = [p \in Panels |->
                                 IF PanelLot[p] = l /\ panelStatus[p] = "HOLD"
                                 THEN back ELSE panelStatus[p]]
            /\ UNCHANGED order
      BY <1>3 DEF ReleaseLot
    <2>2. AbsentPanelsWait'
      BY <2>1, FabAssumption DEF OrderInv, AbsentPanelsWait, TypeOK
    <2>3. \A k \in Lots : AllFinished(panelStatus', k) => AllFinished(panelStatus, k)
      BY <2>1 DEF AllFinished, PanelsOf, Finished
    <2> QED
      BY <2>1, <2>2, <2>3 DEF OrderInv, OrderClosesWithLastPanel, PanelsOf, AllFinished
  <1>4. ASSUME NEW p \in Panels, ScrapPanel(p) PROVE OrderInv'
    <2>1. /\ lotStatus[PanelLot[p]] # "ABSENT"
          /\ panelStatus' = [panelStatus EXCEPT ![p] = "SCRAP"]
          /\ order' = RefreshWorkOrder(panelStatus', PanelLot[p])
          /\ UNCHANGED lotStatus
      BY <1>4 DEF ScrapPanel, lotVars
    <2>2. AbsentPanelsWait'
      BY <2>1, FabAssumption DEF OrderInv, AbsentPanelsWait, TypeOK
    <2>3. ASSUME NEW k \in Lots \ {PanelLot[p]}
          PROVE  order'[k] = order[k] /\ (AllFinished(panelStatus', k) => AllFinished(panelStatus, k))
      <3>1. PanelLot[p] \in Lots
        BY FabAssumption
      <3>2. order'[k] = order[k]
        BY <2>1, <3>1, RefreshCloses
      <3>3. AllFinished(panelStatus', k) => AllFinished(panelStatus, k)
        BY <2>1 DEF AllFinished, PanelsOf, TypeOK
      <3> QED
        BY <3>2, <3>3
    <2>4. order'[PanelLot[p]] # "NONE" /\ PanelsOf(PanelLot[p]) # {}
            /\ AllFinished(panelStatus', PanelLot[p]) => order'[PanelLot[p]] = "DONE"
      BY <2>1, RefreshCloses, FabAssumption
    <2> QED
      BY <2>2, <2>3, <2>4 DEF OrderInv, OrderClosesWithLastPanel, PanelsOf, AllFinished
  <1>5. ASSUME NEW l \in Lots, CreateAndRelease(l) PROVE OrderInv'
    <2>1. /\ lotStatus[l] = "ABSENT"
          /\ lotStatus' = [lotStatus EXCEPT ![l] = "WAIT"]
          /\ order' = [order EXCEPT ![l] = "RELEASED"]
          /\ UNCHANGED panelStatus
      BY <1>5 DEF CreateAndRelease, panelVars
    <2>2. AbsentPanelsWait'
      BY <2>1, FabAssumption DEF OrderInv, AbsentPanelsWait, TypeOK
    <2>3. PanelsOf(l) # {} => ~AllFinished(panelStatus', l)
      BY <2>1, FabAssumption DEF OrderInv, AbsentPanelsWait, AllFinished, PanelsOf, Finished
    <2> QED
      BY <2>1, <2>2, <2>3 DEF OrderInv, OrderClosesWithLastPanel, PanelsOf, AllFinished, TypeOK
  <1>6. ASSUME UNCHANGED <<lotVars, panelVars, order>> PROVE OrderInv'
    BY <1>6 DEF lotVars, panelVars, OrderInv, OrderClosesWithLastPanel, AbsentPanelsWait,
                AllFinished, PanelsOf
  <1>7. ASSUME NEW e \in Equipment, WakeEquipment(e) PROVE OrderInv'
    BY <1>6, <1>7 DEF WakeEquipment
  <1>8. ASSUME Reset PROVE OrderInv'
    BY <1>8, FabAssumption DEF Reset, OrderInv, OrderClosesWithLastPanel, AbsentPanelsWait
  <1> QED
    BY <1>1, <1>2, <1>3, <1>4, <1>5, <1>6, <1>7, <1>8, LotCases, ZenonT(60)

\* Whichever operation finishes the last panel of a lot, in whatever state the
\* others were before, the lot's work order is closed.
THEOREM OrderCloses == Spec => []OrderClosesWithLastPanel
  <1>1. Init => OrderInv
    BY DEF Init, OrderInv, OrderClosesWithLastPanel, AbsentPanelsWait
  <1>2. TypeOK /\ OrderInv /\ [Next]_vars => OrderInv'
    BY OrderStays
  <1>3. OrderInv => OrderClosesWithLastPanel
    BY DEF OrderInv
  <1> QED
    BY <1>1, <1>2, <1>3, TypeCorrect, PTL DEF Spec

-----------------------------------------------------------------------------
(* FabCore implements GlassFlow.                                           *)

(* A step the sequence check lets through is one whose predecessor on the  *)
(* route is on record.                                                     *)

LEMMA AllowedIsReached ==
  ASSUME NEW p \in Panels, NEW step,
         IsRoutePrefix(history[p], ProductOf(p)), lastStep[p] \in history[p] \cup {None},
         step \in AllowedNextSteps(ProductOf(p), lastStep[p])
  PROVE  Flow!Reached(p, step)
  <1> DEFINE product == ProductOf(p)
             done == history[p]
             last == lastStep[p]
  <1>1. product \in Products
    BY FabAssumption DEF ProductOf
  <1>2. LotProduct[PanelLot[p]] = product
    BY DEF ProductOf
  <1>3. IsRoutePrefix(done, product) /\ last \in done \cup {None}
          /\ step \in AllowedNextSteps(product, last)
    OBVIOUS
  <1> HIDE DEF product, done, last
  <1>4. CASE product = "LCD"
    <2>1. /\ step \in {"LOAD", "PI", "LCD_CELL", "INSPECT"}
          /\ step = "PI" => "LOAD" \in done
          /\ step = "LCD_CELL" => "PI" \in done
          /\ step = "INSPECT" => "LCD_CELL" \in done
      BY <1>3, <1>4, NoneIsNotAStep
         DEF IsRoutePrefix, AllowedNextSteps, Successors, StepsOf, RouteFor, LcdRoute, Steps
    <2> QED
      BY <1>2, <1>4, <2>1
         DEF Flow!Reached, Flow!StepsOf, Flow!RouteFor, Flow!LcdRoute, done
  <1>5. CASE product = "OLED"
    <2>1. /\ step \in {"LOAD", "CLEAN", "EVAP", "ENCAP", "INSPECT"}
          /\ step = "CLEAN" => "LOAD" \in done
          /\ step = "EVAP" => "CLEAN" \in done
          /\ step = "ENCAP" => "EVAP" \in done
          /\ step = "INSPECT" => "ENCAP" \in done
      BY <1>3, <1>5, NoneIsNotAStep
         DEF IsRoutePrefix, AllowedNextSteps, Successors, StepsOf, RouteFor, OledRoute, Steps
    <2> QED
      BY <1>2, <1>5, <2>1
         DEF Flow!Reached, Flow!StepsOf, Flow!RouteFor, Flow!OledRoute, done
  <1> QED
    BY <1>1, <1>4, <1>5 DEF Products

-----------------------------------------------------------------------------
(* The refinement mapping, named, and the operations one by one.           *)

Judged == [p \in Panels |-> VerdictOf(panelStatus[p])]

Held == {l \in Lots : lotStatus[l] = "HOLD"}

\* An accepted event is an advance of its panel.
LEMMA EventAdvances ==
  ASSUME TypeOK, NoStepSkipped,
         NEW e \in Equipment, NEW l \in Lots, NEW p \in Panels, NEW step \in Steps,
         NEW recipe, NEW status, NEW fails \in BOOLEAN, NEW late \in BOOLEAN,
         AcceptedEvent(e, l, p, step, recipe, status, fails, late)
  PROVE  Flow!Advance(p, step)
  <1> DEFINE mismatch == recipe \notin {None, LotRecipe[l]}
             new == PanelAfter(step, mismatch, fails)
             now == LotAfter(l, step, mismatch \/ fails, panelStatus')
  <1>1. /\ panelStatus' = [panelStatus EXCEPT ![p] = new]
        /\ lotStatus' = [lotStatus EXCEPT ![l] = now]
        /\ history' = [history EXCEPT ![p] = @ \cup {step}]
    BY DEF AcceptedEvent, Apply
  <1>2. /\ PanelLot[p] = l
        /\ lotStatus[l] # "HOLD"
        /\ panelStatus[p] # "SCRAP"
        /\ step \in AllowedNextSteps(ProductOf(p), lastStep[p])
        /\ fails => step = "INSPECT"
    BY DEF AcceptedEvent, Acceptable, PanelInLot, LotNotHeld, PanelNotScrapped, StepAllowed,
           ProductOf
  <1>3. Flow!Reached(p, step)
    BY <1>2, AllowedIsReached DEF NoStepSkipped
  <1>4. /\ fails => new = "FAIL" /\ now = "HOLD"
        /\ ~fails /\ mismatch => new = "HOLD" /\ now = "HOLD"
        /\ ~fails /\ ~mismatch => now # "HOLD"
        /\ ~fails /\ ~mismatch /\ step = "INSPECT" => new = "COMPLETE"
        /\ ~fails /\ ~mismatch /\ step # "INSPECT" => new = "PROCESSING"
    BY DEF PanelAfter, LotAfter
  <1> HIDE DEF mismatch, new, now
  <1>5. Judged' = [Judged EXCEPT ![p] = VerdictOf(new)]
    BY <1>1 DEF Judged, TypeOK
  <1>6. /\ now = "HOLD" => Held' = Held \cup {l}
        /\ now # "HOLD" => Held' = Held
    BY <1>1, <1>2 DEF Held, TypeOK
  <1>7. /\ l \notin Held
        /\ Judged[p] # "SCRAPPED"
    BY <1>2 DEF Held, Judged, VerdictOf
  <1>8. \/ step = "INSPECT" /\ VerdictOf(new) = "GOOD" /\ Held' = Held
        \/ step = "INSPECT" /\ VerdictOf(new) = "BAD" /\ Held' = Held \cup {l}
        \/ step # "INSPECT" /\ VerdictOf(new) = "OPEN" /\ Held' = Held
        \/ VerdictOf(new) = "OPEN" /\ Held' = Held \cup {l}
    BY <1>2, <1>4, <1>6 DEF VerdictOf
  <1> QED
    BY <1>1, <1>2, <1>3, <1>5, <1>7, <1>8 DEF Flow!Advance, Judged, Held

LEMMA HoldStopsLot ==
  ASSUME TypeOK, NEW l \in Lots, HoldLot(l)
  PROVE  Flow!StopLot(l)
  <1>1. Held' = Held \cup {l}
    BY DEF HoldLot, Held, TypeOK
  <1> QED
    BY <1>1 DEF HoldLot, panelVars, Flow!StopLot, Held

LEMMA ReleaseResumesLot ==
  ASSUME TypeOK, NEW l \in Lots, ReleaseLot(l)
  PROVE  Flow!ResumeLot(l)
  <1> DEFINE back == IF lotStep[l] = None THEN "WAIT" ELSE "PROCESSING"
  <1>1. /\ lotStatus' = [lotStatus EXCEPT ![l] = back]
        /\ panelStatus' = [p \in Panels |->
                             IF PanelLot[p] = l /\ panelStatus[p] = "HOLD"
                             THEN back ELSE panelStatus[p]]
        /\ UNCHANGED history
    BY DEF ReleaseLot
  <1>2. back \in {"WAIT", "PROCESSING"}
    OBVIOUS
  <1> HIDE DEF back
  <1>3. Held' = Held \ {l}
    BY <1>1, <1>2 DEF Held, TypeOK
  <1>4. Judged' = Judged
    BY <1>1, <1>2 DEF Judged, VerdictOf
  <1> QED
    BY <1>1, <1>3, <1>4 DEF Flow!ResumeLot, Held, Judged

LEMMA ScrapDiscards ==
  ASSUME TypeOK, NEW p \in Panels, ScrapPanel(p)
  PROVE  Flow!Discard(p)
  <1>1. /\ panelStatus[p] \notin Finished
        /\ panelStatus' = [panelStatus EXCEPT ![p] = "SCRAP"]
        /\ UNCHANGED <<history, lotStatus>>
    BY DEF ScrapPanel, lotVars
  <1>2. Judged[p] \in {"OPEN", "BAD"}
    BY <1>1 DEF Judged, VerdictOf, Finished
  <1>3. Judged' = [Judged EXCEPT ![p] = "SCRAPPED"]
    BY <1>1 DEF Judged, VerdictOf, TypeOK
  <1>4. Held' = Held
    BY <1>1 DEF Held
  <1> QED
    BY <1>1, <1>2, <1>3, <1>4 DEF Flow!Discard, Judged, Held

\* What the flow does not show.
LEMMA Unseen ==
  ASSUME UNCHANGED panelVars, Held' = Held
  PROVE  UNCHANGED Flow!flowVars
  BY DEF panelVars, Flow!flowVars, Held

\* What happens to the glass is what GlassFlow allows, whatever equipment
\* reports, operators command and the reset deletes.
THEOREM FabIsGlassFlow == Spec => ImplementsGlassFlow
  <1>1. Init => Flow!FlowInit
    <2> SUFFICES ASSUME Init PROVE Flow!FlowInit
      OBVIOUS
    <2>1. Judged = [p \in Panels |-> "OPEN"]
      BY DEF Init, Judged, VerdictOf
    <2>2. Held = {}
      BY DEF Init, FreshLots, Held
    <2> QED
      BY <2>1, <2>2 DEF Init, Flow!FlowInit, Judged, Held
  <1>2. TypeOK /\ NoStepSkipped /\ [Next]_vars => [Flow!FlowNext]_(Flow!flowVars)
    <2> SUFFICES ASSUME TypeOK, NoStepSkipped, [Next]_vars
                 PROVE  Flow!FlowNext \/ UNCHANGED Flow!flowVars
      OBVIOUS
    <2> DEFINE Allowed == Flow!FlowNext \/ UNCHANGED Flow!flowVars
    <2>1. ASSUME NEW e \in Equipment, NEW l \in Lots, NEW p \in Panels, NEW step \in Steps,
                 NEW recipe \in Recipes \cup {None}, NEW status \in EventStatuses,
                 NEW fails \in BOOLEAN, NEW late \in BOOLEAN,
                 AcceptedEvent(e, l, p, step, recipe, status, fails, late)
          PROVE  Allowed
      <3>1. Flow!Advance(p, step)
        BY <2>1, EventAdvances
      <3>2. step \in Flow!Steps
        BY DEF Flow!Steps, Steps
      <3> QED
        BY <3>1, <3>2 DEF Flow!FlowNext
    <2>2. ASSUME NEW l \in Lots, HoldLot(l) PROVE Allowed
      BY <2>2, HoldStopsLot DEF Flow!FlowNext
    <2>3. ASSUME NEW l \in Lots, ReleaseLot(l) PROVE Allowed
      BY <2>3, ReleaseResumesLot DEF Flow!FlowNext
    <2>4. ASSUME NEW p \in Panels, ScrapPanel(p) PROVE Allowed
      BY <2>4, ScrapDiscards DEF Flow!FlowNext
    <2>5. ASSUME NEW l \in Lots, CreateAndRelease(l) PROVE Allowed
      <3>1. UNCHANGED panelVars /\ Held' = Held
        BY <2>5 DEF CreateAndRelease, Held, TypeOK
      <3> QED
        BY <3>1, Unseen
    <2>6. ASSUME NEW e \in Equipment, WakeEquipment(e) PROVE Allowed
      <3>1. UNCHANGED panelVars /\ Held' = Held
        BY <2>6 DEF WakeEquipment, lotVars, Held
      <3> QED
        BY <3>1, Unseen
    <2>7. ASSUME Reset PROVE Allowed
      <3>1. Judged' = [p \in Panels |-> "OPEN"]
        BY <2>7 DEF Reset, Judged, VerdictOf
      <3>2. Held' = {}
        BY <2>7 DEF Reset, FreshLots, Held
      <3>3. Flow!StartAfresh
        BY <2>7, <3>1, <3>2 DEF Reset, Flow!StartAfresh, Judged, Held
      <3> QED
        BY <3>3 DEF Flow!FlowNext
    <2>8. ASSUME UNCHANGED <<lotVars, panelVars, order, eqLot>> PROVE Allowed
      <3>1. UNCHANGED panelVars /\ Held' = Held
        BY <2>8 DEF lotVars, Held
      <3> QED
        BY <3>1, Unseen
    <2> HIDE DEF Allowed
    <2>9. Allowed
      BY <2>1, <2>2, <2>3, <2>4, <2>5, <2>6, <2>7, <2>8, LotCases, ZenonT(60)
    <2> QED
      BY <2>9 DEF Allowed
  <1> QED
    BY <1>1, <1>2, TypeCorrect, StepsInOrder, PTL DEF Spec, ImplementsGlassFlow, Flow!FlowSpec
=============================================================================
