------------------------ MODULE DemonstrationProofs ------------------------
(***************************************************************************)
(* Proofs about Demonstration: whatever is played, commanded, broken off   *)
(* or reset, the host's state stays sound, and every scenario that finds   *)
(* the line clear ends as the catalogue says.  The invariant behind the    *)
(* second is Course: how far the scenario is, what is left of its script,  *)
(* and what it has made of the line and of its panel by then.              *)
(***************************************************************************)
EXTENDS Demonstration, DispatchProofs

-----------------------------------------------------------------------------
(* The invariant.                                                          *)

WaitingPanelIsUntouched == \A p \in Panels : panelStatus[p] = "WAIT" => history[p] = {}

\* What holds of the host's state, whoever acts.
HostInv ==
  /\ TypeOK
  /\ NoStepSkipped
  /\ OneStationPerLot
  /\ LotAgreesWithPanels
  /\ WaitingLotIsUntouched
  /\ OrderInv
  /\ WaitingPanelIsUntouched

\* The scenarios that report events for one panel, those that run an order, and
\* those that stage a recipe mismatch.
Reporting == Practice \cup {"demo_recipe_mismatch"}
Running == Ordered \ {"demo_recipe_mismatch"}
Mismatches == {"demo_recipe_mismatch", "oled_recipe_mismatch"}

\* The product a scenario is about.
MadeBy(s) == RecipeProduct[PreparedFor(s)]

\* What is left of a scenario when i of its events are done.
EventsFrom(s, i) == SubSeq(Events(s), i + 1, Len(Events(s)))

\* The script of a scenario that has a panel, from the beginning.
WholeScript(s) ==
  IF s \in Ordered THEN <<Prepare(PreparedFor(s)), [do |-> "order"]>> \o Events(s)
  ELSE <<Prepare(PreparedFor(s))>> \o Events(s)

\* The panel's latest step when i events are done.
LastDone(s, i) ==
  IF i = 0 THEN None
  ELSE IF s \in Mismatches /\ i = 3 THEN "CLEAN"
  ELSE EquipmentStep(Events(s)[i].equipment)

\* An equipment that takes a panel of lot l, as far as the lot is concerned.
Usable(e, l) == eqStatus[e] = "RUN" /\ e \notin lost /\ eqLot[e] \in {None, l}

\* It holds the recipe, if the recipe is for it.
IsSet(e, recipe) == EquipmentProduct(e) = RecipeProduct[recipe] => eqRecipe[e] = recipe

\* The equipment that scenario s names.
Named(s) == {Events(s)[i].equipment : i \in 1 .. Len(Events(s))}

\* The equipment a reporting scenario names is ready for lot l when i of its
\* events are done.
NamedReady(s, i, l) ==
  \A e \in Named(s) :
    /\ Usable(e, l)
    /\ IF e = "PROC-01" /\ s \in Mismatches /\ i = 3 THEN eqRecipe[e] = B01
       ELSE IsSet(e, PreparedFor(s))

\* For a running one: equipment runs, in contact and set, or is under
\* maintenance, and every step has one for lot l.
LineReady(s, l) ==
  /\ \A e \in Equipment : eqStatus[e] # "MAINTENANCE" =>
       eqStatus[e] = "RUN" /\ e \notin lost /\ IsSet(e, PreparedFor(s))
  /\ \A step \in StepsOf(MadeBy(s)) : \E e \in Equipment : EquipmentStep(e) = step /\ Usable(e, l)

Equipped(s, l) ==
  /\ s \in Reporting => NamedReady(s, 0, l)
  /\ s \in Running => LineReady(s, l)

Underway(p) ==
  /\ lotStatus[PanelLot[p]] \in {"WAIT", "PROCESSING"}
  /\ panelStatus[p] \in {"WAIT", "PROCESSING"}

\* A reporting scenario's panel when i events are done and others are left.
ReportTrack(s, i, p) ==
  /\ Underway(p)
  /\ lastStep[p] = LastDone(s, i)
  /\ s = "lcd_into_oled_evap" => history[p] = IF i = 0 THEN {} ELSE {"LOAD"}
  /\ NamedReady(s, i, PanelLot[p])

\* The panel of a running one: on its way, or judged as announced.
RunTrack(s, p) ==
  /\ PanelLot[p] \notin SampleLots
  /\ order[PanelLot[p]] # "NONE"
  /\ \/ /\ Underway(p)
        /\ lastStep[p] # "INSPECT"
        /\ lotStep[PanelLot[p]] = lastStep[p]
        /\ LineReady(s, PanelLot[p])
     \/ /\ PanelAsAnnounced(s, p)
        /\ s # "demo_oled_fail" => panelStatus[p] = "COMPLETE"

OnTrack(s, i) ==
  IF i = Len(Events(s)) THEN AsAnnounced(s)
  ELSE /\ s \in Reporting => ReportTrack(s, i, target)
       /\ s \in Running => RunTrack(s, target)

HasPanel(s) ==
  s \notin Contact => target \in Panels /\ LotProduct[PanelLot[target]] = MadeBy(s)

\* Where a scenario can be: the heartbeat; a practice scenario without a
\* waiting panel; before the line is prepared; before the order is made; and
\* when i events are done.
Beating == played = "heartbeat" /\ (script = <<[do |-> "beat"]>> \/ (script = <<>> /\ lost = {}))

NoneWaits ==
  played \in Practice /\ ~clear /\ script \in {<<Prepare(PreparedFor(played))>>, <<>>}

ToPrepare ==
  /\ played \in Scenarios \ {"heartbeat"}
  /\ script = WholeScript(played)
  /\ clear => Clear(played)
  /\ played \in Ordered => Unused(played) # {}
  /\ played \in Practice => target \in Waiting(PracticeLot(played))

ToOrder ==
  /\ played \in Ordered
  /\ script = <<[do |-> "order"]>> \o Events(played)
  /\ Unused(played) # {}
  /\ clear => Equipped(played, None)

ToTell(i) ==
  /\ played \in Scenarios \ {"heartbeat"}
  /\ script = EventsFrom(played, i)
  /\ HasPanel(played)
  /\ clear => OnTrack(played, i)

Course ==
  played # None =>
    Beating \/ NoneWaits \/ ToPrepare \/ ToOrder \/ \E i \in 0 .. Len(Events(played)) : ToTell(i)

\* A beat is due before the next scenario is.
PilotInTime == pilot = "sleep" => sinceRun < RunEvery

DemoInv == HostInv /\ DemoTypeOK /\ PilotInTime /\ Course

-----------------------------------------------------------------------------
(* The host's state.                                                       *)

LEMMA WaitingStays ==
  ASSUME TypeOK, WaitingLotIsUntouched, WaitingPanelIsUntouched, [Next]_vars
  PROVE  WaitingPanelIsUntouched'
  <1>1. ASSUME NEW e \in Equipment, NEW l \in Lots, NEW p \in Panels, NEW step \in Steps,
               NEW recipe \in Recipes \cup {None}, NEW status \in EventStatuses,
               NEW fails \in BOOLEAN, NEW late \in BOOLEAN,
               AcceptedEvent(e, l, p, step, recipe, status, fails, late)
        PROVE  WaitingPanelIsUntouched'
    <2>1. /\ panelStatus'[p] # "WAIT"
          /\ \A q \in Panels \ {p} : panelStatus'[q] = panelStatus[q] /\ history'[q] = history[q]
      BY <1>1, AcceptedEffect
    <2> QED
      BY <2>1 DEF WaitingPanelIsUntouched
  <1>2. ASSUME NEW l \in Lots, HoldLot(l) PROVE WaitingPanelIsUntouched'
    BY <1>2 DEF HoldLot, panelVars, WaitingPanelIsUntouched
  <1>3. ASSUME NEW l \in Lots, ReleaseLot(l) PROVE WaitingPanelIsUntouched'
    <2>1. UNCHANGED history
      BY <1>3 DEF ReleaseLot
    <2>2. ASSUME NEW p \in Panels, panelStatus'[p] = "WAIT"
          PROVE  panelStatus[p] = "WAIT" \/ lotStep[PanelLot[p]] = None
      BY <1>3, <2>2 DEF ReleaseLot
    <2>3. ASSUME NEW p \in Panels, lotStep[PanelLot[p]] = None PROVE history[p] = {}
      BY <2>3, FabAssumption DEF WaitingLotIsUntouched, PanelsOf
    <2> QED
      BY <2>1, <2>2, <2>3 DEF WaitingPanelIsUntouched
  <1>4. ASSUME NEW p \in Panels, ScrapPanel(p) PROVE WaitingPanelIsUntouched'
    BY <1>4 DEF ScrapPanel, WaitingPanelIsUntouched, TypeOK
  <1>5. ASSUME NEW l \in Lots, CreateAndRelease(l) PROVE WaitingPanelIsUntouched'
    BY <1>5 DEF CreateAndRelease, panelVars, WaitingPanelIsUntouched
  <1>6. ASSUME NEW e \in Equipment, WakeEquipment(e) PROVE WaitingPanelIsUntouched'
    BY <1>6 DEF WakeEquipment, panelVars, WaitingPanelIsUntouched
  <1>7. ASSUME Reset PROVE WaitingPanelIsUntouched'
    BY <1>7 DEF Reset, WaitingPanelIsUntouched
  <1>8. ASSUME UNCHANGED <<lotVars, panelVars, order, eqLot>> PROVE WaitingPanelIsUntouched'
    BY <1>8 DEF panelVars, WaitingPanelIsUntouched
  <1> QED
    BY <1>1, <1>2, <1>3, <1>4, <1>5, <1>6, <1>7, <1>8, LotCases, ZenonT(60)

LEMMA HostBegins ==
  ASSUME Init
  PROVE  HostInv
  <1>1. TypeOK
    BY FabAssumption DEF Init, FreshLots, TypeOK, LotStatuses, PanelStatuses, OrderStatuses, EquipmentStatuses
  <1>2. NoStepSkipped
    BY FabAssumption DEF Init, NoStepSkipped, IsRoutePrefix, ProductOf
  <1>3. OneStationPerLot
    BY FabAssumption DEF Init, OneStationPerLot
  <1>4. LotAgreesWithPanels
    BY FabAssumption DEF Init, FreshLots, LotAgreesWithPanels
  <1>5. WaitingLotIsUntouched
    BY FabAssumption, NoneIsNotAStep DEF Init, WaitingLotIsUntouched, PanelsOf
  <1>6. OrderInv
    BY DEF Init, OrderInv, OrderClosesWithLastPanel, AbsentPanelsWait
  <1>7. WaitingPanelIsUntouched
    BY DEF Init, WaitingPanelIsUntouched
  <1> QED
    BY <1>1, <1>2, <1>3, <1>4, <1>5, <1>6, <1>7 DEF HostInv

\* What a scenario does to equipment beside the host's own operations: it may
\* free equipment, but nothing happens to lots and panels.
Tending ==
  /\ UNCHANGED <<lotVars, panelVars, order>>
  /\ eqStatus' \in [Equipment -> EquipmentStatuses]
  /\ eqRecipe' \in [Equipment -> Recipes \cup {None}]
  /\ lost' \subseteq Equipment
  /\ eqLot' \in [Equipment -> Lots \cup {None}]
  /\ \A e \in Equipment : eqLot'[e] \in {eqLot[e], None}

LEMMA HostStays ==
  ASSUME HostInv, [Next]_vars \/ Tending
  PROVE  HostInv'
  <1>1. CASE [Next]_vars
    BY <1>1, TypeStays, StepsStay, StationStays, AgreementStays, UntouchedStays, OrderStays,
       WaitingStays DEF HostInv
  <1>2. CASE Tending
    <2>1. TypeOK'
      BY <1>2 DEF HostInv, TypeOK, Tending, lotVars, panelVars
    <2>2. NoStepSkipped'
      BY <1>2 DEF HostInv, Tending, panelVars, NoStepSkipped
    <2>3. OneStationPerLot'
      BY <1>2 DEF HostInv, Tending, lotVars, OneStationPerLot
    <2>4. LotAgreesWithPanels'
      BY <1>2 DEF HostInv, Tending, lotVars, panelVars, LotAgreesWithPanels
    <2>5. WaitingLotIsUntouched'
      BY <1>2, FabAssumption DEF HostInv, Tending, lotVars, panelVars, WaitingLotIsUntouched
    <2>6. OrderInv'
      BY <1>2 DEF HostInv, Tending, lotVars, panelVars, OrderInv, OrderClosesWithLastPanel,
                  AbsentPanelsWait, AllFinished
    <2>7. WaitingPanelIsUntouched'
      BY <1>2 DEF HostInv, Tending, panelVars, WaitingPanelIsUntouched
    <2> QED
      BY <2>1, <2>2, <2>3, <2>4, <2>5, <2>6, <2>7 DEF HostInv
  <1> QED
    BY <1>1, <1>2

-----------------------------------------------------------------------------
(* Scripts.                                                                *)

LEMMA RestOfScript ==
  ASSUME NEW S, NEW q \in Seq(S), NEW i \in 0 .. Len(q)
  PROVE  LET rest == SubSeq(q, i + 1, Len(q))
         IN  /\ i = Len(q) => rest = <<>>
             /\ i # Len(q) =>
                  /\ rest # <<>>
                  /\ Head(rest) = q[i + 1]
                  /\ Tail(rest) = SubSeq(q, i + 2, Len(q))
  <1>1. CASE i = Len(q)
    BY <1>1, SubSeqEmpty
  <1>2. CASE i # Len(q)
    <2>1. i + 1 \in 1 .. Len(q) /\ Len(q) \in i + 1 .. Len(q) /\ (i + 1) + 1 = i + 2
      BY <1>2
    <2>2. /\ Head(SubSeq(q, i + 1, Len(q))) = q[i + 1]
          /\ Tail(SubSeq(q, i + 1, Len(q))) = SubSeq(q, i + 2, Len(q))
      BY <2>1, HeadTailOfSubSeq
    <2>3. SubSeq(q, i + 1, Len(q)) # <<>>
      <3>1. \A j \in i + 1 .. Len(q) : q[j] \in S
        BY <2>1
      <3>2. Len(SubSeq(q, i + 1, Len(q))) = Len(q) - (i + 1) + 1
        BY <2>1, <3>1, SubSeqProperties
      <3>3. Len(SubSeq(q, i + 1, Len(q))) # 0
        <4> DEFINE n == Len(SubSeq(q, i + 1, Len(q)))
        <4>1. n = Len(q) - (i + 1) + 1 /\ Len(q) \in Nat
          BY <3>2, LenProperties
        <4> HIDE DEF n
        <4>2. n # 0
          BY <1>2, <4>1
        <4> QED
          BY <4>2 DEF n
      <3>4. Len(<<>>) = 0
        OBVIOUS
      <3> QED
        BY <3>3, <3>4, Zenon
    <2> QED
      BY <1>2, <2>2, <2>3
  <1> QED
    BY <1>1, <1>2

LEMMA StartOfScript ==
  ASSUME NEW S, NEW q \in Seq(S), NEW a, NEW b
  PROVE  /\ <<a>> \o q # <<>> /\ Head(<<a>> \o q) = a /\ Tail(<<a>> \o q) = q
         /\ <<a, b>> \o q # <<>> /\ Head(<<a, b>> \o q) = a /\ Tail(<<a, b>> \o q) = <<b>> \o q
  <1> DEFINE T == S \cup {a, b}
  <1>1. q \in Seq(T) /\ <<a>> \in Seq(T) /\ <<b>> \in Seq(T) /\ <<a, b>> \in Seq(T)
    OBVIOUS
  <1>2. ASSUME NEW x \in T, NEW r \in Seq(T)
        PROVE  /\ <<x>> \o r # <<>> /\ Head(<<x>> \o r) = x /\ Tail(<<x>> \o r) = r
    <2>1. <<x>> \o r \in Seq(T) /\ Len(<<x>> \o r) = 1 + Len(r)
          /\ \A i \in 1 .. 1 + Len(r) : (<<x>> \o r)[i] = IF i <= 1 THEN x ELSE r[i - 1]
      BY ConcatProperties
    <2>2. <<x>> \o r # <<>>
      BY <2>1
    <2>3. /\ Tail(<<x>> \o r) \in Seq(T)
          /\ Len(Tail(<<x>> \o r)) = Len(r)
          /\ \A i \in 1 .. Len(r) : Tail(<<x>> \o r)[i] = (<<x>> \o r)[i + 1]
      BY <2>1, <2>2, HeadTailProperties
    <2>4. \A i \in 1 .. Len(r) : Tail(<<x>> \o r)[i] = r[i]
      BY <2>1, <2>3
    <2> QED
      BY <2>1, <2>2, <2>3, <2>4
  <1>3. <<a, b>> \o q = <<a>> \o (<<b>> \o q)
    <2>1. <<a, b>> = <<a>> \o <<b>>
      <3>1. /\ <<a>> \o <<b>> \in Seq(T)
            /\ Len(<<a>> \o <<b>>) = Len(<<a>>) + Len(<<b>>)
            /\ \A i \in 1 .. Len(<<a>>) + Len(<<b>>) :
                 (<<a>> \o <<b>>)[i] = IF i <= Len(<<a>>) THEN <<a>>[i] ELSE <<b>>[i - Len(<<a>>)]
        BY <1>1, ConcatProperties
      <3>2. /\ Len(<<a>> \o <<b>>) = 2
            /\ (<<a>> \o <<b>>)[1] = a
            /\ (<<a>> \o <<b>>)[2] = b
        BY <3>1
      <3>3. ASSUME NEW u \in Seq(T), NEW v \in Seq(T), Len(u) = 2, Len(v) = 2,
                   u[1] = v[1], u[2] = v[2]
            PROVE  u = v
        BY <3>3
      <3>4. Len(<<a, b>>) = 2 /\ <<a, b>>[1] = a /\ <<a, b>>[2] = b
        OBVIOUS
      <3> HIDE DEF T
      <3> QED
        BY <1>1, <3>1, <3>2, <3>3, <3>4, Zenon
    <2> QED
      BY <1>1, <2>1, ConcatAssociative
  <1>4. <<b>> \o q \in Seq(T)
    BY <1>1, ConcatProperties
  <1> HIDE DEF T
  <1>5. a \in T
    BY DEF T
  <1> QED
    BY <1>1, <1>2, <1>3, <1>4, <1>5

LEMMA TupleIsScript ==
  ASSUME NEW a, NEW b, NEW c, NEW d, NEW f
  PROVE  /\ <<>> \in Seq({})
         /\ <<a>> \in Seq({a})
         /\ <<a, b>> \in Seq({a, b})
         /\ <<a, b, c, d>> \in Seq({a, b, c, d})
         /\ <<a, b, c, d, f>> \in Seq({a, b, c, d, f})
  OBVIOUS

LEMMA EventsAreScript ==
  ASSUME NEW s \in Scenarios \ {"heartbeat"}
  PROVE  \E S : Events(s) \in Seq(S)
  <1>1. CASE s \in Running \cup {"demo_comm_loss", "demo_alive"}
    BY <1>1, TupleIsScript DEF Events, Running, Ordered, RunDemo, DemoCommLoss
  <1>2. CASE s \in {"demo_recipe_mismatch", "oled_recipe_mismatch", "lcd_happy", "oled_skip_encap"}
    BY <1>2, TupleIsScript DEF Events, DemoRecipeMismatch, OledRecipeMismatch, LcdHappy, OledSkipEncap
  <1>3. CASE s \in {"oled_happy", "oled_inspect_fail", "lcd_into_oled_evap"}
    BY <1>3, TupleIsScript DEF Events, OledHappy, OledInspectFail, LcdIntoOledEvap
  <1> QED
    BY <1>1, <1>2, <1>3 DEF Scenarios, Ordered, Practice, Contact, Running

-----------------------------------------------------------------------------
(* What the scripts say.                                                   *)

LEMMA Stations ==
  /\ EquipmentStep("LOAD-01") = "LOAD" /\ EquipmentProduct("LOAD-01") = None
  /\ EquipmentStep("CLEAN-01") = "CLEAN" /\ EquipmentProduct("CLEAN-01") = "OLED"
  /\ EquipmentStep("PROC-01") = "EVAP" /\ EquipmentProduct("PROC-01") = "OLED"
  /\ EquipmentStep("ENC-01") = "ENCAP" /\ EquipmentProduct("ENC-01") = "OLED"
  /\ EquipmentStep("PI-01") = "PI" /\ EquipmentProduct("PI-01") = "LCD"
  /\ EquipmentStep("LCD-01") = "LCD_CELL" /\ EquipmentProduct("LCD-01") = "LCD"
  /\ EquipmentStep("INSPECT-01") = "INSPECT" /\ EquipmentProduct("INSPECT-01") = None
  BY DEF EquipmentStep, EquipmentProduct

LEMMA PreparedRecipe ==
  ASSUME NEW s \in Scenarios
  PROVE  /\ PreparedFor(s) \in Recipes
         /\ MadeBy(s) \in Products
         /\ MadeBy(s) = IF s \in {"demo_lcd_pass", "lcd_happy", "lcd_into_oled_evap"}
                        THEN "LCD" ELSE "OLED"
         /\ PreparedFor(s) = IF MadeBy(s) = "LCD" THEN C01 ELSE A01
  BY DemonstrationAssumption DEF PreparedFor, MadeBy, Products

\* The event a reporting scenario sends after i others: one the host takes and
\* that keeps the panel on its way, ...
GoodReport(s, i) ==
  LET r == Events(s)[i + 1]
      step == EquipmentStep(r.equipment)
  IN  /\ r.do = "report" /\ r.recipe = PreparedFor(s) /\ r.fails = FALSE
      /\ r.equipment \in EquipmentIds
      /\ step \in AllowedNextSteps(MadeBy(s), LastDone(s, i)) \ {"INSPECT"}
      /\ EquipmentProduct(r.equipment) \in {None, MadeBy(s)}
      /\ LastDone(s, i + 1) = step
      /\ s \in Mismatches => i \in {0, 1}
      /\ s = "lcd_into_oled_evap" => step = "LOAD"

\* ... or the selection of the wrong recipe, ...
WrongSelection(s, i) ==
  /\ s \in Mismatches /\ i = 2
  /\ Events(s)[3] = SelectOn("PROC-01", B01)
  /\ LastDone(s, 2) = "CLEAN" /\ LastDone(s, 3) = "CLEAN"

\* ... or the last one.
LastReport(s, i) ==
  LET r == Events(s)[i + 1]
  IN  /\ r.do = "report"
      /\ s \in {"oled_happy", "oled_inspect_fail", "lcd_happy"} =>
           /\ r.equipment = "INSPECT-01" /\ r.recipe = PreparedFor(s)
           /\ r.fails = (s = "oled_inspect_fail")
           /\ "INSPECT" \in AllowedNextSteps(MadeBy(s), LastDone(s, i))
      /\ s \in Mismatches =>
           /\ i = 3
           /\ r.equipment = "PROC-01" /\ r.recipe = B01 /\ r.fails = FALSE
           /\ "EVAP" \in AllowedNextSteps(MadeBy(s), LastDone(s, i))
      /\ s = "lcd_into_oled_evap" =>
           /\ i = 1
           /\ r.equipment = "PROC-01" /\ r.recipe = PreparedFor(s) /\ r.fails = FALSE
      /\ s = "oled_skip_encap" =>
           /\ r.equipment = "INSPECT-01" /\ r.recipe = PreparedFor(s) /\ r.fails = FALSE
           /\ LastDone(s, i) = "EVAP"
           /\ "INSPECT" \notin AllowedNextSteps(MadeBy(s), LastDone(s, i))

LEMMA ReportFields ==
  ASSUME NEW e, NEW recipe
  PROVE  /\ Report(e, recipe, None) = [do |-> "report", equipment |-> e, recipe |-> recipe, fails |-> FALSE]
         /\ Report(e, recipe, "PASS") = [do |-> "report", equipment |-> e, recipe |-> recipe, fails |-> FALSE]
         /\ Report(e, recipe, "FAIL") = [do |-> "report", equipment |-> e, recipe |-> recipe, fails |-> TRUE]
  <1>1. (None = "FAIL") = FALSE /\ ("PASS" = "FAIL") = FALSE /\ ("FAIL" = "FAIL") = TRUE
    BY DemonstrationAssumption
  <1> QED
    BY <1>1 DEF Report

LEMMA HappyTable ==
  ASSUME NEW s \in {"oled_happy", "oled_inspect_fail"}
  PROVE  /\ Len(Events(s)) = 5
         /\ \A i \in 0 .. 3 : GoodReport(s, i)
         /\ LastReport(s, 4)
  <1>1. /\ Len(Events(s)) = 5
        /\ Events(s)[1] = Report("LOAD-01", A01, None)
        /\ Events(s)[2] = Report("CLEAN-01", A01, None)
        /\ Events(s)[3] = Report("PROC-01", A01, None)
        /\ Events(s)[4] = Report("ENC-01", A01, None)
        /\ Events(s)[5] = Report("INSPECT-01", A01, IF s = "oled_happy" THEN "PASS" ELSE "FAIL")
    BY DEF Events, OledHappy, OledInspectFail
  <1>2. PreparedFor(s) = A01 /\ MadeBy(s) = "OLED" /\ s \notin Mismatches
    BY PreparedRecipe DEF Mismatches, Scenarios, Practice
  <1>3. /\ LastDone(s, 0) = None
        /\ LastDone(s, 1) = "LOAD"
        /\ LastDone(s, 2) = "CLEAN"
        /\ LastDone(s, 3) = "EVAP"
        /\ LastDone(s, 4) = "ENCAP"
    BY <1>1, <1>2, ReportFields, Stations DEF LastDone
  <1>4. GoodReport(s, 0) /\ GoodReport(s, 1) /\ GoodReport(s, 2) /\ GoodReport(s, 3)
    BY <1>1, <1>2, <1>3, ReportFields, Stations, OledSteps DEF GoodReport, EquipmentIds
  <1>5. Events(s)[5] = [do |-> "report", equipment |-> "INSPECT-01", recipe |-> A01,
                        fails |-> (s = "oled_inspect_fail")]
    <2>1. CASE s = "oled_happy"
      BY <1>1, <2>1, ReportFields
    <2>2. CASE s = "oled_inspect_fail"
      BY <1>1, <2>2, ReportFields
    <2> QED
      BY <2>1, <2>2
  <1>6. LastReport(s, 4)
    BY <1>2, <1>3, <1>5, OledSteps DEF LastReport
  <1> QED
    BY <1>1, <1>4, <1>6

LEMMA LcdHappyTable ==
  /\ Len(Events("lcd_happy")) = 4
  /\ \A i \in 0 .. 2 : GoodReport("lcd_happy", i)
  /\ LastReport("lcd_happy", 3)
  <1> DEFINE s == "lcd_happy"
  <1>1. /\ Len(Events(s)) = 4
        /\ Events(s)[1] = Report("LOAD-01", C01, None)
        /\ Events(s)[2] = Report("PI-01", C01, None)
        /\ Events(s)[3] = Report("LCD-01", C01, None)
        /\ Events(s)[4] = Report("INSPECT-01", C01, "PASS")
    BY DEF Events, LcdHappy
  <1>2. PreparedFor(s) = C01 /\ MadeBy(s) = "LCD" /\ s \notin Mismatches
    BY PreparedRecipe DEF Mismatches, Scenarios, Practice
  <1>3. /\ LastDone(s, 0) = None
        /\ LastDone(s, 1) = "LOAD"
        /\ LastDone(s, 2) = "PI"
        /\ LastDone(s, 3) = "LCD_CELL"
    BY <1>1, <1>2, ReportFields, Stations DEF LastDone
  <1>4. GoodReport(s, 0) /\ GoodReport(s, 1) /\ GoodReport(s, 2)
    BY <1>1, <1>2, <1>3, ReportFields, Stations, LcdSteps DEF GoodReport, EquipmentIds
  <1>5. LastReport(s, 3)
    <2>1. Events(s)[4] = [do |-> "report", equipment |-> "INSPECT-01", recipe |-> C01,
                          fails |-> (s = "oled_inspect_fail")]
      BY <1>1, ReportFields
    <2> QED
      BY <1>2, <1>3, <2>1, LcdSteps DEF LastReport
  <1> QED
    BY <1>1, <1>4, <1>5

LEMMA MismatchTable ==
  ASSUME NEW s \in Mismatches
  PROVE  /\ Len(Events(s)) = 4
         /\ GoodReport(s, 0) /\ GoodReport(s, 1) /\ WrongSelection(s, 2)
         /\ LastReport(s, 3)
  <1>1. /\ Len(Events(s)) = 4
        /\ Events(s)[1] = Report("LOAD-01", A01, None)
        /\ Events(s)[2] = Report("CLEAN-01", A01, None)
        /\ Events(s)[3] = SelectOn("PROC-01", B01)
        /\ Events(s)[4] = Report("PROC-01", B01, None)
    BY DEF Mismatches, Events, DemoRecipeMismatch, OledRecipeMismatch
  <1>2. PreparedFor(s) = A01 /\ MadeBy(s) = "OLED" /\ s # "lcd_into_oled_evap"
    BY PreparedRecipe DEF Mismatches, Scenarios, Practice, Ordered
  <1>3. /\ LastDone(s, 0) = None
        /\ LastDone(s, 1) = "LOAD"
        /\ LastDone(s, 2) = "CLEAN"
        /\ LastDone(s, 3) = "CLEAN"
    BY <1>1, <1>2, ReportFields, Stations DEF LastDone
  <1>4. GoodReport(s, 0) /\ GoodReport(s, 1)
    BY <1>1, <1>2, <1>3, ReportFields, Stations, OledSteps DEF GoodReport, EquipmentIds
  <1>5. WrongSelection(s, 2)
    BY <1>1, <1>3 DEF WrongSelection
  <1>6. LastReport(s, 3)
    BY <1>1, <1>2, <1>3, ReportFields, OledSteps DEF LastReport, Mismatches
  <1> QED
    BY <1>1, <1>4, <1>5, <1>6

LEMMA WrongLineTable ==
  /\ Len(Events("lcd_into_oled_evap")) = 2
  /\ GoodReport("lcd_into_oled_evap", 0)
  /\ LastReport("lcd_into_oled_evap", 1)
  <1> DEFINE s == "lcd_into_oled_evap"
  <1>1. /\ Len(Events(s)) = 2
        /\ Events(s)[1] = Report("LOAD-01", C01, None)
        /\ Events(s)[2] = Report("PROC-01", C01, None)
    BY DEF Events, LcdIntoOledEvap
  <1>2. PreparedFor(s) = C01 /\ MadeBy(s) = "LCD" /\ s \notin Mismatches
    BY PreparedRecipe DEF Mismatches, Scenarios, Practice
  <1>3. LastDone(s, 0) = None /\ LastDone(s, 1) = "LOAD"
    BY <1>1, <1>2, ReportFields, Stations DEF LastDone
  <1>4. GoodReport(s, 0)
    BY <1>1, <1>2, <1>3, ReportFields, Stations, LcdSteps DEF GoodReport, EquipmentIds
  <1>5. LastReport(s, 1)
    BY <1>1, <1>2, <1>3, ReportFields DEF LastReport
  <1> QED
    BY <1>1, <1>4, <1>5

LEMMA SkipTable ==
  /\ Len(Events("oled_skip_encap")) = 4
  /\ \A i \in 0 .. 2 : GoodReport("oled_skip_encap", i)
  /\ LastReport("oled_skip_encap", 3)
  <1> DEFINE s == "oled_skip_encap"
  <1>1. /\ Len(Events(s)) = 4
        /\ Events(s)[1] = Report("LOAD-01", A01, None)
        /\ Events(s)[2] = Report("CLEAN-01", A01, None)
        /\ Events(s)[3] = Report("PROC-01", A01, None)
        /\ Events(s)[4] = Report("INSPECT-01", A01, "PASS")
    BY DEF Events, OledSkipEncap
  <1>2. PreparedFor(s) = A01 /\ MadeBy(s) = "OLED" /\ s \notin Mismatches
    BY PreparedRecipe DEF Mismatches, Scenarios, Practice
  <1>3. /\ LastDone(s, 0) = None
        /\ LastDone(s, 1) = "LOAD"
        /\ LastDone(s, 2) = "CLEAN"
        /\ LastDone(s, 3) = "EVAP"
    BY <1>1, <1>2, ReportFields, Stations DEF LastDone
  <1>4. GoodReport(s, 0) /\ GoodReport(s, 1) /\ GoodReport(s, 2)
    BY <1>1, <1>2, <1>3, ReportFields, Stations, OledSteps DEF GoodReport, EquipmentIds
  <1>5. LastReport(s, 3)
    BY <1>1, <1>2, <1>3, ReportFields, OledSteps DEF LastReport
  <1> QED
    BY <1>1, <1>4, <1>5

LEMMA ReportTable ==
  ASSUME NEW s \in Reporting
  PROVE  \E n \in Nat :
           /\ Len(Events(s)) = n + 1
           /\ \A i \in 0 .. n - 1 : GoodReport(s, i) \/ WrongSelection(s, i)
           /\ LastReport(s, n)
  <1>1. CASE s \in {"oled_happy", "oled_inspect_fail"}
    <2>1. 4 \in Nat /\ 5 = 4 + 1 /\ 4 - 1 = 3
      OBVIOUS
    <2> QED
      BY <1>1, <2>1, HappyTable, Zenon
  <1>2. CASE s = "lcd_happy"
    <2>1. 3 \in Nat /\ 4 = 3 + 1 /\ 3 - 1 = 2
      OBVIOUS
    <2> QED
      BY <1>2, <2>1, LcdHappyTable, Zenon
  <1>3. CASE s \in Mismatches
    <2>1. 3 \in Nat /\ 4 = 3 + 1 /\ \A i \in 0 .. 3 - 1 : i = 0 \/ i = 1 \/ i = 2
      OBVIOUS
    <2> QED
      BY <1>3, <2>1, MismatchTable, Zenon
  <1>4. CASE s = "lcd_into_oled_evap"
    <2>1. 1 \in Nat /\ 2 = 1 + 1 /\ \A i \in 0 .. 1 - 1 : i = 0
      OBVIOUS
    <2> QED
      BY <1>4, <2>1, WrongLineTable, Zenon
  <1>5. CASE s = "oled_skip_encap"
    <2>1. 3 \in Nat /\ 4 = 3 + 1 /\ 3 - 1 = 2
      OBVIOUS
    <2> QED
      BY <1>5, <2>1, SkipTable, Zenon
  <1> QED
    BY <1>1, <1>2, <1>3, <1>4, <1>5 DEF Reporting, Practice, Mismatches

LEMMA OtherTables ==
  /\ \A s \in Running : /\ Len(Events(s)) = 1
                        /\ Events(s)[1] = [do |-> "run", fails |-> (s = "demo_oled_fail")]
  /\ Len(Events("demo_comm_loss")) = 1 /\ Events("demo_comm_loss")[1] = [do |-> "cut"]
  /\ Len(Events("demo_alive")) = 0
  <1>1. ASSUME NEW s \in Running
        PROVE  Len(Events(s)) = 1 /\ Events(s)[1] = [do |-> "run", fails |-> (s = "demo_oled_fail")]
    <2>1. CASE s \in {"demo_oled_pass", "demo_lcd_pass"}
      BY <2>1 DEF Events, RunDemo
    <2>2. CASE s = "demo_oled_fail"
      BY <2>2 DEF Events, RunDemo
    <2> QED
      BY <2>1, <2>2 DEF Running, Ordered
  <1> QED
    BY <1>1 DEF Events, DemoCommLoss

LEMMA NamedIsThere ==
  ASSUME NEW s \in Reporting
  PROVE  /\ Named(s) \subseteq Equipment
         /\ DOMAIN Events(s) = 1 .. Len(Events(s))
         /\ \A i \in 1 .. Len(Events(s)) : Events(s)[i].equipment \in Named(s)
  <1>1. PICK n \in Nat : /\ Len(Events(s)) = n + 1
                         /\ \A i \in 0 .. n - 1 : GoodReport(s, i) \/ WrongSelection(s, i)
                         /\ LastReport(s, n)
    BY ReportTable
  <1>2. s \in Scenarios \ {"heartbeat"}
    BY DEF Reporting, Scenarios, Practice, Ordered
  <1>3. ASSUME NEW i \in 1 .. n + 1 PROVE Events(s)[i].equipment \in EquipmentIds
    <2>1. CASE i = n + 1
      <3>1. Events(s)[n + 1].equipment \in {"INSPECT-01", "PROC-01"}
        BY <1>1 DEF LastReport, Reporting, Practice, Mismatches
      <3> QED
        BY <2>1, <3>1 DEF EquipmentIds
    <2>2. CASE i # n + 1
      <3>1. PICK j \in 0 .. n - 1 : i = j + 1
        <4>1. i - 1 \in 0 .. n - 1 /\ i = (i - 1) + 1
          BY <2>2
        <4> QED
          BY <4>1
      <3>2. CASE GoodReport(s, j)
        BY <3>1, <3>2 DEF GoodReport
      <3>3. CASE WrongSelection(s, j)
        <4>1. j = 2
          BY <3>3 DEF WrongSelection
        <4>2. i = 3
          BY <3>1, <4>1
        <4> QED
          BY <3>3, <4>2 DEF WrongSelection, SelectOn, EquipmentIds
      <3> QED
        BY <1>1, <3>2, <3>3
    <2> QED
      BY <2>1, <2>2
  <1>4. PICK S : Events(s) \in Seq(S)
    BY <1>2, EventsAreScript
  <1> QED
    BY <1>1, <1>3, <1>4, DemonstrationAssumption DEF Named

-----------------------------------------------------------------------------
(* What a scenario does is an operation of the host, or tends equipment.   *)

LEMMA PrepareTends ==
  ASSUME TypeOK, NEW recipe \in Recipes, PrepareLine(recipe)
  PROVE  Tending
  <1>1. ASSUME NEW e \in Equipment, EquipmentProduct(e) # None
        PROVE  RecipeFor(e, recipe) \in Recipes
    <2>1. EquipmentProduct(e) \in Products
      BY <1>1, FabAssumption DEF EquipmentProduct, EquipmentIds, Products
    <2> QED
      BY <2>1, DispatchAssumption DEF RecipeFor
  <1> QED
    BY <1>1 DEF PrepareLine, TypeOK, Tending, EquipmentStatuses

LEMMA BeatTends ==
  ASSUME TypeOK, BeatAll
  PROVE  Tending
  BY DEF BeatAll, TypeOK, Tending, EquipmentStatuses

LEMMA CutTends ==
  ASSUME TypeOK, CutLine
  PROVE  Tending
  BY FabAssumption, DemonstrationAssumption DEF CutLine, TypeOK, Tending, EquipmentIds

LEMMA SelectTends ==
  ASSUME TypeOK, NEW e \in Equipment, NEW recipe \in Recipes, SelectRecipe(e, recipe)
  PROVE  Tending
  BY DEF SelectRecipe, TypeOK, Tending

\* The first check that fails decides; when none does the event is acceptable.
LEMMA VerdictIsAnswer ==
  ASSUME TypeOK, NEW e \in Equipment, NEW l, NEW p, NEW step, NEW recipe
  PROVE  /\ Verdict(e, l, p, step, recipe) \in Answers
         /\ Verdict(e, l, p, step, recipe) = "ACCEPTED" <=>
              /\ EquipmentReady(e) /\ LotKnown(l) /\ PanelInLot(p, l) /\ PanelNotScrapped(p)
              /\ ProductMatches(e, l) /\ RecipeReady(e, recipe) /\ NotBusy(e, l)
              /\ StepAllowed(p, l, step) /\ LotNotHeld(l)
  <1>1. eqStatus[e] \in {"IDLE", "RUN", "STOP", "ERROR", "MAINTENANCE"}
    BY DEF TypeOK, EquipmentStatuses
  <1>2. CASE e \in lost
    BY <1>2 DEF Verdict, Answers, EquipmentReady
  <1>3. CASE e \notin lost /\ eqStatus[e] = "MAINTENANCE"
    BY <1>3 DEF Verdict, Answers, EquipmentReady
  <1>4. CASE e \notin lost /\ eqStatus[e] \in {"IDLE", "STOP", "ERROR"}
    BY <1>4 DEF Verdict, Answers, EquipmentReady
  <1>5. CASE e \notin lost /\ eqStatus[e] = "RUN"
    <2>1. EquipmentReady(e)
      BY <1>5 DEF EquipmentReady
    <2>2. Verdict(e, l, p, step, recipe) =
            IF ~LotKnown(l) THEN "INVALID_LOT"
            ELSE IF ~PanelInLot(p, l) THEN "INVALID_PANEL"
            ELSE IF ~PanelNotScrapped(p) THEN "PANEL_SCRAPPED"
            ELSE IF ~ProductMatches(e, l) THEN "PRODUCT_ROUTE_VIOLATION"
            ELSE IF ~RecipeReady(e, recipe)
                 THEN IF eqRecipe[e] = None THEN "RECIPE_NOT_SELECTED" ELSE "RECIPE_MISMATCH"
            ELSE IF ~NotBusy(e, l) THEN "EQUIPMENT_BUSY"
            ELSE IF ~StepAllowed(p, l, step) THEN "STEP_SEQUENCE_VIOLATION"
            ELSE IF ~LotNotHeld(l) THEN "INTERLOCK_VIOLATION"
            ELSE "ACCEPTED"
      BY <1>5 DEF Verdict
    <2> QED
      BY <2>1, <2>2 DEF Answers
  <1> QED
    BY <1>1, <1>2, <1>3, <1>4, <1>5

LEMMA IngestIsHost ==
  ASSUME TypeOK, target \in Panels,
         NEW e \in Equipment, NEW step \in Steps, step = EquipmentStep(e),
         NEW recipe \in Recipes, NEW fails \in BOOLEAN, fails => step = "INSPECT",
         Ingest(e, step, recipe, fails)
  PROVE  Next /\ answer' \in Answers
  <1> DEFINE l == PanelLot[target]
  <1>1. l \in Lots
    BY FabAssumption
  <1>2. answer' = Verdict(e, l, target, step, recipe) /\ answer' \in Answers
    BY VerdictIsAnswer DEF Ingest
  <1>3. CASE answer' = "ACCEPTED"
    <2>1. Apply(e, l, target, step, recipe, "RUN", fails, FALSE)
      BY <1>3 DEF Ingest
    <2>2. Acceptable(e, l, target, step) /\ RecipeReady(e, recipe)
      BY <1>2, <1>3, VerdictIsAnswer DEF Acceptable, StepMatchesEquipment
    <2>3. NormalizeStep(step) = step
      BY DEF NormalizeStep, Steps
    <2>4. AcceptProcess(e, l, target, NormalizeStep(step))
      BY <2>1, <2>2, <2>3, DemonstrationAssumption DEF AcceptProcess
    <2> QED
      BY <1>1, <1>2, <2>4 DEF Next
  <1>4. CASE answer' # "ACCEPTED"
    BY <1>2, <1>4 DEF Ingest, Next
  <1> QED
    BY <1>3, <1>4

-----------------------------------------------------------------------------
(* Preparing the line.                                                     *)

LEMMA FreeIsUsable ==
  ASSUME TypeOK, NEW recipe \in Recipes, RecipeProduct[recipe] \in Products, PrepareLine(recipe),
         NEW e \in Equipment, NEW l, FreeFor(e, l)
  PROVE  Usable(e, l)' /\ IsSet(e, recipe)'
  <1>1. eqStatus[e] # "MAINTENANCE"
    BY DEF FreeFor
  <1>2. /\ eqStatus'[e] = "RUN"
        /\ e \notin lost'
        /\ eqLot'[e] = IF eqLot[e] # None /\ lotStatus[eqLot[e]] # "PROCESSING"
                       THEN None ELSE eqLot[e]
        /\ EquipmentProduct(e) # None => eqRecipe'[e] = RecipeFor(e, recipe)
    BY <1>1 DEF PrepareLine
  <1>3. eqLot'[e] \in {None, l}
    BY <1>2 DEF FreeFor
  <1>4. IsSet(e, recipe)'
    BY <1>2, DemonstrationAssumption DEF IsSet, RecipeFor
  <1> QED
    BY <1>2, <1>3, <1>4 DEF Usable

\* Equipment that is not under maintenance runs, in contact and set.
LEMMA LineIsSet ==
  ASSUME TypeOK, NEW recipe \in Recipes, RecipeProduct[recipe] \in Products, PrepareLine(recipe),
         NEW e \in Equipment, eqStatus'[e] # "MAINTENANCE"
  PROVE  eqStatus'[e] = "RUN" /\ e \notin lost' /\ IsSet(e, recipe)'
  <1>1. eqStatus[e] # "MAINTENANCE"
    BY DEF PrepareLine
  <1>2. /\ eqStatus'[e] = "RUN"
        /\ e \notin lost'
        /\ EquipmentProduct(e) # None => eqRecipe'[e] = RecipeFor(e, recipe)
    BY <1>1 DEF PrepareLine
  <1> QED
    BY <1>2, DemonstrationAssumption DEF IsSet, RecipeFor

LEMMA NamedGetReady ==
  ASSUME TypeOK, NEW s \in Reporting, NEW l, PrepareLine(PreparedFor(s)),
         \A i \in DOMAIN Events(s) : FreeFor(Events(s)[i].equipment, l)
  PROVE  NamedReady(s, 0, l)'
  <1>1. s \in Scenarios
    BY DEF Reporting, Scenarios, Ordered, Practice
  <1>2. PreparedFor(s) \in Recipes /\ RecipeProduct[PreparedFor(s)] \in Products
    BY <1>1, PreparedRecipe DEF MadeBy
  <1>3. ASSUME NEW e \in Named(s)
        PROVE  Usable(e, l)' /\ IsSet(e, PreparedFor(s))'
    <2>1. e \in Equipment /\ FreeFor(e, l)
      BY NamedIsThere DEF Named
    <2> QED
      BY <1>2, <2>1, FreeIsUsable
  <1> QED
    BY <1>3 DEF NamedReady

LEMMA LineGetsReady ==
  ASSUME TypeOK, NEW s \in Running, PrepareLine(PreparedFor(s)),
         \A step \in StepsOf(MadeBy(s)) :
           \E e \in Equipment : EquipmentStep(e) = step /\ FreeFor(e, None)
  PROVE  LineReady(s, None)'
  <1>1. s \in Scenarios
    BY DEF Running, Scenarios
  <1>2. PreparedFor(s) \in Recipes /\ RecipeProduct[PreparedFor(s)] \in Products
    BY <1>1, PreparedRecipe DEF MadeBy
  <1>3. ASSUME NEW e \in Equipment, eqStatus'[e] # "MAINTENANCE"
        PROVE  eqStatus'[e] = "RUN" /\ e \notin lost' /\ IsSet(e, PreparedFor(s))'
    BY <1>2, <1>3, LineIsSet
  <1>4. ASSUME NEW step \in StepsOf(MadeBy(s))
        PROVE  \E e \in Equipment : EquipmentStep(e) = step /\ Usable(e, None)'
    <2>1. PICK e \in Equipment : EquipmentStep(e) = step /\ FreeFor(e, None)
      OBVIOUS
    <2>2. Usable(e, None)'
      BY <1>2, <2>1, FreeIsUsable
    <2> QED
      BY <2>1, <2>2
  <1> QED
    BY <1>3, <1>4 DEF LineReady

\* A panel that waits, in a lot that may go on.
LEMMA WaitingPanel ==
  ASSUME HostInv, NEW p \in Panels, panelStatus[p] = "WAIT"
  PROVE  /\ history[p] = {}
         /\ lastStep[p] = None
         /\ lotStatus[PanelLot[p]] \notin {"ABSENT", "HOLD"} => Underway(p)
  <1>1. history[p] = {} /\ lastStep[p] = None
    BY DEF HostInv, WaitingPanelIsUntouched, NoStepSkipped
  <1>2. lotStatus[PanelLot[p]] # "COMPLETE"
    BY DEF HostInv, LotAgreesWithPanels, Finished
  <1>3. lotStatus[PanelLot[p]] \in LotStatuses \cup {"ABSENT"}
    BY FabAssumption DEF HostInv, TypeOK
  <1> QED
    BY <1>1, <1>2, <1>3 DEF Underway, LotStatuses

LEMMA PracticePanel ==
  ASSUME NEW s \in Practice, NEW p \in Waiting(PracticeLot(s))
  PROVE  /\ p \in Panels /\ panelStatus[p] = "WAIT"
         /\ PanelLot[p] = PracticeLot(s) /\ LotProduct[PanelLot[p]] = MadeBy(s)
         /\ LotKnown(PanelLot[p])
  <1>1. p \in Panels /\ panelStatus[p] = "WAIT" /\ PanelLot[p] = PracticeLot(s)
        /\ LotKnown(PanelLot[p])
    BY DEF Waiting, PanelsOf
  <1>2. LotProduct[PracticeLot(s)] = MadeBy(s)
    <2>1. s \in Scenarios
      BY DEF Scenarios
    <2> QED
      BY <2>1, PreparedRecipe, DemonstrationAssumption DEF PracticeLot, Practice
  <1> QED
    BY <1>1, <1>2

LEMMA OneAction ==
  ASSUME ScenarioStep
  PROVE  /\ played # None /\ script # <<>> /\ UNCHANGED <<played, clear>>
         /\ Head(script).do = "beat" => DoBeat
         /\ Head(script).do = "prepare" => DoPrepare
         /\ Head(script).do = "order" => DoOrder
         /\ Head(script).do = "select" => DoSelect
         /\ Head(script).do = "report" => DoReport
         /\ Head(script).do = "cut" => DoCut
         /\ Head(script).do = "run" => DoRun
  BY DEF ScenarioStep, Do, DoBeat, DoPrepare, DoOrder, DoSelect, DoReport, DoCut, DoRun

LEMMA BeatGoesOn ==
  ASSUME TypeOK, Beating, ScenarioStep
  PROVE  Tending /\ Beating' /\ UNCHANGED <<target, answer>>
  <1>1. script = <<[do |-> "beat"]>>
    BY OneAction DEF Beating
  <1>2. Head(script).do = "beat" /\ Tail(script) = <<>>
    BY <1>1
  <1>3. DoBeat /\ UNCHANGED <<played, clear>>
    BY <1>2, OneAction
  <1>4. BeatAll /\ script' = Tail(script) /\ UNCHANGED <<target, answer>>
    BY <1>3 DEF DoBeat
  <1>5. lost' = {}
    BY <1>4 DEF BeatAll
  <1> QED
    BY <1>2, <1>3, <1>4, <1>5, BeatTends DEF Beating

LEMMA NoneWaitsGoesOn ==
  ASSUME TypeOK, NoneWaits, ScenarioStep
  PROVE  Tending /\ NoneWaits' /\ UNCHANGED <<target, answer>>
  <1>1. script = <<Prepare(PreparedFor(played))>> /\ played \in Practice /\ ~clear
    BY OneAction DEF NoneWaits
  <1>2. Head(script) = Prepare(PreparedFor(played)) /\ Tail(script) = <<>>
    BY <1>1
  <1>3. Head(script).do = "prepare" /\ Head(script).recipe = PreparedFor(played)
    BY <1>2 DEF Prepare
  <1>4. DoPrepare /\ UNCHANGED <<played, clear>>
    BY <1>3, OneAction
  <1>5. PrepareLine(PreparedFor(played)) /\ script' = <<>> /\ UNCHANGED <<target, answer>>
    BY <1>2, <1>3, <1>4 DEF DoPrepare
  <1>6. PreparedFor(played) \in Recipes
    BY <1>1, PreparedRecipe DEF Scenarios
  <1> QED
    BY <1>1, <1>4, <1>5, <1>6, PrepareTends DEF NoneWaits

\* The prepared line is what the scenario needs, if it was clear for it.
LEMMA ClearGetsEquipped ==
  ASSUME TypeOK, NEW s \in Ordered, Clear(s), PrepareLine(PreparedFor(s))
  PROVE  Equipped(s, None)'
  <1>1. CASE s = "demo_recipe_mismatch"
    <2>1. \A i \in DOMAIN Events(s) : FreeFor(Events(s)[i].equipment, None)
      BY <1>1 DEF Clear, Contact, Ordered, Practice
    <2>2. NamedReady(s, 0, None)'
      BY <1>1, <2>1, NamedGetReady DEF Reporting
    <2> QED
      BY <1>1, <2>2 DEF Equipped, Running
  <1>2. CASE s # "demo_recipe_mismatch"
    <2>1. s \in Running /\ s \notin Reporting
      BY <1>2 DEF Running, Reporting, Ordered, Practice
    <2>2. \A step \in StepsOf(RecipeProduct[PreparedFor(s)]) :
            \E e \in Equipment : EquipmentStep(e) = step /\ FreeFor(e, None)
      BY <1>2 DEF Clear, Contact, Ordered, Practice
    <2>3. LineReady(s, None)'
      BY <2>1, <2>2, LineGetsReady DEF MadeBy
    <2> QED
      BY <2>1, <2>3 DEF Equipped
  <1> QED
    BY <1>1, <1>2

LEMMA WholeStarts ==
  ASSUME NEW s \in Scenarios \ {"heartbeat"}
  PROVE  /\ WholeScript(s) # <<>>
         /\ Head(WholeScript(s)) = Prepare(PreparedFor(s))
         /\ Tail(WholeScript(s)) = IF s \in Ordered THEN <<[do |-> "order"]>> \o Events(s)
                                   ELSE Events(s)
         /\ EventsFrom(s, 0) = Events(s)
         /\ Len(Events(s)) \in Nat
  <1>1. PICK S : Events(s) \in Seq(S)
    BY EventsAreScript
  <1>2. /\ WholeScript(s) # <<>>
        /\ Head(WholeScript(s)) = Prepare(PreparedFor(s))
        /\ Tail(WholeScript(s)) = IF s \in Ordered THEN <<[do |-> "order"]>> \o Events(s)
                                  ELSE Events(s)
    <2>1. CASE s \in Ordered
      <3>1. WholeScript(s) = <<Prepare(PreparedFor(s)), [do |-> "order"]>> \o Events(s)
        BY <2>1 DEF WholeScript
      <3> DEFINE a == Prepare(PreparedFor(s))
                 b == [do |-> "order"]
      <3>2. /\ <<a, b>> \o Events(s) # <<>>
            /\ Head(<<a, b>> \o Events(s)) = a
            /\ Tail(<<a, b>> \o Events(s)) = <<b>> \o Events(s)
        <4> HIDE DEF a, b
        <4> QED
          BY <1>1, StartOfScript
      <3> QED
        BY <2>1, <3>1, <3>2, Zenon
    <2>2. CASE s \notin Ordered
      <3>1. WholeScript(s) = <<Prepare(PreparedFor(s))>> \o Events(s)
        BY <2>2 DEF WholeScript
      <3> QED
        BY <1>1, <2>2, <3>1, StartOfScript, Zenon
    <2> QED
      BY <2>1, <2>2
  <1>3. EventsFrom(s, 0) = Events(s) /\ Len(Events(s)) \in Nat
    <2>1. 0 + 1 = 1
      OBVIOUS
    <2>2. SubSeq(Events(s), 1, Len(Events(s))) = Events(s)
      BY <1>1, SubSeqFull
    <2> QED
      BY <1>1, <2>1, <2>2, LenProperties DEF EventsFrom
  <1> QED
    BY <1>2, <1>3

LEMMA PracticeGetsGoing ==
  ASSUME HostInv, played \in Practice, target \in Waiting(PracticeLot(played)), clear => Clear(played),
         PrepareLine(PreparedFor(played)), UNCHANGED <<played, target, clear>>,
         script' = EventsFrom(played, 0)
  PROVE  ToTell(0)'
  <1> PICK s : s = played
    OBVIOUS
  <1> PICK l : l = PanelLot[target]
    OBVIOUS
  <1>1. /\ target \in Panels /\ panelStatus[target] = "WAIT"
        /\ l = PracticeLot(s) /\ LotProduct[l] = MadeBy(s) /\ LotKnown(l)
    BY PracticePanel
  <1>2. s \in Scenarios \ {"heartbeat"} /\ s \in Reporting /\ s \notin Contact /\ s \notin Running
    BY DEF Scenarios, Reporting, Practice, Contact, Running, Ordered
  <1>3. HasPanel(s)'
    BY <1>1 DEF HasPanel
  <1>4. ASSUME clear PROVE OnTrack(s, 0)'
    <2>1. /\ lotStatus[l] # "HOLD"
          /\ \A i \in DOMAIN Events(s) : FreeFor(Events(s)[i].equipment, l)
      BY <1>1, <1>2, <1>4 DEF Clear, Contact, Ordered, Practice
    <2>2. history[target] = {} /\ lastStep[target] = None /\ Underway(target)
      BY <1>1, <2>1, WaitingPanel DEF LotKnown
    <2>3. UNCHANGED <<lotVars, panelVars>>
      BY DEF PrepareLine
    <2>4. Underway(target)'
      BY <2>2, <2>3 DEF Underway, lotVars, panelVars
    <2>5. lastStep'[target'] = LastDone(s, 0) /\ history'[target'] = {}
      BY <2>2, <2>3 DEF LastDone, panelVars
    <2>6. NamedReady(s, 0, l)'
      BY <1>2, <2>1, NamedGetReady DEF HostInv
    <2>7. ReportTrack(s, 0, target)'
      BY <2>4, <2>5, <2>6 DEF ReportTrack
    <2>8. 0 # Len(Events(s))
      <3>1. PICK n \in Nat : Len(Events(s)) = n + 1
        BY <1>2, ReportTable
      <3> QED
        BY <3>1
    <2> QED
      BY <1>2, <2>7, <2>8 DEF OnTrack
  <1> QED
    BY <1>2, <1>3, <1>4 DEF ToTell

LEMMA PrepareGoesOn ==
  ASSUME HostInv, ToPrepare, ScenarioStep
  PROVE  Tending /\ UNCHANGED <<target, answer>> /\ (ToOrder' \/ ToTell(0)')
  <1> PICK s : s = played
    OBVIOUS
  <1>1. /\ s \in Scenarios \ {"heartbeat"} /\ s \in Scenarios
        /\ script = WholeScript(s)
        /\ clear => Clear(s)
        /\ s \in Ordered => Unused(s) # {}
        /\ s \in Practice => target \in Waiting(PracticeLot(s))
    BY DEF ToPrepare
  <1>2. Head(script) = Prepare(PreparedFor(s))
    BY <1>1, WholeStarts
  <1>3. Head(script).do = "prepare" /\ Head(script).recipe = PreparedFor(s)
    BY <1>2 DEF Prepare
  <1>4. DoPrepare /\ UNCHANGED <<played, clear>>
    BY <1>3, OneAction
  <1>5. PrepareLine(PreparedFor(s)) /\ script' = Tail(script) /\ UNCHANGED <<target, answer>>
    BY <1>3, <1>4 DEF DoPrepare
  <1>6. PreparedFor(s) \in Recipes
    BY <1>1, PreparedRecipe
  <1>7. Tending
    BY <1>5, <1>6, PrepareTends DEF HostInv
  <1>8. CASE s \in Ordered
    <2>1. script' = <<[do |-> "order"]>> \o Events(s)
      BY <1>1, <1>5, <1>8, WholeStarts
    <2>2. Unused(s)' # {}
      BY <1>1, <1>7, <1>8 DEF Unused, Tending, lotVars
    <2>3. clear => Equipped(s, None)'
      BY <1>1, <1>5, <1>8, ClearGetsEquipped DEF HostInv
    <2>4. ToOrder'
      BY <1>4, <1>8, <2>1, <2>2, <2>3 DEF ToOrder
    <2> QED
      BY <1>5, <1>7, <2>4
  <1>9. CASE s \notin Ordered
    <2>1. script' = EventsFrom(s, 0)
      BY <1>1, <1>5, <1>9, WholeStarts
    <2>2. CASE s \in Practice
      BY <1>1, <1>4, <1>5, <1>7, <2>1, <2>2, PracticeGetsGoing
    <2>3. CASE s = "demo_alive"
      <3>1. ASSUME clear PROVE lost' = {}
        <4>1. \A e \in Equipment : eqStatus[e] # "MAINTENANCE"
          BY <1>1, <2>3, <3>1 DEF Clear, Contact, Ordered, Practice
        <4> QED
          BY <1>5, <4>1 DEF PrepareLine, HostInv, TypeOK
      <3>2. clear => OnTrack(s, 0)'
        BY <2>3, <3>1, OtherTables DEF OnTrack, AsAnnounced
      <3>3. ToTell(0)'
        BY <1>1, <1>4, <2>1, <2>3, <3>2 DEF ToTell, HasPanel, Contact
      <3> QED
        BY <1>5, <1>7, <3>3
    <2>4. CASE s = "demo_comm_loss"
      <3>1. s \notin Reporting /\ s \notin Running /\ s \in Contact
        BY <2>4 DEF Reporting, Running, Ordered, Practice, Contact
      <3>2. OnTrack(s, 0)'
        BY <2>4, <3>1, OtherTables DEF OnTrack
      <3>3. ToTell(0)'
        BY <1>1, <1>4, <2>1, <3>1, <3>2 DEF ToTell, HasPanel
      <3> QED
        BY <1>5, <1>7, <3>3
    <2> QED
      BY <1>1, <1>9, <2>2, <2>3, <2>4 DEF Scenarios, Contact
  <1> QED
    BY <1>8, <1>9

-----------------------------------------------------------------------------
(* Ordering.                                                               *)

LEMMA FirstOfThem ==
  ASSUME NEW P \in SUBSET Panels, P # {}
  PROVE  FirstOf(P) \in P
  <1>1. \E p \in P : \A q \in P : Slot[p] <= Slot[q]
    BY FirstPanel
  <1> QED
    BY <1>1 DEF FirstOf

\* What is ready for no lot in particular is ready for the new one.
LEMMA ReadyForNew ==
  ASSUME NEW s, NEW l, Equipped(s, None), UNCHANGED eqVars
  PROVE  /\ s \in Reporting => NamedReady(s, 0, l)'
         /\ s \in Running => LineReady(s, l)'
  <1>1. ASSUME NEW e, Usable(e, None) PROVE Usable(e, l)'
    BY <1>1 DEF Usable, eqVars
  <1>2. ASSUME s \in Reporting PROVE NamedReady(s, 0, l)'
    <2>1. NamedReady(s, 0, None)
      BY <1>2 DEF Equipped
    <2>2. ASSUME NEW e \in Named(s) PROVE Usable(e, l)' /\ IsSet(e, PreparedFor(s))'
      <3>1. Usable(e, None) /\ IsSet(e, PreparedFor(s))
        BY <2>1 DEF NamedReady
      <3> QED
        BY <1>1, <3>1 DEF IsSet, eqVars
    <2> QED
      BY <2>2 DEF NamedReady
  <1>3. ASSUME s \in Running PROVE LineReady(s, l)'
    <2>1. LineReady(s, None)
      BY <1>3 DEF Equipped
    <2>2. ASSUME NEW e \in Equipment, eqStatus'[e] # "MAINTENANCE"
          PROVE  eqStatus'[e] = "RUN" /\ e \notin lost' /\ IsSet(e, PreparedFor(s))'
      BY <2>1, <2>2 DEF LineReady, IsSet, eqVars
    <2>3. ASSUME NEW step \in StepsOf(MadeBy(s))
          PROVE  \E e \in Equipment : EquipmentStep(e) = step /\ Usable(e, l)'
      BY <1>1, <2>1 DEF LineReady
    <2> QED
      BY <2>2, <2>3 DEF LineReady
  <1> QED
    BY <1>2, <1>3

LEMMA OrderGoesOn ==
  ASSUME HostInv, ToOrder, ScenarioStep
  PROVE  Next /\ ToTell(0)' /\ UNCHANGED answer
  <1> PICK s : s = played
    OBVIOUS
  <1>1. /\ s \in Ordered /\ s \in Scenarios \ {"heartbeat"} /\ s \in Scenarios /\ s \notin Contact
        /\ script = <<[do |-> "order"]>> \o Events(s)
        /\ Unused(s) # {}
        /\ clear => Equipped(s, None)
    BY DEF ToOrder, Scenarios, Ordered, Contact
  <1>2. Head(script).do = "order" /\ Tail(script) = EventsFrom(s, 0)
    <2>1. PICK S : Events(s) \in Seq(S)
      BY <1>1, EventsAreScript
    <2> DEFINE a == [do |-> "order"]
    <2>2. Head(<<a>> \o Events(s)) = a /\ Tail(<<a>> \o Events(s)) = Events(s)
      <3> HIDE DEF a
      <3> QED
        BY <2>1, StartOfScript
    <2> QED
      BY <1>1, <2>2, WholeStarts
  <1>3. DoOrder /\ UNCHANGED <<played, clear>>
    BY <1>2, OneAction
  <1>4. PICK l \in Unused(s) : CreateAndRelease(l) /\ target' = FirstOf(PanelsOf(l))
    <2> DEFINE x == CHOOSE u \in Unused(s) : TRUE
    <2>1. CreateAndRelease(x) /\ target' = FirstOf(PanelsOf(x))
      BY <1>3 DEF DoOrder
    <2>2. x \in Unused(s)
      BY <1>1
    <2> QED
      BY <2>1, <2>2
  <1>5. /\ l \in Lots /\ l \notin SampleLots /\ lotStatus[l] = "ABSENT"
        /\ LotProduct[l] = MadeBy(s)
    BY DEF Unused, MadeBy
  <1>6. PICK p \in Panels : p = target' /\ PanelLot[p] = l
    <2>1. PanelsOf(l) # {} /\ PanelsOf(l) \in SUBSET Panels
      BY <1>5, DispatchAssumption DEF PanelsOf
    <2>2. FirstOf(PanelsOf(l)) \in PanelsOf(l)
      BY <2>1, FirstOfThem
    <2> QED
      BY <1>4, <2>2 DEF PanelsOf
  <1>7. /\ lotStatus'[l] = "WAIT" /\ order'[l] = "RELEASED"
        /\ UNCHANGED <<lotStep, lotEquipment, panelVars, eqVars>>
    BY <1>4, <1>5 DEF CreateAndRelease, HostInv, TypeOK
  <1>8. panelStatus[p] = "WAIT" /\ lotStep[l] = None
    BY <1>5, <1>6 DEF HostInv, OrderInv, AbsentPanelsWait, WaitingLotIsUntouched
  <1>9. lastStep[p] = None /\ history[p] = {}
    BY <1>8, WaitingPanel
  <1>10. Underway(p)'
    BY <1>6, <1>7, <1>8 DEF Underway, panelVars
  <1>11. Next
    BY <1>4, <1>5 DEF Next
  <1>12. ASSUME clear PROVE OnTrack(s, 0)'
    <2>1. /\ s \in Reporting => NamedReady(s, 0, l)'
          /\ s \in Running => LineReady(s, l)'
      BY <1>1, <1>7, <1>12, ReadyForNew
    <2>2. s \in Reporting => ReportTrack(s, 0, p)'
      BY <1>1, <1>6, <1>7, <1>9, <1>10, <2>1
         DEF ReportTrack, LastDone, panelVars, Ordered
    <2>3. s \in Running => RunTrack(s, p)'
      BY <1>5, <1>6, <1>7, <1>8, <1>9, <1>10, <2>1, NoneIsNotAStep
         DEF RunTrack, panelVars, Steps
    <2>4. 0 # Len(Events(s))
      <3>1. CASE s \in Reporting
        <4>1. PICK n \in Nat : Len(Events(s)) = n + 1
          BY <3>1, ReportTable
        <4> QED
          BY <4>1
      <3>2. CASE s \in Running
        <4>1. Len(Events(s)) = 1
          BY <3>2, OtherTables, Zenon
        <4> QED
          BY <4>1
      <3> QED
        BY <1>1, <3>1, <3>2 DEF Running, Reporting
    <2> QED
      BY <1>6, <2>2, <2>3, <2>4 DEF OnTrack
  <1>13. script' = EventsFrom(s, 0) /\ UNCHANGED answer
    BY <1>2, <1>3 DEF DoOrder
  <1>14. HasPanel(s)'
    BY <1>5, <1>6 DEF HasPanel
  <1> QED
    BY <1>1, <1>3, <1>11, <1>12, <1>13, <1>14 DEF ToTell

-----------------------------------------------------------------------------
(* The next event of a scenario.                                           *)

LEMMA NextEvent ==
  ASSUME NEW s \in Scenarios \ {"heartbeat"}, NEW i \in 0 .. Len(Events(s)),
         script = EventsFrom(s, i), script # <<>>
  PROVE  /\ Head(script) = Events(s)[i + 1]
         /\ Tail(script) = EventsFrom(s, i + 1)
         /\ i + 1 \in 1 .. Len(Events(s))
         /\ i # Len(Events(s))
  <1>1. PICK S : Events(s) \in Seq(S)
    BY EventsAreScript
  <1>2. i # Len(Events(s))
    BY <1>1, RestOfScript DEF EventsFrom
  <1>3. Head(script) = Events(s)[i + 1] /\ Tail(script) = SubSeq(Events(s), i + 2, Len(Events(s)))
    BY <1>1, <1>2, RestOfScript DEF EventsFrom
  <1>4. (i + 1) + 1 = i + 2 /\ i + 1 \in 1 .. Len(Events(s))
    BY <1>1, <1>2, LenProperties
  <1> QED
    BY <1>2, <1>3, <1>4 DEF EventsFrom

LEMMA NoEventLeft ==
  ASSUME NEW s \in Scenarios \ {"heartbeat"}, NEW i \in 0 .. Len(Events(s)),
         EventsFrom(s, i) = <<>>
  PROVE  i = Len(Events(s))
  <1>1. PICK S : Events(s) \in Seq(S)
    BY EventsAreScript
  <1> QED
    BY <1>1, RestOfScript DEF EventsFrom

\* A scenario's event, which says RUN and is never late, is accepted.
Recorded(e, l, p, step, recipe, fails) == Apply(e, l, p, step, recipe, "RUN", fails, FALSE)

\* What an accepted event of a scenario comes to, where the lot may go on.
LEMMA Accepted ==
  ASSUME HostInv, NEW p \in Panels, p = target, NEW l, l = PanelLot[p],
         NEW e \in Equipment, NEW recipe \in Recipes, NEW step, step = EquipmentStep(e),
         NEW fails \in BOOLEAN,
         Underway(p), Usable(e, l), ProductMatches(e, l), RecipeReady(e, recipe),
         step \in AllowedNextSteps(LotProduct[l], lastStep[p]),
         Ingest(e, step, recipe, fails)
  PROVE  /\ answer' = "ACCEPTED"
         /\ Recorded(e, l, p, step, recipe, fails)
  <1>1. /\ EquipmentReady(e) /\ LotKnown(l) /\ PanelInLot(p, l) /\ PanelNotScrapped(p)
        /\ NotBusy(e, l) /\ StepAllowed(p, l, step) /\ LotNotHeld(l)
    BY DEF Underway, Usable, EquipmentReady, LotKnown, PanelInLot, PanelNotScrapped, NotBusy,
           StepAllowed, LotNotHeld
  <1>2. Verdict(e, l, p, step, recipe) = "ACCEPTED"
    BY <1>1, VerdictIsAnswer DEF HostInv
  <1> QED
    BY <1>2 DEF Ingest, Recorded

\* An equipment of the panel's product that is set is ready with the recipe.
LEMMA SetIsReady ==
  ASSUME NEW e \in Equipment, NEW recipe \in Recipes, NEW product \in Products,
         RecipeProduct[recipe] = product, IsSet(e, recipe),
         EquipmentProduct(e) \in {None, product}
  PROVE  RecipeReady(e, recipe)
  <1>1. EquipmentStep(e) \in RecipeSteps => EquipmentProduct(e) \in Products
    BY FabAssumption DEF EquipmentIds, EquipmentStep, EquipmentProduct, RecipeSteps, Products
  <1> QED
    BY <1>1, DemonstrationAssumption, FabAssumption DEF IsSet, RecipeReady

\* The effect of an accepted event on the panel and its lot, field by field.
LEMMA AppliedToPanel ==
  ASSUME HostInv, NEW p \in Panels, NEW l, PanelInLot(p, l), NEW e \in Equipment,
         NEW step \in Steps, NEW recipe \in Recipes, NEW fails \in BOOLEAN,
         Recorded(e, l, p, step, recipe, fails)
  PROVE  /\ fails => panelStatus'[p] = "FAIL" /\ lotStatus'[l] = "HOLD"
         /\ ~fails /\ recipe # LotRecipe[l] => panelStatus'[p] = "HOLD" /\ lotStatus'[l] = "HOLD"
         /\ ~fails /\ recipe = LotRecipe[l] /\ step = "INSPECT" =>
              /\ panelStatus'[p] = "COMPLETE"
              /\ AllFinished(panelStatus', l) => lotStatus'[l] = "COMPLETE"
         /\ ~fails /\ recipe = LotRecipe[l] /\ step # "INSPECT" =>
              panelStatus'[p] = "PROCESSING" /\ lotStatus'[l] = "PROCESSING"
         /\ lotStep'[l] = step
         /\ lastStep'[p] = step
         /\ history'[p] = history[p] \cup {step}
         /\ order' = RefreshWorkOrder(panelStatus', l)
  <1>1. l \in Lots /\ recipe # None
    BY FabAssumption DEF PanelInLot
  <1> PICK mismatch \in BOOLEAN : mismatch = (recipe \notin {None, LotRecipe[l]})
    OBVIOUS
  <1>2. mismatch <=> recipe # LotRecipe[l]
    BY <1>1
  <1>3. /\ panelStatus' = [panelStatus EXCEPT ![p] = PanelAfter(step, mismatch, fails)]
        /\ lotStatus' = [lotStatus EXCEPT ![l] = LotAfter(l, step, mismatch \/ fails, panelStatus')]
        /\ lotStep' = [lotStep EXCEPT ![l] = step]
        /\ history' = [history EXCEPT ![p] = @ \cup {step}]
        /\ lastStep' = [lastStep EXCEPT ![p] = step]
        /\ order' = RefreshWorkOrder(panelStatus', l)
    BY DEF Recorded, Apply
  <1>4. /\ panelStatus'[p] = PanelAfter(step, mismatch, fails)
        /\ lotStatus'[l] = LotAfter(l, step, mismatch \/ fails, panelStatus')
        /\ lotStep'[l] = step
        /\ lastStep'[p] = step
        /\ history'[p] = history[p] \cup {step}
    BY <1>1, <1>3 DEF HostInv, TypeOK
  <1>5. /\ fails => panelStatus'[p] = "FAIL" /\ lotStatus'[l] = "HOLD"
        /\ ~fails /\ mismatch => panelStatus'[p] = "HOLD" /\ lotStatus'[l] = "HOLD"
        /\ ~fails /\ ~mismatch /\ step = "INSPECT" =>
             /\ panelStatus'[p] = "COMPLETE"
             /\ AllFinished(panelStatus', l) => lotStatus'[l] = "COMPLETE"
        /\ ~fails /\ ~mismatch /\ step # "INSPECT" =>
             panelStatus'[p] = "PROCESSING" /\ lotStatus'[l] = "PROCESSING"
    BY <1>4 DEF PanelAfter, LotAfter
  <1> QED
    BY <1>2, <1>3, <1>4, <1>5

\* The other equipment stays usable, and so does the one that was used unless
\* the lot is complete.
LEMMA AppliedToLine ==
  ASSUME HostInv, NEW p \in Panels, NEW l, PanelInLot(p, l), NEW e \in Equipment,
         NEW step \in Steps, NEW recipe \in Recipes, NEW fails \in BOOLEAN,
         Recorded(e, l, p, step, recipe, fails), step # "INSPECT"
  PROVE  /\ eqStatus'[e] = "RUN" /\ eqRecipe'[e] = recipe
         /\ \A x \in Equipment : Usable(x, l) => Usable(x, l)'
         /\ \A x \in Equipment \ {e} : eqStatus'[x] = eqStatus[x] /\ eqRecipe'[x] = eqRecipe[x]
         /\ lost' \subseteq lost /\ e \notin lost'
  <1>1. PICK now : /\ now # "COMPLETE"
                   /\ eqStatus' = [eqStatus EXCEPT ![e] = IF now = "COMPLETE" THEN "IDLE" ELSE "RUN"]
                   /\ eqLot' = Occupy(e, l, now = "COMPLETE")
    BY DEF Recorded, Apply, LotAfter
  <1>2. eqRecipe' = [eqRecipe EXCEPT ![e] = recipe] /\ lost' = lost \ {e}
    BY FabAssumption DEF Recorded, Apply
  <1>3. /\ eqStatus'[e] = "RUN" /\ eqRecipe'[e] = recipe
        /\ \A x \in Equipment \ {e} : eqStatus'[x] = eqStatus[x] /\ eqRecipe'[x] = eqRecipe[x]
    BY <1>1, <1>2 DEF HostInv, TypeOK
  <1>4. ASSUME NEW x \in Equipment, Usable(x, l) PROVE Usable(x, l)'
    <2>1. eqLot'[x] \in {None, l}
      BY <1>1, <1>4 DEF Occupy, Usable
    <2>2. eqStatus'[x] = "RUN"
      BY <1>3, <1>4 DEF Usable
    <2> QED
      BY <1>2, <1>4, <2>1, <2>2 DEF Usable
  <1> QED
    BY <1>2, <1>3, <1>4

-----------------------------------------------------------------------------
(* A reporting scenario goes on.                                           *)

LEMMA LotExpects ==
  ASSUME NEW s \in Scenarios, NEW l \in Lots, LotProduct[l] = MadeBy(s)
  PROVE  LotRecipe[l] = PreparedFor(s)
  BY PreparedRecipe, DemonstrationAssumption DEF Products

\* What a step that is taken comes to.
TakenStep(e, l, p, step, recipe) ==
  /\ answer' = "ACCEPTED"
  /\ panelStatus'[p] = "PROCESSING" /\ lotStatus'[l] = "PROCESSING"
  /\ lotStep'[l] = step /\ lastStep'[p] = step
  /\ history'[p] = history[p] \cup {step}
  /\ order' = RefreshWorkOrder(panelStatus', l)
  /\ eqStatus'[e] = "RUN" /\ eqRecipe'[e] = recipe
  /\ \A x \in Equipment : Usable(x, l) => Usable(x, l)'
  /\ \A x \in Equipment \ {e} : eqStatus'[x] = eqStatus[x] /\ eqRecipe'[x] = eqRecipe[x]
  /\ lost' \subseteq lost /\ e \notin lost'

\* An event the equipment is ready for: the panel goes on, and so may the line.
LEMMA StepTaken ==
  ASSUME HostInv, NEW p \in Panels, p = target, NEW l, PanelInLot(p, l),
         NEW e \in Equipment, NEW recipe \in Recipes, recipe = LotRecipe[l],
         NEW step \in Steps, step = EquipmentStep(e), step # "INSPECT",
         Underway(p), Usable(e, l), IsSet(e, recipe),
         EquipmentProduct(e) \in {None, LotProduct[l]},
         step \in AllowedNextSteps(LotProduct[l], lastStep[p]),
         NEW fails \in BOOLEAN, ~fails, Ingest(e, step, recipe, fails)
  PROVE  TakenStep(e, l, p, step, recipe)
  <1>1. LotProduct[l] \in Products /\ RecipeProduct[recipe] = LotProduct[l]
    BY FabAssumption DEF PanelInLot
  <1>2. ProductMatches(e, l) /\ RecipeReady(e, recipe)
    BY <1>1, SetIsReady DEF ProductMatches
  <1>3. answer' = "ACCEPTED" /\ Recorded(e, l, p, step, recipe, fails)
    BY <1>2, Accepted DEF PanelInLot
  <1>4. /\ ~fails /\ recipe = LotRecipe[l] /\ step # "INSPECT" =>
              panelStatus'[p] = "PROCESSING" /\ lotStatus'[l] = "PROCESSING"
        /\ lotStep'[l] = step
        /\ lastStep'[p] = step
        /\ history'[p] = history[p] \cup {step}
        /\ order' = RefreshWorkOrder(panelStatus', l)
    BY <1>3, AppliedToPanel
  <1>5. /\ eqStatus'[e] = "RUN" /\ eqRecipe'[e] = recipe
        /\ \A x \in Equipment : Usable(x, l) => Usable(x, l)'
        /\ \A x \in Equipment \ {e} : eqStatus'[x] = eqStatus[x] /\ eqRecipe'[x] = eqRecipe[x]
        /\ lost' \subseteq lost /\ e \notin lost'
    BY <1>3, AppliedToLine
  <1> QED
    BY <1>3, <1>4, <1>5 DEF TakenStep

\* The inspection: the panel is judged, and the last one completes the lot.
LEMMA InspectionTaken ==
  ASSUME HostInv, NEW p \in Panels, p = target, NEW l, PanelInLot(p, l),
         NEW e \in Equipment, NEW recipe \in Recipes, recipe = LotRecipe[l],
         NEW step \in Steps, step = "INSPECT", step = EquipmentStep(e),
         Underway(p), Usable(e, l), EquipmentProduct(e) = None,
         step \in AllowedNextSteps(LotProduct[l], lastStep[p]),
         NEW fails \in BOOLEAN, Ingest(e, step, recipe, fails)
  PROVE  /\ answer' = "ACCEPTED"
         /\ fails => panelStatus'[p] = "FAIL" /\ lotStatus'[l] = "HOLD"
         /\ ~fails => panelStatus'[p] = "COMPLETE"
         /\ ~fails /\ AllFinished(panelStatus', l) => lotStatus'[l] = "COMPLETE"
         /\ lotStep'[l] = step /\ lastStep'[p] = step
         /\ order' = RefreshWorkOrder(panelStatus', l)
  <1>1. ProductMatches(e, l) /\ RecipeReady(e, recipe)
    BY DEF ProductMatches, RecipeReady, RecipeSteps
  <1>2. answer' = "ACCEPTED" /\ Recorded(e, l, p, step, recipe, fails)
    BY <1>1, Accepted DEF PanelInLot
  <1>3. /\ fails => panelStatus'[p] = "FAIL" /\ lotStatus'[l] = "HOLD"
        /\ ~fails /\ recipe = LotRecipe[l] /\ step = "INSPECT" =>
              /\ panelStatus'[p] = "COMPLETE"
              /\ AllFinished(panelStatus', l) => lotStatus'[l] = "COMPLETE"
        /\ lotStep'[l] = step
        /\ lastStep'[p] = step
        /\ order' = RefreshWorkOrder(panelStatus', l)
    BY <1>2, AppliedToPanel
  <1> QED
    BY <1>2, <1>3

LEMMA GoodReportGoesOn ==
  ASSUME HostInv, NEW s \in Reporting, NEW i \in Nat, GoodReport(s, i),
         NEW p \in Panels, p = target, NEW l, l = PanelLot[p], LotProduct[l] = MadeBy(s),
         ReportTrack(s, i, p), NEW r, r = Events(s)[i + 1], r.equipment \in Named(s),
         Ingest(r.equipment, EquipmentStep(r.equipment), r.recipe, r.fails)
  PROVE  ReportTrack(s, i + 1, p)'
  <1> PICK e \in Equipment : e = r.equipment
    BY NamedIsThere
  <1> PICK recipe \in Recipes : recipe = PreparedFor(s)
    BY PreparedRecipe DEF Reporting, Scenarios, Ordered, Practice
  <1> PICK step : step = EquipmentStep(e)
    OBVIOUS
  <1>1. /\ r.recipe = recipe /\ r.fails = FALSE
        /\ step \in AllowedNextSteps(LotProduct[l], lastStep[p]) /\ step # "INSPECT"
        /\ EquipmentProduct(e) \in {None, MadeBy(s)}
        /\ LastDone(s, i + 1) = step
        /\ s \in Mismatches => i \in {0, 1}
        /\ s = "lcd_into_oled_evap" => step = "LOAD"
    BY DEF GoodReport, ReportTrack
  <1>2. /\ s \in Scenarios /\ MadeBy(s) \in Products /\ l \in Lots /\ step \in Steps
        /\ RecipeProduct[recipe] = MadeBy(s) /\ LotRecipe[l] = recipe
    <2>1. s \in Scenarios /\ l \in Lots
      BY FabAssumption DEF Reporting, Scenarios, Ordered, Practice
    <2>2. e \in EquipmentIds
      BY FabAssumption
    <2> QED
      BY <2>1, <2>2, PreparedRecipe, LotExpects, EquipmentStepType DEF MadeBy
  <1>3. \A x \in Named(s) : x \in Equipment /\ Usable(x, l) /\ IsSet(x, recipe)
    BY <1>1, NamedIsThere DEF ReportTrack, NamedReady
  <1>4. Usable(e, l) /\ IsSet(e, recipe)
    BY <1>3
  <1>5. Underway(p) /\ PanelInLot(p, l)
    BY DEF ReportTrack, PanelInLot
  <1>6. EquipmentProduct(e) \in {None, LotProduct[l]} /\ recipe = LotRecipe[l]
    BY <1>1, <1>2
  <1>7. PICK fails \in BOOLEAN : ~fails /\ Ingest(e, step, recipe, fails)
    BY <1>1
  <1>8. /\ panelStatus'[p] = "PROCESSING" /\ lotStatus'[l] = "PROCESSING"
        /\ lastStep'[p] = step
        /\ history'[p] = history[p] \cup {step}
        /\ eqStatus'[e] = "RUN" /\ eqRecipe'[e] = recipe
        /\ \A x \in Equipment : Usable(x, l) => Usable(x, l)'
        /\ \A x \in Equipment \ {e} : eqStatus'[x] = eqStatus[x] /\ eqRecipe'[x] = eqRecipe[x]
    BY <1>1, <1>2, <1>4, <1>5, <1>6, <1>7, StepTaken DEF TakenStep
  <1>9. Underway(p)'
    BY <1>8 DEF Underway
  <1>10. s = "lcd_into_oled_evap" => history'[p] = {"LOAD"}
    BY <1>1, <1>8 DEF ReportTrack
  <1>11. NamedReady(s, i + 1, l)'
    <2>1. ASSUME NEW x \in Named(s) PROVE Usable(x, l)' /\ IsSet(x, recipe)'
      BY <1>3, <1>8 DEF IsSet
    <2>2. ~(s \in Mismatches /\ i + 1 = 3)
      BY <1>1
    <2> QED
      BY <2>1, <2>2 DEF NamedReady
  <1>12. i + 1 # 0
    OBVIOUS
  <1> QED
    BY <1>1, <1>8, <1>9, <1>10, <1>11, <1>12 DEF ReportTrack

LEMMA SelectionGoesOn ==
  ASSUME HostInv, NEW s \in Mismatches, WrongSelection(s, 2),
         NEW p \in Panels, NEW l, l = PanelLot[p],
         ReportTrack(s, 2, p), SelectRecipe("PROC-01", B01)
  PROVE  ReportTrack(s, 3, p)'
  <1>1. /\ eqRecipe' = [eqRecipe EXCEPT !["PROC-01"] = B01]
        /\ UNCHANGED <<lotVars, panelVars, eqStatus, eqLot, lost>>
    BY DEF SelectRecipe
  <1>2. Underway(p)' /\ lastStep'[p] = LastDone(s, 3)
    BY <1>1 DEF ReportTrack, Underway, WrongSelection, lotVars, panelVars
  <1>3. s \in Reporting /\ s # "lcd_into_oled_evap"
    BY DEF Mismatches, Reporting, Practice
  <1>4. ASSUME NEW x \in Named(s)
        PROVE  /\ Usable(x, l)'
               /\ IF x = "PROC-01" THEN eqRecipe'[x] = B01 ELSE IsSet(x, PreparedFor(s))'
    <2>1. x \in Equipment /\ Usable(x, l) /\ IsSet(x, PreparedFor(s))
      BY <1>3, NamedIsThere DEF ReportTrack, NamedReady
    <2> QED
      BY <1>1, <2>1 DEF Usable, IsSet, HostInv, TypeOK
  <1>5. NamedReady(s, 3, l)'
    BY <1>4 DEF NamedReady
  <1> QED
    BY <1>2, <1>3, <1>5 DEF ReportTrack

LEMMA VerdictOrder ==
  ASSUME NEW e, NEW l, NEW p, NEW step, NEW recipe,
         EquipmentReady(e), LotKnown(l), PanelInLot(p, l), PanelNotScrapped(p)
  PROVE  /\ ~ProductMatches(e, l) => Verdict(e, l, p, step, recipe) = "PRODUCT_ROUTE_VIOLATION"
         /\ ProductMatches(e, l) /\ RecipeReady(e, recipe) /\ NotBusy(e, l) /\ ~StepAllowed(p, l, step)
              => Verdict(e, l, p, step, recipe) = "STEP_SEQUENCE_VIOLATION"
  <1>1. e \notin lost /\ eqStatus[e] = "RUN"
    BY DEF EquipmentReady
  <1> QED
    BY <1>1 DEF Verdict

\* What the announcement says of a scenario that has a panel.
LEMMA Announced ==
  ASSUME NEW s \in Practice \cup Ordered, NEW p \in Panels, p = target', PanelAsAnnounced(s, p)'
  PROVE  AsAnnounced(s)'
  <1>1. s \notin {"demo_comm_loss", "demo_alive", "heartbeat"}
    BY DEF Practice, Ordered
  <1>2. p # None
    BY DemonstrationAssumption
  <1> QED
    BY <1>1, <1>2 DEF AsAnnounced, PanelAsAnnounced

\* The last event, where it is the inspection: the panel is judged.
LEMMA InspectionEnds ==
  ASSUME HostInv, NEW s \in {"oled_happy", "oled_inspect_fail", "lcd_happy"},
         NEW i \in Nat, LastReport(s, i),
         NEW p \in Panels, p = target, NEW l, l = PanelLot[p], LotProduct[l] = MadeBy(s),
         ReportTrack(s, i, p), NEW r, r = Events(s)[i + 1], r.equipment \in Named(s),
         Ingest(r.equipment, EquipmentStep(r.equipment), r.recipe, r.fails)
  PROVE  /\ s = "oled_inspect_fail" => panelStatus'[p] = "FAIL" /\ lotStatus'[l] = "HOLD"
         /\ s # "oled_inspect_fail" => panelStatus'[p] = "COMPLETE"
  <1>1. s \in Reporting /\ s \in Scenarios /\ s \notin Mismatches
    BY DEF Reporting, Practice, Mismatches, Scenarios
  <1> PICK e \in Equipment : e = r.equipment
    BY <1>1, NamedIsThere
  <1> PICK recipe \in Recipes : recipe = PreparedFor(s)
    BY <1>1, PreparedRecipe
  <1> PICK step \in Steps : step = "INSPECT"
    BY DEF Steps
  <1>0. PICK fails \in BOOLEAN : fails = (s = "oled_inspect_fail")
    OBVIOUS
  <1>2. e = "INSPECT-01" /\ r.recipe = recipe
        /\ step \in AllowedNextSteps(LotProduct[l], lastStep[p])
    BY DEF LastReport, ReportTrack
  <1>3. step = EquipmentStep(e) /\ EquipmentProduct(e) = None
    BY <1>2, Stations
  <1>4. Ingest(e, step, recipe, fails)
    BY <1>0, <1>2, <1>3 DEF LastReport
  <1>5. Usable(e, l) /\ Underway(p) /\ PanelInLot(p, l)
    BY DEF ReportTrack, NamedReady, PanelInLot
  <1>6. recipe = LotRecipe[l]
    BY <1>1, LotExpects, FabAssumption
  <1>7. /\ fails => panelStatus'[p] = "FAIL" /\ lotStatus'[l] = "HOLD"
        /\ ~fails => panelStatus'[p] = "COMPLETE"
    BY <1>0, <1>2, <1>3, <1>4, <1>5, <1>6, InspectionTaken
  <1> QED
    BY <1>0, <1>7

\* Where it comes with the wrong recipe: the panel and its lot are stopped.
LEMMA MismatchEnds ==
  ASSUME HostInv, NEW s \in Mismatches, LastReport(s, 3),
         NEW p \in Panels, p = target, NEW l, l = PanelLot[p], LotProduct[l] = MadeBy(s),
         ReportTrack(s, 3, p), NEW r, r = Events(s)[4], r.equipment \in Named(s),
         Ingest(r.equipment, EquipmentStep(r.equipment), r.recipe, r.fails)
  PROVE  panelStatus'[p] = "HOLD" /\ lotStatus'[l] = "HOLD" /\ lotStep'[l] = "EVAP"
  <1>1. s \in Reporting /\ s \in Scenarios /\ s \notin {"demo_lcd_pass", "lcd_happy", "lcd_into_oled_evap"}
    BY DEF Reporting, Practice, Mismatches, Scenarios, Ordered
  <1> PICK e \in Equipment : e = r.equipment
    BY <1>1, NamedIsThere
  <1> PICK step \in Steps : step = "EVAP"
    BY DEF Steps
  <1> PICK fails \in BOOLEAN : ~fails
    OBVIOUS
  <1>2. r = Events(s)[3 + 1]
    OBVIOUS
  <1>3. e = "PROC-01" /\ r.recipe = B01 /\ r.fails = fails
        /\ step \in AllowedNextSteps(LotProduct[l], lastStep[p])
    BY <1>2 DEF LastReport, ReportTrack
  <1>4. step = EquipmentStep(e) /\ EquipmentProduct(e) = "OLED"
    BY <1>3, Stations
  <1>5. Ingest(e, step, B01, fails)
    BY <1>3, <1>4
  <1>6. Usable(e, l) /\ eqRecipe[e] = B01 /\ Underway(p) /\ PanelInLot(p, l)
    BY <1>3 DEF ReportTrack, NamedReady, PanelInLot
  <1>7. LotProduct[l] = "OLED" /\ PreparedFor(s) = A01
    BY <1>1, PreparedRecipe
  <1>8. B01 \in Recipes /\ B01 # LotRecipe[l] /\ B01 # None
    BY <1>1, <1>7, LotExpects, FabAssumption, DemonstrationAssumption
  <1>9. ProductMatches(e, l) /\ RecipeReady(e, B01)
    BY <1>4, <1>6, <1>7, <1>8 DEF ProductMatches, RecipeReady
  <1>10. Recorded(e, l, p, step, B01, fails)
    BY <1>3, <1>4, <1>5, <1>6, <1>8, <1>9, Accepted
  <1>11. /\ ~fails /\ B01 # LotRecipe[l] => panelStatus'[p] = "HOLD" /\ lotStatus'[l] = "HOLD"
         /\ lotStep'[l] = step
    BY <1>6, <1>8, <1>10, AppliedToPanel
  <1> QED
    BY <1>8, <1>11

\* Where the host refuses it: the glass of the other product, the skipped step.
LEMMA RefusalEnds ==
  ASSUME HostInv, NEW s \in {"lcd_into_oled_evap", "oled_skip_encap"},
         NEW i \in Nat, LastReport(s, i),
         NEW p \in Panels, p = target, NEW l, l = PanelLot[p], LotProduct[l] = MadeBy(s),
         ReportTrack(s, i, p), NEW r, r = Events(s)[i + 1], r.equipment \in Named(s),
         Ingest(r.equipment, EquipmentStep(r.equipment), r.recipe, r.fails)
  PROVE  /\ s = "lcd_into_oled_evap" => answer' = "PRODUCT_ROUTE_VIOLATION" /\ history'[p] = {"LOAD"}
         /\ s = "oled_skip_encap" => answer' = "STEP_SEQUENCE_VIOLATION" /\ lastStep'[p] = "EVAP"
  <1>1. s \in Reporting /\ s \in Scenarios /\ s \notin Mismatches
    BY DEF Reporting, Practice, Mismatches, Scenarios
  <1> PICK e \in Equipment : e = r.equipment
    BY <1>1, NamedIsThere
  <1> PICK recipe \in Recipes : recipe = PreparedFor(s)
    BY <1>1, PreparedRecipe
  <1> PICK step : step = EquipmentStep(e)
    OBVIOUS
  <1>2. Usable(e, l) /\ Underway(p)
    BY DEF ReportTrack, NamedReady
  <1>3. EquipmentReady(e) /\ LotKnown(l) /\ PanelInLot(p, l) /\ PanelNotScrapped(p) /\ NotBusy(e, l)
    BY <1>2 DEF Underway, Usable, EquipmentReady, LotKnown, PanelInLot, PanelNotScrapped, NotBusy
  <1>4. /\ answer' = Verdict(e, l, p, step, r.recipe)
        /\ answer' # "ACCEPTED" => RejectProcess(e)
    BY DEF Ingest
  <1>5. CASE s = "lcd_into_oled_evap"
    <2>1. e = "PROC-01" /\ i # 0
      BY <1>5 DEF LastReport
    <2>2. LotProduct[l] = "LCD"
      BY <1>1, <1>5, PreparedRecipe
    <2>3. ~ProductMatches(e, l)
      BY <2>1, <2>2, Stations, DemonstrationAssumption DEF ProductMatches, Products
    <2>4. answer' = "PRODUCT_ROUTE_VIOLATION"
      BY <1>3, <1>4, <2>3, VerdictOrder
    <2>5. history[p] = {"LOAD"}
      BY <1>5, <2>1 DEF ReportTrack
    <2>6. history' = history
      BY <1>4, <2>4 DEF RejectProcess, panelVars
    <2> QED
      BY <1>5, <2>4, <2>5, <2>6
  <1>6. CASE s = "oled_skip_encap"
    <2>1. e = "INSPECT-01" /\ lastStep[p] = "EVAP"
          /\ "INSPECT" \notin AllowedNextSteps(LotProduct[l], lastStep[p])
      BY <1>6 DEF LastReport, ReportTrack
    <2>2. step = "INSPECT" /\ EquipmentProduct(e) = None
      BY <2>1, Stations
    <2>3. ProductMatches(e, l) /\ RecipeReady(e, r.recipe) /\ ~StepAllowed(p, l, step)
      BY <2>1, <2>2 DEF ProductMatches, RecipeReady, RecipeSteps, StepAllowed
    <2>4. answer' = "STEP_SEQUENCE_VIOLATION"
      BY <1>3, <1>4, <2>3, VerdictOrder
    <2>5. lastStep' = lastStep
      BY <1>4, <2>4 DEF RejectProcess, panelVars
    <2> QED
      BY <1>6, <2>1, <2>4, <2>5
  <1> QED
    BY <1>5, <1>6

LEMMA LastReportEnds ==
  ASSUME HostInv, NEW s \in Reporting, NEW i \in Nat, LastReport(s, i),
         NEW p \in Panels, p = target, UNCHANGED target,
         NEW l, l = PanelLot[p], LotProduct[l] = MadeBy(s),
         ReportTrack(s, i, p), NEW r, r = Events(s)[i + 1], r.equipment \in Named(s),
         Ingest(r.equipment, EquipmentStep(r.equipment), r.recipe, r.fails)
  PROVE  AsAnnounced(s)'
  <1>1. PanelAsAnnounced(s, p)'
    <2>1. CASE s \in {"oled_happy", "oled_inspect_fail", "lcd_happy"}
      <3>1. /\ s = "oled_inspect_fail" => panelStatus'[p] = "FAIL" /\ lotStatus'[l] = "HOLD"
            /\ s # "oled_inspect_fail" => panelStatus'[p] = "COMPLETE"
        BY <2>1, InspectionEnds
      <3> QED
        BY <2>1, <3>1 DEF PanelAsAnnounced
    <2>2. CASE s \in Mismatches
      <3>1. i = 3 /\ i + 1 = 4
        BY <2>2 DEF LastReport
      <3>2. panelStatus'[p] = "HOLD" /\ lotStatus'[l] = "HOLD" /\ lotStep'[l] = "EVAP"
        BY <2>2, <3>1, MismatchEnds
      <3> QED
        BY <2>2, <3>2 DEF PanelAsAnnounced, Mismatches
    <2>3. CASE s \in {"lcd_into_oled_evap", "oled_skip_encap"}
      <3>1. /\ s = "lcd_into_oled_evap" =>
                 answer' = "PRODUCT_ROUTE_VIOLATION" /\ history'[p] = {"LOAD"}
            /\ s = "oled_skip_encap" =>
                 answer' = "STEP_SEQUENCE_VIOLATION" /\ lastStep'[p] = "EVAP"
        BY <2>3, RefusalEnds
      <3> QED
        BY <2>3, <3>1 DEF PanelAsAnnounced
    <2> QED
      BY <2>1, <2>2, <2>3 DEF Reporting, Practice, Mismatches
  <1>2. s \in Practice \cup Ordered
    BY DEF Reporting, Ordered
  <1> QED
    BY <1>1, <1>2, Announced

\* What a scenario reports is an event that equipment may send.
LEMMA ReportIsHost ==
  ASSUME HostInv, target \in Panels, NEW s \in Reporting, NEW i, GoodReport(s, i) \/ LastReport(s, i),
         NEW r, r = Events(s)[i + 1], r.equipment \in Named(s),
         Ingest(r.equipment, EquipmentStep(r.equipment), r.recipe, r.fails)
  PROVE  Next /\ answer' \in Answers
  <1> PICK e \in Equipment : e = r.equipment
    BY NamedIsThere
  <1> PICK step : step = EquipmentStep(e)
    OBVIOUS
  <1>1. step \in Steps
    BY EquipmentStepType, FabAssumption
  <1>2. PreparedFor(s) \in Recipes /\ B01 \in Recipes
    BY PreparedRecipe, DemonstrationAssumption DEF Reporting, Practice, Ordered, Scenarios
  <1>3. r.recipe \in Recipes
    BY <1>2 DEF GoodReport, LastReport, Reporting, Practice, Mismatches
  <1>4. PICK fails \in BOOLEAN : fails = r.fails /\ (fails => step = "INSPECT")
    <2>1. CASE GoodReport(s, i)
      BY <2>1 DEF GoodReport
    <2>2. CASE LastReport(s, i) /\ s \notin {"oled_happy", "oled_inspect_fail", "lcd_happy"}
      BY <2>2 DEF LastReport, Reporting, Practice, Mismatches
    <2>3. CASE LastReport(s, i) /\ s \in {"oled_happy", "oled_inspect_fail", "lcd_happy"}
      <3>1. r.fails \in BOOLEAN /\ e = "INSPECT-01"
        BY <2>3 DEF LastReport
      <3>2. step = "INSPECT"
        BY <3>1, Stations
      <3> QED
        BY <3>1, <3>2
    <2> QED
      BY <2>1, <2>2, <2>3
  <1>5. Ingest(e, step, r.recipe, fails)
    BY <1>4
  <1> QED
    BY <1>1, <1>3, <1>4, <1>5, IngestIsHost DEF HostInv

LEMMA ReportingGoesOn ==
  ASSUME HostInv, answer \in Answers, played \in Reporting,
         NEW i \in 0 .. Len(Events(played)), ToTell(i), ScenarioStep
  PROVE  /\ Next \/ Tending
         /\ ToTell(i + 1)' /\ i + 1 \in 0 .. Len(Events(played))
         /\ UNCHANGED target /\ answer' \in Answers
  <1> PICK s \in Reporting : s = played
    OBVIOUS
  <1> PICK p : p = target
    OBVIOUS
  <1> PICK l : l = PanelLot[p]
    OBVIOUS
  <1>1. PICK n \in Nat : /\ Len(Events(s)) = n + 1
                         /\ \A j \in 0 .. n - 1 : GoodReport(s, j) \/ WrongSelection(s, j)
                         /\ LastReport(s, n)
    BY ReportTable
  <1>2. /\ s \in Scenarios \ {"heartbeat"} /\ s \notin Contact /\ s \notin Running
        /\ script = EventsFrom(s, i)
        /\ p \in Panels /\ LotProduct[l] = MadeBy(s)
        /\ clear => OnTrack(s, i)
    BY DEF ToTell, HasPanel, Reporting, Practice, Contact, Running, Scenarios, Ordered
  <1>3. UNCHANGED <<played, clear>> /\ script # <<>>
    BY OneAction
  <1>4. /\ Head(script) = Events(s)[i + 1]
        /\ Tail(script) = EventsFrom(s, i + 1)
        /\ i + 1 \in 1 .. Len(Events(s))
        /\ i # Len(Events(s))
    BY <1>2, <1>3, NextEvent
  <1>5. i \in Nat /\ i + 1 \in 0 .. Len(Events(s)) /\ (i = n \/ i \in 0 .. n - 1)
    BY <1>1, <1>4
  <1>6. clear => ReportTrack(s, i, p)
    BY <1>2, <1>4 DEF OnTrack
  <1>7. Events(s)[i + 1].equipment \in Named(s)
    BY <1>4, NamedIsThere
  <1>8. SUFFICES /\ Next \/ Tending
                 /\ script' = EventsFrom(s, i + 1)
                 /\ clear => OnTrack(s, i + 1)'
                 /\ UNCHANGED target /\ answer' \in Answers
    <2>1. HasPanel(s)'
      BY <1>2, <1>8 DEF HasPanel
    <2> QED
      BY <1>2, <1>3, <1>5, <1>8, <2>1 DEF ToTell
  <1>9. CASE Events(s)[i + 1].do = "report"
    <2> PICK r : r = Events(s)[i + 1]
      OBVIOUS
    <2>1. DoReport
      BY <1>4, <1>9, OneAction
    <2>2. /\ Ingest(r.equipment, EquipmentStep(r.equipment), r.recipe, r.fails)
          /\ script' = EventsFrom(s, i + 1) /\ UNCHANGED target
      BY <1>4, <2>1 DEF DoReport
    <2>3. GoodReport(s, i) \/ (LastReport(s, i) /\ i = n)
      <3>1. ~WrongSelection(s, i)
        <4>1. ASSUME WrongSelection(s, i) PROVE FALSE
          <5>1. Events(s)[i + 1] = SelectOn("PROC-01", B01)
            BY <4>1 DEF WrongSelection
          <5> QED
            BY <1>9, <5>1 DEF SelectOn
        <4> QED
          BY <4>1
      <3> QED
        BY <1>1, <1>5, <3>1
    <2>4. Next /\ answer' \in Answers
      BY <1>2, <1>7, <2>2, <2>3, ReportIsHost
    <2>5. ASSUME clear PROVE OnTrack(s, i + 1)'
      <3>1. CASE GoodReport(s, i) /\ i # n
        <4>1. ReportTrack(s, i + 1, p)'
          BY <1>2, <1>5, <1>6, <1>7, <2>2, <2>5, <3>1, GoodReportGoesOn
        <4>2. i + 1 # Len(Events(s))
          BY <1>1, <1>5, <3>1
        <4> QED
          BY <1>2, <2>2, <4>1, <4>2 DEF OnTrack
      <3>2. CASE i = n
        <4>1. AsAnnounced(s)'
          BY <1>1, <1>2, <1>5, <1>6, <1>7, <2>2, <2>5, <3>2, LastReportEnds
        <4>2. i + 1 = Len(Events(s))
          BY <1>1, <3>2
        <4> QED
          BY <4>1, <4>2 DEF OnTrack
      <3> QED
        BY <2>3, <3>1, <3>2
    <2> QED
      BY <2>2, <2>4, <2>5
  <1>10. CASE WrongSelection(s, i)
    <2>1. /\ s \in Mismatches /\ i = 2 /\ i + 1 = 3
          /\ Events(s)[i + 1] = SelectOn("PROC-01", B01)
      BY <1>10 DEF WrongSelection
    <2>2. /\ Head(script).do = "select"
          /\ Head(script).equipment = "PROC-01" /\ Head(script).recipe = B01
      BY <1>4, <2>1 DEF SelectOn
    <2>3. DoSelect
      BY <2>2, OneAction
    <2>4. EquipmentProduct("PROC-01") = RecipeProduct[B01] /\ B01 \in Recipes
      BY Stations, DemonstrationAssumption
    <2>5. /\ SelectRecipe("PROC-01", B01)
          /\ script' = EventsFrom(s, i + 1) /\ UNCHANGED <<target, answer>>
      BY <1>4, <2>2, <2>3, <2>4 DEF DoSelect
    <2>6. Tending
      BY <2>4, <2>5, SelectTends, DemonstrationAssumption DEF HostInv, EquipmentIds
    <2>7. ASSUME clear PROVE OnTrack(s, i + 1)'
      <3>1. ReportTrack(s, 3, p)'
        BY <1>2, <1>6, <1>10, <2>1, <2>5, <2>7, SelectionGoesOn
      <3>2. 3 # Len(Events(s))
        <4>1. Len(Events(s)) = 4
          BY <2>1, MismatchTable
        <4> QED
          BY <4>1
      <3> QED
        BY <1>2, <2>1, <2>5, <3>1, <3>2 DEF OnTrack
    <2> QED
      BY <2>5, <2>6, <2>7
  <1> QED
    BY <1>1, <1>5, <1>9, <1>10 DEF GoodReport, LastReport

-----------------------------------------------------------------------------
(* A running scenario goes on.                                             *)

\* The dispatcher never sends a panel to the step it comes from.
LEMMA NextIsNew ==
  ASSUME NEW product \in Products, NEW last \in Steps \cup {None}, NextOperation(product, last) # None
  PROVE  NextOperation(product, last) # last
  <1>1. CASE last \notin StepsOf(product)
    <2>1. RouteFor(product)[1] \in StepsOf(product)
      BY DEF StepsOf, RouteFor, OledRoute, LcdRoute
    <2> QED
      BY <1>1, <2>1 DEF NextOperation
  <1>2. CASE last \in StepsOf(product)
    <2>1. /\ Successors(product, last) # {}
          /\ NextOperation(product, last) = CHOOSE step \in Successors(product, last) : TRUE
      BY <1>2 DEF NextOperation
    <2>2. NextOperation(product, last) \in Successors(product, last)
      BY <2>1
    <2>3. last \notin Successors(product, last)
      <3>1. CASE product = "LCD"
        BY <3>1 DEF Successors, RouteFor, LcdRoute
      <3>2. CASE product = "OLED"
        BY <3>2 DEF Successors, RouteFor, OledRoute
      <3> QED
        BY <3>1, <3>2 DEF Products
    <2> QED
      BY <2>2, <2>3
  <1> QED
    BY <1>1, <1>2

\* On a line that is ready for the lot, the equipment the dispatcher picks is
\* usable: one that is neither in the way of another lot nor stopped weighs less.
LEMMA PickedIsUsable ==
  ASSUME HostInv, NEW s \in Running, NEW p \in Panels, NEW l \in Lots, LotProduct[l] = MadeBy(s),
         NEW step \in StepsOf(MadeBy(s)), step # lotStep[l], LineReady(s, l)
  PROVE  /\ PickEquipment(step) \in Equipment /\ EquipmentStep(PickEquipment(step)) = step
         /\ Usable(PickEquipment(step), l)
         /\ IsSet(PickEquipment(step), PreparedFor(s))
         /\ EquipmentProduct(PickEquipment(step)) \in {None, LotProduct[l]}
  <1>1. PICK e \in Equipment : EquipmentStep(e) = step /\ Usable(e, l)
    BY DEF LineReady
  <1> PICK x : x = PickEquipment(step)
    OBVIOUS
  <1>2. x \in Equipment /\ EquipmentStep(x) = step /\ Reluctance(x) <= Reluctance(e)
    BY <1>1, PickedFits
  <1>3. eqLot[e] = None
    <2>1. ASSUME eqLot[e] = l PROVE FALSE
      <3>1. eqLot[e] # None
        BY <2>1, FabAssumption
      <3>2. lotStep[l] = EquipmentStep(e)
        BY <2>1, <3>1 DEF HostInv, OneStationPerLot
      <3> QED
        BY <1>1, <3>2
    <2> QED
      BY <1>1, <2>1 DEF Usable
  <1>4. Reluctance(e) = 10
    BY <1>1, <1>3 DEF Reluctance, Usable
  <1>5. eqStatus[x] # "MAINTENANCE" /\ eqLot[x] = None
    BY <1>2, <1>4 DEF Reluctance
  <1>6. Usable(x, l) /\ IsSet(x, PreparedFor(s))
    BY <1>2, <1>5 DEF LineReady, Usable
  <1>7. EquipmentProduct(x) \in {None, LotProduct[l]}
    BY <1>2, StepFitsProduct, FabAssumption
  <1> QED
    BY <1>2, <1>6, <1>7

\* The only panel of its lot, inspected: the lot and its order are done.
LEMMA OrderIsDone ==
  ASSUME NEW p \in Panels, NEW l \in Lots, PanelInLot(p, l), l \notin SampleLots,
         TypeOK, order[l] # "NONE", panelStatus'[p] = "COMPLETE",
         AllFinished(panelStatus', l) => lotStatus'[l] = "COMPLETE",
         order' = RefreshWorkOrder(panelStatus', l)
  PROVE  lotStatus'[l] = "COMPLETE" /\ order'[l] = "DONE"
  <1>1. \A q \in PanelsOf(l) : q = p
    BY DemonstrationAssumption DEF PanelsOf, PanelInLot
  <1>2. AllFinished(panelStatus', l)
    BY <1>1 DEF AllFinished, Finished
  <1>3. PanelsOf(l) # {}
    BY DEF PanelsOf, PanelInLot
  <1> QED
    BY <1>2, <1>3 DEF RefreshWorkOrder, TypeOK

\* A step before the inspection keeps the panel on its way.
LEMMA StepKeepsTrack ==
  ASSUME HostInv, NEW s \in Running, NEW p \in Panels, p = target, NEW l, PanelInLot(p, l),
         l \notin SampleLots, order[l] # "NONE", Underway(p), LineReady(s, l),
         NEW recipe \in Recipes, recipe = LotRecipe[l], recipe = PreparedFor(s),
         NEW e \in Equipment, NEW step \in Steps, step = EquipmentStep(e), step # "INSPECT",
         Usable(e, l), IsSet(e, recipe), EquipmentProduct(e) \in {None, LotProduct[l]},
         step \in AllowedNextSteps(LotProduct[l], lastStep[p]),
         NEW fails \in BOOLEAN, ~fails, Ingest(e, step, recipe, fails)
  PROVE  answer' = "ACCEPTED" /\ RunTrack(s, p)'
  <1>1. TakenStep(e, l, p, step, recipe)
    BY StepTaken
  <1>2. LineReady(s, l)'
    <2>1. ASSUME NEW x \in Equipment, eqStatus'[x] # "MAINTENANCE"
          PROVE  eqStatus'[x] = "RUN" /\ x \notin lost' /\ IsSet(x, PreparedFor(s))'
      <3>1. CASE x = e
        BY <1>1, <3>1 DEF IsSet, TakenStep
      <3>2. CASE x # e
        BY <1>1, <2>1, <3>2 DEF IsSet, LineReady, TakenStep
      <3> QED
        BY <3>1, <3>2
    <2>2. ASSUME NEW z \in StepsOf(MadeBy(s))
          PROVE  \E x \in Equipment : EquipmentStep(x) = z /\ Usable(x, l)'
      BY <1>1 DEF LineReady, TakenStep
    <2> QED
      BY <2>1, <2>2 DEF LineReady
  <1>3. PanelLot[p] = l /\ l \in Lots
    BY FabAssumption DEF PanelInLot
  <1>4. order'[l] # "NONE"
    BY <1>1, <1>3 DEF RefreshWorkOrder, HostInv, TypeOK, TakenStep
  <1>5. Underway(p)'
    BY <1>1, <1>3 DEF Underway, TakenStep
  <1> QED
    BY <1>1, <1>2, <1>3, <1>4, <1>5 DEF RunTrack, TakenStep

\* One turn of the run, with the panel on its way: it goes on, or is judged.
LEMMA TurnGoesOn ==
  ASSUME HostInv, NEW s \in Running, NEW p \in Panels, p = target,
         NEW l \in Lots, PanelInLot(p, l), LotProduct[l] = MadeBy(s),
         l \notin SampleLots, order[l] # "NONE",
         Underway(p), lastStep[p] # "INSPECT", lotStep[l] = lastStep[p], LineReady(s, l),
         NEW step, step = NextStep(p), ~PanelDone(p),
         NEW fails \in BOOLEAN, fails <=> (s = "demo_oled_fail" /\ step = "INSPECT"),
         Ingest(PickEquipment(step), step, LotRecipe[l], fails)
  PROVE  answer' = "ACCEPTED" /\ RunTrack(s, p)'
  <1> PICK recipe \in Recipes : recipe = LotRecipe[l]
    BY FabAssumption
  <1> PICK e : e = PickEquipment(step)
    OBVIOUS
  <1>0. PanelLot[p] = l
    BY DEF PanelInLot
  <1>1. s \in Scenarios /\ MadeBy(s) \in Products /\ recipe = PreparedFor(s)
    BY PreparedRecipe, LotExpects DEF Running, Scenarios
  <1>2. panelStatus[p] # "FAIL" /\ ProductOf(p) = MadeBy(s)
    BY <1>0 DEF Underway, ProductOf
  <1>3. step = NextOperation(MadeBy(s), lastStep[p]) /\ step # None
    BY <1>2 DEF NextStep, PanelDone
  <1>4. /\ step \in AllowedNextSteps(LotProduct[l], lastStep[p])
        /\ step \in StepsOf(MadeBy(s)) /\ step \in Steps
        /\ step # lotStep[l]
    <2>1. lastStep[p] \in Steps \cup {None}
      BY DEF HostInv, TypeOK
    <2>2. step \in AllowedNextSteps(LotProduct[l], lastStep[p]) /\ step # lastStep[p]
      BY <1>1, <1>3, <2>1, NextOperationAllowed, NextIsNew
    <2> QED
      BY <1>1, <2>2, AllowedStepsType, RouteSteps
  <1>5. /\ e \in Equipment /\ step = EquipmentStep(e)
        /\ Usable(e, l) /\ IsSet(e, recipe)
        /\ EquipmentProduct(e) \in {None, LotProduct[l]}
    BY <1>1, <1>4, PickedIsUsable
  <1>6. CASE step # "INSPECT"
    <2>1. PICK f \in BOOLEAN : ~f /\ Ingest(e, step, recipe, f)
      BY <1>6
    <2> QED
      BY <1>1, <1>4, <1>5, <1>6, <2>1, StepKeepsTrack
  <1>7. CASE step = "INSPECT"
    <2>1. EquipmentProduct(e) = None
      <3>1. e \in EquipmentIds
        BY <1>5, FabAssumption
      <3> QED
        BY <1>5, <1>7, <3>1 DEF EquipmentIds, EquipmentStep, EquipmentProduct
    <2>2. Ingest(e, step, recipe, fails)
      OBVIOUS
    <2>3. /\ answer' = "ACCEPTED"
          /\ fails => panelStatus'[p] = "FAIL" /\ lotStatus'[l] = "HOLD"
          /\ ~fails => panelStatus'[p] = "COMPLETE"
          /\ ~fails /\ AllFinished(panelStatus', l) => lotStatus'[l] = "COMPLETE"
          /\ order' = RefreshWorkOrder(panelStatus', l)
      BY <1>4, <1>5, <1>7, <2>1, <2>2, InspectionTaken
    <2>4. order'[l] # "NONE"
      BY <2>3 DEF RefreshWorkOrder, HostInv, TypeOK
    <2>5. CASE s = "demo_oled_fail"
      <3>1. fails
        BY <1>7, <2>5
      <3>2. PanelAsAnnounced(s, p)'
        BY <1>0, <2>3, <2>5, <3>1 DEF PanelAsAnnounced
      <3> QED
        BY <1>0, <2>3, <2>4, <2>5, <3>2 DEF RunTrack
    <2>6. CASE s # "demo_oled_fail"
      <3>1. ~fails /\ s \in {"demo_oled_pass", "demo_lcd_pass"}
        BY <2>6 DEF Running, Ordered
      <3>2. lotStatus'[l] = "COMPLETE" /\ order'[l] = "DONE"
        BY <2>3, <3>1, OrderIsDone DEF HostInv
      <3>3. PanelAsAnnounced(s, p)'
        BY <1>0, <3>1, <3>2 DEF PanelAsAnnounced
      <3> QED
        BY <1>0, <2>3, <2>4, <3>1, <3>3 DEF RunTrack
    <2> QED
      BY <2>5, <2>6
  <1> QED
    BY <1>6, <1>7

\* A turn that changes neither lots nor orders nor the panel leaves it judged.
LEMMA JudgedStays ==
  ASSUME NEW s, NEW p, PanelAsAnnounced(s, p), UNCHANGED <<lotVars, panelVars, order, answer>>
  PROVE  PanelAsAnnounced(s, p)'
  BY DEF PanelAsAnnounced, lotVars, panelVars

\* A panel on its way is not done, and its lot not stopped.
LEMMA OnItsWay ==
  ASSUME NEW p \in Panels, Underway(p), lastStep[p] # "INSPECT"
  PROVE  ~PanelDone(p) /\ lotStatus[PanelLot[p]] # "HOLD"
  <1>1. panelStatus[p] \notin Finished \cup {"FAIL"}
    BY DEF Underway, Finished
  <1>2. ProductOf(p) \in Products
    BY FabAssumption DEF ProductOf
  <1>3. NextOperation(ProductOf(p), lastStep[p]) # None
    BY <1>2, RouteEnds
  <1> QED
    BY <1>1, <1>3 DEF PanelDone, NextStep, Underway

\* The turn of a run is an operation of the host, or tends equipment, or ends it.
LEMMA TurnIsHost ==
  ASSUME HostInv, answer \in Answers, target \in Panels, DoRun, Head(script).fails \in BOOLEAN
  PROVE  /\ Next \/ Tending \/ UNCHANGED vars
         /\ answer' \in Answers /\ UNCHANGED target
  <1> PICK p \in Panels : p = target
    OBVIOUS
  <1> PICK l \in Lots : l = PanelLot[p]
    BY FabAssumption
  <1> PICK step : step = NextStep(p)
    OBVIOUS
  <1>1. CASE lotStatus[l] = "HOLD"
    BY <1>1 DEF DoRun
  <1>2. CASE lotStatus[l] # "HOLD" /\ PanelDone(p)
    <2>1. lost' = {} /\ UNCHANGED <<lotVars, panelVars, order, eqStatus, eqLot, eqRecipe, answer, target>>
      BY <1>2 DEF DoRun
    <2>2. Tending
      BY <2>1 DEF Tending, HostInv, TypeOK
    <2> QED
      BY <2>1, <2>2
  <1>3. CASE lotStatus[l] # "HOLD" /\ ~PanelDone(p)
    <2>1. /\ step \in Steps /\ PickEquipment(step) \in Equipment
          /\ EquipmentStep(PickEquipment(step)) = step
      BY <1>3, NextStepFits
    <2>2. PICK fails \in BOOLEAN : /\ fails => step = "INSPECT"
                                   /\ Ingest(PickEquipment(step), step, LotRecipe[l], fails)
      BY <1>3 DEF DoRun
    <2>3. UNCHANGED target /\ LotRecipe[l] \in Recipes
      BY FabAssumption DEF DoRun
    <2>4. Next /\ answer' \in Answers
      BY <2>1, <2>2, <2>3, IngestIsHost DEF HostInv
    <2> QED
      BY <2>3, <2>4
  <1> QED
    BY <1>1, <1>2, <1>3

LEMMA TurnKeepsTrack ==
  ASSUME HostInv, NEW s \in Running, NEW p \in Panels, p = target, NEW l \in Lots, PanelInLot(p, l),
         LotProduct[l] = MadeBy(s), RunTrack(s, p), DoRun,
         Head(script).fails = (s = "demo_oled_fail")
  PROVE  \/ RunTrack(s, p)' /\ script' = script
         \/ PanelAsAnnounced(s, p)' /\ script' = <<>>
  <1>0. PanelLot[p] = l
    BY DEF PanelInLot
  <1>1. CASE /\ Underway(p) /\ lastStep[p] # "INSPECT" /\ lotStep[l] = lastStep[p]
             /\ LineReady(s, l)
    <2>1. ~PanelDone(p) /\ lotStatus[l] # "HOLD"
      BY <1>0, <1>1, OnItsWay
    <2>2. l \notin SampleLots /\ order[l] # "NONE"
      BY <1>0 DEF RunTrack
    <2>3. PICK step : step = NextStep(p)
      OBVIOUS
    <2>4. PICK fails \in BOOLEAN : fails <=> (s = "demo_oled_fail" /\ step = "INSPECT")
      OBVIOUS
    <2>5. (Head(script).fails /\ step = "INSPECT") = fails
      BY <2>4
    <2>6. /\ Ingest(PickEquipment(step), step, LotRecipe[l], fails)
          /\ script' = IF answer' = "ACCEPTED" THEN script ELSE <<>>
      BY <1>0, <2>1, <2>3, <2>5 DEF DoRun
    <2>7. answer' = "ACCEPTED" /\ RunTrack(s, p)'
      BY <1>1, <2>1, <2>2, <2>3, <2>4, <2>6, TurnGoesOn
    <2> QED
      BY <2>6, <2>7
  <1>2. CASE PanelAsAnnounced(s, p) /\ (s # "demo_oled_fail" => panelStatus[p] = "COMPLETE")
    <2>1. lotStatus[l] = "HOLD" \/ PanelDone(p)
      <3>1. CASE s = "demo_oled_fail"
        BY <1>0, <1>2, <3>1 DEF PanelAsAnnounced
      <3>2. CASE s # "demo_oled_fail"
        BY <1>2, <3>2 DEF PanelDone, Finished
      <3> QED
        BY <3>1, <3>2
    <2>2. UNCHANGED <<lotVars, panelVars, order, answer>> /\ script' = <<>>
      <3>1. CASE lotStatus[l] = "HOLD"
        BY <1>0, <3>1 DEF DoRun, vars, lotVars, panelVars
      <3>2. CASE lotStatus[l] # "HOLD" /\ PanelDone(p)
        BY <1>0, <3>2 DEF DoRun
      <3> QED
        BY <2>1, <3>1, <3>2
    <2> QED
      BY <1>2, <2>2, JudgedStays
  <1> QED
    BY <1>0, <1>1, <1>2 DEF RunTrack

LEMMA RunGoesOn ==
  ASSUME HostInv, answer \in Answers, played \in Running,
         NEW i \in 0 .. Len(Events(played)), ToTell(i), ScenarioStep
  PROVE  /\ Next \/ Tending \/ UNCHANGED vars
         /\ \E j \in 0 .. Len(Events(played)) : ToTell(j)'
         /\ UNCHANGED target /\ answer' \in Answers
  <1> PICK s \in Running : s = played
    OBVIOUS
  <1> PICK p : p = target
    OBVIOUS
  <1> PICK l : l = PanelLot[p]
    OBVIOUS
  <1>1. /\ s \in Scenarios \ {"heartbeat"} /\ s \notin Contact /\ s \notin Reporting
        /\ script = EventsFrom(s, i)
        /\ p \in Panels /\ LotProduct[l] = MadeBy(s)
        /\ clear => OnTrack(s, i)
    BY DEF ToTell, HasPanel, Reporting, Practice, Contact, Running, Scenarios, Ordered
  <1>2. UNCHANGED <<played, clear>> /\ script # <<>>
    BY OneAction
  <1>3. /\ Head(script) = Events(s)[i + 1]
        /\ i \in 0 .. Len(Events(s)) /\ i # Len(Events(s))
    BY <1>1, <1>2, NextEvent
  <1>4. /\ Len(Events(s)) = 1
        /\ Events(s)[1] = [do |-> "run", fails |-> (s = "demo_oled_fail")]
    BY OtherTables, Zenon
  <1>5. i = 0 /\ 0 \in 0 .. Len(Events(s)) /\ 1 \in 0 .. Len(Events(s)) /\ 0 + 1 = 1
    BY <1>3, <1>4
  <1>6. Head(script) = [do |-> "run", fails |-> (s = "demo_oled_fail")]
    BY <1>3, <1>4, <1>5, Zenon
  <1>7. Head(script).do = "run" /\ Head(script).fails = (s = "demo_oled_fail")
    BY <1>6
  <1>8. DoRun
    BY <1>7, OneAction
  <1>9. Head(script).fails \in BOOLEAN
    BY <1>7
  <1>10. /\ Next \/ Tending \/ UNCHANGED vars
         /\ answer' \in Answers /\ UNCHANGED target
    BY <1>1, <1>8, <1>9, TurnIsHost
  <1>11. EventsFrom(s, 1) = <<>>
    <2>1. PICK S : Events(s) \in Seq(S)
      BY <1>1, EventsAreScript
    <2> QED
      BY <1>4, <1>5, <2>1, RestOfScript DEF EventsFrom
  <1>12. HasPanel(s)'
    BY <1>1, <1>10 DEF HasPanel
  <1>13. ASSUME NEW j \in 0 .. Len(Events(s)), script' = EventsFrom(s, j), clear => OnTrack(s, j)'
         PROVE  \E k \in 0 .. Len(Events(s)) : ToTell(k)'
    <2>1. ToTell(j)'
      BY <1>1, <1>2, <1>12, <1>13 DEF ToTell
    <2> QED
      BY <2>1
  <1>14. script' \in {script, <<>>}
    BY <1>8 DEF DoRun
  <1>15. ASSUME clear PROVE \/ RunTrack(s, p)' /\ script' = script
                            \/ PanelAsAnnounced(s, p)' /\ script' = <<>>
    <2>1. RunTrack(s, p)
      BY <1>1, <1>3, <1>15 DEF OnTrack
    <2>2. l \in Lots /\ PanelInLot(p, l)
      BY <1>1, FabAssumption DEF PanelInLot
    <2> QED
      BY <1>1, <1>7, <1>8, <2>1, <2>2, TurnKeepsTrack
  <1>16. CASE ~clear
    BY <1>5, <1>10, <1>11, <1>13, <1>14, <1>16, <1>1, Zenon
  <1>17. CASE clear /\ RunTrack(s, p)' /\ script' = script
    <2>1. 0 # Len(Events(s))
      BY <1>4
    <2>2. OnTrack(s, 0)'
      BY <1>1, <1>10, <1>17, <2>1 DEF OnTrack
    <2> QED
      BY <1>1, <1>5, <1>10, <1>13, <1>17, <2>2, Zenon
  <1>18. CASE clear /\ PanelAsAnnounced(s, p)' /\ script' = <<>>
    <2>1. AsAnnounced(s)'
      BY <1>1, <1>10, <1>18, Announced DEF Running
    <2>2. OnTrack(s, 1)'
      BY <1>4, <2>1 DEF OnTrack
    <2> QED
      BY <1>5, <1>10, <1>11, <1>13, <1>18, <2>2, Zenon
  <1> QED
    BY <1>10, <1>15, <1>16, <1>17, <1>18

LEMMA CutGoesOn ==
  ASSUME HostInv, played = "demo_comm_loss",
         NEW i \in 0 .. Len(Events(played)), ToTell(i), ScenarioStep
  PROVE  Tending /\ ToTell(1)' /\ 1 \in 0 .. Len(Events(played)) /\ UNCHANGED <<target, answer>>
  <1> PICK s : s = played
    OBVIOUS
  <1>1. s \in Scenarios \ {"heartbeat"} /\ s \in Contact /\ script = EventsFrom(s, i)
    BY DEF ToTell, Contact, Scenarios
  <1>2. UNCHANGED <<played, clear>> /\ script # <<>>
    BY OneAction
  <1>3. /\ Head(script) = Events(s)[i + 1] /\ Tail(script) = EventsFrom(s, i + 1)
        /\ i \in 0 .. Len(Events(s)) /\ i # Len(Events(s))
    BY <1>1, <1>2, NextEvent
  <1>4. Len(Events(s)) = 1 /\ Events(s)[1] = [do |-> "cut"]
    BY OtherTables, Zenon
  <1>5. i = 0 /\ 1 \in 0 .. Len(Events(s)) /\ 0 + 1 = 1
    BY <1>3, <1>4
  <1>6. Head(script) = [do |-> "cut"] /\ Tail(script) = EventsFrom(s, 1)
    BY <1>3, <1>4, <1>5, Zenon
  <1>7. Head(script).do = "cut"
    BY <1>6
  <1>8. CutLine /\ script' = EventsFrom(s, 1) /\ UNCHANGED <<target, answer>>
    BY <1>6, <1>7, OneAction DEF DoCut
  <1>9. "PROC-01" \in lost'
    BY <1>8 DEF CutLine
  <1>10. OnTrack(s, 1)'
    BY <1>4, <1>9 DEF OnTrack, AsAnnounced
  <1>11. Tending
    BY <1>8, CutTends DEF HostInv
  <1> QED
    BY <1>1, <1>2, <1>5, <1>8, <1>10, <1>11 DEF ToTell, HasPanel

-----------------------------------------------------------------------------
(* Every step.                                                             *)

LEMMA ScenarioGoesOn ==
  ASSUME HostInv, DemoTypeOK, Course, ScenarioStep
  PROVE  /\ [Next]_vars \/ Tending
         /\ Course' /\ UNCHANGED <<played, clear>>
         /\ target' \in Panels \cup {None} /\ answer' \in Answers
  <1>1. /\ played # None /\ script # <<>> /\ UNCHANGED <<played, clear>>
        /\ played \in Scenarios /\ target \in Panels \cup {None} /\ answer \in Answers
    BY OneAction DEF DemoTypeOK
  <1>2. ASSUME \E j \in 0 .. Len(Events(played)) : ToTell(j)' PROVE Course'
    BY <1>1, <1>2 DEF Course
  <1>3. CASE Beating
    BY <1>1, <1>3, BeatGoesOn DEF HostInv, Course
  <1>4. CASE NoneWaits
    BY <1>1, <1>4, NoneWaitsGoesOn DEF HostInv, Course
  <1>5. ASSUME played # "heartbeat" PROVE 0 \in 0 .. Len(Events(played))
    BY <1>1, <1>5, WholeStarts
  <1>6. CASE ToPrepare
    <2>1. Tending /\ UNCHANGED <<target, answer>> /\ (ToOrder' \/ ToTell(0)')
      BY <1>6, PrepareGoesOn
    <2>2. played # "heartbeat"
      BY <1>6 DEF ToPrepare
    <2> QED
      BY <1>1, <1>2, <1>5, <2>1, <2>2 DEF Course
  <1>7. CASE ToOrder
    <2>1. Next /\ ToTell(0)' /\ UNCHANGED answer
      BY <1>7, OrderGoesOn
    <2>2. played # "heartbeat" /\ played \notin Contact
      BY <1>7 DEF ToOrder, Ordered, Contact
    <2>3. target' \in Panels
      BY <1>1, <2>1, <2>2 DEF ToTell, HasPanel
    <2> QED
      BY <1>1, <1>2, <1>5, <2>1, <2>2, <2>3
  <1>8. ASSUME NEW i \in 0 .. Len(Events(played)), ToTell(i)
        PROVE  /\ [Next]_vars \/ Tending
               /\ Course'
               /\ target' \in Panels \cup {None} /\ answer' \in Answers
    <2>1. CASE played \in Reporting
      BY <1>1, <1>2, <1>8, <2>1, ReportingGoesOn
    <2>2. CASE played \in Running
      BY <1>1, <1>2, <1>8, <2>2, RunGoesOn
    <2>3. CASE played = "demo_comm_loss"
      BY <1>1, <1>2, <1>8, <2>3, CutGoesOn
    <2>4. played # "demo_alive"
      <3>1. ASSUME played = "demo_alive" PROVE FALSE
        <4>1. Len(Events(played)) = 0
          BY <3>1, OtherTables, Zenon
        <4>2. i = Len(Events(played))
          BY <1>8, <4>1
        <4>3. i # Len(Events(played))
          BY <1>1, <1>8, NextEvent DEF ToTell
        <4> QED
          BY <4>2, <4>3
      <3> QED
        BY <3>1
    <2> QED
      BY <1>8, <2>1, <2>2, <2>3, <2>4 DEF ToTell, Scenarios, Ordered, Practice, Contact, Reporting, Running
  <1> QED
    BY <1>1, <1>3, <1>4, <1>6, <1>7, <1>8 DEF Course

LEMMA ClearIsTruth ==
  ASSUME NEW s \in Scenarios
  PROVE  Clear(s) \in BOOLEAN
  <1>1. CASE s = "demo_alive"
    BY <1>1 DEF Clear
  <1>2. CASE s \in Contact \ {"demo_alive"}
    BY <1>2 DEF Clear
  <1>3. CASE s = "demo_recipe_mismatch"
    BY <1>3 DEF Clear, Contact
  <1>4. CASE s \in Ordered \ {"demo_recipe_mismatch"}
    BY <1>4 DEF Clear, Contact, Ordered
  <1>5. CASE s \in Practice
    BY <1>5 DEF Clear, Contact, Ordered, Practice
  <1> QED
    BY <1>1, <1>2, <1>3, <1>4, <1>5 DEF Scenarios

LEMMA ClearStays ==
  ASSUME NEW s \in Scenarios, UNCHANGED vars, Clear(s)
  PROVE  Clear(s)'
  BY DEF Clear, FreeFor, Waiting, LotKnown, vars

\* A scenario begins.
LEMMA PlayBegins ==
  ASSUME HostInv, NEW s \in Scenarios, Play(s)
  PROVE  /\ UNCHANGED vars
         /\ Course'
         /\ played' \in Scenarios /\ target' \in Panels \cup {None}
         /\ clear' \in BOOLEAN /\ answer' \in Answers
  <1>1. /\ UNCHANGED vars /\ played' = s /\ script' = Script(s)
        /\ clear' = Clear(s) /\ answer' = None
        /\ s \in Ordered => Unused(s) # {}
        /\ target' = IF s \in Practice /\ Waiting(PracticeLot(s)) # {}
                     THEN FirstOf(Waiting(PracticeLot(s))) ELSE None
    BY DEF Play
  <1>2. ASSUME s \in Practice, Waiting(PracticeLot(s)) # {}
        PROVE  target' \in Waiting(PracticeLot(s)) /\ target' \in Panels
    <2>1. Waiting(PracticeLot(s)) \in SUBSET Panels
      BY DEF Waiting, PanelsOf
    <2> QED
      BY <1>1, <1>2, <2>1, FirstOfThem
  <1>3. clear' \in BOOLEAN /\ answer' \in Answers
    BY <1>1, ClearIsTruth DEF Answers
  <1>4. target' \in Panels \cup {None}
    BY <1>1, <1>2
  <1>5. CASE s = "heartbeat"
    <2>1. script' = <<[do |-> "beat"]>>
      BY <1>1, <1>5 DEF Script, Practice, Ordered
    <2> QED
      BY <1>1, <1>3, <1>4, <1>5, <2>1 DEF Course, Beating
  <1>6. CASE s \in Practice /\ Waiting(PracticeLot(s)) = {}
    <2>1. script' = <<Prepare(PreparedFor(s))>>
      BY <1>1, <1>6 DEF Script, Practice, Ordered
    <2>2. ~clear'
      BY <1>1, <1>6 DEF Clear, Contact, Ordered, Practice
    <2>3. NoneWaits'
      BY <1>1, <1>6, <2>1, <2>2 DEF NoneWaits
    <2> QED
      BY <1>1, <1>3, <1>4, <2>3 DEF Course
  <1>7. CASE s # "heartbeat" /\ ~(s \in Practice /\ Waiting(PracticeLot(s)) = {})
    <2>1. script' = WholeScript(s)
      BY <1>1, <1>7 DEF Script, WholeScript, Practice, Ordered
    <2>2. Unused(s)' = Unused(s) /\ Waiting(PracticeLot(s))' = Waiting(PracticeLot(s))
      BY <1>1 DEF vars, Unused, Waiting, LotKnown
    <2>3. clear' => Clear(s)'
      BY <1>1, ClearStays
    <2>4. ToPrepare'
      BY <1>1, <1>2, <1>7, <2>1, <2>2, <2>3 DEF ToPrepare
    <2> QED
      BY <1>1, <1>3, <1>4, <2>4 DEF Course
  <1> QED
    BY <1>5, <1>6, <1>7

LEMMA CourseStands ==
  ASSUME DemoTypeOK, Course, UNCHANGED <<vars, playVars>>
  PROVE  Course'
  <1>0. /\ UNCHANGED <<lotStatus, lotStep, panelStatus, history, lastStep, order, eqStatus, eqLot,
                       eqRecipe, lost>>
        /\ UNCHANGED <<played, script, target, clear, answer>>
    BY DEF vars, playVars
  <1>1. CASE played = None
    BY <1>0, <1>1 DEF Course
  <1>2. CASE Beating
    BY <1>0, <1>2 DEF Course, Beating
  <1>3. CASE NoneWaits
    BY <1>0, <1>3 DEF Course, NoneWaits
  <1> PICK s : s = played
    OBVIOUS
  <1>4. CASE ToPrepare
    <2>1. clear => Clear(s)'
      BY <1>4, ClearStays DEF ToPrepare
    <2>2. Unused(s)' = Unused(s) /\ Waiting(PracticeLot(s))' = Waiting(PracticeLot(s))
      BY <1>0 DEF Unused, Waiting, LotKnown
    <2>3. ToPrepare'
      BY <1>0, <1>4, <2>1, <2>2 DEF ToPrepare
    <2> QED
      BY <2>3 DEF Course
  <1>5. ASSUME NEW i, NEW l, NamedReady(s, i, l) PROVE NamedReady(s, i, l)'
    BY <1>0, <1>5 DEF NamedReady, Usable, IsSet
  <1>6. ASSUME NEW l, LineReady(s, l) PROVE LineReady(s, l)'
    BY <1>0, <1>6 DEF LineReady, Usable, IsSet
  <1>7. CASE ToOrder
    <2>1. Unused(s)' = Unused(s)
      BY <1>0 DEF Unused
    <2>2. Equipped(s, None) => Equipped(s, None)'
      BY <1>5, <1>6 DEF Equipped
    <2>3. ToOrder'
      BY <1>0, <1>7, <2>1, <2>2 DEF ToOrder
    <2> QED
      BY <2>3 DEF Course
  <1>8. ASSUME NEW p, PanelAsAnnounced(s, p) PROVE PanelAsAnnounced(s, p)'
    BY <1>0, <1>8 DEF PanelAsAnnounced
  <1>9. ASSUME NEW i \in 0 .. Len(Events(played)), ToTell(i) PROVE Course'
    <2>1. AsAnnounced(s) => AsAnnounced(s)'
      BY <1>0 DEF AsAnnounced, PanelAsAnnounced
    <2>2. ReportTrack(s, i, target) => ReportTrack(s, i, target)'
      BY <1>0, <1>5 DEF ReportTrack, Underway
    <2>3. RunTrack(s, target) => RunTrack(s, target)'
      BY <1>0, <1>6, <1>8 DEF RunTrack, Underway
    <2>4. OnTrack(s, i) => OnTrack(s, i)'
      BY <2>1, <2>2, <2>3 DEF OnTrack
    <2>5. ToTell(i)'
      BY <1>0, <1>9, <2>4 DEF ToTell, HasPanel
    <2> QED
      BY <1>0, <2>5 DEF Course
  <1> QED
    BY <1>1, <1>2, <1>3, <1>4, <1>7, <1>9 DEF Course

LEMMA RotationTurns ==
  ASSUME turn \in DOMAIN Rotation
  PROVE  Rotation[turn] \in Scenarios /\ NextTurn \in DOMAIN Rotation
  <1>1. DOMAIN Rotation = {1, 2, 3, 4, 5, 6, 7} /\ Len(Rotation) = 7
    BY DEF Rotation
  <1>2. Rotation[turn] \in Scenarios
    BY <1>1 DEF Rotation, Scenarios, Ordered
  <1>3. (turn % 7) + 1 \in {1, 2, 3, 4, 5, 6, 7}
    BY <1>1
  <1> QED
    BY <1>1, <1>2, <1>3 DEF NextTurn

\* What a step is to the host and to the scenario.
LEMMA DemoCases ==
  ASSUME DemoTypeOK, [DemoNext]_demoVars
  PROVE  \/ ScenarioStep
         \/ \E s \in Scenarios : Play(s)
         \/ Off /\ [Next]_vars
         \/ played = None /\ UNCHANGED playVars /\ ([Next]_vars \/ BeatAll)
         \/ UNCHANGED <<vars, playVars>>
  <1>1. CASE ScenarioStep
    BY <1>1
  <1>2. CASE Finish
    BY <1>2 DEF Finish
  <1>3. CASE PilotWakes \/ Settle \/ UNCHANGED demoVars
    BY <1>3 DEF PilotWakes, Settle, demoVars
  <1>4. CASE PilotResets \/ VisitorResets
    BY <1>4 DEF PilotResets, VisitorResets, ResetAll, Next
  <1>5. CASE PilotBeats
    BY <1>5 DEF PilotBeats
  <1>6. CASE PilotPlays
    <2>1. Rotation[turn] \in Scenarios
      BY RotationTurns DEF DemoTypeOK
    <2> QED
      BY <1>6, <2>1 DEF PilotPlays
  <1>7. CASE Visit
    <2>1. ByVisitor \subseteq Scenarios
      BY DemonstrationAssumption
    <2> QED
      BY <1>7, <2>1 DEF Visit, Next
  <1>8. CASE Exception
    BY <1>8 DEF Exception
  <1>9. CASE Crash
    BY <1>9 DEF Crash, Next
  <1> QED
    BY <1>1, <1>2, <1>3, <1>4, <1>5, <1>6, <1>7, <1>8, <1>9 DEF DemoNext, Pilot

LEMMA PlayStays ==
  ASSUME DemoInv, [DemoNext]_demoVars
  PROVE  /\ [Next]_vars \/ Tending
         /\ Course'
         /\ played' \in Scenarios \cup {None} /\ target' \in Panels \cup {None}
         /\ clear' \in BOOLEAN /\ answer' \in Answers
  <1>1. /\ HostInv /\ DemoTypeOK /\ Course
        /\ played \in Scenarios \cup {None} /\ target \in Panels \cup {None}
        /\ clear \in BOOLEAN /\ answer \in Answers
    BY DEF DemoInv, DemoTypeOK
  <1>2. CASE ScenarioStep
    BY <1>1, <1>2, ScenarioGoesOn
  <1>3. ASSUME NEW s \in Scenarios, Play(s)
        PROVE  /\ [Next]_vars \/ Tending
               /\ Course'
               /\ played' \in Scenarios \cup {None} /\ target' \in Panels \cup {None}
               /\ clear' \in BOOLEAN /\ answer' \in Answers
    BY <1>1, <1>3, PlayBegins
  <1>4. CASE Off /\ [Next]_vars
    BY <1>4 DEF Off, Course, Answers
  <1>5. CASE played = None /\ UNCHANGED playVars /\ ([Next]_vars \/ BeatAll)
    BY <1>1, <1>5, BeatTends DEF playVars, Course, HostInv
  <1>6. CASE UNCHANGED <<vars, playVars>>
    BY <1>1, <1>6, CourseStands DEF playVars
  <1> QED
    BY <1>1, <1>2, <1>3, <1>4, <1>5, <1>6, DemoCases

\* The autopilot's timers, its place in the rotation, and the count of upsets.
LEMMA PilotStays ==
  ASSUME DemoTypeOK, PilotInTime, [DemoNext]_demoVars
  PROVE  /\ PilotInTime'
         /\ pilot' \in {"sleep", "reset", "beat", "run"} /\ calm' \in BOOLEAN
         /\ sinceRun' \in 0 .. RunEvery /\ sinceReset' \in 0 .. ResetEvery - 1
         /\ turn' \in DOMAIN Rotation
         /\ upsets' \in 0 .. MaxUpsets
  <1>0. RunEvery \in Nat \ {0} /\ ResetEvery \in Nat \ {0} /\ MaxUpsets \in Nat
    BY DemonstrationAssumption
  <1>1. /\ pilot \in {"sleep", "reset", "beat", "run"} /\ calm \in BOOLEAN
        /\ sinceRun \in 0 .. RunEvery /\ sinceReset \in 0 .. ResetEvery - 1
        /\ turn \in DOMAIN Rotation
        /\ upsets \in 0 .. MaxUpsets
    BY DEF DemoTypeOK
  <1>2. CASE UNCHANGED <<pilotVars, upsets, calm>>
    BY <1>1, <1>2 DEF pilotVars, PilotInTime
  <1>3. ASSUME Upset PROVE upsets' \in 0 .. MaxUpsets /\ UNCHANGED calm
    BY <1>0, <1>1, <1>3 DEF Upset
  <1>4. CASE PilotWakes
    <2>1. sinceRun + 1 \in 0 .. RunEvery
      BY <1>0, <1>1, <1>4 DEF PilotWakes, PilotInTime
    <2>2. CASE sinceReset + 1 >= ResetEvery
      BY <1>0, <1>1, <1>4, <2>2 DEF PilotWakes, PilotInTime
    <2>3. CASE ~(sinceReset + 1 >= ResetEvery)
      BY <1>0, <1>1, <1>4, <2>1, <2>3 DEF PilotWakes, PilotInTime
    <2> QED
      BY <2>2, <2>3
  <1>5. CASE PilotResets
    BY <1>0, <1>1, <1>5 DEF PilotResets, ResetAll, PilotInTime
  <1>6. CASE PilotBeats
    BY <1>0, <1>1, <1>6 DEF PilotBeats, AfterBeat, PilotInTime
  <1>7. CASE PilotPlays
    <2>1. turn' \in DOMAIN Rotation
      BY <1>1, <1>7, RotationTurns DEF PilotPlays
    <2> QED
      BY <1>0, <1>1, <1>7, <2>1 DEF PilotPlays, PilotInTime
  <1>8. CASE Visit
    BY <1>1, <1>3, <1>8 DEF Visit, pilotVars, PilotInTime
  <1>9. CASE VisitorResets
    BY <1>0, <1>1, <1>9 DEF VisitorResets, ResetAll, pilotVars, PilotInTime
  <1>10. CASE Exception
    BY <1>1, <1>3, <1>10 DEF Exception, PilotInTime
  <1>11. CASE Crash
    <2>1. 1 \in DOMAIN Rotation
      BY DEF Rotation
    <2> QED
      BY <1>0, <1>1, <1>3, <1>11, <2>1 DEF Crash, PilotInTime
  <1>12. CASE Settle
    BY <1>1, <1>12 DEF Settle, pilotVars, PilotInTime
  <1>13. CASE ScenarioStep \/ Finish \/ UNCHANGED demoVars
    BY <1>2, <1>13 DEF ScenarioStep, Finish, demoVars
  <1> QED
    BY <1>4, <1>5, <1>6, <1>7, <1>8, <1>9, <1>10, <1>11, <1>12, <1>13 DEF DemoNext, Pilot

LEMMA DemoBegins ==
  ASSUME DemoInit
  PROVE  DemoInv
  <1>1. HostInv
    BY HostBegins DEF DemoInit
  <1>2. DemoTypeOK
    <2>1. 1 \in DOMAIN Rotation
      BY DEF Rotation
    <2>2. /\ 0 \in 0 .. RunEvery /\ 0 \in 0 .. ResetEvery - 1 /\ 0 \in 0 .. MaxUpsets
      BY DemonstrationAssumption
    <2> QED
      BY <1>1, <2>1, <2>2 DEF DemoInit, DemoTypeOK, Answers, HostInv
  <1>3. PilotInTime
    BY DemonstrationAssumption DEF DemoInit, PilotInTime
  <1>4. Course
    BY DEF DemoInit, Course
  <1> QED
    BY <1>1, <1>2, <1>3, <1>4 DEF DemoInv

LEMMA DemoStays ==
  ASSUME DemoInv, [DemoNext]_demoVars
  PROVE  DemoInv'
  <1>1. /\ [Next]_vars \/ Tending
        /\ Course'
        /\ played' \in Scenarios \cup {None} /\ target' \in Panels \cup {None}
        /\ clear' \in BOOLEAN /\ answer' \in Answers
    BY PlayStays
  <1>2. HostInv'
    BY <1>1, HostStays DEF DemoInv
  <1>3. /\ PilotInTime'
        /\ pilot' \in {"sleep", "reset", "beat", "run"} /\ calm' \in BOOLEAN
        /\ sinceRun' \in 0 .. RunEvery /\ sinceReset' \in 0 .. ResetEvery - 1
        /\ turn' \in DOMAIN Rotation
        /\ upsets' \in 0 .. MaxUpsets
    BY PilotStays DEF DemoInv
  <1>4. DemoTypeOK'
    BY <1>1, <1>2, <1>3 DEF DemoTypeOK, HostInv
  <1> QED
    BY <1>1, <1>2, <1>3, <1>4 DEF DemoInv

\* Where its course has brought a scenario when nothing of it is left.
LEMMA CourseEnds ==
  ASSUME DemoInv
  PROVE  EndsAsAnnounced
  <1> SUFFICES ASSUME played # None, script = <<>>, clear
               PROVE  AsAnnounced(played)
    BY DEF EndsAsAnnounced, Ended
  <1>1. Course /\ played \in Scenarios
    BY DEF DemoInv, DemoTypeOK
  <1>2. CASE Beating
    <2>1. <<[do |-> "beat"]>> # <<>>
      OBVIOUS
    <2>2. played = "heartbeat" /\ lost = {}
      BY <1>2, <2>1 DEF Beating
    <2> QED
      BY <2>2 DEF AsAnnounced
  <1>3. ~NoneWaits
    BY DEF NoneWaits
  <1>4. ~ToPrepare
    BY WholeStarts DEF ToPrepare
  <1>5. ~ToOrder
    <2> SUFFICES ASSUME played \in Ordered PROVE <<[do |-> "order"]>> \o Events(played) # <<>>
      BY DEF ToOrder
    <2>1. PICK S : Events(played) \in Seq(S)
      BY <1>1, EventsAreScript DEF Ordered
    <2> DEFINE a == [do |-> "order"]
    <2> HIDE DEF a
    <2>2. <<a>> \o Events(played) # <<>>
      BY <2>1, StartOfScript
    <2> QED
      BY <2>2 DEF a
  <1>6. ASSUME NEW i \in 0 .. Len(Events(played)), ToTell(i) PROVE AsAnnounced(played)
    <2>1. i = Len(Events(played))
      BY <1>6, NoEventLeft DEF ToTell
    <2> QED
      BY <1>6, <2>1 DEF ToTell, OnTrack
  <1> QED
    BY <1>1, <1>2, <1>3, <1>4, <1>5, <1>6 DEF Course

-----------------------------------------------------------------------------
(* The theorems.                                                           *)

\* Whatever is played, commanded, broken off, reset or crashed, the invariant
\* stands: every step of a scenario and of the autopilot is an operation of the
\* host or tends equipment, and a scenario keeps its course.
THEOREM DemoInvariant == DemoSpec => []DemoInv
  <1>1. DemoInit => DemoInv
    BY DemoBegins
  <1>2. DemoInv /\ [DemoNext]_demoVars => DemoInv'
    BY DemoStays
  <1> QED
    BY <1>1, <1>2, PTL DEF DemoSpec

\* The demonstration's variables keep their types: the host answers only with
\* the codes the clients know, a scenario's panel is a panel, the timers stay
\* within their periods and the autopilot within its rotation.
THEOREM DemoTypeCorrect == DemoSpec => []DemoTypeOK
  <1>1. DemoInv => DemoTypeOK
    BY DEF DemoInv
  <1> QED
    BY <1>1, DemoInvariant, PTL

\* A scenario that finds the line clear ends as the catalogue says -- the glass
\* passed, failed, stopped or refused as announced -- whatever visitors, crashes
\* and resets left behind before it, in a demonstration of any size.
THEOREM ScenariosEndAsAnnounced == DemoSpec => []EndsAsAnnounced
  <1>1. DemoInv => EndsAsAnnounced
    BY CourseEnds
  <1> QED
    BY <1>1, DemoInvariant, PTL

\* What the host promises of its records.
HostIsSound ==
  /\ NoStepSkipped /\ OneStationPerLot /\ LotAgreesWithPanels
  /\ WaitingLotIsUntouched /\ OrderClosesWithLastPanel

\* Scripts, the autopilot, visitors and broken-off resets leave the host's state
\* sound: under them too no panel skips a step, a cassette stands on one
\* equipment at most, a stopped panel is in a stopped lot, a waiting lot is
\* untouched and an order closes with its last panel.
THEOREM HostStaysSound == DemoSpec => []HostIsSound
  <1>1. DemoInv => HostIsSound
    BY DEF DemoInv, HostInv, HostIsSound, OrderInv
  <1> QED
    BY <1>1, DemoInvariant, PTL

=============================================================================
