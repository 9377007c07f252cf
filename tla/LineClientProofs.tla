-------------------------- MODULE LineClientProofs --------------------------
(***************************************************************************)
(* Theorems about LineClient: programs outside the host, any number of     *)
(* them, on the same orders or on different ones, with whatever commands   *)
(* and failures in between.                                                *)
(***************************************************************************)
EXTENDS LineClient, DispatchProofs

-----------------------------------------------------------------------------
(* The invariant.                                                          *)

Plans == [panel : Panels, step : Steps, equipment : Equipment]

\* Orders are for lots that exist.
OrderedLotsExist == \A l \in Lots : order[l] # "NONE" => lotStatus[l] # "ABSENT"

\* The programs report no failed inspection and no other recipe than the lot's,
\* so no panel is stopped or bad; and one whose latest event is its inspection
\* is finished: what comes late does not open it again.
InspectedIsFinished ==
  \A p \in Panels : /\ panelStatus[p] \notin {"HOLD", "FAIL"}
                    /\ lastStep[p] = "INSPECT" => panelStatus[p] \in Finished

\* A program under way has an order, something to prepare while it prepares, and
\* a plan to report; its report is overtaken only by one that is on record; and
\* it has said done of a closed order only.
ProgramOK(c) ==
  /\ stage[c] # "off" => runs[c] \in Lots /\ order[runs[c]] # "NONE" /\ outcome[c] = None
  /\ stage[c] = "prepare" => todo[c] # <<>>
  /\ stage[c] = "report" => plan[c] \in Plans
  /\ outcome[c] = "done" => runs[c] \in Lots /\ order[runs[c]] = "DONE"
  /\ c \in overtaken => stage[c] = "report" /\ history[plan[c].panel] # {}

ProgramsOK == \A c \in Clients : ProgramOK(c)

ClientInv ==
  /\ TypeOK /\ ClientTypeOK
  /\ OrderInv /\ OrderedLotsExist /\ InspectedIsFinished
  /\ ProgramsOK

-----------------------------------------------------------------------------
(* Types.                                                                  *)

Chores == [do : {"start", "select"}, equipment : Equipment]

StageTypes ==
  /\ stage \in [Clients -> {"off", "prepare", "ask", "report"}]
  /\ program \in [Clients -> {"python", "csharp", None}]
  /\ runs \in [Clients -> Lots \cup {None}]
  /\ refused \subseteq Clients
  /\ outcome \in [Clients -> {None, "done", "held", "refused", "out of turns", "broken"}]

OlderTypes ==
  /\ older \in [Clients -> SUBSET Clients]
  /\ \A c \in Clients : older[c] \subseteq {d \in Clients : stage[d] = "report"}
  /\ overtaken \subseteq Clients

LEMMA ClientTypesApart ==
  LET Types == /\ StageTypes /\ OlderTypes
               /\ todo \in [Clients -> Seq(Chores)]
               /\ plan \in [Clients -> Plans \cup {None}]
               /\ disturbed \in 0 .. MaxDisturbances
  IN  (ClientTypeOK <=> Types) /\ (ClientTypeOK <=> Types)'
  BY DEF ClientTypeOK, StageTypes, OlderTypes, Plans, Chores

\* A function on the places of a sequence is a sequence.
LEMMA MappedSequence ==
  ASSUME NEW S, NEW T, NEW s \in Seq(S), NEW f, DOMAIN f = DOMAIN s,
         f = [i \in DOMAIN f |-> f[i]], \A i \in DOMAIN s : f[i] \in T
  PROVE  f \in Seq(T) /\ Len(f) = Len(s)
  <1>1. Len(s) \in Nat /\ DOMAIN s = 1 .. Len(s)
    BY LenProperties
  <1>2. f \in [1 .. Len(s) -> T]
    BY <1>1
  <1> QED
    BY <1>1, <1>2

\* What a program prepares is a sequence of commands, and not empty.
LEMMA PreparationType ==
  ASSUME NEW l \in Lots
  PROVE  Preparation(l) \in Seq(Chores) /\ Preparation(l) # <<>>
  <1> DEFINE own == LineOf({e \in Equipment : EquipmentProduct(e) = LotProduct[l]})
             starts == [i \in DOMAIN LineEquipment |-> [do |-> "start", equipment |-> LineEquipment[i]]]
             selects == [i \in DOMAIN own |-> [do |-> "select", equipment |-> own[i]]]
  <1>1. LineEquipment \in Seq(Equipment) /\ LineEquipment # <<>>
    BY LineIsThere
  <1>2. own \in Seq(Equipment)
    BY LineOfType, SeqMonotonic
  <1>3. \A i \in DOMAIN LineEquipment : LineEquipment[i] \in Equipment
    BY <1>1, LenProperties, ElementOfSeq
  <1>4. \A i \in DOMAIN own : own[i] \in Equipment
    BY <1>2, LenProperties, ElementOfSeq
  <1>5. Preparation(l) = starts \o selects
    BY DEF Preparation
  <1> HIDE DEF own
  <1>6. starts \in Seq(Chores) /\ Len(starts) = Len(LineEquipment)
    <2>1. \A i \in DOMAIN LineEquipment : starts[i] \in Chores
      BY <1>3 DEF Chores
    <2> QED
      BY <1>1, <2>1, MappedSequence
  <1>7. selects \in Seq(Chores)
    <2>1. \A i \in DOMAIN own : selects[i] \in Chores
      BY <1>4 DEF Chores
    <2> QED
      BY <1>2, <2>1, MappedSequence
  <1> HIDE DEF starts, selects
  <1>8. starts # <<>>
    BY <1>1, <1>6, EmptySeq
  <1> QED
    BY <1>5, <1>6, <1>7, <1>8, ConcatProperties, ConcatEqualIffEmpty

\* What is reported, and for which lot.
LEMMA ReportType ==
  ASSUME ClientInv, NEW c \in Clients, stage[c] = "report"
  PROVE  /\ runs[c] \in Lots
         /\ plan[c].panel \in Panels /\ plan[c].step \in Steps /\ plan[c].equipment \in Equipment
  <1>1. plan[c] \in Plans
    BY DEF ClientInv, ProgramsOK, ProgramOK
  <1> QED
    BY <1>1 DEF ClientInv, ProgramsOK, ProgramOK, Plans

\* The next command, and what is left after it.
LEMMA ChoreType ==
  ASSUME ClientInv, NEW c \in Clients, stage[c] = "prepare"
  PROVE  /\ runs[c] \in Lots /\ todo[c] # <<>>
         /\ Head(todo[c]) \in Chores /\ Tail(todo[c]) \in Seq(Chores)
         /\ Len(todo[c]) > 1 => Tail(todo[c]) # <<>>
  <1>1. runs[c] \in Lots /\ todo[c] # <<>>
    BY DEF ClientInv, ProgramsOK, ProgramOK
  <1>2. todo[c] \in Seq(Chores)
    BY ClientTypesApart DEF ClientInv
  <1>3. /\ Head(todo[c]) \in Chores /\ Tail(todo[c]) \in Seq(Chores)
        /\ Len(Tail(todo[c])) = Len(todo[c]) - 1
    BY <1>1, <1>2, HeadTailProperties
  <1>4. Len(todo[c]) \in Nat
    BY <1>2, LenProperties
  <1>5. \A n \in Nat : n > 1 => n - 1 # 0
    OBVIOUS
  <1>6. Len(todo[c]) > 1 => Len(Tail(todo[c])) # 0
    BY <1>3, <1>4, <1>5, Zenon
  <1> QED
    BY <1>1, <1>3, <1>6, EmptySeq

-----------------------------------------------------------------------------
(* What the programs, and those around them, do to the line.               *)

Quiet == UNCHANGED <<lotVars, panelVars, order>>

\* The beats of all equipment: as many heartbeats of FabCore, in one step.
AllHeard ==
  /\ lost' = {}
  /\ UNCHANGED <<lotVars, panelVars, order, eqStatus, eqLot, eqRecipe>>

\* A report the host accepts is an event it takes from any equipment.
LEMMA ReportIsAnEvent ==
  ASSUME ClientInv, NEW c \in Clients, Report(c)
  PROVE  Next
  <1> DEFINE l == runs[c]
             e == plan[c].equipment
             p == plan[c].panel
             step == plan[c].step
             late == c \in overtaken
  <1>1. l \in Lots /\ e \in Equipment /\ p \in Panels /\ step \in Steps
    BY ReportType DEF Report, Sent
  <1>2. Acceptable(e, l, p, step) /\ RecipeReady(e, LotRecipe[l])
    BY DEF Report, Accepted
  <1>3. late => history[p] # {}
    BY DEF ClientInv, ProgramsOK, ProgramOK
  <1>4. Apply(e, l, p, step, LotRecipe[l], "RUN", FALSE, late)
    BY DEF Report
  <1>5. LotRecipe[l] \in Recipes \cup {None} /\ "RUN" \in EventStatuses
    BY <1>1, FabAssumption, ClientAssumption
  <1>6. late \in BOOLEAN
    OBVIOUS
  <1> HIDE DEF l, e, p, step, late
  <1>7. AcceptProcess(e, l, p, step)
    BY <1>2, <1>3, <1>4, <1>5, <1>6 DEF AcceptProcess
  <1>8. step \in Steps \cup Aliases /\ NormalizeStep(step) = step
    BY <1>1 DEF NormalizeStep, Steps
  <1>9. AcceptProcess(e, l, p, NormalizeStep(step))
    BY <1>7, <1>8
  <1> QED
    BY <1>1, <1>8, <1>9 DEF Next

\* A command of its preparation, which the host may refuse.
LEMMA PrepareIsACommand ==
  ASSUME ClientInv, NEW c \in Clients, Prepare(c)
  PROVE  [Next]_vars /\ Quiet
  <1> DEFINE e == Head(todo[c]).equipment
             r == LotRecipe[runs[c]]
  <1>1. e \in Equipment /\ r \in Recipes
    BY ChoreType, FabAssumption DEF Prepare, Chores
  <1>2. UNCHANGED vars \/ Start(e) \/ SelectRecipe(e, r)
    BY DEF Prepare
  <1> HIDE DEF e, r
  <1>3. "START" \in Commands /\ "SELECT_RECIPE" \in Commands
    BY ClientAssumption
  <1>4. Start(e) => Command("START")
    BY <1>1 DEF Command
  <1>5. SelectRecipe(e, r) => Command("SELECT_RECIPE")
    BY <1>1 DEF Command
  <1>6. [Next]_vars
    BY <1>2, <1>3, <1>4, <1>5 DEF Next
  <1>7. Quiet
    BY <1>2 DEF Quiet, Start, SetEquipmentStatus, SelectRecipe, vars, lotVars, panelVars
  <1> QED
    BY <1>6, <1>7

\* Every step is one of the line's, but for the beats of all equipment.
LEMMA ClientStepsAreNext ==
  ASSUME ClientInv, [ClientNext]_<<vars, clientVars>>
  PROVE  [Next]_vars \/ AllHeard
  <1>1. ASSUME NEW c \in Clients, NEW l \in Lots, NEW kind, Begin(c, l, kind)
        PROVE  UNCHANGED vars
    BY <1>1 DEF Begin
  <1>2. ASSUME NEW c \in Clients, Client(c) PROVE [Next]_vars \/ AllHeard
    <2>1. CASE Prepare(c)
      BY <2>1, PrepareIsACommand
    <2>2. CASE Beat(c)
      BY <2>2 DEF Beat, AllHeard
    <2>3. CASE Ask(c) \/ AskHeld(c) \/ AskDone(c) \/ OutOfTurns(c)
      BY <2>3 DEF Ask, AskHeld, AskDone, OutOfTurns
    <2>4. CASE Report(c)
      BY <2>4, ReportIsAnEvent
    <2>5. CASE ReportRefused(c)
      <3>1. plan[c].equipment \in Equipment /\ RejectProcess(plan[c].equipment)
        BY <2>5, ReportType DEF ReportRefused, Sent
      <3> QED
        BY <3>1 DEF Next
    <2> QED
      BY <1>2, <2>1, <2>2, <2>3, <2>4, <2>5 DEF Client
  <1>3. ASSUME NEW l \in Lots, Order(l) PROVE Next
    BY <1>3 DEF Order, Next
  <1>4. ASSUME Disturb PROVE Next
    <2>1. "IDLE" \in EquipmentStatuses
      BY DEF EquipmentStatuses
    <2> QED
      BY <1>4, <2>1, ClientAssumption DEF Disturb, Next
  <1>5. ASSUME NEW c \in Clients, Break(c) PROVE UNCHANGED vars
    BY <1>5 DEF Break
  <1> QED
    BY <1>1, <1>2, <1>3, <1>4, <1>5 DEF ClientNext

\* The steps that change a lot, a panel or an order.
LEMMA ClientLineCases ==
  ASSUME ClientInv, [ClientNext]_<<vars, clientVars>>
  PROVE  \/ \E c \in Clients : Report(c)
         \/ \E l \in Lots : HoldLot(l) \/ ReleaseLot(l) \/ CreateAndRelease(l)
         \/ \E p \in Panels : ScrapPanel(p)
         \/ Quiet
  <1> DEFINE Touched == \/ \E l \in Lots : HoldLot(l) \/ ReleaseLot(l) \/ CreateAndRelease(l)
                        \/ \E p \in Panels : ScrapPanel(p)
  <1>1. ASSUME NEW e, NEW status, SetEquipmentStatus(e, status) \/ Heartbeat(e, status)
        PROVE  Quiet
    BY <1>1 DEF SetEquipmentStatus, Heartbeat, Quiet
  <1>2. ASSUME NEW e, NEW r, SelectRecipe(e, r) \/ RejectProcess(e) PROVE Quiet
    BY <1>2 DEF SelectRecipe, RejectProcess, Quiet
  <1>3. ASSUME NEW silent, MarkOffline(silent) PROVE Quiet
    BY <1>3 DEF MarkOffline, Quiet
  <1>4. ASSUME UNCHANGED vars PROVE Quiet
    BY <1>4 DEF Quiet, vars, lotVars, panelVars
  <1>5. ASSUME NEW type, Command(type) PROVE Touched \/ Quiet
    BY <1>1, <1>2, <1>5 DEF Command, MaintEnter, MaintExit, Start, Stop
  <1>6. ASSUME NEW c \in Clients, Client(c) PROVE Report(c) \/ Quiet
    <2>1. CASE Prepare(c)
      BY <2>1, PrepareIsACommand
    <2>2. CASE Beat(c)
      BY <2>2 DEF Beat, Quiet
    <2>3. CASE Ask(c) \/ AskHeld(c) \/ AskDone(c) \/ OutOfTurns(c)
      BY <1>4, <2>3 DEF Ask, AskHeld, AskDone, OutOfTurns
    <2>4. CASE ReportRefused(c)
      BY <1>2, <2>4 DEF ReportRefused
    <2> QED
      BY <1>6, <2>1, <2>2, <2>3, <2>4 DEF Client
  <1>7. ASSUME Disturb PROVE Touched \/ Quiet
    BY <1>1, <1>3, <1>5, <1>7 DEF Disturb
  <1>8. ASSUME NEW c \in Clients, Break(c) PROVE Quiet
    BY <1>4, <1>8 DEF Break
  <1>9. ASSUME NEW c \in Clients, NEW l \in Lots, NEW kind, Begin(c, l, kind) PROVE Quiet
    BY <1>4, <1>9 DEF Begin
  <1>10. ASSUME NEW l \in Lots, Order(l) PROVE Touched
    BY <1>10 DEF Order
  <1>11. UNCHANGED <<vars, clientVars>> => Quiet
    BY <1>4
  <1> HIDE DEF Touched
  <1>12. (\E c \in Clients : Report(c)) \/ Touched \/ Quiet
    BY <1>6, <1>7, <1>8, <1>9, <1>10, <1>11 DEF ClientNext
  <1> QED
    BY <1>12 DEF Touched

\* An accepted report: the panel of the plan passes its step in its own lot.
LEMMA ReportEffect ==
  ASSUME ClientInv, NEW c \in Clients, Report(c)
  PROVE  LET l == runs[c]
             p == plan[c].panel
             step == plan[c].step
         IN  /\ l \in Lots /\ p \in Panels /\ step \in Steps /\ PanelLot[p] = l
             /\ step \in AllowedNextSteps(LotProduct[l], lastStep[p])
             /\ panelStatus' = [panelStatus EXCEPT
                   ![p] = IF step = "INSPECT" THEN "COMPLETE" ELSE "PROCESSING"]
             /\ lotStatus' = [lotStatus EXCEPT ![l] = lotStatus'[l]] /\ lotStatus'[l] # "ABSENT"
             /\ lotEquipment' = [lotEquipment EXCEPT ![l] = plan[c].equipment]
             /\ history' = [history EXCEPT ![p] = history[p] \cup {step}]
             /\ lastStep' = IF c \in overtaken THEN lastStep ELSE [lastStep EXCEPT ![p] = step]
             /\ order' = RefreshWorkOrder(panelStatus', l)
             /\ RecipeReady(plan[c].equipment, LotRecipe[l])
  <1> DEFINE l == runs[c]
             e == plan[c].equipment
             p == plan[c].panel
             step == plan[c].step
  <1>1. l \in Lots /\ e \in Equipment /\ p \in Panels /\ step \in Steps
    BY ReportType DEF Report, Sent
  <1>2. /\ PanelLot[p] = l /\ RecipeReady(e, LotRecipe[l])
        /\ step \in AllowedNextSteps(LotProduct[l], lastStep[p])
    BY DEF Report, Accepted, Acceptable, PanelInLot, StepAllowed
  <1>3. Apply(e, l, p, step, LotRecipe[l], "RUN", FALSE, c \in overtaken)
    BY DEF Report
  <1> HIDE DEF l, e, p, step
  <1>4. /\ panelStatus' = [panelStatus EXCEPT ![p] = PanelAfter(step, FALSE, FALSE)]
        /\ lotStatus' = [lotStatus EXCEPT ![l] = LotAfter(l, step, FALSE, panelStatus')]
        /\ lotEquipment' = [lotEquipment EXCEPT ![l] = e]
        /\ history' = [history EXCEPT ![p] = history[p] \cup {step}]
        /\ lastStep' = IF c \in overtaken THEN lastStep ELSE [lastStep EXCEPT ![p] = step]
        /\ order' = RefreshWorkOrder(panelStatus', l)
    BY <1>3 DEF Apply
  <1>5. PanelAfter(step, FALSE, FALSE) = IF step = "INSPECT" THEN "COMPLETE" ELSE "PROCESSING"
    BY DEF PanelAfter
  <1>6. LotAfter(l, step, FALSE, panelStatus') \in {"COMPLETE", "PROCESSING"}
    BY DEF LotAfter
  <1>7. lotStatus' = [lotStatus EXCEPT ![l] = lotStatus'[l]] /\ lotStatus'[l] # "ABSENT"
    BY <1>1, <1>4, <1>6 DEF ClientInv, TypeOK
  <1> QED
    BY <1>1, <1>2, <1>4, <1>5, <1>7 DEF l, e, p, step

\* What refreshing an order can do to the orders.
LEMMA RefreshOnlyCloses ==
  ASSUME TypeOK, NEW l \in Lots, NEW k \in Lots, NEW status
  PROVE  \/ RefreshWorkOrder(status, l)[k] = order[k]
         \/ RefreshWorkOrder(status, l)[k] = "DONE" /\ order[k] # "NONE"
  BY DEF RefreshWorkOrder, TypeOK

\* An order is never taken back, and a closed one is never opened again.
OrdersGoOn ==
  \A l \in Lots : /\ order[l] # "NONE" => order'[l] # "NONE"
                  /\ order[l] = "DONE" => order'[l] = "DONE"

RecordGoesOn == \A p \in Panels : history[p] \subseteq history'[p]

LEMMA LineGoesOn ==
  ASSUME ClientInv, [ClientNext]_<<vars, clientVars>>
  PROVE  OrdersGoOn /\ OrderedLotsExist' /\ InspectedIsFinished' /\ RecordGoesOn
  <1> DEFINE Goal == OrdersGoOn /\ OrderedLotsExist' /\ InspectedIsFinished' /\ RecordGoesOn
  <1>1. TypeOK /\ OrderedLotsExist /\ InspectedIsFinished
    BY DEF ClientInv
  <1>2. PanelLot \in [Panels -> Lots] /\ LotProduct \in [Lots -> Products]
    BY FabAssumption
  <1>3. ASSUME NEW c \in Clients, Report(c) PROVE Goal
    <2> DEFINE l == runs[c]
               p == plan[c].panel
               step == plan[c].step
    <2>1. /\ l \in Lots /\ p \in Panels /\ step \in Steps
          /\ step \in AllowedNextSteps(LotProduct[l], lastStep[p])
          /\ panelStatus' = [panelStatus EXCEPT
                ![p] = IF step = "INSPECT" THEN "COMPLETE" ELSE "PROCESSING"]
          /\ lotStatus' = [lotStatus EXCEPT ![l] = lotStatus'[l]] /\ lotStatus'[l] # "ABSENT"
          /\ history' = [history EXCEPT ![p] = history[p] \cup {step}]
          /\ lastStep' = IF c \in overtaken THEN lastStep ELSE [lastStep EXCEPT ![p] = step]
          /\ order' = RefreshWorkOrder(panelStatus', l)
      BY <1>3, ReportEffect
    <2> HIDE DEF l, p, step
    <2>2. \A k \in Lots : order'[k] = order[k] \/ (order'[k] = "DONE" /\ order[k] # "NONE")
      BY <1>1, <2>1, RefreshOnlyCloses
    <2>3. \A k \in Lots : lotStatus'[k] = "ABSENT" => lotStatus[k] = "ABSENT"
      BY <1>1, <2>1 DEF TypeOK
    <2>4. OrdersGoOn /\ OrderedLotsExist'
      BY <1>1, <2>2, <2>3 DEF OrdersGoOn, OrderedLotsExist
    <2>5. RecordGoesOn
      BY <1>1, <2>1 DEF RecordGoesOn, TypeOK
    <2>6. lastStep[p] = "INSPECT" => step = "INSPECT"
      BY <1>2, <2>1 DEF AllowedNextSteps, Successors, StepsOf, RouteFor, LcdRoute, OledRoute, Products
    <2>7. \A q \in Panels \ {p} : panelStatus'[q] = panelStatus[q] /\ lastStep'[q] = lastStep[q]
      BY <1>1, <2>1 DEF TypeOK
    <2>8. /\ panelStatus'[p] = IF step = "INSPECT" THEN "COMPLETE" ELSE "PROCESSING"
          /\ lastStep'[p] \in {lastStep[p], step}
      BY <1>1, <2>1 DEF TypeOK
    <2>9. InspectedIsFinished'
      BY <1>1, <2>6, <2>7, <2>8 DEF InspectedIsFinished, Finished
    <2> QED
      BY <2>4, <2>5, <2>9
  <1>4. ASSUME NEW l \in Lots, HoldLot(l) PROVE Goal
    BY <1>1, <1>4 DEF HoldLot, panelVars, TypeOK, OrdersGoOn, OrderedLotsExist, InspectedIsFinished,
                      RecordGoesOn
  <1>5. ASSUME NEW l \in Lots, ReleaseLot(l) PROVE Goal
    <2>1. PICK back \in {"WAIT", "PROCESSING"} :
            /\ lotStatus' = [lotStatus EXCEPT ![l] = back]
            /\ panelStatus' = [p \in Panels |->
                                 IF PanelLot[p] = l /\ panelStatus[p] = "HOLD"
                                 THEN back ELSE panelStatus[p]]
            /\ UNCHANGED <<history, lastStep, order>>
      BY <1>5 DEF ReleaseLot
    <2>2. \A p \in Panels : panelStatus'[p] = panelStatus[p]
      BY <1>1, <2>1 DEF InspectedIsFinished
    <2> QED
      BY <1>1, <2>1, <2>2 DEF TypeOK, OrdersGoOn, OrderedLotsExist, InspectedIsFinished, RecordGoesOn
  <1>6. ASSUME NEW l \in Lots, CreateAndRelease(l) PROVE Goal
    BY <1>1, <1>6 DEF CreateAndRelease, panelVars, TypeOK, OrdersGoOn, OrderedLotsExist,
                      InspectedIsFinished, RecordGoesOn
  <1>7. ASSUME NEW p \in Panels, ScrapPanel(p) PROVE Goal
    <2>1. /\ panelStatus' = [panelStatus EXCEPT ![p] = "SCRAP"]
          /\ order' = RefreshWorkOrder(panelStatus', PanelLot[p])
          /\ UNCHANGED <<lotStatus, history, lastStep>>
      BY <1>7 DEF ScrapPanel, lotVars
    <2>2. \A k \in Lots : order'[k] = order[k] \/ (order'[k] = "DONE" /\ order[k] # "NONE")
      BY <1>1, <1>2, <2>1, RefreshOnlyCloses
    <2>3. OrdersGoOn /\ OrderedLotsExist'
      BY <1>1, <2>1, <2>2 DEF OrdersGoOn, OrderedLotsExist
    <2>4. InspectedIsFinished' /\ RecordGoesOn
      BY <1>1, <2>1 DEF TypeOK, InspectedIsFinished, Finished, RecordGoesOn
    <2> QED
      BY <2>3, <2>4
  <1>8. ASSUME Quiet PROVE Goal
    BY <1>1, <1>8 DEF Quiet, lotVars, panelVars, OrdersGoOn, OrderedLotsExist, InspectedIsFinished,
                      RecordGoesOn
  <1> HIDE DEF Goal
  <1>9. Goal
    BY <1>3, <1>4, <1>5, <1>6, <1>7, <1>8, ClientLineCases
  <1> QED
    BY <1>9 DEF Goal

\* The line's own invariants go on with it, the beats included.
LEMMA LineStays ==
  ASSUME ClientInv, [ClientNext]_<<vars, clientVars>>
  PROVE  TypeOK' /\ OrderInv'
  <1>1. TypeOK /\ OrderInv
    BY DEF ClientInv
  <1>2. CASE [Next]_vars
    BY <1>1, <1>2, TypeStays, OrderStays
  <1>3. CASE AllHeard
    BY <1>1, <1>3 DEF AllHeard, TypeOK, OrderInv, OrderClosesWithLastPanel, AbsentPanelsWait,
                      AllFinished, PanelsOf, lotVars, panelVars
  <1> QED
    BY <1>2, <1>3, ClientStepsAreNext

-----------------------------------------------------------------------------
(* The programs, action by action.                                         *)

\* A program that takes no step stays as it was, whatever the line does.
LEMMA ProgramRests ==
  ASSUME ClientInv, OrdersGoOn, RecordGoesOn, NEW d \in Clients,
         stage'[d] = stage[d], runs'[d] = runs[d], todo'[d] = todo[d], plan'[d] = plan[d],
         outcome'[d] = outcome[d],
         d \in overtaken' => d \in overtaken \/ (stage[d] = "report" /\ history'[plan[d].panel] # {})
  PROVE  ProgramOK(d)'
  <1>1. ProgramOK(d)
    BY DEF ClientInv, ProgramsOK
  <1>2. stage[d] = "report" => plan[d].panel \in Panels
    BY ReportType
  <1> QED
    BY <1>1, <1>2 DEF ProgramOK, OrdersGoOn, RecordGoesOn

\* The dispatcher has nothing left for an order only when it is closed.
LEMMA NothingLeftIsClosed ==
  ASSUME ClientInv, NEW l \in Lots, order[l] # "NONE", PanelDone(NextPanel(l))
  PROVE  order[l] = "DONE"
  <1>1. NextPanel(l) \in PanelsOf(l)
    BY NextPanelOfLot
  <1>2. ASSUME NEW p \in PanelsOf(l) PROVE panelStatus[p] \in Finished
    <2>1. p \in Panels
      BY DEF PanelsOf
    <2>2. panelStatus[p] \in {"FAIL", "SCRAP"} \/ PanelDone(p)
      BY NextPanelOfLot
    <2> QED
      BY <2>1, <2>2, DoneIsInspected DEF ClientInv, InspectedIsFinished, Finished
  <1> QED
    BY <1>1, <1>2 DEF ClientInv, OrderInv, OrderClosesWithLastPanel, AllFinished

LEMMA BeginStays ==
  ASSUME ClientInv, NEW c \in Clients, NEW l \in Lots, NEW kind \in {"python", "csharp"},
         Begin(c, l, kind), OrdersGoOn, RecordGoesOn
  PROVE  ClientTypeOK' /\ ProgramsOK'
  <1>1. /\ StageTypes /\ OlderTypes /\ todo \in [Clients -> Seq(Chores)]
        /\ plan \in [Clients -> Plans \cup {None}] /\ disturbed \in 0 .. MaxDisturbances
    BY ClientTypesApart DEF ClientInv
  <1>2. /\ stage[c] = "off" /\ outcome[c] = None /\ order[l] # "NONE"
        /\ stage' = [stage EXCEPT ![c] = "prepare"]
        /\ program' = [program EXCEPT ![c] = kind]
        /\ runs' = [runs EXCEPT ![c] = l]
        /\ todo' = [todo EXCEPT ![c] = Preparation(l)]
        /\ UNCHANGED <<order, plan, refused, outcome, older, overtaken, disturbed>>
    BY DEF Begin, vars
  <1>3. Preparation(l) \in Seq(Chores) /\ Preparation(l) # <<>>
    BY PreparationType
  <1>4. StageTypes'
    BY <1>1, <1>2 DEF StageTypes
  <1>5. OlderTypes'
    BY <1>1, <1>2 DEF OlderTypes, StageTypes
  <1>6. todo' \in [Clients -> Seq(Chores)]
    BY <1>1, <1>2, <1>3
  <1>7. ClientTypeOK'
    BY <1>1, <1>2, <1>4, <1>5, <1>6, ClientTypesApart
  <1>8. ProgramOK(c)
    BY DEF ClientInv, ProgramsOK
  <1>9. /\ stage'[c] = "prepare" /\ runs'[c] = l /\ todo'[c] = Preparation(l)
        /\ order'[l] # "NONE" /\ outcome'[c] = None /\ c \notin overtaken' /\ None # "done"
    BY <1>1, <1>2, <1>8, ClientAssumption DEF StageTypes, ProgramOK
  <1>10. ProgramOK(c)'
    BY <1>3, <1>9 DEF ProgramOK
  <1>11. ASSUME NEW d \in Clients \ {c} PROVE ProgramOK(d)'
    BY <1>1, <1>2, ProgramRests DEF StageTypes
  <1> QED
    BY <1>7, <1>10, <1>11 DEF ProgramsOK

LEMMA PrepareStays ==
  ASSUME ClientInv, NEW c \in Clients, Prepare(c), OrdersGoOn, RecordGoesOn
  PROVE  ClientTypeOK' /\ ProgramsOK'
  <1>1. /\ StageTypes /\ OlderTypes /\ todo \in [Clients -> Seq(Chores)]
        /\ plan \in [Clients -> Plans \cup {None}] /\ disturbed \in 0 .. MaxDisturbances
    BY ClientTypesApart DEF ClientInv
  <1> DEFINE next == IF Len(todo[c]) > 1 THEN "prepare" ELSE "ask"
  <1>2. /\ stage[c] = "prepare"
        /\ stage' = [stage EXCEPT ![c] = next]
        /\ todo' = [todo EXCEPT ![c] = Tail(todo[c])]
        /\ UNCHANGED <<program, runs, plan, refused, outcome, older, overtaken, disturbed>>
    BY DEF Prepare
  <1>3. Tail(todo[c]) \in Seq(Chores) /\ (next = "prepare" => Tail(todo[c]) # <<>>)
    BY <1>2, ChoreType
  <1>4. next \in {"prepare", "ask"}
    OBVIOUS
  <1> HIDE DEF next
  <1>5. StageTypes'
    BY <1>1, <1>2, <1>4 DEF StageTypes
  <1>6. OlderTypes'
    BY <1>1, <1>2, <1>4 DEF OlderTypes, StageTypes
  <1>7. todo' \in [Clients -> Seq(Chores)]
    BY <1>1, <1>2, <1>3
  <1>8. ClientTypeOK'
    BY <1>1, <1>2, <1>5, <1>6, <1>7, ClientTypesApart
  <1>9. ProgramOK(c)
    BY DEF ClientInv, ProgramsOK
  <1>10. /\ stage'[c] = next /\ todo'[c] = Tail(todo[c]) /\ runs'[c] = runs[c]
         /\ outcome'[c] = outcome[c] /\ c \notin overtaken'
    BY <1>1, <1>2, <1>9 DEF StageTypes, ProgramOK
  <1>11. ProgramOK(c)'
    BY <1>2, <1>3, <1>4, <1>9, <1>10 DEF ProgramOK, OrdersGoOn
  <1>12. ASSUME NEW d \in Clients \ {c} PROVE ProgramOK(d)'
    BY <1>1, <1>2, ProgramRests DEF StageTypes
  <1> QED
    BY <1>8, <1>11, <1>12 DEF ProgramsOK

LEMMA AskStays ==
  ASSUME ClientInv, NEW c \in Clients, Ask(c), OrdersGoOn, RecordGoesOn
  PROVE  ClientTypeOK' /\ ProgramsOK'
  <1>1. /\ StageTypes /\ OlderTypes /\ todo \in [Clients -> Seq(Chores)]
        /\ plan \in [Clients -> Plans \cup {None}] /\ disturbed \in 0 .. MaxDisturbances
    BY ClientTypesApart DEF ClientInv
  <1>2. ProgramOK(c)
    BY DEF ClientInv, ProgramsOK
  <1> DEFINE p == NextPanel(runs[c])
             asked == [panel |-> p, step |-> NextStep(p), equipment |-> PickEquipment(NextStep(p))]
  <1>3. /\ stage[c] = "ask" /\ ~PanelDone(p)
        /\ plan' = [plan EXCEPT ![c] = asked]
        /\ older' = [older EXCEPT ![c] = {d \in Clients : stage[d] = "report"}]
        /\ stage' = [stage EXCEPT ![c] = "report"]
        /\ UNCHANGED <<order, program, runs, todo, refused, outcome, overtaken, disturbed>>
    BY DEF Ask, vars
  <1>4. runs[c] \in Lots
    BY <1>2, <1>3 DEF ProgramOK
  <1>5. p \in Panels /\ NextStep(p) \in Steps /\ PickEquipment(NextStep(p)) \in Equipment
    BY <1>3, <1>4, PlanFits
  <1> HIDE DEF p
  <1>6. asked \in Plans
    BY <1>5 DEF Plans
  <1> HIDE DEF asked
  <1>7. StageTypes'
    BY <1>1, <1>3 DEF StageTypes
  <1>8. OlderTypes'
    BY <1>1, <1>3 DEF OlderTypes, StageTypes
  <1>9. plan' \in [Clients -> Plans \cup {None}]
    BY <1>1, <1>3, <1>6
  <1>10. ClientTypeOK'
    BY <1>1, <1>3, <1>7, <1>8, <1>9, ClientTypesApart
  <1>11. /\ stage'[c] = "report" /\ plan'[c] = asked /\ runs'[c] = runs[c]
         /\ outcome'[c] = outcome[c] /\ c \notin overtaken'
    BY <1>1, <1>2, <1>3, <1>6 DEF StageTypes, ProgramOK
  <1>12. ProgramOK(c)'
    BY <1>2, <1>3, <1>6, <1>11 DEF ProgramOK
  <1>13. ASSUME NEW d \in Clients \ {c} PROVE ProgramOK(d)'
    BY <1>1, <1>3, ProgramRests DEF StageTypes
  <1> QED
    BY <1>10, <1>12, <1>13 DEF ProgramsOK

\* A program ends, in whatever way: its report, if it had one, is no longer due.
LEMMA EndStays ==
  ASSUME ClientInv, NEW c \in Clients, OrdersGoOn, RecordGoesOn,
         NEW how \in {"done", "held", "refused", "out of turns", "broken"},
         stage[c] # "off", End(c, how), UNCHANGED <<program, runs, todo, refused>>,
         plan' = plan \/ plan' = [plan EXCEPT ![c] = None],
         Gone(c) \/ (stage[c] = "ask" /\ UNCHANGED older),
         overtaken' = overtaken \ {c}, disturbed' \in 0 .. MaxDisturbances,
         how = "done" => order[runs[c]] = "DONE"
  PROVE  ClientTypeOK' /\ ProgramsOK'
  <1>1. /\ StageTypes /\ OlderTypes /\ todo \in [Clients -> Seq(Chores)]
        /\ plan \in [Clients -> Plans \cup {None}]
    BY ClientTypesApart DEF ClientInv
  <1>2. ProgramOK(c)
    BY DEF ClientInv, ProgramsOK
  <1>3. stage' = [stage EXCEPT ![c] = "off"] /\ outcome' = [outcome EXCEPT ![c] = how]
    BY DEF End
  <1>4. StageTypes'
    BY <1>1, <1>3 DEF StageTypes
  <1>5. OlderTypes'
    <2>1. CASE Gone(c)
      BY <1>1, <1>3, <2>1 DEF OlderTypes, StageTypes, Gone
    <2>2. CASE stage[c] = "ask" /\ UNCHANGED older
      BY <1>1, <1>3, <2>2 DEF OlderTypes, StageTypes
    <2> QED
      BY <2>1, <2>2
  <1>6. plan' \in [Clients -> Plans \cup {None}]
    BY <1>1
  <1>7. ClientTypeOK'
    BY <1>1, <1>4, <1>5, <1>6, ClientTypesApart
  <1>8. /\ stage'[c] = "off" /\ outcome'[c] = how /\ runs'[c] = runs[c] /\ c \notin overtaken'
        /\ runs[c] \in Lots
    BY <1>1, <1>2, <1>3 DEF StageTypes, ProgramOK
  <1>9. ProgramOK(c)'
    BY <1>8 DEF ProgramOK, OrdersGoOn
  <1>10. ASSUME NEW d \in Clients \ {c} PROVE ProgramOK(d)'
    <2>1. plan'[d] = plan[d] /\ stage'[d] = stage[d] /\ outcome'[d] = outcome[d]
      BY <1>1, <1>3 DEF StageTypes
    <2> QED
      BY <2>1, ProgramRests
  <1> QED
    BY <1>7, <1>9, <1>10 DEF ProgramsOK

\* A report was sent, and the program asks again.  It has overtaken those of its
\* panel that were made out before it.
LEMMA SentStays ==
  ASSUME ClientInv, NEW c \in Clients, OrdersGoOn, RecordGoesOn, Sent(c),
         stage' = [stage EXCEPT ![c] = "ask"], UNCHANGED outcome,
         refused' \subseteq Clients,
         \/ overtaken' = overtaken \ {c}
         \/ /\ overtaken' = (overtaken \cup Before(c, plan[c].panel)) \ {c}
            /\ history'[plan[c].panel] # {}
  PROVE  ClientTypeOK' /\ ProgramsOK'
  <1>1. /\ StageTypes /\ OlderTypes /\ todo \in [Clients -> Seq(Chores)]
        /\ plan \in [Clients -> Plans \cup {None}] /\ disturbed \in 0 .. MaxDisturbances
    BY ClientTypesApart DEF ClientInv
  <1>2. ProgramOK(c)
    BY DEF ClientInv, ProgramsOK
  <1>3. /\ stage[c] = "report" /\ plan' = [plan EXCEPT ![c] = None] /\ Gone(c)
        /\ UNCHANGED <<program, runs, todo, disturbed>>
    BY DEF Sent
  <1>4. StageTypes'
    BY <1>1, <1>3 DEF StageTypes
  <1>5. \A d \in Before(c, plan[c].panel) :
          d \in Clients /\ stage[d] = "report" /\ plan[d].panel = plan[c].panel
    BY <1>1 DEF Before, OlderTypes
  <1>6. OlderTypes'
    BY <1>1, <1>3, <1>5 DEF OlderTypes, StageTypes, Gone
  <1>7. plan' \in [Clients -> Plans \cup {None}]
    BY <1>1, <1>3
  <1>8. ClientTypeOK'
    BY <1>1, <1>3, <1>4, <1>6, <1>7, ClientTypesApart
  <1>9. stage'[c] = "ask" /\ outcome'[c] = outcome[c] /\ runs'[c] = runs[c] /\ c \notin overtaken'
    BY <1>1, <1>3 DEF StageTypes
  <1>10. ProgramOK(c)'
    BY <1>2, <1>3, <1>9 DEF ProgramOK, OrdersGoOn
  <1>11. ASSUME NEW d \in Clients \ {c} PROVE ProgramOK(d)'
    <2>1. plan'[d] = plan[d] /\ stage'[d] = stage[d]
      BY <1>1, <1>3 DEF StageTypes
    <2>2. d \in overtaken' => d \in overtaken \/ (stage[d] = "report" /\ history'[plan[d].panel] # {})
      BY <1>5
    <2> QED
      BY <1>3, <2>1, <2>2, ProgramRests
  <1> QED
    BY <1>8, <1>10, <1>11 DEF ProgramsOK

\* A step of the world around leaves the programs alone.
LEMMA OthersStay ==
  ASSUME ClientInv, OrdersGoOn, RecordGoesOn, disturbed' \in 0 .. MaxDisturbances,
         UNCHANGED <<stage, program, runs, todo, plan, refused, outcome, older, overtaken>>
  PROVE  ClientTypeOK' /\ ProgramsOK'
  <1>1. ClientTypeOK'
    BY ClientTypesApart DEF ClientInv, StageTypes, OlderTypes
  <1>2. \A d \in Clients : ProgramOK(d)'
    BY ProgramRests
  <1> QED
    BY <1>1, <1>2 DEF ProgramsOK

\* The number of disturbances keeps its bound.
LEMMA DisturbedType ==
  ASSUME ClientInv
  PROVE  /\ UNCHANGED disturbed => disturbed' \in 0 .. MaxDisturbances
         /\ Disturbed => disturbed' \in 0 .. MaxDisturbances
  <1>1. disturbed \in 0 .. MaxDisturbances
    BY ClientTypesApart DEF ClientInv
  <1>2. MaxDisturbances \in Nat
    BY ClientAssumption
  <1>3. Disturbed => disturbed < MaxDisturbances /\ disturbed' = disturbed + 1
    BY DEF Disturbed
  <1> QED
    BY <1>1, <1>2, <1>3

LEMMA ProgramsStay ==
  ASSUME ClientInv, [ClientNext]_<<vars, clientVars>>
  PROVE  ClientTypeOK' /\ ProgramsOK'
  <1> DEFINE Goal == ClientTypeOK' /\ ProgramsOK'
  <1>0. OrdersGoOn /\ RecordGoesOn
    BY LineGoesOn
  <1>1. ASSUME NEW c \in Clients, NEW l \in Lots, NEW kind \in {"python", "csharp"},
               Begin(c, l, kind)
        PROVE  Goal
    BY <1>0, <1>1, BeginStays
  <1>2. ASSUME NEW c \in Clients, Client(c) PROVE Goal
    <2>1. ASSUME stage[c] = "ask" PROVE overtaken = overtaken \ {c}
      BY <2>1 DEF ClientInv, ProgramsOK, ProgramOK
    <2>2. CASE Prepare(c)
      BY <1>0, <2>2, PrepareStays
    <2>3. CASE Beat(c)
      BY <1>0, <2>3, OthersStay, DisturbedType DEF Beat, clientVars
    <2>4. CASE Ask(c)
      BY <1>0, <2>4, AskStays
    <2>5. CASE AskHeld(c)
      BY <1>0, <2>1, <2>5, EndStays, DisturbedType DEF AskHeld
    <2>6. CASE AskDone(c)
      <3>1. /\ stage[c] = "ask" /\ PanelDone(NextPanel(runs[c])) /\ End(c, "done")
            /\ UNCHANGED <<program, runs, todo, plan, refused, older, overtaken, disturbed>>
        BY <2>6 DEF AskDone
      <3>2. runs[c] \in Lots /\ order[runs[c]] # "NONE"
        BY <3>1 DEF ClientInv, ProgramsOK, ProgramOK
      <3>3. order[runs[c]] = "DONE"
        BY <3>1, <3>2, NothingLeftIsClosed
      <3> QED
        BY <1>0, <2>1, <3>1, <3>3, EndStays, DisturbedType
    <2>7. CASE OutOfTurns(c)
      BY <1>0, <2>1, <2>7, EndStays, DisturbedType DEF OutOfTurns
    <2>8. CASE Report(c)
      <3>1. history'[plan[c].panel] # {}
        <4>1. /\ plan[c].panel \in Panels
              /\ history' = [history EXCEPT
                   ![plan[c].panel] = history[plan[c].panel] \cup {plan[c].step}]
          BY <2>8, ReportEffect
        <4>2. history \in [Panels -> SUBSET Steps]
          BY DEF ClientInv, TypeOK
        <4> QED
          BY <4>1, <4>2
      <3>2. refused' \subseteq Clients
        BY <2>8, ClientTypesApart DEF Report, ClientInv, StageTypes
      <3>3. Sent(c) /\ stage' = [stage EXCEPT ![c] = "ask"] /\ UNCHANGED outcome
            /\ overtaken' = (overtaken \cup Before(c, plan[c].panel)) \ {c}
        BY <2>8 DEF Report
      <3> QED
        BY <1>0, <3>1, <3>2, <3>3, SentStays
    <2>9. CASE ReportRefused(c)
      <3>1. Sent(c) /\ overtaken' = overtaken \ {c}
        BY <2>9 DEF ReportRefused
      <3>2. CASE program[c] = "python"
        <4>1. /\ End(c, "refused") /\ Gone(c) /\ plan' = [plan EXCEPT ![c] = None]
              /\ UNCHANGED <<program, runs, todo, refused, disturbed>> /\ stage[c] = "report"
          BY <2>9, <3>1, <3>2 DEF ReportRefused, Sent
        <4> QED
          BY <1>0, <3>1, <4>1, EndStays, DisturbedType, Zenon
      <3>3. CASE program[c] # "python"
        <4>1. /\ stage' = [stage EXCEPT ![c] = "ask"] /\ UNCHANGED outcome
              /\ refused' = refused \cup {c}
          BY <2>9, <3>3 DEF ReportRefused
        <4>2. refused' \subseteq Clients
          BY <4>1, ClientTypesApart DEF ClientInv, StageTypes
        <4> QED
          BY <1>0, <3>1, <4>1, <4>2, SentStays
      <3> QED
        BY <3>2, <3>3
    <2> HIDE DEF Goal
    <2> QED
      BY <1>2, <2>2, <2>3, <2>4, <2>5, <2>6, <2>7, <2>8, <2>9 DEF Client
  <1>3. ASSUME NEW l \in Lots, Order(l) PROVE Goal
    BY <1>0, <1>3, OthersStay, DisturbedType DEF Order, clientVars
  <1>4. ASSUME Disturb PROVE Goal
    BY <1>0, <1>4, OthersStay, DisturbedType DEF Disturb, Disturbed
  <1>5. ASSUME NEW c \in Clients, Break(c) PROVE Goal
    <2>1. /\ stage[c] # "off" /\ End(c, "broken") /\ Gone(c) /\ overtaken' = overtaken \ {c}
          /\ UNCHANGED <<program, runs, todo, plan, refused>> /\ Disturbed
      BY <1>5 DEF Break, Disturbed
    <2> QED
      BY <1>0, <2>1, EndStays, DisturbedType, Zenon
  <1>6. ASSUME UNCHANGED <<vars, clientVars>> PROVE Goal
    BY <1>0, <1>6, OthersStay, DisturbedType DEF clientVars
  <1> HIDE DEF Goal
  <1>7. Goal
    BY <1>1, <1>2, <1>3, <1>4, <1>5, <1>6 DEF ClientNext
  <1> QED
    BY <1>7 DEF Goal

-----------------------------------------------------------------------------
(* The programs are right.                                                 *)

\* Together the parts are inductive: what a program may report and say depends
\* on what the line promises, and the line on what programs report.
THEOREM ClientsCorrect == ClientSpec => []ClientInv
  <1>1. ClientInit => ClientInv
    <2> SUFFICES ASSUME ClientInit PROVE ClientInv
      OBVIOUS
    <2>1. Init
      BY DEF ClientInit
    <2>2. TypeOK
      BY <2>1, FabAssumption
         DEF Init, FreshLots, TypeOK, LotStatuses, PanelStatuses, OrderStatuses, EquipmentStatuses
    <2>3. OrderInv /\ OrderedLotsExist
      BY <2>1 DEF Init, OrderInv, OrderClosesWithLastPanel, AbsentPanelsWait, OrderedLotsExist
    <2>4. InspectedIsFinished
      BY <2>1, NoneIsNotAStep DEF Init, InspectedIsFinished, Steps
    <2>5. StageTypes /\ OlderTypes
      BY DEF ClientInit, StageTypes, OlderTypes
    <2>6. todo \in [Clients -> Seq(Chores)] /\ plan \in [Clients -> Plans \cup {None}]
      <3>1. <<>> \in Seq(Chores)
        BY EmptySeq
      <3> QED
        BY <3>1 DEF ClientInit
    <2>7. disturbed \in 0 .. MaxDisturbances
      <3>1. disturbed = 0
        BY DEF ClientInit
      <3>2. MaxDisturbances \in Nat
        BY ClientAssumption
      <3> QED
        BY <3>1, <3>2
    <2>8. ProgramsOK
      BY ClientAssumption DEF ClientInit, ProgramsOK, ProgramOK
    <2> QED
      BY <2>2, <2>3, <2>4, <2>5, <2>6, <2>7, <2>8, ClientTypesApart DEF ClientInv
  <1>2. ClientInv /\ [ClientNext]_<<vars, clientVars>> => ClientInv'
    BY LineStays, LineGoesOn, ProgramsStay DEF ClientInv
  <1> QED
    BY <1>1, <1>2, PTL DEF ClientSpec

\* However many programs run, each knows what it is doing, and only those with
\* a report made out are older than another.
THEOREM ClientTypeCorrect == ClientSpec => []ClientTypeOK
  <1>1. ClientInv => ClientTypeOK
    BY DEF ClientInv
  <1> QED
    BY <1>1, ClientsCorrect, PTL

\* A program says done only of an order that is closed, although another may
\* have done the last step, and operators scrapped panels or stopped the lot.
THEOREM DoneIsDone == ClientSpec => []DoneMeansDone
  <1>1. ClientInv => DoneMeansDone
    BY DEF ClientInv, ProgramsOK, ProgramOK, DoneMeansDone
  <1> QED
    BY <1>1, ClientsCorrect, PTL

\* However runs with different recipes overlap, no panel goes through a recipe
\* step but under its own lot's recipe.
THEOREM OrdersAreObeyed == ClientSpec => WorkedAsOrdered
  <1> DEFINE Obeyed == \A p \in Panels :
                         LET e == lotEquipment'[PanelLot[p]]
                         IN  history'[p] # history[p] /\ EquipmentStep(e) \in RecipeSteps
                               => eqRecipe[e] = LotRecipe[PanelLot[p]]
  <1>1. ClientInv /\ [ClientNext]_<<vars, clientVars>> => Obeyed
    <2> SUFFICES ASSUME ClientInv, [ClientNext]_<<vars, clientVars>> PROVE Obeyed
      OBVIOUS
    <2>1. ASSUME NEW c \in Clients, Report(c), NEW p \in Panels, history'[p] # history[p],
                 EquipmentStep(lotEquipment'[PanelLot[p]]) \in RecipeSteps
          PROVE  eqRecipe[lotEquipment'[PanelLot[p]]] = LotRecipe[PanelLot[p]]
      <3>1. p = plan[c].panel /\ PanelLot[p] = runs[c] /\ runs[c] \in Lots
        BY <2>1, ReportEffect DEF ClientInv, TypeOK
      <3>2. lotEquipment'[PanelLot[p]] = plan[c].equipment
        BY <2>1, <3>1, ReportEffect DEF ClientInv, TypeOK
      <3>3. RecipeReady(plan[c].equipment, LotRecipe[runs[c]])
        BY <2>1, ReportEffect
      <3>4. LotRecipe[runs[c]] # None
        BY <3>1, FabAssumption
      <3> QED
        BY <2>1, <3>1, <3>2, <3>3, <3>4 DEF RecipeReady
    <2>2. ASSUME history' = history PROVE Obeyed
      BY <2>2
    <2>3. ASSUME NEW l \in Lots, HoldLot(l) \/ ReleaseLot(l) \/ CreateAndRelease(l) PROVE Obeyed
      BY <2>2, <2>3 DEF HoldLot, ReleaseLot, CreateAndRelease, panelVars
    <2>4. ASSUME NEW p \in Panels, ScrapPanel(p) PROVE Obeyed
      BY <2>2, <2>4 DEF ScrapPanel
    <2>5. ASSUME Quiet PROVE Obeyed
      BY <2>2, <2>5 DEF Quiet, panelVars
    <2>6. ASSUME NEW c \in Clients, Report(c) PROVE Obeyed
      BY <2>1, <2>6
    <2> HIDE DEF Obeyed
    <2> QED
      BY <2>3, <2>4, <2>5, <2>6, ClientLineCases
  <1> QED
    BY <1>1, ClientsCorrect, PTL DEF ClientSpec, WorkedAsOrdered

-----------------------------------------------------------------------------
(* One of them finishes.                                                   *)

\* How far along the line a step is done.
Place(step) ==
  CASE step = "LOAD"                 -> 1
    [] step \in {"CLEAN", "PI"}      -> 2
    [] step \in {"EVAP", "LCD_CELL"} -> 3
    [] step = "ENCAP"                -> 4
    [] step = "INSPECT"              -> 5
    [] OTHER                         -> 0

\* The programs that have begun.
Begun == {c \in Clients : runs[c] # None}

\* The report of c is of the step its panel does next; or of one that it has
\* done already.
Fresh(c) == plan[c].step = NextOperation(LotProduct[runs[c]], lastStep[plan[c].panel])
Stale(c) == Place(plan[c].step) <= Place(lastStep[plan[c].panel])

\* What a program has made out fits its order, its equipment and the route, and
\* is of the panel's next step or of an earlier one; reports of one panel were
\* made out in the order of their steps, and an overtaken one is of no new step.
PlanOK(c) ==
  /\ runs[c] = None <=> stage[c] = "off" /\ outcome[c] = None
  /\ stage[c] \in {"ask", "report"} => todo[c] = <<>>
  /\ \A i \in DOMAIN todo[c] :
       todo[c][i].do = "select" => EquipmentProduct(todo[c][i].equipment) = LotProduct[runs[c]]
  /\ stage[c] = "report" =>
       /\ PanelLot[plan[c].panel] = runs[c]
       /\ plan[c].step = EquipmentStep(plan[c].equipment)
       /\ plan[c].step \in StepsOf(LotProduct[runs[c]])
       /\ Fresh(c) \/ Stale(c)
       /\ c \in overtaken => Stale(c)
       /\ \A d \in older[c] : plan[d].panel = plan[c].panel =>
            Place(plan[d].step) <= Place(plan[c].step)

PlansOK == \A c \in Clients : PlanOK(c)

\* Nobody else has touched the line, the runs do not stand in each other's way
\* for good, and none of them has its order done yet.
LeftAlone ==
  /\ disturbed = 0 /\ RecipesAgree
  /\ \/ \A c \in Begun : Cardinality(PanelsOf(runs[c])) = 1
     \/ \A c, d \in Begun : runs[c] = runs[d]
  /\ \A c \in Clients : outcome[c] \notin {"out of turns", "broken"}
  /\ \A c \in Begun : order[runs[c]] # "DONE"

\* Then nothing is lost, stopped or scrapped;
NothingStopped ==
  /\ lost = {} /\ \A e \in Equipment : eqStatus[e] # "MAINTENANCE"
  /\ \A l \in Lots : lotStatus[l] # "HOLD"
  /\ \A p \in Panels : panelStatus[p] # "SCRAP"
  /\ \A c \in Clients : outcome[c] # "held"

\* a lot stands where the latest step of one of its panels was, and a program
\* has brought it there;
LotsStand ==
  \A l \in Lots : lotEquipment[l] # None =>
    /\ \E c \in Begun : runs[c] = l
    /\ \E p \in PanelsOf(l) : lastStep[p] = EquipmentStep(lotEquipment[l])

\* what a program has prepared stays prepared;
IsIn(x, s) == \E i \in DOMAIN s : s[i] = x

ToDo(c, do, e) == IsIn([do |-> do, equipment |-> e], todo[c])

Prepared(c) ==
  /\ \A e \in Equipment : eqStatus[e] = "RUN" \/ ToDo(c, "start", e)
  /\ \A e \in Equipment : EquipmentProduct(e) = LotProduct[runs[c]] =>
       eqRecipe[e] = LotRecipe[runs[c]] \/ ToDo(c, "select", e)

\* and every lot has a program that goes on with it, or another lot is ahead.
GoesOn(c) == stage[c] \in {"prepare", "ask"} \/ (stage[c] = "report" /\ Fresh(c))

Ahead(l) ==
  \E d \in Begun : \E q \in PanelsOf(runs[d]) : \A p \in PanelsOf(l) :
    Place(lastStep[q]) > Place(lastStep[p])

Hope(l) == (\E d \in Clients : runs[d] = l /\ GoesOn(d)) \/ Ahead(l)

\* Meanwhile the host's promises hold.
LineIsSound ==
  NoStepSkipped /\ OneStationPerLot /\ LotAgreesWithPanels /\ WaitingLotIsUntouched

Calm == NothingStopped /\ LotsStand /\ \A c \in Begun : Prepared(c) /\ Hope(runs[c])

Peace == LeftAlone => Calm

PeaceInv == ClientInv /\ LineIsSound /\ PlansOK /\ Peace

-----------------------------------------------------------------------------
(* Lemmas on the route and the line.                                       *)

LEMMA PlaceType ==
  ASSUME NEW step
  PROVE  Place(step) \in 0 .. 5
  BY DEF Place

\* After each step one comes next, further along the line; all else that is
\* allowed is to repeat the step.
LEMMA NextComesLater ==
  ASSUME NEW product \in Products, NEW last \in StepsOf(product) \cup {None}
  PROVE  /\ NextOperation(product, last) # None =>
              Place(NextOperation(product, last)) > Place(last)
         /\ \A step \in AllowedNextSteps(product, last) :
              step = last \/ step = NextOperation(product, last)
  <1>1. Place(None) = 0
    BY NoneIsNotAStep DEF Place, Steps
  <1>2. None \notin StepsOf(product)
    BY RouteSteps
  <1>3. CASE last = None
    <2>1. NextOperation(product, last) = "LOAD" /\ AllowedNextSteps(product, last) = {"LOAD"}
      BY <1>2, <1>3 DEF NextOperation, AllowedNextSteps, RouteFor, OledRoute, LcdRoute, Products
    <2> QED
      BY <1>1, <1>3, <2>1 DEF Place
  <1>4. ASSUME NEW next, last \in StepsOf(product), Successors(product, last) = {next},
               Place(next) > Place(last)
        PROVE  /\ Place(NextOperation(product, last)) > Place(last)
               /\ \A step \in AllowedNextSteps(product, last) :
                    step = last \/ step = NextOperation(product, last)
    <2>1. NextOperation(product, last) = next
      BY <1>4 DEF NextOperation
    <2> QED
      BY <1>4, <2>1 DEF AllowedNextSteps
  <1>5. CASE last = "INSPECT"
    <2>1. Successors(product, last) = {}
      BY <1>5 DEF Successors, RouteFor, OledRoute, LcdRoute, Products
    <2>2. last \in StepsOf(product)
      BY <1>5, OledSteps, LcdSteps DEF Products
    <2> QED
      BY <2>1, <2>2 DEF NextOperation, AllowedNextSteps
  <1>6. CASE product = "OLED" /\ last \in {"LOAD", "CLEAN", "EVAP", "ENCAP"}
    <2>1. /\ Successors("OLED", "LOAD") = {"CLEAN"}
          /\ Successors("OLED", "CLEAN") = {"EVAP"}
          /\ Successors("OLED", "EVAP") = {"ENCAP"}
          /\ Successors("OLED", "ENCAP") = {"INSPECT"}
      BY DEF Successors, RouteFor, OledRoute
    <2>2. \E next : Successors(product, last) = {next} /\ Place(next) > Place(last)
      BY <1>6, <2>1 DEF Place
    <2> QED
      BY <1>4, <1>6, <2>2, OledSteps
  <1>7. CASE product = "LCD" /\ last \in {"LOAD", "PI", "LCD_CELL"}
    <2>1. /\ Successors("LCD", "LOAD") = {"PI"}
          /\ Successors("LCD", "PI") = {"LCD_CELL"}
          /\ Successors("LCD", "LCD_CELL") = {"INSPECT"}
      BY DEF Successors, RouteFor, LcdRoute
    <2>2. \E next : Successors(product, last) = {next} /\ Place(next) > Place(last)
      BY <1>7, <2>1 DEF Place
    <2> QED
      BY <1>4, <1>7, <2>2, LcdSteps
  <1> QED
    BY <1>3, <1>5, <1>6, <1>7, OledSteps, LcdSteps DEF Products

\* A panel's latest step is one of its route.
LEMMA LastIsOnRoute ==
  ASSUME NoStepSkipped, NEW p \in Panels
  PROVE  lastStep[p] \in StepsOf(LotProduct[PanelLot[p]]) \cup {None}
  BY DEF NoStepSkipped, IsRoutePrefix, ProductOf

\* An element of two sequences is one of their concatenation.
LEMMA InEither ==
  ASSUME NEW S, NEW s \in Seq(S), NEW t \in Seq(S), NEW x, IsIn(x, s) \/ IsIn(x, t)
  PROVE  IsIn(x, s \o t)
  <1>1. /\ DOMAIN s = 1 .. Len(s) /\ DOMAIN t = 1 .. Len(t)
        /\ Len(s) \in Nat /\ Len(t) \in Nat
    BY LenProperties
  <1>2. /\ s \o t \in Seq(S) /\ Len(s \o t) = Len(s) + Len(t)
        /\ \A i \in 1 .. Len(s) + Len(t) :
             (s \o t)[i] = IF i <= Len(s) THEN s[i] ELSE t[i - Len(s)]
    BY ConcatProperties
  <1>3. DOMAIN (s \o t) = 1 .. Len(s) + Len(t)
    BY <1>2, LenProperties
  <1>4. ASSUME NEW i \in DOMAIN s PROVE \E j \in DOMAIN (s \o t) : (s \o t)[j] = s[i]
    <2>1. i \in 1 .. Len(s) + Len(t) /\ i <= Len(s)
      BY <1>1
    <2> QED
      BY <1>2, <1>3, <2>1
  <1>5. ASSUME NEW i \in DOMAIN t PROVE \E j \in DOMAIN (s \o t) : (s \o t)[j] = t[i]
    <2>1. i + Len(s) \in 1 .. Len(s) + Len(t) /\ ~(i + Len(s) <= Len(s)) /\ i + Len(s) - Len(s) = i
      BY <1>1
    <2> QED
      BY <1>2, <1>3, <2>1
  <1> QED
    BY <1>4, <1>5 DEF IsIn

\* All equipment of S has its place in the line of S, and nothing else has.
LEMMA LineHasAll ==
  ASSUME NEW S
  PROVE  /\ \A e \in S \cap EquipmentIds : \E i \in DOMAIN LineOf(S) : LineOf(S)[i] = e
         /\ \A i \in DOMAIN LineOf(S) : LineOf(S)[i] \in S
  <1>1. ASSUME NEW i \in 1 .. 8
        PROVE  AtPlace(i, S) \in Seq(S) /\ (LineOrder[i] \in S => IsIn(LineOrder[i], AtPlace(i, S)))
    BY DEF AtPlace, IsIn
  <1>2. ASSUME NEW s \in Seq(S), NEW i \in 1 .. 8, NEW x, IsIn(x, s) \/ IsIn(x, AtPlace(i, S))
        PROVE  IsIn(x, s \o AtPlace(i, S))
    BY <1>1, <1>2, InEither
  <1>3. ASSUME NEW s \in Seq(S), NEW i \in 1 .. 8 PROVE s \o AtPlace(i, S) \in Seq(S)
    BY <1>1, ConcatProperties
  <1> DEFINE to2 == AtPlace(1, S) \o AtPlace(2, S)
             to3 == to2 \o AtPlace(3, S)
             to4 == to3 \o AtPlace(4, S)
             to5 == to4 \o AtPlace(5, S)
             to6 == to5 \o AtPlace(6, S)
             to7 == to6 \o AtPlace(7, S)
             to8 == to7 \o AtPlace(8, S)
  <1>4. LineOf(S) = to8
    BY DEF LineOf
  <1>5. to2 \in Seq(S) /\ \A x : IsIn(x, AtPlace(1, S)) \/ IsIn(x, AtPlace(2, S)) => IsIn(x, to2)
    BY <1>1, <1>2, <1>3
  <1> HIDE DEF to2
  <1>6. to3 \in Seq(S) /\ \A x : IsIn(x, to2) \/ IsIn(x, AtPlace(3, S)) => IsIn(x, to3)
    BY <1>2, <1>3, <1>5
  <1> HIDE DEF to3
  <1>7. to4 \in Seq(S) /\ \A x : IsIn(x, to3) \/ IsIn(x, AtPlace(4, S)) => IsIn(x, to4)
    BY <1>2, <1>3, <1>6
  <1> HIDE DEF to4
  <1>8. to5 \in Seq(S) /\ \A x : IsIn(x, to4) \/ IsIn(x, AtPlace(5, S)) => IsIn(x, to5)
    BY <1>2, <1>3, <1>7
  <1> HIDE DEF to5
  <1>9. to6 \in Seq(S) /\ \A x : IsIn(x, to5) \/ IsIn(x, AtPlace(6, S)) => IsIn(x, to6)
    BY <1>2, <1>3, <1>8
  <1> HIDE DEF to6
  <1>10. to7 \in Seq(S) /\ \A x : IsIn(x, to6) \/ IsIn(x, AtPlace(7, S)) => IsIn(x, to7)
    BY <1>2, <1>3, <1>9
  <1> HIDE DEF to7
  <1>11. to8 \in Seq(S) /\ \A x : IsIn(x, to7) \/ IsIn(x, AtPlace(8, S)) => IsIn(x, to8)
    BY <1>2, <1>3, <1>10
  <1> HIDE DEF to8
  <1>12. ASSUME NEW i \in 1 .. 8, LineOrder[i] \in S PROVE IsIn(LineOrder[i], to8)
    <2>1. IsIn(LineOrder[i], AtPlace(i, S))
      BY <1>1, <1>12
    <2>2. i \in {1, 2, 3, 4, 5, 6, 7, 8}
      OBVIOUS
    <2> QED
      BY <1>5, <1>6, <1>7, <1>8, <1>9, <1>10, <1>11, <2>1, <2>2
  <1>13. \A e \in S \cap EquipmentIds : IsIn(e, to8)
    BY <1>12, LinePlaces
  <1>14. \A i \in DOMAIN to8 : to8[i] \in S
    BY <1>11, LenProperties, ElementOfSeq
  <1> QED
    BY <1>4, <1>13, <1>14 DEF IsIn

\* What is to be prepared: all equipment started, the lot's own set.
LEMMA PreparationIsWhole ==
  ASSUME NEW l \in Lots
  PROVE  LET s == Preparation(l)
         IN  /\ \A e \in Equipment : IsIn([do |-> "start", equipment |-> e], s)
             /\ \A e \in Equipment : EquipmentProduct(e) = LotProduct[l] =>
                  IsIn([do |-> "select", equipment |-> e], s)
             /\ \A i \in DOMAIN s :
                  s[i].do = "select" => EquipmentProduct(s[i].equipment) = LotProduct[l]
  <1> DEFINE mine == {e \in Equipment : EquipmentProduct(e) = LotProduct[l]}
             own == LineOf(mine)
             starts == [i \in DOMAIN LineEquipment |-> [do |-> "start", equipment |-> LineEquipment[i]]]
             selects == [i \in DOMAIN own |-> [do |-> "select", equipment |-> own[i]]]
             whole == starts \o selects
  <1>0. Preparation(l) = whole
    BY DEF Preparation
  <1>1. LineEquipment \in Seq(Equipment)
    BY LineIsThere
  <1>2. own \in Seq(Equipment)
    BY LineOfType, SeqMonotonic
  <1>3. /\ \A e \in Equipment : \E i \in DOMAIN LineEquipment : LineEquipment[i] = e
        /\ \A i \in DOMAIN LineEquipment : LineEquipment[i] \in Equipment
    BY LineHasAll, FabAssumption DEF LineEquipment
  <1>4. /\ \A e \in mine : \E i \in DOMAIN own : own[i] = e
        /\ \A i \in DOMAIN own : own[i] \in mine
    <2>1. mine \cap EquipmentIds = mine
      BY FabAssumption
    <2> HIDE DEF mine
    <2> QED
      BY <2>1, LineHasAll
  <1> HIDE DEF own
  <1>5. starts \in Seq(Chores) /\ Len(starts) = Len(LineEquipment)
    <2>1. \A i \in DOMAIN LineEquipment : starts[i] \in Chores
      BY <1>3 DEF Chores
    <2> QED
      BY <1>1, <2>1, MappedSequence
  <1>6. selects \in Seq(Chores) /\ Len(selects) = Len(own)
    <2>1. \A i \in DOMAIN own : selects[i] \in Chores
      BY <1>4 DEF Chores
    <2> QED
      BY <1>2, <2>1, MappedSequence
  <1>7. \A e \in Equipment : IsIn([do |-> "start", equipment |-> e], starts)
    BY <1>3 DEF IsIn
  <1>8. \A e \in mine : IsIn([do |-> "select", equipment |-> e], selects)
    BY <1>4 DEF IsIn
  <1>9. \A i \in DOMAIN starts : starts[i].do = "start"
    OBVIOUS
  <1>10. \A i \in DOMAIN selects : EquipmentProduct(selects[i].equipment) = LotProduct[l]
    BY <1>4
  <1> HIDE DEF mine, starts, selects
  <1>11. \A e \in Equipment : IsIn([do |-> "start", equipment |-> e], whole)
    BY <1>5, <1>6, <1>7, InEither
  <1>12. \A e \in mine : IsIn([do |-> "select", equipment |-> e], whole)
    BY <1>5, <1>6, <1>8, InEither
  <1>13. ASSUME NEW i \in DOMAIN whole, whole[i].do = "select"
         PROVE  EquipmentProduct(whole[i].equipment) = LotProduct[l]
    <2>1. /\ Len(starts) \in Nat /\ Len(selects) \in Nat
          /\ DOMAIN starts = 1 .. Len(starts) /\ DOMAIN selects = 1 .. Len(selects)
      BY <1>5, <1>6, LenProperties
    <2>2. /\ whole \in Seq(Chores) /\ Len(whole) = Len(starts) + Len(selects)
          /\ \A j \in 1 .. Len(starts) + Len(selects) :
               whole[j] = IF j <= Len(starts) THEN starts[j] ELSE selects[j - Len(starts)]
      BY <1>5, <1>6, ConcatProperties
    <2>3. i \in 1 .. Len(starts) + Len(selects)
      BY <2>2, LenProperties
    <2> HIDE DEF whole
    <2>4. CASE i <= Len(starts)
      <3>1. i \in DOMAIN starts /\ whole[i] = starts[i]
        BY <2>1, <2>2, <2>3, <2>4
      <3> QED
        BY <1>9, <1>13, <3>1
    <2>5. CASE ~(i <= Len(starts))
      <3>1. i - Len(starts) \in DOMAIN selects /\ whole[i] = selects[i - Len(starts)]
        BY <2>1, <2>2, <2>3, <2>5
      <3> QED
        BY <1>10, <3>1
    <2> QED
      BY <2>4, <2>5
  <1> HIDE DEF whole
  <1> QED
    BY <1>0, <1>11, <1>12, <1>13 DEF mine

\* What is left of a sequence without its head.
LEMMA HeadAndRest ==
  ASSUME NEW S, NEW s \in Seq(S), s # <<>>
  PROVE  /\ \A x : IsIn(x, s) => x = Head(s) \/ IsIn(x, Tail(s))
         /\ \A i \in DOMAIN Tail(s) : i + 1 \in DOMAIN s /\ Tail(s)[i] = s[i + 1]
         /\ 1 \in DOMAIN s /\ Head(s) = s[1]
         /\ ~(Len(s) > 1) => Tail(s) = <<>>
  <1>1. /\ DOMAIN s = 1 .. Len(s) /\ Len(s) \in Nat /\ Len(s) # 0
    BY LenProperties, EmptySeq
  <1>2. /\ Tail(s) \in Seq(S) /\ Len(Tail(s)) = Len(s) - 1
        /\ \A i \in 1 .. Len(Tail(s)) : Tail(s)[i] = s[i + 1]
    BY HeadTailProperties
  <1>3. DOMAIN Tail(s) = 1 .. Len(s) - 1
    BY <1>2, LenProperties
  <1>4. Head(s) = s[1]
    OBVIOUS
  <1>5. ASSUME NEW i \in DOMAIN s PROVE s[i] = Head(s) \/ IsIn(s[i], Tail(s))
    <2>1. CASE i = 1
      BY <1>4, <2>1
    <2>2. CASE i # 1
      <3>1. i - 1 \in 1 .. Len(s) - 1 /\ i - 1 + 1 = i
        BY <1>1, <2>2
      <3>2. Tail(s)[i - 1] = s[i]
        BY <1>2, <3>1
      <3> QED
        BY <1>3, <3>1, <3>2 DEF IsIn
    <2> QED
      BY <2>1, <2>2
  <1>6. \A x : IsIn(x, s) => x = Head(s) \/ IsIn(x, Tail(s))
    BY <1>5 DEF IsIn
  <1>7. \A i \in DOMAIN Tail(s) : i + 1 \in DOMAIN s /\ Tail(s)[i] = s[i + 1]
    BY <1>1, <1>2, <1>3
  <1>8. ~(Len(s) > 1) => Tail(s) = <<>>
    BY <1>1, <1>2, EmptySeq
  <1> QED
    BY <1>1, <1>4, <1>6, <1>7, <1>8

\* What an accepted report does to equipment and lot.
LEMMA ReportOnLine ==
  ASSUME ClientInv, NEW c \in Clients, Report(c)
  PROVE  LET l == runs[c]
             e == plan[c].equipment
         IN  /\ e \in Equipment
             /\ plan[c].step = EquipmentStep(e) /\ EquipmentProduct(e) \in {None, LotProduct[l]}
             /\ lotStatus'[l] \in {"COMPLETE", "PROCESSING"}
             /\ lotStatus'[l] = "COMPLETE" => AllFinished(panelStatus', l)
             /\ eqStatus' = [eqStatus EXCEPT ![e] = IF lotStatus'[l] = "COMPLETE" THEN "IDLE" ELSE "RUN"]
             /\ eqRecipe' = [eqRecipe EXCEPT ![e] = LotRecipe[l]]
             /\ lost' = lost \ {e}
  <1> DEFINE l == runs[c]
             e == plan[c].equipment
             p == plan[c].panel
             step == plan[c].step
  <1>1. l \in Lots /\ e \in Equipment /\ p \in Panels /\ step \in Steps
    BY ReportType DEF Report, Sent
  <1>2. step = EquipmentStep(e) /\ EquipmentProduct(e) \in {None, LotProduct[l]}
    BY DEF Report, Accepted, Acceptable, StepMatchesEquipment, ProductMatches
  <1>3. Apply(e, l, p, step, LotRecipe[l], "RUN", FALSE, c \in overtaken)
    BY DEF Report
  <1>4. LotRecipe[l] # None /\ lotStatus \in [Lots -> LotStatuses \cup {"ABSENT"}]
    BY <1>1, FabAssumption DEF ClientInv, TypeOK
  <1> HIDE DEF l, e, p, step
  <1>5. /\ lotStatus' = [lotStatus EXCEPT ![l] = LotAfter(l, step, FALSE, panelStatus')]
        /\ eqStatus' = [eqStatus EXCEPT ![e] =
              IF LotAfter(l, step, FALSE, panelStatus') = "COMPLETE" THEN "IDLE" ELSE "RUN"]
        /\ eqRecipe' = [eqRecipe EXCEPT ![e] = LotRecipe[l]]
        /\ lost' = lost \ {e}
    BY <1>3, <1>4 DEF Apply
  <1>6. lotStatus'[l] = LotAfter(l, step, FALSE, panelStatus')
    BY <1>1, <1>4, <1>5
  <1>7. /\ LotAfter(l, step, FALSE, panelStatus') \in {"COMPLETE", "PROCESSING"}
        /\ LotAfter(l, step, FALSE, panelStatus') = "COMPLETE" => AllFinished(panelStatus', l)
    BY DEF LotAfter
  <1> QED
    BY <1>1, <1>2, <1>5, <1>6, <1>7 DEF l, e, p, step

\* The host's promises are kept, the beats included.
LEMMA SoundStays ==
  ASSUME ClientInv, LineIsSound, [ClientNext]_<<vars, clientVars>>
  PROVE  LineIsSound'
  <1>1. TypeOK
    BY DEF ClientInv
  <1>2. NoStepSkipped /\ OneStationPerLot /\ LotAgreesWithPanels /\ WaitingLotIsUntouched
    BY DEF LineIsSound
  <1>3. CASE [Next]_vars
    <2>1. NoStepSkipped' /\ OneStationPerLot'
      BY <1>1, <1>2, <1>3, StepsStay, StationStays
    <2>2. LotAgreesWithPanels' /\ WaitingLotIsUntouched'
      BY <1>1, <1>2, <1>3, AgreementStays, UntouchedStays
    <2> QED
      BY <2>1, <2>2 DEF LineIsSound
  <1>4. CASE AllHeard
    <2>1. UNCHANGED <<lotStatus, lotStep, lotEquipment, panelStatus, history, lastStep, eqLot>>
      BY <1>4 DEF AllHeard, lotVars, panelVars
    <2>2. NoStepSkipped' /\ OneStationPerLot'
      BY <1>2, <2>1 DEF NoStepSkipped, OneStationPerLot, ProductOf
    <2>3. LotAgreesWithPanels' /\ WaitingLotIsUntouched'
      BY <1>2, <2>1 DEF LotAgreesWithPanels, WaitingLotIsUntouched, PanelsOf
    <2> QED
      BY <2>2, <2>3 DEF LineIsSound
  <1> QED
    BY <1>3, <1>4, ClientStepsAreNext

-----------------------------------------------------------------------------
(* What the programs have made out.                                        *)

\* Where an accepted report takes its panel: to the step reported, also when it
\* has been overtaken, since then it repeats the step.
LEMMA ReportMoves ==
  ASSUME ClientInv, NoStepSkipped, NEW c \in Clients, PlanOK(c), Report(c)
  PROVE  LET p == plan[c].panel
             step == plan[c].step
         IN  /\ p \in Panels
             /\ lastStep' = [lastStep EXCEPT ![p] = step]
             /\ Place(lastStep[p]) <= Place(step)
             /\ step = lastStep[p] \/ step = NextOperation(LotProduct[runs[c]], lastStep[p])
  <1> DEFINE p == plan[c].panel
             step == plan[c].step
             product == LotProduct[runs[c]]
  <1>1. /\ p \in Panels /\ step \in Steps /\ PanelLot[p] = runs[c] /\ runs[c] \in Lots
        /\ step \in AllowedNextSteps(product, lastStep[p])
        /\ lastStep' = IF c \in overtaken THEN lastStep ELSE [lastStep EXCEPT ![p] = step]
    BY ReportEffect
  <1>2. c \in overtaken => Place(step) <= Place(lastStep[p])
    BY DEF PlanOK, Stale, Report, Sent
  <1>3. product \in Products /\ lastStep[p] \in StepsOf(product) \cup {None}
    <2>1. lastStep[p] \in StepsOf(LotProduct[PanelLot[p]]) \cup {None}
      BY <1>1, LastIsOnRoute
    <2> QED
      BY <1>1, <2>1, FabAssumption
  <1>4. lastStep \in [Panels -> Steps \cup {None}] /\ step # None
    BY <1>1, NoneIsNotAStep DEF ClientInv, TypeOK
  <1> HIDE DEF p, step, product
  <1>5. /\ step = lastStep[p] \/ step = NextOperation(product, lastStep[p])
        /\ step = NextOperation(product, lastStep[p]) => Place(step) > Place(lastStep[p])
    BY <1>1, <1>3, <1>4, NextComesLater
  <1>6. Place(step) \in Nat /\ Place(lastStep[p]) \in Nat
    BY PlaceType
  <1>7. Place(lastStep[p]) <= Place(step)
    BY <1>5, <1>6
  <1>8. c \in overtaken => step = lastStep[p]
    BY <1>2, <1>5, <1>6
  <1>9. lastStep' = [lastStep EXCEPT ![p] = step]
    BY <1>1, <1>4, <1>8
  <1> QED
    BY <1>1, <1>5, <1>7, <1>9 DEF p, step, product

\* A program that takes no step keeps what it has made out, as long as panels
\* only go on, and its report is of no new step once it is overtaken.
LEMMA PlanRests ==
  ASSUME NEW d \in Clients, PlanOK(d),
         stage'[d] = stage[d], runs'[d] = runs[d], todo'[d] = todo[d], plan'[d] = plan[d],
         outcome'[d] = outcome[d],
         older'[d] \subseteq older[d], \A x \in older'[d] : plan'[x] = plan[x],
         LET p == plan[d].panel
         IN  stage[d] = "report" =>
               /\ Place(lastStep[p]) <= Place(lastStep'[p])
               /\ lastStep'[p] = lastStep[p] \/ Place(plan[d].step) <= Place(lastStep'[p])
               /\ d \in overtaken' => d \in overtaken \/ Place(plan[d].step) <= Place(lastStep'[p])
  PROVE  PlanOK(d)'
  <1> DEFINE p == plan[d].panel
             step == plan[d].step
  <1>1. /\ runs[d] = None <=> stage[d] = "off" /\ outcome[d] = None
        /\ stage[d] \in {"ask", "report"} => todo[d] = <<>>
        /\ \A i \in DOMAIN todo[d] :
             todo[d][i].do = "select" => EquipmentProduct(todo[d][i].equipment) = LotProduct[runs[d]]
    BY DEF PlanOK
  <1>2. CASE stage[d] = "report"
    <2>1. /\ PanelLot[p] = runs[d] /\ step = EquipmentStep(plan[d].equipment)
          /\ step \in StepsOf(LotProduct[runs[d]])
          /\ step = NextOperation(LotProduct[runs[d]], lastStep[p]) \/ Place(step) <= Place(lastStep[p])
          /\ d \in overtaken => Place(step) <= Place(lastStep[p])
          /\ \A x \in older[d] : plan[x].panel = p => Place(plan[x].step) <= Place(step)
      BY <1>2 DEF PlanOK, Fresh, Stale
    <2>2. Place(step) \in Nat /\ Place(lastStep[p]) \in Nat /\ Place(lastStep'[p]) \in Nat
      BY PlaceType
    <2>3. /\ Place(lastStep[p]) <= Place(lastStep'[p])
          /\ lastStep'[p] = lastStep[p] \/ Place(step) <= Place(lastStep'[p])
          /\ d \in overtaken' => d \in overtaken \/ Place(step) <= Place(lastStep'[p])
      BY <1>2
    <2>4. \A x \in older'[d] : plan'[x].panel = p => Place(plan'[x].step) <= Place(step)
      BY <2>1
    <2> HIDE DEF p, step
    <2>5. step = NextOperation(LotProduct[runs[d]], lastStep'[p]) \/ Place(step) <= Place(lastStep'[p])
      BY <2>1, <2>2, <2>3
    <2>6. d \in overtaken' => Place(step) <= Place(lastStep'[p])
      BY <2>1, <2>2, <2>3
    <2> QED
      BY <1>1, <1>2, <2>1, <2>4, <2>5, <2>6 DEF PlanOK, Fresh, Stale, p, step
  <1>3. CASE stage[d] # "report"
    BY <1>1, <1>3 DEF PlanOK
  <1> QED
    BY <1>2, <1>3

\* In particular while no panel goes on.
LEMMA PlanRestsQuietly ==
  ASSUME NEW d \in Clients, PlanOK(d), lastStep' = lastStep,
         stage'[d] = stage[d], runs'[d] = runs[d], todo'[d] = todo[d], plan'[d] = plan[d],
         outcome'[d] = outcome[d], d \in overtaken' => d \in overtaken,
         older'[d] \subseteq older[d], \A x \in older'[d] : plan'[x] = plan[x]
  PROVE  PlanOK(d)'
  <1>1. Place(lastStep[plan[d].panel]) \in Nat
    BY PlaceType
  <1>2. Place(lastStep[plan[d].panel]) <= Place(lastStep'[plan[d].panel])
    BY <1>1
  <1> QED
    BY <1>2, PlanRests

\* A program begins, with its whole preparation before it.
LEMMA BeginPlans ==
  ASSUME ClientInv, PlansOK, NEW c \in Clients, NEW l \in Lots, NEW kind, Begin(c, l, kind)
  PROVE  PlansOK'
  <1>1. StageTypes /\ todo \in [Clients -> Seq(Chores)]
    BY ClientTypesApart DEF ClientInv
  <1>2. /\ stage' = [stage EXCEPT ![c] = "prepare"] /\ outcome[c] = None
        /\ runs' = [runs EXCEPT ![c] = l] /\ todo' = [todo EXCEPT ![c] = Preparation(l)]
        /\ UNCHANGED <<lastStep, plan, outcome, older, overtaken>>
    BY DEF Begin, vars
  <1>3. PlanOK(c)'
    <2>1. stage'[c] = "prepare" /\ runs'[c] = l /\ todo'[c] = Preparation(l) /\ l # None
      BY <1>1, <1>2, FabAssumption DEF StageTypes
    <2> QED
      BY <2>1, PreparationIsWhole DEF PlanOK
  <1>4. ASSUME NEW d \in Clients \ {c} PROVE PlanOK(d)'
    <2>1. PlanOK(d)
      BY DEF PlansOK
    <2> QED
      BY <1>1, <1>2, <2>1, PlanRestsQuietly DEF StageTypes
  <1> QED
    BY <1>3, <1>4 DEF PlansOK

\* A command of its preparation is sent, and is no longer to do.
LEMMA PreparePlans ==
  ASSUME ClientInv, PlansOK, NEW c \in Clients, Prepare(c)
  PROVE  PlansOK'
  <1>1. StageTypes /\ todo \in [Clients -> Seq(Chores)]
    BY ClientTypesApart DEF ClientInv
  <1>2. /\ stage[c] = "prepare"
        /\ stage' = [stage EXCEPT ![c] = IF Len(todo[c]) > 1 THEN "prepare" ELSE "ask"]
        /\ todo' = [todo EXCEPT ![c] = Tail(todo[c])]
        /\ UNCHANGED <<runs, plan, outcome, older, overtaken>>
    BY DEF Prepare
  <1>3. lastStep' = lastStep
    BY PrepareIsACommand DEF Quiet, panelVars
  <1>4. PlanOK(c)'
    <2>1. todo[c] \in Seq(Chores) /\ todo[c] # <<>>
      BY <1>1, <1>2, ChoreType
    <2>2. /\ \A i \in DOMAIN Tail(todo[c]) : i + 1 \in DOMAIN todo[c] /\ Tail(todo[c])[i] = todo[c][i + 1]
          /\ ~(Len(todo[c]) > 1) => Tail(todo[c]) = <<>>
      BY <2>1, HeadAndRest
    <2>3. PlanOK(c)
      BY DEF PlansOK
    <2>4. /\ todo'[c] = Tail(todo[c]) /\ runs'[c] = runs[c] /\ outcome'[c] = outcome[c]
          /\ stage'[c] = IF Len(todo[c]) > 1 THEN "prepare" ELSE "ask"
      BY <1>1, <1>2 DEF StageTypes
    <2>5. runs[c] # None
      BY <1>2, <2>3 DEF PlanOK
    <2>6. \A i \in DOMAIN todo[c] :
            todo[c][i].do = "select" => EquipmentProduct(todo[c][i].equipment) = LotProduct[runs[c]]
      BY <2>3 DEF PlanOK
    <2>7. \A i \in DOMAIN todo'[c] :
            todo'[c][i].do = "select" => EquipmentProduct(todo'[c][i].equipment) = LotProduct[runs'[c]]
      BY <2>2, <2>4, <2>6
    <2>8. stage'[c] \in {"prepare", "ask"} /\ (stage'[c] = "ask" => todo'[c] = <<>>)
      BY <2>2, <2>4
    <2> QED
      BY <2>4, <2>5, <2>7, <2>8 DEF PlanOK
  <1>5. ASSUME NEW d \in Clients \ {c} PROVE PlanOK(d)'
    <2>1. PlanOK(d)
      BY DEF PlansOK
    <2>2. todo'[d] = todo[d] /\ stage'[d] = stage[d]
      BY <1>1, <1>2 DEF StageTypes
    <2> QED
      BY <1>2, <1>3, <2>1, <2>2, PlanRestsQuietly
  <1> QED
    BY <1>4, <1>5 DEF PlansOK

\* What is asked for is the panel's next step; the reports of that panel made
\* out before are of no later one.
LEMMA AskedIsNext ==
  ASSUME ClientInv, NoStepSkipped, PlansOK, NEW c \in Clients, Ask(c)
  PROVE  LET p == plan'[c].panel
             step == plan'[c].step
         IN  /\ p \in Panels /\ PanelLot[p] = runs[c] /\ runs[c] \in Lots
             /\ step = NextOperation(LotProduct[runs[c]], lastStep[p])
             /\ step \in StepsOf(LotProduct[runs[c]])
             /\ step = EquipmentStep(plan'[c].equipment)
             /\ \A d \in older'[c] : plan'[d].panel = p => Place(plan'[d].step) <= Place(step)
  <1>1. StageTypes /\ OlderTypes /\ plan \in [Clients -> Plans \cup {None}]
    BY ClientTypesApart DEF ClientInv
  <1> DEFINE p == NextPanel(runs[c])
             step == NextStep(p)
             asked == [panel |-> p, step |-> step, equipment |-> PickEquipment(step)]
  <1>2. /\ stage[c] = "ask" /\ ~PanelDone(p)
        /\ plan' = [plan EXCEPT ![c] = asked]
        /\ older' = [older EXCEPT ![c] = {d \in Clients : stage[d] = "report"}]
    BY DEF Ask
  <1>3. runs[c] \in Lots
    BY <1>2 DEF ClientInv, ProgramsOK, ProgramOK
  <1>4. p \in Panels /\ PanelLot[p] = runs[c]
    BY <1>3, NextPanelOfLot DEF PanelsOf
  <1>5. plan'[c].panel = p /\ plan'[c].step = step /\ plan'[c].equipment = PickEquipment(step)
    BY <1>1, <1>2
  <1>6. older'[c] = {d \in Clients : stage[d] = "report"}
    BY <1>1, <1>2 DEF OlderTypes
  <1> HIDE DEF p
  <1>7. panelStatus[p] # "FAIL"
    BY <1>4 DEF ClientInv, InspectedIsFinished
  <1>8. ProductOf(p) = LotProduct[runs[c]] /\ ProductOf(p) \in Products
    BY <1>3, <1>4, FabAssumption DEF ProductOf
  <1>9. step = NextOperation(LotProduct[runs[c]], lastStep[p]) /\ step # None
    BY <1>2, <1>7, <1>8 DEF NextStep, PanelDone
  <1>10. step \in StepsOf(LotProduct[runs[c]]) /\ step = EquipmentStep(PickEquipment(step))
    BY <1>2, <1>4, <1>8, NextStepFits
  <1>11. lastStep[p] \in StepsOf(LotProduct[runs[c]]) \cup {None}
    BY <1>4, LastIsOnRoute
  <1>12. Place(step) > Place(lastStep[p])
    BY <1>8, <1>9, <1>11, NextComesLater
  <1> HIDE DEF step
  <1>13. ASSUME NEW d \in older'[c], plan'[d].panel = p PROVE Place(plan'[d].step) <= Place(step)
    <2>1. d \in Clients /\ stage[d] = "report" /\ d # c
      BY <1>2, <1>6
    <2>2. plan'[d] = plan[d]
      BY <1>1, <1>2, <2>1
    <2>3. PlanOK(d)
      BY <2>1 DEF PlansOK
    <2>4. PanelLot[p] = runs[d] /\ (Fresh(d) \/ Stale(d)) /\ plan[d].panel = p
      BY <1>13, <2>1, <2>2, <2>3 DEF PlanOK
    <2>5. plan[d].step = step \/ Place(plan[d].step) <= Place(lastStep[p])
      BY <1>4, <1>9, <2>4 DEF Fresh, Stale
    <2>6. Place(step) \in Nat /\ Place(lastStep[p]) \in Nat /\ Place(plan[d].step) \in Nat
      BY PlaceType
    <2>7. Place(plan[d].step) <= Place(step)
      BY <1>12, <2>5, <2>6
    <2> QED
      BY <2>2, <2>7
  <1> QED
    BY <1>3, <1>4, <1>5, <1>9, <1>10, <1>13 DEF step

LEMMA AskPlans ==
  ASSUME ClientInv, NoStepSkipped, PlansOK, NEW c \in Clients, Ask(c)
  PROVE  PlansOK'
  <1>1. StageTypes /\ OlderTypes /\ plan \in [Clients -> Plans \cup {None}]
    BY ClientTypesApart DEF ClientInv
  <1>2. /\ stage[c] = "ask" /\ stage' = [stage EXCEPT ![c] = "report"]
        /\ \A d \in Clients \ {c} : plan'[d] = plan[d] /\ older'[d] = older[d]
        /\ UNCHANGED <<runs, todo, outcome, overtaken, lastStep>>
    BY <1>1 DEF Ask, OlderTypes, vars
  <1>3. PlanOK(c)'
    <2>1. PlanOK(c) /\ c \notin overtaken
      BY <1>2 DEF PlansOK, ClientInv, ProgramsOK, ProgramOK
    <2>2. stage'[c] = "report" /\ runs[c] # None /\ todo[c] = <<>>
      BY <1>1, <1>2, <2>1 DEF StageTypes, PlanOK
    <2> QED
      BY <1>2, <2>1, <2>2, AskedIsNext DEF PlanOK, Fresh
  <1>4. ASSUME NEW d \in Clients \ {c} PROVE PlanOK(d)'
    <2>1. PlanOK(d)
      BY DEF PlansOK
    <2>2. c \notin older[d] /\ older[d] \subseteq Clients
      BY <1>1, <1>2 DEF OlderTypes
    <2>3. stage'[d] = stage[d]
      BY <1>1, <1>2 DEF StageTypes
    <2> QED
      BY <1>2, <2>1, <2>2, <2>3, PlanRestsQuietly
  <1> QED
    BY <1>3, <1>4 DEF PlansOK

\* A program ends.
LEMMA EndPlans ==
  ASSUME ClientInv, PlansOK, NEW c \in Clients, lastStep' = lastStep,
         NEW how \in {"done", "held", "refused", "out of turns", "broken"},
         stage[c] # "off", End(c, how), UNCHANGED <<runs, todo>>,
         plan' = plan \/ plan' = [plan EXCEPT ![c] = None],
         Gone(c) \/ (stage[c] = "ask" /\ UNCHANGED older),
         overtaken' = overtaken \ {c}
  PROVE  PlansOK'
  <1>1. StageTypes /\ OlderTypes /\ plan \in [Clients -> Plans \cup {None}]
    BY ClientTypesApart DEF ClientInv
  <1>2. stage' = [stage EXCEPT ![c] = "off"] /\ outcome' = [outcome EXCEPT ![c] = how]
    BY DEF End
  <1>3. PlanOK(c)'
    <2>1. PlanOK(c)
      BY DEF PlansOK
    <2>2. stage'[c] = "off" /\ outcome'[c] = how /\ how # None /\ runs'[c] # None
      BY <1>1, <1>2, <2>1, ClientAssumption DEF StageTypes, PlanOK
    <2>3. \A i \in DOMAIN todo[c] :
            todo[c][i].do = "select" => EquipmentProduct(todo[c][i].equipment) = LotProduct[runs[c]]
      BY <2>1 DEF PlanOK
    <2> QED
      BY <2>2, <2>3 DEF PlanOK
  <1>4. ASSUME NEW d \in Clients \ {c} PROVE PlanOK(d)'
    <2>1. PlanOK(d)
      BY DEF PlansOK
    <2>2. stage'[d] = stage[d] /\ outcome'[d] = outcome[d] /\ plan'[d] = plan[d]
      BY <1>1, <1>2 DEF StageTypes
    <2>3. older'[d] \subseteq older[d] /\ c \notin older'[d]
      <3>1. CASE Gone(c)
        BY <3>1 DEF Gone
      <3>2. CASE stage[c] = "ask" /\ UNCHANGED older
        BY <1>1, <3>2 DEF OlderTypes
      <3> QED
        BY <3>1, <3>2
    <2>4. \A x \in older'[d] : plan'[x] = plan[x]
      BY <1>1, <2>3 DEF OlderTypes
    <2> QED
      BY <2>1, <2>2, <2>3, <2>4, PlanRestsQuietly
  <1> QED
    BY <1>3, <1>4 DEF PlansOK

\* A report is accepted: its panel has come to its step, and reports of it that
\* were made out before are of no later one.
LEMMA ReportPlans ==
  ASSUME ClientInv, NoStepSkipped, PlansOK, NEW c \in Clients, Report(c)
  PROVE  PlansOK'
  <1> DEFINE p == plan[c].panel
             step == plan[c].step
  <1>1. StageTypes /\ OlderTypes /\ plan \in [Clients -> Plans \cup {None}]
        /\ lastStep \in [Panels -> Steps \cup {None}]
    BY ClientTypesApart DEF ClientInv, TypeOK
  <1>2. /\ stage[c] = "report" /\ stage' = [stage EXCEPT ![c] = "ask"]
        /\ plan' = [plan EXCEPT ![c] = None] /\ Gone(c)
        /\ overtaken' = (overtaken \cup Before(c, p)) \ {c}
        /\ UNCHANGED <<runs, todo, outcome>>
    BY DEF Report, Sent
  <1>3. PlanOK(c)
    BY DEF PlansOK
  <1>4. /\ p \in Panels /\ PanelLot[p] = runs[c] /\ lastStep' = [lastStep EXCEPT ![p] = step]
        /\ Place(lastStep[p]) <= Place(step)
        /\ step = lastStep[p] \/ step = NextOperation(LotProduct[runs[c]], lastStep[p])
    BY <1>3, ReportMoves, ReportEffect
  <1>5. \A x \in older[c] : plan[x].panel = p => Place(plan[x].step) <= Place(step)
    BY <1>2, <1>3 DEF PlanOK
  <1> HIDE DEF p, step
  <1>6. PlanOK(c)'
    <2>1. stage'[c] = "ask" /\ runs[c] # None /\ todo[c] = <<>>
      BY <1>1, <1>2, <1>3 DEF StageTypes, PlanOK
    <2> QED
      BY <1>2, <2>1 DEF PlanOK
  <1>7. ASSUME NEW d \in Clients \ {c} PROVE PlanOK(d)'
    <2> DEFINE q == plan[d].panel
    <2>1. PlanOK(d)
      BY DEF PlansOK
    <2>2. stage'[d] = stage[d] /\ plan'[d] = plan[d]
      BY <1>1, <1>2 DEF StageTypes
    <2>3. older'[d] \subseteq older[d] /\ c \notin older'[d]
      BY <1>2 DEF Gone
    <2>4. \A x \in older'[d] : plan'[x] = plan[x]
      BY <1>1, <1>2, <2>3 DEF OlderTypes
    <2>5. ASSUME stage[d] = "report"
          PROVE  /\ Place(lastStep[q]) <= Place(lastStep'[q])
                 /\ lastStep'[q] = lastStep[q] \/ Place(plan[d].step) <= Place(lastStep'[q])
                 /\ d \in overtaken' => d \in overtaken \/ Place(plan[d].step) <= Place(lastStep'[q])
      <3>1. q \in Panels /\ PanelLot[q] = runs[d] /\ (Fresh(d) \/ Stale(d))
        BY <2>1, <2>5, ReportType DEF PlanOK
      <3>2. /\ Place(plan[d].step) \in Nat /\ Place(lastStep[q]) \in Nat
            /\ Place(lastStep'[q]) \in Nat /\ Place(step) \in Nat
        BY PlaceType
      <3>3. d \in overtaken' => d \in overtaken \/ (q = p /\ Place(plan[d].step) <= Place(step))
        BY <1>2, <1>5 DEF Before
      <3>4. CASE q # p
        <4>1. lastStep'[q] = lastStep[q]
          BY <1>1, <1>4, <3>1, <3>4
        <4> QED
          BY <3>2, <3>3, <3>4, <4>1
      <3>5. CASE q = p
        <4>1. lastStep'[q] = step
          BY <1>1, <1>4, <3>5
        <4>2. plan[d].step = NextOperation(LotProduct[runs[c]], lastStep[p])
                \/ Place(plan[d].step) <= Place(lastStep[p])
          BY <1>4, <3>1, <3>5 DEF Fresh, Stale
        <4> HIDE DEF q
        <4>3. lastStep[p] = step \/ plan[d].step = step \/ Place(plan[d].step) <= Place(step)
          BY <1>4, <3>2, <3>5, <4>2
        <4> QED
          BY <1>4, <3>2, <3>3, <3>5, <4>1, <4>3
      <3> QED
        BY <3>4, <3>5
    <2> QED
      BY <1>2, <2>1, <2>2, <2>3, <2>4, <2>5, PlanRests
  <1> QED
    BY <1>6, <1>7 DEF PlansOK

LEMMA RefusedPlans ==
  ASSUME ClientInv, PlansOK, NEW c \in Clients, ReportRefused(c)
  PROVE  PlansOK'
  <1>1. StageTypes /\ OlderTypes /\ plan \in [Clients -> Plans \cup {None}]
    BY ClientTypesApart DEF ClientInv
  <1>2. /\ stage[c] = "report" /\ plan' = [plan EXCEPT ![c] = None] /\ Gone(c)
        /\ overtaken' = overtaken \ {c} /\ UNCHANGED <<runs, todo, lastStep>>
    BY DEF ReportRefused, Sent, RejectProcess, panelVars
  <1>3. CASE program[c] = "python"
    <2>1. End(c, "refused")
      BY <1>3 DEF ReportRefused
    <2> QED
      BY <1>2, <2>1, EndPlans
  <1>4. CASE program[c] # "python"
    <2>1. stage' = [stage EXCEPT ![c] = "ask"] /\ UNCHANGED outcome
      BY <1>4 DEF ReportRefused
    <2>2. PlanOK(c)'
      <3>1. PlanOK(c)
        BY DEF PlansOK
      <3>2. stage'[c] = "ask" /\ runs[c] # None /\ todo[c] = <<>>
        BY <1>1, <1>2, <2>1, <3>1 DEF StageTypes, PlanOK
      <3> QED
        BY <1>2, <3>2 DEF PlanOK
    <2>3. ASSUME NEW d \in Clients \ {c} PROVE PlanOK(d)'
      <3>1. PlanOK(d)
        BY DEF PlansOK
      <3>2. stage'[d] = stage[d] /\ plan'[d] = plan[d]
        BY <1>1, <1>2, <2>1 DEF StageTypes
      <3>3. older'[d] \subseteq older[d] /\ c \notin older'[d]
        BY <1>2 DEF Gone
      <3>4. \A x \in older'[d] : plan'[x] = plan[x]
        BY <1>1, <1>2, <3>3 DEF OlderTypes
      <3> QED
        BY <1>2, <2>1, <3>1, <3>2, <3>3, <3>4, PlanRestsQuietly
    <2> QED
      BY <2>2, <2>3 DEF PlansOK
  <1> QED
    BY <1>3, <1>4

\* A step of the world around, and of a program that only looks, moves no panel.
LEMMA OthersPlans ==
  ASSUME PlansOK, lastStep' = lastStep,
         UNCHANGED <<stage, runs, todo, plan, outcome, older, overtaken>>
  PROVE  PlansOK'
  BY PlanRestsQuietly DEF PlansOK

LEMMA PlansStay ==
  ASSUME ClientInv, NoStepSkipped, PlansOK, [ClientNext]_<<vars, clientVars>>
  PROVE  PlansOK'
  <1>1. ASSUME NEW c \in Clients, Client(c) PROVE PlansOK'
    <2>1. ASSUME stage[c] = "ask" PROVE overtaken = overtaken \ {c}
      BY <2>1 DEF ClientInv, ProgramsOK, ProgramOK
    <2>2. CASE Prepare(c)
      BY <2>2, PreparePlans
    <2>3. CASE Beat(c)
      BY <2>3, OthersPlans DEF Beat, clientVars, panelVars
    <2>4. CASE Ask(c)
      BY <2>4, AskPlans
    <2>5. CASE AskHeld(c)
      BY <2>1, <2>5, EndPlans DEF AskHeld, vars
    <2>6. CASE AskDone(c)
      BY <2>1, <2>6, EndPlans DEF AskDone, vars
    <2>7. CASE OutOfTurns(c)
      BY <2>1, <2>7, EndPlans DEF OutOfTurns, vars
    <2>8. CASE Report(c)
      BY <2>8, ReportPlans
    <2>9. CASE ReportRefused(c)
      BY <2>9, RefusedPlans
    <2> QED
      BY <1>1, <2>2, <2>3, <2>4, <2>5, <2>6, <2>7, <2>8, <2>9 DEF Client
  <1>2. ASSUME NEW l \in Lots, Order(l) PROVE PlansOK'
    BY <1>2, OthersPlans DEF Order, CreateAndRelease, clientVars, panelVars
  <1>3. ASSUME Disturb PROVE PlansOK'
    <2>1. ASSUME NEW type, Command(type) PROVE lastStep' = lastStep
      BY <2>1 DEF Command, HoldLot, ReleaseLot, MaintEnter, MaintExit, Start, Stop, SelectRecipe,
                  ScrapPanel, SetEquipmentStatus, panelVars
    <2>2. lastStep' = lastStep
      BY <1>3, <2>1 DEF Disturb, Heartbeat, MarkOffline, panelVars
    <2> QED
      BY <1>3, <2>2, OthersPlans DEF Disturb, Disturbed
  <1>4. ASSUME NEW c \in Clients, Break(c) PROVE PlansOK'
    BY <1>4, EndPlans DEF Break, Disturbed, vars
  <1>5. ASSUME UNCHANGED <<vars, clientVars>> PROVE PlansOK'
    BY <1>5, OthersPlans DEF vars, clientVars
  <1> QED
    BY <1>1, <1>2, <1>3, <1>4, <1>5, BeginPlans DEF ClientNext

-----------------------------------------------------------------------------
(* The line left alone.                                                    *)

\* What a program runs and how it ended is settled once, and a disturbance is
\* not forgotten.
LEMMA RunsGoOn ==
  ASSUME ClientInv, PlansOK, [ClientNext]_<<vars, clientVars>>
  PROVE  /\ \A c \in Begun : runs'[c] = runs[c]
         /\ \A c \in Clients : outcome[c] # None => outcome'[c] = outcome[c]
         /\ disturbed' = 0 => disturbed = 0
  <1> DEFINE Goal == /\ \A c \in Begun : runs'[c] = runs[c]
                     /\ \A c \in Clients : outcome[c] # None => outcome'[c] = outcome[c]
                     /\ disturbed' = 0 => disturbed = 0
  <1>1. StageTypes /\ disturbed \in 0 .. MaxDisturbances /\ MaxDisturbances \in Nat
    BY ClientTypesApart, ClientAssumption DEF ClientInv
  <1>2. ASSUME NEW c \in Clients, NEW l \in Lots, NEW kind, Begin(c, l, kind) PROVE Goal
    <2>1. runs[c] = None
      BY <1>2 DEF Begin, PlansOK, PlanOK
    <2> QED
      BY <1>1, <1>2, <2>1 DEF Begin, Begun, StageTypes
  <1>3. ASSUME NEW c \in Clients, NEW how, End(c, how), stage[c] # "off", UNCHANGED runs,
               UNCHANGED disturbed \/ Disturbed
        PROVE  Goal
    <2>1. outcome[c] = None
      BY <1>3 DEF ClientInv, ProgramsOK, ProgramOK
    <2>2. disturbed' = 0 => disturbed = 0
      BY <1>1, <1>3 DEF Disturbed
    <2> QED
      BY <1>1, <1>3, <2>1, <2>2 DEF End, Begun, StageTypes
  <1>4. ASSUME UNCHANGED <<runs, outcome>>, UNCHANGED disturbed \/ Disturbed PROVE Goal
    <2>1. disturbed' = 0 => disturbed = 0
      BY <1>1, <1>4 DEF Disturbed
    <2> QED
      BY <1>4, <2>1 DEF Begun
  <1>5. ASSUME NEW c \in Clients, Client(c) PROVE Goal
    <2>1. CASE AskHeld(c) \/ AskDone(c) \/ OutOfTurns(c)
      BY <1>3, <2>1 DEF AskHeld, AskDone, OutOfTurns
    <2>2. CASE Prepare(c) \/ Beat(c) \/ Ask(c) \/ Report(c)
      BY <1>4, <2>2 DEF Prepare, Beat, Ask, Report, Sent, clientVars
    <2>3. CASE ReportRefused(c)
      BY <1>3, <1>4, <2>3 DEF ReportRefused, Sent
    <2> HIDE DEF Goal
    <2> QED
      BY <1>5, <2>1, <2>2, <2>3 DEF Client
  <1>6. ASSUME NEW c \in Clients, Break(c) PROVE Goal
    BY <1>3, <1>6 DEF Break, Disturbed
  <1>7. ASSUME (\E l \in Lots : Order(l)) \/ Disturb \/ UNCHANGED <<vars, clientVars>> PROVE Goal
    BY <1>4, <1>7 DEF Order, Disturb, Disturbed, clientVars
  <1> HIDE DEF Goal
  <1>8. Goal
    BY <1>2, <1>5, <1>6, <1>7 DEF ClientNext
  <1> QED
    BY <1>8 DEF Goal

\* What is left alone has been left alone before.
LEMMA LeftAloneBefore ==
  ASSUME ClientInv, PlansOK, [ClientNext]_<<vars, clientVars>>, LeftAlone'
  PROVE  LeftAlone /\ Begun \subseteq Begun' /\ \A c \in Begun : runs'[c] = runs[c]
  <1>1. /\ \A c \in Begun : runs'[c] = runs[c]
        /\ \A c \in Clients : outcome[c] # None => outcome'[c] = outcome[c]
        /\ disturbed' = 0 => disturbed = 0
    BY RunsGoOn
  <1>2. Begun \subseteq Begun'
    BY <1>1 DEF Begun
  <1>3. \A c \in Begun : c \in Clients /\ runs[c] \in Lots
    BY ClientTypesApart DEF Begun, ClientInv, StageTypes
  <1>4. disturbed = 0 /\ RecipesAgree
    <2>1. disturbed = 0 /\ RecipesAgree'
      BY <1>1 DEF LeftAlone
    <2>2. ASSUME NEW c \in Clients, NEW d \in Clients, runs[c] # None, runs[d] # None,
                 LotProduct[runs[c]] = LotProduct[runs[d]]
          PROVE  LotRecipe[runs[c]] = LotRecipe[runs[d]]
      <3>1. runs'[c] = runs[c] /\ runs'[d] = runs[d]
        BY <1>1, <2>2 DEF Begun
      <3>2. LotRecipe[runs'[c]] = LotRecipe[runs'[d]]
        BY <2>1, <2>2, <3>1 DEF RecipesAgree
      <3> QED
        BY <3>1, <3>2
    <2> QED
      BY <2>1, <2>2 DEF RecipesAgree
  <1>5. \/ \A c \in Begun : Cardinality(PanelsOf(runs[c])) = 1
        \/ \A c, d \in Begun : runs[c] = runs[d]
    <2>1. CASE \A c \in Begun' : Cardinality(PanelsOf(runs'[c])) = 1
      <3>1. ASSUME NEW c \in Begun PROVE Cardinality(PanelsOf(runs[c])) = 1
        <4>1. Cardinality(PanelsOf(runs'[c])) = 1 /\ runs'[c] = runs[c]
          BY <1>1, <1>2, <2>1
        <4> QED
          BY <4>1
      <3> QED
        BY <3>1
    <2>2. CASE \A c, d \in Begun' : runs'[c] = runs'[d]
      BY <1>1, <1>2, <2>2
    <2> QED
      BY <2>1, <2>2 DEF LeftAlone, PanelsOf
  <1>6. \A c \in Clients : outcome[c] \notin {"out of turns", "broken"}
    BY <1>1, ClientAssumption DEF LeftAlone
  <1>7. \A c \in Begun : order[runs[c]] # "DONE"
    BY <1>1, <1>2, <1>3, LineGoesOn DEF LeftAlone, OrdersGoOn
  <1> QED
    BY <1>1, <1>2, <1>4, <1>5, <1>6, <1>7 DEF LeftAlone

\* On a line that is left alone a report of the next step is only refused when
\* another lot is at the equipment, and then that one is ahead.
LEMMA FreshIsTaken ==
  ASSUME ClientInv, LineIsSound, LeftAlone, NothingStopped, LotsStand,
         NEW c \in Clients, PlanOK(c), Prepared(c), stage[c] = "report", Fresh(c), ~Accepted(c)
  PROVE  Ahead(runs[c])
  <1> DEFINE l == runs[c]
             e == plan[c].equipment
             p == plan[c].panel
             step == plan[c].step
  <1>1. /\ l \in Lots /\ p \in Panels /\ step \in Steps /\ e \in Equipment
        /\ order[l] # "NONE"
    BY ReportType DEF ClientInv, ProgramsOK, ProgramOK
  <1>2. /\ PanelLot[p] = l /\ step = EquipmentStep(e) /\ step \in StepsOf(LotProduct[l])
        /\ step = NextOperation(LotProduct[l], lastStep[p]) /\ todo[c] = <<>>
    BY DEF PlanOK, Fresh
  <1>3. /\ eqStatus[e] = "RUN"
        /\ EquipmentProduct(e) = LotProduct[l] => eqRecipe[e] = LotRecipe[l]
    <2>1. ~ToDo(c, "start", e) /\ ~ToDo(c, "select", e)
      BY <1>2 DEF ToDo, IsIn
    <2> QED
      BY <1>1, <2>1 DEF Prepared
  <1>4. /\ e \in EquipmentIds /\ LotProduct[l] \in Products /\ LotRecipe[l] # None
        /\ None \notin Products /\ step # None
    <2>1. e \in EquipmentIds /\ LotProduct[l] \in Products /\ LotRecipe[l] # None
      BY <1>1, FabAssumption
    <2>2. step # None
      BY <1>1, NoneIsNotAStep
    <2>3. None \notin Products
      BY ClientAssumption
    <2> QED
      BY <2>1, <2>2, <2>3
  <1>5. lastStep[p] \in StepsOf(LotProduct[l]) \cup {None}
    BY <1>1, <1>2, LastIsOnRoute DEF LineIsSound
  <1>6. /\ lost = {} /\ lotStatus[l] # "HOLD" /\ panelStatus[p] # "SCRAP" /\ lotStatus[l] # "ABSENT"
    BY <1>1 DEF NothingStopped, ClientInv, OrderedLotsExist
  <1>7. ~Acceptable(e, l, p, step) \/ ~RecipeReady(e, LotRecipe[l])
    BY DEF Accepted
  <1> HIDE DEF l, e, p, step
  <1>8. EquipmentProduct(e) \in {None, LotProduct[l]}
    BY <1>2, <1>4, StepFitsProduct
  <1>9. step \in AllowedNextSteps(LotProduct[l], lastStep[p])
    BY <1>2, <1>4, NextOperationAllowed
  <1>10. RecipeReady(e, LotRecipe[l])
    <2>1. EquipmentStep(e) \in RecipeSteps => EquipmentProduct(e) \in Products
      BY <1>4 DEF EquipmentIds, RecipeSteps, EquipmentStep, EquipmentProduct, Products
    <2> QED
      BY <1>3, <1>4, <1>8, <2>1 DEF RecipeReady
  <1>11. eqLot[e] \notin {None, l}
    BY <1>2, <1>3, <1>6, <1>7, <1>8, <1>9, <1>10
       DEF Acceptable, EquipmentReady, StepMatchesEquipment, LotKnown, PanelInLot, PanelNotScrapped,
           ProductMatches, NotBusy, StepAllowed, LotNotHeld
  <1> DEFINE k == eqLot[e]
  <1>12. k \in Lots /\ lotEquipment[k] = e /\ e # None
    BY <1>1, <1>4, <1>11, FabAssumption DEF ClientInv, TypeOK, LineIsSound, OneStationPerLot
  <1> HIDE DEF k
  <1>13. PICK d \in Begun, q \in PanelsOf(k) : runs[d] = k /\ lastStep[q] = step
    BY <1>2, <1>12 DEF LotsStand
  <1>14. c \in Begun /\ d \in Begun /\ runs[c] # runs[d] /\ l = runs[c]
    <2>1. runs[c] # None
      BY DEF PlanOK
    <2> QED
      BY <1>11, <1>13, <2>1 DEF Begun, k, l
  <1>15. Cardinality(PanelsOf(l)) = 1
    BY <1>14 DEF LeftAlone
  <1>16. \A x \in PanelsOf(l) : x = p
    <2>1. IsFiniteSet(PanelsOf(l))
      BY FS_Subset, DispatchAssumption DEF PanelsOf
    <2>2. \E x : PanelsOf(l) = {x}
      BY <1>15, <2>1, FS_Singleton
    <2>3. p \in PanelsOf(l)
      BY <1>1, <1>2 DEF PanelsOf
    <2> QED
      BY <2>2, <2>3
  <1>17. Place(step) > Place(lastStep[p])
    BY <1>2, <1>4, <1>5, NextComesLater
  <1> QED
    BY <1>13, <1>14, <1>16, <1>17 DEF Ahead

\* There is hope for a lot as long as its own panels stay where they are, and
\* each program that goes on with it does so, unless another lot is ahead.
LEMMA HopeRests ==
  ASSUME ClientInv, PlansOK, NEW l \in Lots, Hope(l),
         Begun \subseteq Begun', \A c \in Begun : runs'[c] = runs[c],
         \A p \in Panels : Place(lastStep[p]) <= Place(lastStep'[p]),
         \A p \in PanelsOf(l) : lastStep'[p] = lastStep[p],
         \A d \in Clients : runs[d] = l /\ GoesOn(d) =>
           (stage'[d] = stage[d] /\ plan'[d] = plan[d]) \/ GoesOn(d)' \/ Ahead(l)
  PROVE  Hope(l)'
  <1>1. CASE Ahead(l)
    <2>1. PICK d \in Begun : \E q \in PanelsOf(runs[d]) :
            \A p \in PanelsOf(l) : Place(lastStep[q]) > Place(lastStep[p])
      BY <1>1 DEF Ahead
    <2>2. PICK q \in PanelsOf(runs[d]) :
            \A p \in PanelsOf(l) : Place(lastStep[q]) > Place(lastStep[p])
      BY <2>1
    <2>4. d \in Begun' /\ runs'[d] = runs[d] /\ q \in Panels
      BY DEF PanelsOf
    <2>3. ASSUME NEW p \in PanelsOf(l) PROVE Place(lastStep'[q]) > Place(lastStep'[p])
      <3>1. Place(lastStep[q]) > Place(lastStep[p]) /\ lastStep'[p] = lastStep[p]
            /\ Place(lastStep[q]) <= Place(lastStep'[q])
        BY <2>2, <2>4
      <3>2. Place(lastStep[q]) \in Nat /\ Place(lastStep'[q]) \in Nat /\ Place(lastStep[p]) \in Nat
        BY PlaceType
      <3> QED
        BY <3>1, <3>2
    <2> QED
      BY <2>3, <2>4 DEF Hope, Ahead, PanelsOf
  <1>2. ASSUME NEW d \in Clients, runs[d] = l, GoesOn(d), ~Ahead(l) PROVE Hope(l)'
    <2>1. d \in Begun /\ runs'[d] = l
      BY <1>2, FabAssumption DEF Begun
    <2>2. ASSUME stage'[d] = stage[d], plan'[d] = plan[d] PROVE GoesOn(d)'
      <3>1. stage[d] = "report" => plan[d].panel \in PanelsOf(l)
        BY <1>2, ReportType DEF PlansOK, PlanOK, PanelsOf
      <3> QED
        BY <1>2, <2>1, <2>2, <3>1 DEF GoesOn, Fresh
    <2> QED
      BY <1>2, <2>1, <2>2 DEF Hope
  <1> QED
    BY <1>1, <1>2 DEF Hope

\* While no panel goes on, hope stays as well as the programs do.
LEMMA HopeRestsQuietly ==
  ASSUME ClientInv, PlansOK, NEW l \in Lots, Hope(l), lastStep' = lastStep,
         Begun \subseteq Begun', \A c \in Begun : runs'[c] = runs[c],
         \A d \in Clients : runs[d] = l /\ GoesOn(d) =>
           (stage'[d] = stage[d] /\ plan'[d] = plan[d]) \/ GoesOn(d)' \/ Ahead(l)
  PROVE  Hope(l)'
  <1>1. \A p \in Panels : Place(lastStep[p]) <= Place(lastStep'[p])
    <2>1. \A p \in Panels : Place(lastStep[p]) \in Nat
      BY PlaceType
    <2> QED
      BY <2>1
  <1> QED
    BY <1>1, HopeRests

LEMMA PreparedRests ==
  ASSUME NEW d \in Clients, Prepared(d), UNCHANGED <<eqStatus, eqRecipe>>,
         runs'[d] = runs[d], todo'[d] = todo[d]
  PROVE  Prepared(d)'
  BY DEF Prepared, ToDo, IsIn

LEMMA LotsStandStill ==
  ASSUME LotsStand, UNCHANGED <<lotEquipment, lastStep>>,
         Begun \subseteq Begun', \A c \in Begun : runs'[c] = runs[c]
  PROVE  LotsStand'
  BY DEF LotsStand, PanelsOf

LEMMA HopeOfEach ==
  ASSUME NEW d \in Clients, NEW l, runs'[d] = l, Hope(l)'
  PROVE  Hope(runs[d])'
  BY DEF Hope, Ahead, PanelsOf

\* There is hope for all when only a program changes that goes on afterwards, or
\* did not before, or whose lot is behind another.
LEMMA HopesRest ==
  ASSUME ClientInv, PlansOK, \A d \in Begun : Hope(runs[d]), NEW c \in Clients, NEW l \in Lots,
         lastStep' = lastStep,
         Begun' = Begun \cup {c}, \A d \in Begun : runs'[d] = runs[d], runs'[c] = l,
         \A d \in Clients \ {c} : stage'[d] = stage[d] /\ plan'[d] = plan[d],
         GoesOn(c)' \/ (c \in Begun /\ (GoesOn(c) => Ahead(l)))
  PROVE  \A d \in Begun' : Hope(runs[d])'
  <1>1. \A d \in Begun : runs[d] \in Lots /\ d \in Clients /\ Hope(runs[d])
    BY ClientTypesApart DEF Begun, ClientInv, StageTypes
  <1>2. ASSUME NEW d \in Begun, NEW k \in Lots, runs[d] = k PROVE Hope(k)'
    <2>1. Hope(k)
      BY <1>1, <1>2
    <2>2. ASSUME NEW x \in Clients, runs[x] = k, GoesOn(x)
          PROVE  (stage'[x] = stage[x] /\ plan'[x] = plan[x]) \/ GoesOn(x)' \/ Ahead(k)
      <3>1. CASE x # c
        BY <3>1
      <3>2. CASE x = c
        <4>1. c \in Begun => k = l
          BY <2>2, <3>2
        <4> QED
          BY <2>2, <3>2, <4>1
      <3> QED
        BY <3>1, <3>2
    <2> QED
      BY <2>1, <2>2, HopeRestsQuietly
  <1>3. c \in Begun \/ Hope(l)'
    BY DEF Hope
  <1>4. ASSUME NEW d \in Begun' PROVE Hope(runs[d])'
    <2>1. d \in Clients /\ (d \in Begun => runs[d] \in Lots /\ runs'[d] = runs[d])
      BY <1>1
    <2>2. CASE d \in Begun
      <3>1. PICK k \in Lots : runs[d] = k
        BY <2>1, <2>2
      <3>2. Hope(k)' /\ runs'[d] = k
        BY <1>2, <2>1, <2>2, <3>1
      <3> QED
        BY <2>1, <3>2, HopeOfEach
    <2>3. CASE d \notin Begun
      <3>1. d = c /\ Hope(l)'
        BY <1>3, <2>3
      <3> QED
        BY <3>1, HopeOfEach
    <2> QED
      BY <2>2, <2>3
  <1> QED
    BY <1>4

\* Then calm is kept as well, if the line stays as it is.
LEMMA CalmRests ==
  ASSUME ClientInv, PlansOK, Calm, NEW c \in Clients, NEW l \in Lots,
         UNCHANGED <<lotStatus, lotEquipment, panelStatus, lastStep, eqStatus, eqRecipe>>,
         lost' \subseteq lost, \A d \in Clients : outcome'[d] = "held" => outcome[d] = "held",
         Begun' = Begun \cup {c}, \A d \in Begun : runs'[d] = runs[d], runs'[c] = l,
         \A d \in Clients \ {c} : stage'[d] = stage[d] /\ plan'[d] = plan[d] /\ todo'[d] = todo[d],
         Prepared(c)', GoesOn(c)' \/ (c \in Begun /\ (GoesOn(c) => Ahead(l)))
  PROVE  Calm'
  <1>1. NothingStopped' /\ LotsStand'
    BY LotsStandStill DEF Calm, NothingStopped
  <1>2. \A d \in Begun' : Hope(runs[d])'
    BY HopesRest DEF Calm
  <1>3. ASSUME NEW d \in Begun' PROVE Prepared(d)'
    <2>1. CASE d = c
      BY <2>1
    <2>2. CASE d # c
      BY <2>2, PreparedRests DEF Calm, Begun
    <2> QED
      BY <2>1, <2>2
  <1> QED
    BY <1>1, <1>2, <1>3 DEF Calm

LEMMA BeginCalm ==
  ASSUME ClientInv, PlansOK, Calm, NEW c \in Clients, NEW l \in Lots, NEW kind, Begin(c, l, kind)
  PROVE  Calm'
  <1>1. StageTypes /\ todo \in [Clients -> Seq(Chores)]
    BY ClientTypesApart DEF ClientInv
  <1>2. /\ stage[c] = "off" /\ outcome[c] = None /\ stage' = [stage EXCEPT ![c] = "prepare"]
        /\ runs' = [runs EXCEPT ![c] = l] /\ todo' = [todo EXCEPT ![c] = Preparation(l)]
        /\ UNCHANGED <<lotStatus, lotEquipment, panelStatus, lastStep, eqStatus, eqRecipe, lost,
                       plan, outcome>>
    BY DEF Begin, vars
  <1>3. runs[c] = None
    BY <1>2 DEF PlansOK, PlanOK
  <1>4. stage'[c] = "prepare" /\ runs'[c] = l /\ todo'[c] = Preparation(l) /\ l # None
    BY <1>1, <1>2, FabAssumption DEF StageTypes
  <1>5. Begun' = Begun \cup {c} /\ \A d \in Begun : runs'[d] = runs[d]
    BY <1>1, <1>2, <1>3, <1>4 DEF StageTypes, Begun
  <1>6. \A d \in Clients \ {c} : stage'[d] = stage[d] /\ plan'[d] = plan[d] /\ todo'[d] = todo[d]
    BY <1>1, <1>2 DEF StageTypes
  <1>7. Prepared(c)'
    <2>1. /\ \A e \in Equipment : IsIn([do |-> "start", equipment |-> e], Preparation(l))
          /\ \A e \in Equipment : EquipmentProduct(e) = LotProduct[l] =>
               IsIn([do |-> "select", equipment |-> e], Preparation(l))
      BY PreparationIsWhole
    <2> QED
      BY <1>4, <2>1 DEF Prepared, ToDo, IsIn
  <1>8. GoesOn(c)'
    BY <1>4 DEF GoesOn
  <1> QED
    BY <1>2, <1>4, <1>5, <1>6, <1>7, <1>8, CalmRests

LEMMA AskCalm ==
  ASSUME ClientInv, NoStepSkipped, PlansOK, Calm, NEW c \in Clients, Ask(c)
  PROVE  Calm'
  <1>1. StageTypes /\ plan \in [Clients -> Plans \cup {None}]
    BY ClientTypesApart DEF ClientInv
  <1>2. /\ stage[c] = "ask" /\ stage' = [stage EXCEPT ![c] = "report"]
        /\ \A d \in Clients \ {c} : plan'[d] = plan[d]
        /\ UNCHANGED <<lotStatus, lotEquipment, panelStatus, lastStep, eqStatus, eqRecipe, lost,
                       runs, todo, outcome>>
    BY <1>1 DEF Ask, vars
  <1>3. PICK l \in Lots : runs[c] = l
    BY <1>2 DEF ClientInv, ProgramsOK, ProgramOK
  <1>4. c \in Begun /\ Begun' = Begun
    BY <1>2, <1>3, FabAssumption DEF Begun
  <1>5. stage'[c] = "report" /\ \A d \in Clients \ {c} : stage'[d] = stage[d]
    BY <1>1, <1>2 DEF StageTypes
  <1>6. Prepared(c)'
    BY <1>2, <1>4, PreparedRests DEF Calm
  <1>7. GoesOn(c)'
    <2>1. plan'[c].step = NextOperation(LotProduct[runs[c]], lastStep[plan'[c].panel])
      BY AskedIsNext
    <2> QED
      BY <1>2, <1>5, <2>1 DEF GoesOn, Fresh
  <1> QED
    BY <1>2, <1>3, <1>4, <1>5, <1>6, <1>7, CalmRests

\* A report is refused: of a step done already, or the lot is behind another.
LEMMA RefusedCalm ==
  ASSUME ClientInv, LineIsSound, PlansOK, LeftAlone, Calm, NEW c \in Clients, ReportRefused(c)
  PROVE  Calm'
  <1>1. StageTypes /\ plan \in [Clients -> Plans \cup {None}]
    BY ClientTypesApart DEF ClientInv
  <1>2. /\ stage[c] = "report" /\ ~Accepted(c) /\ plan' = [plan EXCEPT ![c] = None]
        /\ UNCHANGED <<lotStatus, lotEquipment, panelStatus, lastStep, eqStatus, eqRecipe,
                       runs, todo>>
        /\ lost' \subseteq lost
    BY DEF ReportRefused, Sent, RejectProcess, lotVars, panelVars
  <1>3. PICK l \in Lots : runs[c] = l
    BY <1>2 DEF ClientInv, ProgramsOK, ProgramOK
  <1>4. c \in Begun /\ Begun' = Begun
    BY <1>2, <1>3, FabAssumption DEF Begun
  <1>5. Prepared(c) /\ Prepared(c)'
    BY <1>2, <1>4, PreparedRests DEF Calm
  <1>6. GoesOn(c) => Ahead(l)
    <2>1. GoesOn(c) => Fresh(c)
      BY <1>2 DEF GoesOn
    <2> QED
      BY <1>2, <1>3, <1>5, <2>1, FreshIsTaken DEF Calm, PlansOK
  <1>7. /\ \A d \in Clients : outcome'[d] = "held" => outcome[d] = "held"
        /\ \A d \in Clients \ {c} : stage'[d] = stage[d]
    <2>1. CASE program[c] = "python"
      <3>1. End(c, "refused")
        BY <2>1 DEF ReportRefused
      <3> QED
        BY <1>1, <3>1 DEF End, StageTypes
    <2>2. CASE program[c] # "python"
      <3>1. stage' = [stage EXCEPT ![c] = "ask"] /\ outcome' = outcome
        BY <2>2 DEF ReportRefused
      <3> QED
        BY <1>1, <3>1 DEF StageTypes
    <2> QED
      BY <2>1, <2>2
  <1>8. \A d \in Clients \ {c} : plan'[d] = plan[d]
    BY <1>1, <1>2
  <1> QED
    BY <1>2, <1>3, <1>4, <1>5, <1>6, <1>7, <1>8, CalmRests

\* A command of its preparation does what is to do, and undoes nothing of what
\* another has prepared.
LEMMA PrepareCalm ==
  ASSUME ClientInv, PlansOK, LeftAlone, Calm, NEW c \in Clients, Prepare(c)
  PROVE  Calm'
  <1> DEFINE chore == Head(todo[c])
             e == chore.equipment
  <1>1. StageTypes /\ todo \in [Clients -> Seq(Chores)] /\ TypeOK
    BY ClientTypesApart DEF ClientInv
  <1>2. /\ stage[c] = "prepare"
        /\ stage' = [stage EXCEPT ![c] = IF Len(todo[c]) > 1 THEN "prepare" ELSE "ask"]
        /\ todo' = [todo EXCEPT ![c] = Tail(todo[c])]
        /\ UNCHANGED <<runs, plan, outcome, older, overtaken>>
    BY DEF Prepare
  <1>3. UNCHANGED <<lotStatus, lotEquipment, panelStatus, lastStep>>
    BY PrepareIsACommand DEF Quiet, lotVars, panelVars
  <1>4. PICK l \in Lots : runs[c] = l
    BY <1>2 DEF ClientInv, ProgramsOK, ProgramOK
  <1>5. c \in Begun /\ Begun' = Begun
    BY <1>2, <1>4, FabAssumption DEF Begun
  <1>6. chore \in Chores /\ todo[c] \in Seq(Chores) /\ todo[c] # <<>>
    BY <1>1, <1>2, ChoreType
  <1>7. e \in Equipment /\ chore.do \in {"start", "select"} /\ chore = [do |-> chore.do, equipment |-> e]
    BY <1>6 DEF Chores
  <1>8. chore.do = "select" => EquipmentProduct(e) = LotProduct[l]
    <2>1. 1 \in DOMAIN todo[c] /\ chore = todo[c][1]
      BY <1>6, HeadAndRest
    <2>2. PlanOK(c)
      BY DEF PlansOK
    <2> HIDE DEF chore
    <2> QED
      BY <1>4, <2>1, <2>2 DEF PlanOK
  <1>9. eqStatus[e] # "MAINTENANCE"
    BY <1>7 DEF Calm, NothingStopped
  <1>10. IF chore.do = "start" THEN Start(e) ELSE SelectRecipe(e, LotRecipe[l])
    BY <1>4, <1>9 DEF Prepare
  <1>11. \A x \in Chores : IsIn(x, todo[c]) => x = chore \/ IsIn(x, Tail(todo[c]))
    BY <1>6, HeadAndRest
  <1> HIDE DEF chore, e
  <1>12. /\ UNCHANGED lost
         /\ chore.do = "start" => eqStatus' = [eqStatus EXCEPT ![e] = "RUN"] /\ eqRecipe' = eqRecipe
         /\ chore.do = "select" => eqRecipe' = [eqRecipe EXCEPT ![e] = LotRecipe[l]] /\ eqStatus' = eqStatus
    BY <1>10 DEF Start, SetEquipmentStatus, SelectRecipe
  <1>13. /\ \A x \in Equipment : eqStatus'[x] \in {eqStatus[x], "RUN"}
         /\ chore.do = "start" => eqStatus'[e] = "RUN"
    BY <1>1, <1>7, <1>12 DEF TypeOK
  <1>14. /\ \A x \in Equipment : eqRecipe'[x] = eqRecipe[x]
              \/ (eqRecipe'[x] = LotRecipe[l] /\ EquipmentProduct(x) = LotProduct[l])
         /\ chore.do = "select" => eqRecipe'[e] = LotRecipe[l]
    BY <1>1, <1>7, <1>8, <1>12 DEF TypeOK
  <1>15. NothingStopped' /\ LotsStand'
    <2>1. NothingStopped'
      BY <1>2, <1>3, <1>12, <1>13 DEF Calm, NothingStopped
    <2> QED
      BY <1>2, <1>3, <1>5, <2>1, LotsStandStill DEF Calm
  <1>16. GoesOn(c)' /\ \A d \in Clients \ {c} : stage'[d] = stage[d] /\ todo'[d] = todo[d]
    BY <1>1, <1>2 DEF StageTypes, GoesOn
  <1>17. \A d \in Begun' : Hope(runs[d])'
    BY <1>2, <1>3, <1>4, <1>5, <1>16, HopesRest DEF Calm
  <1>18. ASSUME NEW d \in Begun PROVE Prepared(d)'
    <2>1. Prepared(d) /\ d \in Clients /\ runs[d] # None
      BY DEF Calm, Begun
    <2>2. ASSUME NEW x \in Equipment PROVE eqStatus'[x] = "RUN" \/ ToDo(d, "start", x)'
      <3>1. CASE eqStatus[x] = "RUN"
        BY <1>13, <3>1
      <3>2. CASE d # c /\ ToDo(d, "start", x)
        BY <1>16, <2>1, <3>2 DEF ToDo, IsIn
      <3>3. CASE d = c /\ ToDo(c, "start", x)
        <4> DEFINE this == [do |-> "start", equipment |-> x]
        <4>1. this \in Chores /\ this.do = "start" /\ this.equipment = x
          BY DEF Chores
        <4> HIDE DEF this
        <4>2. this = chore \/ IsIn(this, Tail(todo[c]))
          BY <1>11, <3>3, <4>1 DEF ToDo, this
        <4>3. todo'[c] = Tail(todo[c])
          BY <1>1, <1>2
        <4>4. this = chore => eqStatus'[x] = "RUN"
          BY <1>13, <4>1 DEF e
        <4> QED
          BY <3>3, <4>2, <4>3, <4>4 DEF ToDo, IsIn, this
      <3> QED
        BY <2>1, <3>1, <3>2, <3>3 DEF Prepared
    <2>3. ASSUME NEW x \in Equipment, EquipmentProduct(x) = LotProduct[runs[d]]
          PROVE  eqRecipe'[x] = LotRecipe[runs[d]] \/ ToDo(d, "select", x)'
      <3>1. CASE eqRecipe[x] = LotRecipe[runs[d]]
        <4>1. EquipmentProduct(x) = LotProduct[l] => LotRecipe[runs[d]] = LotRecipe[l]
          BY <1>4, <1>5, <2>1, <2>3 DEF LeftAlone, RecipesAgree, Begun
        <4> QED
          BY <1>14, <3>1, <4>1
      <3>2. CASE d # c /\ ToDo(d, "select", x)
        BY <1>16, <2>1, <3>2 DEF ToDo, IsIn
      <3>3. CASE d = c /\ ToDo(c, "select", x)
        <4> DEFINE this == [do |-> "select", equipment |-> x]
        <4>1. this \in Chores /\ this.do = "select" /\ this.equipment = x
          BY DEF Chores
        <4> HIDE DEF this
        <4>2. this = chore \/ IsIn(this, Tail(todo[c]))
          BY <1>11, <3>3, <4>1 DEF ToDo, this
        <4>3. todo'[c] = Tail(todo[c])
          BY <1>1, <1>2
        <4>4. this = chore => eqRecipe'[x] = LotRecipe[l]
          BY <1>14, <4>1 DEF e
        <4> QED
          BY <1>4, <3>3, <4>2, <4>3, <4>4 DEF ToDo, IsIn, this
      <3> QED
        BY <2>1, <2>3, <3>1, <3>2, <3>3 DEF Prepared
    <2> QED
      BY <1>2, <2>2, <2>3 DEF Prepared
  <1> QED
    BY <1>5, <1>15, <1>17, <1>18 DEF Calm

\* When no program changes, and the line only as far as nobody looks, it stays.
LEMMA StillCalm ==
  ASSUME Calm, UNCHANGED clientVars,
         UNCHANGED <<lotEquipment, panelStatus, lastStep, eqStatus, eqRecipe, lost>>,
         \A l \in Lots : lotStatus'[l] = "HOLD" => lotStatus[l] = "HOLD"
  PROVE  Calm'
  <1>1. UNCHANGED <<stage, runs, todo, plan, outcome>>
    BY DEF clientVars
  <1>2. NothingStopped' /\ LotsStand'
    BY <1>1, LotsStandStill DEF Calm, NothingStopped, Begun
  <1>3. ASSUME NEW d \in Begun PROVE Prepared(d)' /\ Hope(runs[d])'
    <2>1. Prepared(d)'
      BY <1>1, <1>3, PreparedRests DEF Calm, Begun
    <2>2. Hope(runs[d])
      BY DEF Calm
    <2>3. Hope(runs[d])'
      BY <1>1, <2>2 DEF Hope, Ahead, GoesOn, Fresh, Begun, PanelsOf
    <2> QED
      BY <2>1, <2>3
  <1> QED
    BY <1>1, <1>2, <1>3 DEF Calm, Begun

\* An accepted report moves its lot's panel on, and whoever made it asks again.
\* Of an order that stays open it completes no lot, so the equipment keeps running.
LEMMA ReportCalm ==
  ASSUME ClientInv, LineIsSound, PlansOK, LeftAlone, Calm, LeftAlone', OrdersGoOn,
         NEW c \in Clients, Report(c)
  PROVE  Calm'
  <1> DEFINE e == plan[c].equipment
             p == plan[c].panel
             step == plan[c].step
  <1>1. StageTypes /\ TypeOK /\ plan \in [Clients -> Plans \cup {None}]
    BY ClientTypesApart DEF ClientInv
  <1>2. /\ stage[c] = "report" /\ stage' = [stage EXCEPT ![c] = "ask"]
        /\ plan' = [plan EXCEPT ![c] = None] /\ UNCHANGED <<runs, todo, outcome>>
    BY DEF Report, Sent
  <1>3. PICK l \in Lots : runs[c] = l /\ order[l] # "NONE"
    BY <1>2 DEF ClientInv, ProgramsOK, ProgramOK
  <1>4. c \in Begun /\ Begun' = Begun
    BY <1>2, <1>3, FabAssumption DEF Begun
  <1>5. /\ e \in Equipment /\ step = EquipmentStep(e) /\ EquipmentProduct(e) \in {None, LotProduct[l]}
        /\ lotStatus'[l] \in {"COMPLETE", "PROCESSING"}
        /\ lotStatus'[l] = "COMPLETE" => AllFinished(panelStatus', l)
        /\ eqStatus' = [eqStatus EXCEPT ![e] = IF lotStatus'[l] = "COMPLETE" THEN "IDLE" ELSE "RUN"]
        /\ eqRecipe' = [eqRecipe EXCEPT ![e] = LotRecipe[l]]
        /\ lost' = lost \ {e}
    BY <1>3, ReportOnLine
  <1>6. /\ p \in Panels /\ PanelLot[p] = l
        /\ panelStatus' = [panelStatus EXCEPT ![p] = IF step = "INSPECT" THEN "COMPLETE" ELSE "PROCESSING"]
        /\ lotStatus' = [lotStatus EXCEPT ![l] = lotStatus'[l]]
        /\ lotEquipment' = [lotEquipment EXCEPT ![l] = e]
        /\ order' = RefreshWorkOrder(panelStatus', l)
    BY <1>3, ReportEffect
  <1>7. /\ lastStep' = [lastStep EXCEPT ![p] = step] /\ Place(lastStep[p]) <= Place(step)
    BY ReportMoves DEF PlansOK, LineIsSound
  <1> HIDE DEF e, p, step
  <1>8. lotStatus'[l] = "PROCESSING"
    <2>1. order'[l] # "NONE" /\ order'[l] # "DONE"
      <3>1. order'[l] # "NONE"
        BY <1>3 DEF OrdersGoOn
      <3>2. order'[runs'[c]] # "DONE"
        BY <1>4 DEF LeftAlone
      <3> QED
        BY <1>2, <1>3, <3>1, <3>2
    <2>2. PanelsOf(l) # {}
      BY DispatchAssumption
    <2>3. ~AllFinished(panelStatus', l)
      <3>1. \A status : RefreshWorkOrder(status, l)[l] # "NONE" /\ AllFinished(status, l)
                          => RefreshWorkOrder(status, l)[l] = "DONE"
        BY <1>1, <2>2, RefreshCloses
      <3> QED
        BY <1>6, <2>1, <3>1
    <2> QED
      BY <1>5, <2>3
  <1>9. /\ \A x \in Equipment : eqStatus'[x] \in {eqStatus[x], "RUN"}
        /\ \A x \in Equipment : eqRecipe'[x] = eqRecipe[x]
             \/ (eqRecipe'[x] = LotRecipe[l] /\ EquipmentProduct(x) \in {None, LotProduct[l]})
    BY <1>1, <1>5, <1>8 DEF TypeOK
  <1>10. /\ \A k \in Lots : k # l => lotEquipment'[k] = lotEquipment[k] /\ lotStatus'[k] = lotStatus[k]
         /\ lotEquipment'[l] = e
    BY <1>1, <1>6 DEF TypeOK
  <1>11. /\ \A q \in Panels : q # p => lastStep'[q] = lastStep[q] /\ panelStatus'[q] = panelStatus[q]
         /\ lastStep'[p] = step /\ panelStatus'[p] \in {"COMPLETE", "PROCESSING"}
    BY <1>1, <1>6, <1>7 DEF TypeOK
  <1>12. NothingStopped'
    <2>1. NothingStopped
      BY DEF Calm
    <2>2. lost' = {} /\ \A x \in Equipment : eqStatus'[x] # "MAINTENANCE"
      BY <1>5, <1>9, <2>1 DEF NothingStopped
    <2>3. /\ \A k \in Lots : lotStatus'[k] # "HOLD"
          /\ \A q \in Panels : panelStatus'[q] # "SCRAP"
      BY <1>8, <1>10, <1>11, <2>1 DEF NothingStopped
    <2> QED
      BY <1>2, <2>1, <2>2, <2>3 DEF NothingStopped
  <1>13. LotsStand'
    <2>1. ASSUME NEW k \in Lots, lotEquipment'[k] # None
          PROVE  /\ \E d \in Begun : runs[d] = k
                 /\ \E q \in PanelsOf(k) : lastStep'[q] = EquipmentStep(lotEquipment'[k])
      <3>1. CASE k = l
        <4>1. p \in PanelsOf(l) /\ lastStep'[p] = EquipmentStep(lotEquipment'[l])
          BY <1>5, <1>6, <1>10, <1>11 DEF PanelsOf
        <4> QED
          BY <1>3, <1>4, <3>1, <4>1
      <3>2. CASE k # l
        <4>1. \A q \in PanelsOf(k) : lastStep'[q] = lastStep[q]
          BY <1>6, <1>11, <3>2 DEF PanelsOf
        <4> QED
          BY <1>10, <2>1, <3>2, <4>1 DEF Calm, LotsStand
      <3> QED
        BY <3>1, <3>2
    <2> QED
      BY <1>2, <1>4, <2>1 DEF LotsStand, PanelsOf
  <1>14. ASSUME NEW d \in Begun PROVE Prepared(d)'
    <2>1. Prepared(d) /\ d \in Clients /\ runs[d] \in Lots
      BY <1>1 DEF Calm, Begun, StageTypes
    <2>2. ASSUME NEW x \in Equipment PROVE eqStatus'[x] = "RUN" \/ ToDo(d, "start", x)'
      BY <1>2, <1>9, <2>1 DEF Prepared, ToDo, IsIn
    <2>3. ASSUME NEW x \in Equipment, EquipmentProduct(x) = LotProduct[runs[d]]
          PROVE  eqRecipe'[x] = LotRecipe[runs[d]] \/ ToDo(d, "select", x)'
      <3>1. CASE ToDo(d, "select", x)
        BY <1>2, <3>1 DEF ToDo, IsIn
      <3>2. CASE eqRecipe[x] = LotRecipe[runs[d]]
        <4>1. EquipmentProduct(x) # None
          <5>1. LotProduct[runs[d]] \in Products
            BY <2>1, FabAssumption
          <5>2. None \notin Products
            BY ClientAssumption
          <5> QED
            BY <2>3, <5>1, <5>2
        <4>2. LotProduct[runs[d]] = LotProduct[l] => LotRecipe[runs[d]] = LotRecipe[l]
          BY <1>3, <1>4, <2>1 DEF LeftAlone, RecipesAgree, Begun
        <4> QED
          BY <1>9, <2>3, <3>2, <4>1, <4>2
      <3> QED
        BY <2>1, <2>3, <3>1, <3>2 DEF Prepared
    <2> QED
      BY <1>2, <2>2, <2>3 DEF Prepared
  <1>15. ASSUME NEW d \in Begun PROVE Hope(runs[d])'
    <2>1. PICK k \in Lots : runs[d] = k
      BY <1>1 DEF Begun, StageTypes
    <2>2. CASE k = l
      <3>1. stage'[c] = "ask" /\ runs'[c] = k
        BY <1>1, <1>2, <1>3, <2>2 DEF StageTypes
      <3>2. Hope(k)'
        BY <3>1 DEF Hope, GoesOn
      <3> QED
        BY <1>2, <2>1, <3>2, HopeOfEach DEF Begun
    <2>3. CASE k # l
      <3>1. Hope(k)
        BY <2>1 DEF Calm
      <3>2. \A q \in Panels : Place(lastStep[q]) <= Place(lastStep'[q])
        <4>1. \A q \in Panels : Place(lastStep[q]) \in Nat
          BY PlaceType
        <4> QED
          BY <1>7, <1>11, <4>1
      <3>3. \A q \in PanelsOf(k) : lastStep'[q] = lastStep[q]
        BY <1>6, <1>11, <2>3 DEF PanelsOf
      <3>4. \A x \in Clients : runs[x] = k => stage'[x] = stage[x] /\ plan'[x] = plan[x]
        BY <1>1, <1>2, <1>3, <2>3 DEF StageTypes
      <3>5. Hope(k)'
        BY <1>2, <1>4, <3>1, <3>2, <3>3, <3>4, HopeRests
      <3> QED
        BY <1>2, <2>1, <3>5, HopeOfEach DEF Begun
    <2> QED
      BY <2>2, <2>3
  <1> QED
    BY <1>4, <1>12, <1>13, <1>14, <1>15 DEF Calm

LEMMA CalmStays ==
  ASSUME ClientInv, LineIsSound, PlansOK, LeftAlone, Calm, LeftAlone',
         [ClientNext]_<<vars, clientVars>>
  PROVE  Calm'
  <1>1. NoStepSkipped /\ OrdersGoOn
    BY LineGoesOn DEF LineIsSound
  <1>2. StageTypes /\ disturbed = 0 /\ disturbed' = 0
    BY ClientTypesApart DEF ClientInv, LeftAlone
  <1>3. ~Disturbed
    BY <1>2 DEF Disturbed
  <1>4. ASSUME NEW c \in Clients, Client(c) PROVE Calm'
    <2>1. stage[c] # "off" => runs[c] \in Lots /\ order[runs[c]] # "NONE" /\ c \in Begun
      BY FabAssumption DEF ClientInv, ProgramsOK, ProgramOK, Begun
    <2>2. CASE Prepare(c)
      BY <2>2, PrepareCalm
    <2>3. CASE Beat(c)
      BY <2>3 DEF Beat, Calm, NothingStopped
    <2>4. CASE Ask(c)
      BY <1>1, <2>4, AskCalm
    <2>5. CASE AskHeld(c)
      BY <2>1, <2>5 DEF AskHeld, Calm, NothingStopped
    <2>6. CASE AskDone(c)
      <3>1. stage[c] = "ask" /\ PanelDone(NextPanel(runs[c]))
        BY <2>6 DEF AskDone
      <3>2. order[runs[c]] = "DONE"
        BY <2>1, <3>1, NothingLeftIsClosed
      <3> QED
        BY <2>1, <3>1, <3>2 DEF LeftAlone
    <2>7. CASE OutOfTurns(c)
      <3>1. outcome'[c] = "out of turns"
        BY <1>2, <2>7 DEF OutOfTurns, End, StageTypes
      <3> QED
        BY <3>1 DEF LeftAlone
    <2>8. CASE Report(c)
      BY <1>1, <2>8, ReportCalm
    <2>9. CASE ReportRefused(c)
      BY <2>9, RefusedCalm
    <2> QED
      BY <1>4, <2>2, <2>3, <2>4, <2>5, <2>6, <2>7, <2>8, <2>9 DEF Client
  <1>5. ASSUME NEW l \in Lots, Order(l) PROVE Calm'
    <2>1. /\ UNCHANGED clientVars
          /\ UNCHANGED <<lotEquipment, panelStatus, lastStep, eqStatus, eqRecipe, lost>>
          /\ lotStatus' = [lotStatus EXCEPT ![l] = "WAIT"]
      BY <1>5 DEF Order, CreateAndRelease, panelVars, eqVars
    <2>2. \A k \in Lots : lotStatus'[k] = "HOLD" => lotStatus[k] = "HOLD"
      BY <2>1 DEF ClientInv, TypeOK
    <2> QED
      BY <2>1, <2>2, StillCalm
  <1>6. ASSUME UNCHANGED <<vars, clientVars>> PROVE Calm'
    <2>1. /\ UNCHANGED clientVars
          /\ UNCHANGED <<lotStatus, lotEquipment, panelStatus, lastStep, eqStatus, eqRecipe, lost>>
      BY <1>6 DEF vars
    <2> QED
      BY <2>1, StillCalm
  <1>7. ~Disturb /\ \A c \in Clients : ~Break(c)
    BY <1>3 DEF Disturb, Break
  <1> QED
    BY <1>4, <1>5, <1>6, <1>7, BeginCalm DEF ClientNext

-----------------------------------------------------------------------------
(* One of them finishes.                                                   *)

\* Of lots none can be behind another for ever: some panel has come furthest.
LEMMA NotAllBehind ==
  ASSUME \A c \in Begun : Ahead(runs[c])
  PROVE  Begun = {}
  <1> DEFINE Come == {n \in 0 .. 5 : \E c \in Begun : \E q \in PanelsOf(runs[c]) : Place(lastStep[q]) = n}
  <1>1. ASSUME NEW n \in Come PROVE \E m \in Come : m > n
    <2>1. PICK c \in Begun : \E q \in PanelsOf(runs[c]) : Place(lastStep[q]) = n
      OBVIOUS
    <2>2. PICK p \in PanelsOf(runs[c]) : Place(lastStep[p]) = n
      BY <2>1
    <2>3. PICK d \in Begun : \E q \in PanelsOf(runs[d]) : \A x \in PanelsOf(runs[c]) :
            Place(lastStep[q]) > Place(lastStep[x])
      BY DEF Ahead
    <2>4. PICK q \in PanelsOf(runs[d]) : Place(lastStep[q]) > Place(lastStep[p])
      BY <2>2, <2>3
    <2> QED
      BY <2>2, <2>4, PlaceType
  <1>2. ASSUME NEW c \in Begun PROVE Come # {}
    <2>1. PICK d \in Begun : \E q \in PanelsOf(runs[d]) : \A x \in PanelsOf(runs[c]) :
            Place(lastStep[q]) > Place(lastStep[x])
      BY DEF Ahead
    <2> QED
      BY <2>1, PlaceType
  <1>3. Come \subseteq 0 .. 5
    OBVIOUS
  <1> HIDE DEF Come
  <1>4. 5 \notin Come
    BY <1>1, <1>3
  <1>5. 4 \notin Come
    BY <1>1, <1>3, <1>4
  <1>6. 3 \notin Come
    BY <1>1, <1>3, <1>4, <1>5
  <1>7. 2 \notin Come
    BY <1>1, <1>3, <1>4, <1>5, <1>6
  <1>8. 1 \notin Come
    BY <1>1, <1>3, <1>4, <1>5, <1>6, <1>7
  <1>9. 0 \notin Come
    BY <1>1, <1>3, <1>4, <1>5, <1>6, <1>7, <1>8
  <1>10. Come = {}
    <2>1. \A n \in 0 .. 5 : n \in {0, 1, 2, 3, 4, 5}
      OBVIOUS
    <2> QED
      BY <1>3, <1>4, <1>5, <1>6, <1>7, <1>8, <1>9, <2>1, Zenon
  <1> QED
    BY <1>2, <1>10

\* If all programs have ended and no order is done, every lot is behind another.
LEMMA PeaceFinishes ==
  ASSUME PeaceInv
  PROVE  OneOfThemFinishes
  <1> SUFFICES ASSUME \A c \in Clients : outcome[c] \in {"done", "held", "refused"},
                      disturbed = 0, RecipesAgree, NoCassetteInTheWay,
                      \A c \in Clients : order[runs[c]] # "DONE"
               PROVE  FALSE
    BY DEF OneOfThemFinishes
  <1>1. ClientInv /\ PlansOK /\ Peace
    BY DEF PeaceInv
  <1>2. \A c \in Clients : outcome[c] # None /\ outcome[c] \notin {"out of turns", "broken"}
    BY ClientAssumption
  <1>3. Begun = Clients
    BY <1>1, <1>2 DEF Begun, PlansOK, PlanOK
  <1>4. \A c \in Clients : stage[c] = "off"
    BY <1>1, <1>2 DEF ClientInv, ProgramsOK, ProgramOK
  <1>5. LeftAlone
    <2>1. \/ \A c \in Begun : Cardinality(PanelsOf(runs[c])) = 1
          \/ \A c, d \in Begun : runs[c] = runs[d]
      <3>1. \A c \in Begun : c \in Clients /\ runs[c] # None
        BY DEF Begun
      <3> QED
        BY <3>1 DEF NoCassetteInTheWay
    <2> QED
      BY <1>2, <1>3, <2>1 DEF LeftAlone
  <1>6. \A c \in Begun : Ahead(runs[c])
    BY <1>1, <1>4, <1>5 DEF Peace, Calm, Hope, GoesOn
  <1> QED
    BY <1>3, <1>6, NotAllBehind, ClientAssumption

LEMMA PeaceKept == ClientSpec => []PeaceInv
  <1>1. ClientInit => LineIsSound /\ PlansOK /\ Peace
    <2> SUFFICES ASSUME ClientInit PROVE LineIsSound /\ PlansOK /\ Peace
      OBVIOUS
    <2>1. LineIsSound
      <3>1. NoStepSkipped
        BY FabAssumption DEF ClientInit, Init, NoStepSkipped, IsRoutePrefix, ProductOf
      <3>2. OneStationPerLot
        BY DEF ClientInit, Init, OneStationPerLot
      <3>3. LotAgreesWithPanels
        BY FabAssumption DEF ClientInit, Init, FreshLots, LotAgreesWithPanels
      <3>4. WaitingLotIsUntouched
        BY FabAssumption, NoneIsNotAStep DEF ClientInit, Init, WaitingLotIsUntouched, PanelsOf
      <3> QED
        BY <3>1, <3>2, <3>3, <3>4 DEF LineIsSound
    <2>2. PlansOK
      BY DEF ClientInit, PlansOK, PlanOK
    <2>3. Begun = {}
      BY DEF ClientInit, Begun
    <2>4. NothingStopped
      BY ClientAssumption DEF ClientInit, Init, FreshLots, NothingStopped
    <2>5. LotsStand
      BY DEF ClientInit, Init, LotsStand
    <2> QED
      BY <2>1, <2>2, <2>3, <2>4, <2>5 DEF Peace, Calm
  <1>2. ClientInv /\ LineIsSound /\ PlansOK /\ Peace /\ [ClientNext]_<<vars, clientVars>>
          => LineIsSound' /\ PlansOK' /\ Peace'
    <2> SUFFICES ASSUME ClientInv, LineIsSound, PlansOK, Peace, [ClientNext]_<<vars, clientVars>>
                 PROVE  LineIsSound' /\ PlansOK' /\ Peace'
      OBVIOUS
    <2>1. LineIsSound' /\ PlansOK'
      BY SoundStays, PlansStay DEF LineIsSound
    <2>2. ASSUME LeftAlone' PROVE Calm'
      <3>1. LeftAlone
        BY <2>2, LeftAloneBefore
      <3> QED
        BY <2>2, <3>1, CalmStays DEF Peace
    <2> QED
      BY <2>1, <2>2 DEF Peace
  <1> QED
    BY <1>1, <1>2, ClientsCorrect, PTL DEF ClientSpec, PeaceInv

\* However many programs run, on one order or on several of one panel each, and
\* however their questions and reports overlap: if nobody else touches the line
\* and they all come to an end, one of them has its order done.
THEOREM OneIsDone == ClientSpec => []OneOfThemFinishes
  BY PeaceKept, PeaceFinishes, PTL

\* Programs outside the host, whose reports come late, twice or in between, leave
\* its state sound: no panel skips a step, a cassette stands on one equipment at
\* most, a stopped panel is in a stopped lot, a waiting lot is untouched, and an
\* order closes with its last panel.
THEOREM LineStaysSound == ClientSpec => [](LineIsSound /\ OrderClosesWithLastPanel)
  <1>1. PeaceInv => LineIsSound /\ OrderClosesWithLastPanel
    BY DEF PeaceInv, ClientInv, OrderInv
  <1> QED
    BY <1>1, PeaceKept, PTL
=============================================================================
