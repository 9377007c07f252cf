-------------------------- MODULE LineRunnerProofs --------------------------
(***************************************************************************)
(* Theorems about LineRunner, for every set of lots, panels and equipment, *)
(* every horizon and whatever the operator does between runs.              *)
(***************************************************************************)
EXTENDS LineRunner, DispatchProofs

-----------------------------------------------------------------------------
(* The invariant.                                                          *)

\* A run has a work order's lot; while it prepares equipment there is one left to
\* prepare, and it sends no event without a plan.
RunUnderWay ==
  /\ phase # "idle" => running \in Lots
  /\ phase \in {"wake", "start", "select", "farewell"} => todo # <<>>
  /\ phase = "send" => plan # None

\* A stamp that lies ahead of the clock is that of an event on record.
StampsAreRecorded == \A p \in Panels : ahead[p] > 0 => history[p] # {}

\* What a run that takes its leave has looked at: every panel of its lot is done,
\* or its inspection found it bad.
NothingLeft ==
  phase = "farewell" =>
    \A p \in PanelsOf(running) : panelStatus[p] \in {"FAIL", "SCRAP"} \/ PanelDone(p)

RunnerInv == TypeOK /\ RunnerTypeOK /\ RunUnderWay /\ StampsAreRecorded /\ NothingLeft

-----------------------------------------------------------------------------
(* The types of a run.                                                     *)

\* The types, apart: the stamps, which are numbers, and everything else.
StampTypes == count \in 0 .. Tolerance + 1 /\ ahead \in [Panels -> 0 .. Tolerance]

PlanTypes ==
  /\ phase \in {"idle", "wake", "start", "select", "dispatch", "send", "farewell"}
  /\ running \in Lots \cup {None}
  /\ failing \in BOOLEAN
  /\ todo \in Seq(Equipment)
  /\ plan \in [panel : Panels, step : Steps, equipment : Equipment] \cup {None}
  /\ outcome \in {None, "done", "LOT HOLD", "STALE_TIMESTAMP", "rejected"}

LEMMA TypesApart ==
  /\ RunnerTypeOK <=> StampTypes /\ PlanTypes
  /\ (RunnerTypeOK <=> StampTypes /\ PlanTypes)'
  BY DEF RunnerTypeOK, StampTypes, PlanTypes

\* The horizon is a number of seconds, and so are the stamps.
LEMMA StampNumbers ==
  ASSUME StampTypes
  PROVE  Tolerance \in Nat /\ count \in Nat /\ \A p \in Panels : ahead[p] \in Nat
  BY RunnerAssumption DEF StampTypes

\* What is left to prepare.
LEMMA FrontOfTodo ==
  ASSUME RunnerTypeOK, todo # <<>>
  PROVE  /\ Head(todo) \in Equipment
         /\ Tail(todo) \in Seq(Equipment)
         /\ Len(todo) > 1 => Tail(todo) # <<>>
  <1>1. todo \in Seq(Equipment)
    BY DEF RunnerTypeOK
  <1>2. /\ Head(todo) \in Equipment /\ Tail(todo) \in Seq(Equipment)
        /\ Len(Tail(todo)) = Len(todo) - 1
    BY <1>1, HeadTailProperties
  <1>3. Len(todo) > 1 => Len(Tail(todo)) # 0
    BY <1>1, <1>2, LenProperties
  <1> QED
    BY <1>2, <1>3, EmptySeq

-----------------------------------------------------------------------------
(* Every step of the runner is a step of the line.                         *)

\* The commands the runner gives are ones the host takes.
LEMMA RunnerCommands ==
  ASSUME NEW e \in Equipment
  PROVE  /\ Start(e) => Next
         /\ MaintEnter(e) => Next
         /\ MaintExit(e) => Next
         /\ \A r \in Recipes : SelectRecipe(e, r) => Next
  <1> USE RunnerAssumption
  <1>1. Start(e) => Command("START")
    BY DEF Command
  <1>2. MaintEnter(e) => Command("MAINT_ENTER")
    BY DEF Command
  <1>3. MaintExit(e) => Command("MAINT_EXIT")
    BY DEF Command
  <1>4. \A r \in Recipes : SelectRecipe(e, r) => Command("SELECT_RECIPE")
    BY DEF Command
  <1> QED
    BY <1>1, <1>2, <1>3, <1>4 DEF Next

\* The event it sends is one the host takes from any equipment.
LEMMA SendIsAnEvent ==
  ASSUME RunnerInv, Send
  PROVE  Next
  <1> DEFINE e == plan.equipment
             p == plan.panel
             step == plan.step
             fails == failing /\ plan.step = "INSPECT"
             late == count < ahead[plan.panel]
  <1>1. running \in Lots /\ e \in Equipment /\ p \in Panels /\ step \in Steps
    BY DEF RunnerInv, RunnerTypeOK, RunUnderWay, Send
  <1>2. Acceptable(e, running, p, step) /\ RecipeReady(e, LotRecipe[running])
    BY DEF Send, Accepted
  <1>3. late => history[p] # {}
    <2>1. count \in Nat /\ ahead[p] \in Nat
      BY <1>1, TypesApart, StampNumbers DEF RunnerInv
    <2> QED
      BY <1>1, <2>1 DEF RunnerInv, StampsAreRecorded
  <1>4. Apply(e, running, p, step, LotRecipe[running], "RUN", fails, late)
    BY DEF Send
  <1>5. LotRecipe[running] \in Recipes \cup {None} /\ "RUN" \in EventStatuses
    BY <1>1, FabAssumption, RunnerAssumption
  <1>6. fails \in BOOLEAN /\ late \in BOOLEAN /\ (fails => step = "INSPECT")
    OBVIOUS
  <1> HIDE DEF e, p, step, fails, late
  <1>7. AcceptProcess(e, running, p, step)
    BY <1>2, <1>3, <1>4, <1>5, <1>6 DEF AcceptProcess
  <1>8. step \in Steps \cup Aliases /\ NormalizeStep(step) = step
    BY <1>1 DEF NormalizeStep, Steps
  <1>9. AcceptProcess(e, running, p, NormalizeStep(step))
    BY <1>7, <1>8
  <1> QED
    BY <1>1, <1>8, <1>9 DEF Next

\* The recipe that is selected is one of the host's.
LEMMA RecipeForType ==
  ASSUME NEW e \in Equipment, EquipmentProduct(e) # None, NEW l \in Lots
  PROVE  RecipeFor(e, LotRecipe[l]) \in Recipes
  <1>1. EquipmentProduct(e) \in Products
    BY FabAssumption DEF EquipmentProduct, EquipmentIds, Products
  <1> QED
    BY <1>1, FabAssumption, DispatchAssumption DEF RecipeFor

LEMMA RunnerStepsAreNext ==
  ASSUME RunnerInv, [RunnerNext]_<<vars, runVars>>
  PROVE  [Next]_vars
  <1>1. ASSUME phase \in {"wake", "start", "select", "farewell"}
        PROVE  Head(todo) \in Equipment
    BY <1>1, FrontOfTodo DEF RunnerInv, RunUnderWay
  <1>2. CASE PrepareWake
    BY <1>1, <1>2 DEF PrepareWake, Next
  <1>3. CASE PrepareStart
    BY <1>1, <1>3, RunnerCommands DEF PrepareStart
  <1>4. CASE PrepareSelect
    <2>1. Head(todo) \in Equipment /\ running \in Lots
      BY <1>1, <1>4 DEF PrepareSelect, RunnerInv, RunUnderWay
    <2> QED
      BY <1>4, <2>1, RecipeForType, RunnerCommands DEF PrepareSelect
  <1>5. CASE Dispatch \/ DispatchHeld \/ DispatchDone
    BY <1>5 DEF Dispatch, DispatchHeld, DispatchDone
  <1>6. CASE Farewell
    BY <1>1, <1>6 DEF Farewell, Next, EquipmentStatuses
  <1>7. CASE Send
    BY <1>7, SendIsAnEvent
  <1>8. CASE SendRefused
    <2>1. plan.equipment \in Equipment
      BY <1>8 DEF SendRefused, RunnerInv, RunnerTypeOK, RunUnderWay
    <2> QED
      BY <1>8, <2>1 DEF SendRefused, Next
  <1>9. CASE Operator
    BY <1>9, RunnerAssumption, RunnerCommands DEF Operator, Next
  <1>10. CASE ResetBetweenRuns
    BY <1>10 DEF ResetBetweenRuns, Next
  <1>11. CASE Tick \/ UNCHANGED <<vars, runVars>>
    BY <1>11 DEF Tick
  <1>12. ASSUME NEW l \in Lots, NEW fails, RunOrder(l, fails) PROVE UNCHANGED vars
    BY <1>12 DEF RunOrder
  <1> QED
    BY <1>2, <1>3, <1>4, <1>5, <1>6, <1>7, <1>8, <1>9, <1>10, <1>11, <1>12
       DEF RunnerNext, Run

-----------------------------------------------------------------------------
(* The parts of the invariant, one by one.                                 *)

\* A run does not begin, go on or end but as its phases allow.
LEMMA RunStays ==
  ASSUME RunnerInv, [RunnerNext]_<<vars, runVars>>
  PROVE  PlanTypes' /\ RunUnderWay'
  <1> DEFINE Plans == [panel : Panels, step : Steps, equipment : Equipment]
  <1> USE DEF PlanTypes, RunUnderWay
  <1>0. PlanTypes /\ RunUnderWay
    BY TypesApart DEF RunnerInv
  <1> USE <1>0
  <1>1. ASSUME phase \in {"wake", "start", "select", "farewell"}
        PROVE  /\ Tail(todo) \in Seq(Equipment)
               /\ Len(todo) > 1 => Tail(todo) # <<>>
    BY <1>1, FrontOfTodo DEF RunnerInv
  <1>2. ASSUME NEW l \in Lots, NEW fails \in BOOLEAN, RunOrder(l, fails)
        PROVE  PlanTypes' /\ RunUnderWay'
    <2>1. LineEquipment \in Seq(Equipment) /\ LineEquipment # <<>>
      BY LineIsThere
    <2>2. /\ phase' = "wake" /\ running' = l /\ failing' = fails /\ todo' = LineEquipment
          /\ plan' = None /\ outcome' = None
      BY <1>2 DEF RunOrder
    <2> QED
      BY <2>1, <2>2
  <1>3. CASE PrepareWake
    BY <1>1, <1>3 DEF PrepareWake, Prepared
  <1>4. CASE PrepareStart
    BY <1>4 DEF PrepareStart
  <1>5. CASE PrepareSelect
    BY <1>1, <1>5 DEF PrepareSelect, Prepared
  <1>6. CASE Dispatch
    <2> DEFINE p == NextPanel(running)
    <2>1. running \in Lots /\ ~PanelDone(p)
      BY <1>6 DEF Dispatch
    <2>2. p \in Panels /\ NextStep(p) \in Steps /\ PickEquipment(NextStep(p)) \in Equipment
      BY <2>1, PlanFits
    <2>3. /\ plan' = [panel |-> p, step |-> NextStep(p), equipment |-> PickEquipment(NextStep(p))]
          /\ todo' = <<plan'.equipment>> /\ phase' = "wake"
          /\ UNCHANGED <<running, failing, outcome>>
      BY <1>6 DEF Dispatch
    <2> HIDE DEF p
    <2>4. plan' \in Plans
      BY <2>2, <2>3
    <2>5. plan'.equipment \in Equipment
      BY <2>2, <2>3
    <2>6. todo' \in Seq(Equipment) /\ todo' # <<>>
      BY <2>3, <2>5, OneToPrepare
    <2> QED
      BY <2>1, <2>3, <2>4, <2>6
  <1>7. CASE DispatchHeld
    BY <1>7 DEF DispatchHeld, End
  <1>8. CASE DispatchDone
    BY <1>8, LineIsThere DEF DispatchDone
  <1>9. CASE Farewell
    BY <1>1, <1>9 DEF Farewell, End
  <1>10. CASE Send
    <2>1. /\ phase' = "dispatch" /\ plan' = None
          /\ UNCHANGED <<running, failing, todo, outcome>> /\ running \in Lots
      BY <1>10 DEF Send
    <2> QED
      BY <2>1
  <1>11. CASE SendRefused
    BY <1>11 DEF SendRefused, End
  <1>12. CASE Operator
    BY <1>12 DEF Operator, runVars
  <1>13. CASE ResetBetweenRuns
    BY <1>13 DEF ResetBetweenRuns
  <1>14. CASE Tick
    BY <1>14 DEF Tick
  <1>15. CASE UNCHANGED <<vars, runVars>>
    BY <1>15 DEF runVars
  <1>16. MayFail \in BOOLEAN
    BY RunnerAssumption
  <1> QED
    BY <1>2, <1>3, <1>4, <1>5, <1>6, <1>7, <1>8, <1>9, <1>10, <1>11, <1>12, <1>13, <1>14, <1>15,
       <1>16 DEF RunnerNext, Run

\* Nothing the operator does between runs takes anything off the record.
LEMMA OperatorKeepsRecord ==
  ASSUME Operator
  PROVE  history' = history
  <1>1. ASSUME NEW type, Command(type) PROVE history' = history
    <2>1. ASSUME NEW l, HoldLot(l) \/ ReleaseLot(l) PROVE history' = history
      BY <2>1 DEF HoldLot, ReleaseLot, panelVars
    <2>2. ASSUME NEW e, MaintEnter(e) \/ MaintExit(e) \/ Start(e) \/ Stop(e)
          PROVE  history' = history
      BY <2>2 DEF MaintEnter, MaintExit, Start, Stop, SetEquipmentStatus, panelVars
    <2>3. ASSUME NEW e, NEW r, SelectRecipe(e, r) PROVE history' = history
      BY <2>3 DEF SelectRecipe, panelVars
    <2>4. ASSUME NEW p, ScrapPanel(p) PROVE history' = history
      BY <2>4 DEF ScrapPanel
    <2> QED
      BY <1>1, <2>1, <2>2, <2>3, <2>4 DEF Command
  <1>2. ASSUME NEW e, MaintEnter(e) \/ MaintExit(e) PROVE history' = history
    BY <1>2 DEF MaintEnter, MaintExit, SetEquipmentStatus, panelVars
  <1>3. ASSUME NEW l, CreateAndRelease(l) PROVE history' = history
    BY <1>3 DEF CreateAndRelease, panelVars
  <1>4. ASSUME NEW silent, MarkOffline(silent) PROVE history' = history
    BY <1>4 DEF MarkOffline, panelVars
  <1> QED
    BY <1>1, <1>2, <1>3, <1>4 DEF Operator

\* What a step of the runner does to the stamps: an event of the run is stamped
\* and recorded, a reset forgets them, time lets them fall behind; nothing else
\* touches them, or takes anything off the record.
LEMMA StampSteps ==
  ASSUME [RunnerNext]_<<vars, runVars>>
  PROVE  \/ ahead' = ahead /\ count' \in {0, count} /\ history' = history
         \/ Send
         \/ ResetBetweenRuns
         \/ Tick
  <1> DEFINE Kept == ahead' = ahead /\ count' = count /\ history' = history
  <1>1. ASSUME NEW l, NEW fails, RunOrder(l, fails)
        PROVE  ahead' = ahead /\ count' = 0 /\ history' = history
    BY <1>1 DEF RunOrder, vars
  <1>2. PrepareWake => Kept
    BY DEF PrepareWake, WakeEquipment, vars, panelVars
  <1>3. PrepareStart => Kept
    BY DEF PrepareStart, Start, SetEquipmentStatus, vars, panelVars
  <1>4. PrepareSelect => Kept
    BY DEF PrepareSelect, SelectRecipe, vars, panelVars
  <1>5. Dispatch \/ DispatchHeld \/ DispatchDone => Kept
    BY DEF Dispatch, DispatchHeld, DispatchDone, End, vars
  <1>6. Farewell => Kept
    BY DEF Farewell, End, Heartbeat, panelVars
  <1>7. SendRefused => Kept
    BY DEF SendRefused, End, RejectProcess, panelVars
  <1>8. Operator => Kept
    BY OperatorKeepsRecord DEF Operator, runVars
  <1>9. UNCHANGED <<vars, runVars>> => Kept
    BY DEF vars, runVars
  <1> QED
    BY <1>1, <1>2, <1>3, <1>4, <1>5, <1>6, <1>7, <1>8, <1>9 DEF RunnerNext, Run

\* What an event of the run leaves on record.
LEMMA SendStamps ==
  ASSUME RunnerInv, Send
  PROVE  LET p == plan.panel
         IN  /\ p \in Panels
             /\ count <= Tolerance
             /\ count' = count + 1
             /\ ahead' = [ahead EXCEPT ![p] = IF count < ahead[p] THEN ahead[p] ELSE count]
             /\ history'[p] # {}
             /\ \A q \in Panels : q # p => history'[q] = history[q]
  <1>1. plan.panel \in Panels /\ plan.step \in Steps
    BY TypesApart DEF RunnerInv, RunUnderWay, PlanTypes, Send
  <1>2. history' = [history EXCEPT ![plan.panel] = @ \cup {plan.step}]
    BY DEF Send, Apply
  <1>3. history \in [Panels -> SUBSET Steps]
    BY DEF RunnerInv, TypeOK
  <1>4. /\ count <= Tolerance /\ count' = count + 1
        /\ ahead' = [ahead EXCEPT ![plan.panel] = IF count < @ THEN @ ELSE count]
    BY DEF Send, Accepted
  <1> QED
    BY <1>1, <1>2, <1>3, <1>4

\* A run sends no event beyond the horizon, and no stamp is ahead of it.
LEMMA StampsStay ==
  ASSUME RunnerInv, [RunnerNext]_<<vars, runVars>>
  PROVE  StampTypes'
  <1>1. StampTypes
    BY TypesApart DEF RunnerInv
  <1>2. /\ Tolerance \in Nat
        /\ count \in 0 .. Tolerance + 1
        /\ ahead \in [Panels -> 0 .. Tolerance]
    BY <1>1, StampNumbers DEF StampTypes
  <1>3. CASE ahead' = ahead /\ count' \in {0, count}
    BY <1>2, <1>3 DEF StampTypes
  <1>4. CASE Send
    <2> DEFINE p == plan.panel
    <2>1. /\ p \in Panels /\ count <= Tolerance /\ count' = count + 1
          /\ ahead' = [ahead EXCEPT ![p] = IF count < ahead[p] THEN ahead[p] ELSE count]
      BY <1>4, SendStamps
    <2> HIDE DEF p
    <2>2. count' \in 0 .. Tolerance + 1 /\ count \in 0 .. Tolerance
      BY <1>2, <2>1
    <2>3. (IF count < ahead[p] THEN ahead[p] ELSE count) \in 0 .. Tolerance
      BY <1>2, <2>1, <2>2
    <2>4. ahead' \in [Panels -> 0 .. Tolerance]
      BY <1>2, <2>1, <2>3
    <2> QED
      BY <2>2, <2>4 DEF StampTypes
  <1>5. CASE ResetBetweenRuns
    <2>1. 0 \in 0 .. Tolerance
      BY <1>2
    <2>2. ahead' \in [Panels -> 0 .. Tolerance] /\ count' = count
      BY <1>5, <2>1 DEF ResetBetweenRuns
    <2> QED
      BY <1>2, <2>2 DEF StampTypes
  <1>6. CASE Tick
    <2>1. \A p \in Panels : (IF ahead[p] = 0 THEN 0 ELSE ahead[p] - 1) \in 0 .. Tolerance
      BY <1>2
    <2>2. ahead' \in [Panels -> 0 .. Tolerance] /\ count' = count
      BY <1>6, <2>1 DEF Tick
    <2> QED
      BY <1>2, <2>2 DEF StampTypes
  <1> QED
    BY <1>3, <1>4, <1>5, <1>6, StampSteps

\* A stamp stays that of an event on record, until time or a reset takes it.
LEMMA StampsStayRecorded ==
  ASSUME RunnerInv, [RunnerNext]_<<vars, runVars>>
  PROVE  StampsAreRecorded'
  <1>1. StampsAreRecorded /\ StampTypes
    BY TypesApart DEF RunnerInv
  <1>2. Tolerance \in Nat /\ ahead \in [Panels -> 0 .. Tolerance]
    BY <1>1, StampNumbers DEF StampTypes
  <1>3. CASE ahead' = ahead /\ history' = history
    BY <1>1, <1>3 DEF StampsAreRecorded
  <1>4. CASE Send
    <2> DEFINE p == plan.panel
    <2>1. /\ p \in Panels
          /\ ahead' = [ahead EXCEPT ![p] = IF count < ahead[p] THEN ahead[p] ELSE count]
          /\ history'[p] # {}
          /\ \A q \in Panels : q # p => history'[q] = history[q]
      BY <1>4, SendStamps
    <2> HIDE DEF p
    <2>2. \A q \in Panels : q # p => ahead'[q] = ahead[q]
      BY <1>2, <2>1
    <2> QED
      BY <1>1, <2>1, <2>2 DEF StampsAreRecorded
  <1>5. CASE ResetBetweenRuns
    <2>1. \A p \in Panels : ahead'[p] = 0
      BY <1>5 DEF ResetBetweenRuns
    <2> QED
      BY <2>1 DEF StampsAreRecorded
  <1>6. CASE Tick
    <2>1. history' = history
      BY <1>6 DEF Tick, vars
    <2>2. \A p \in Panels : ahead'[p] = IF ahead[p] = 0 THEN 0 ELSE ahead[p] - 1
      BY <1>6 DEF Tick
    <2>3. \A p \in Panels : ahead'[p] > 0 => ahead[p] > 0
      BY <1>2, <2>2
    <2> QED
      BY <1>1, <2>1, <2>3 DEF StampsAreRecorded
  <1> QED
    BY <1>3, <1>4, <1>5, <1>6, StampSteps

\* A run takes its leave only when the dispatcher has found nothing left to do,
\* and the heartbeats it says goodbye with change no panel.
LEMMA NothingStaysLeft ==
  ASSUME RunnerInv, [RunnerNext]_<<vars, runVars>>
  PROVE  NothingLeft'
  <1> DEFINE Same == UNCHANGED <<running, panelStatus, lastStep>>
             Bad(p) == panelStatus[p] \in {"FAIL", "SCRAP"}
  <1>1. ASSUME Same, phase = "farewell" PROVE NothingLeft'
    <2>1. \A p \in Panels : PanelDone(p)' <=> PanelDone(p)
      BY <1>1 DEF PanelDone, NextStep, ProductOf
    <2>2. \A p \in PanelsOf(running) : p \in Panels
      BY DEF PanelsOf
    <2>3. \A p \in PanelsOf(running) : Bad(p) \/ PanelDone(p)
      BY <1>1 DEF RunnerInv, NothingLeft
    <2>4. \A p \in PanelsOf(running) : panelStatus'[p] \in {"FAIL", "SCRAP"} \/ PanelDone(p)'
      BY <1>1, <2>1, <2>2, <2>3
    <2>5. PanelsOf(running)' = PanelsOf(running)
      BY <1>1 DEF PanelsOf
    <2> QED
      BY <2>4, <2>5 DEF NothingLeft
  <1>2. ASSUME phase' # "farewell" PROVE NothingLeft'
    BY <1>2 DEF NothingLeft
  <1>3. CASE DispatchDone
    <2>1. PanelDone(NextPanel(running)) /\ running \in Lots
      BY <1>3 DEF DispatchDone, RunnerInv, RunUnderWay
    <2>2. Same
      BY <1>3 DEF DispatchDone, vars
    <2>3. \A p \in PanelsOf(running) : Bad(p) \/ PanelDone(p)
      BY <2>1, NextPanelOfLot
    <2>4. \A p \in Panels : PanelDone(p)' <=> PanelDone(p)
      BY <2>2 DEF PanelDone, NextStep, ProductOf
    <2>5. PanelsOf(running)' = PanelsOf(running) /\ PanelsOf(running) \subseteq Panels
      BY <2>2 DEF PanelsOf
    <2>6. \A p \in PanelsOf(running) : panelStatus'[p] \in {"FAIL", "SCRAP"} \/ PanelDone(p)'
      BY <2>2, <2>3, <2>4, <2>5
    <2> QED
      BY <2>5, <2>6 DEF NothingLeft
  <1>4. CASE Farewell
    <2>1. phase = "farewell" /\ UNCHANGED running /\ UNCHANGED <<panelStatus, lastStep>>
      BY <1>4 DEF Farewell, End, Heartbeat, panelVars
    <2> QED
      BY <1>1, <2>1
  <1>5. CASE PrepareWake \/ PrepareSelect
    BY <1>2, <1>5 DEF PrepareWake, PrepareSelect, Prepared
  <1>6. CASE PrepareStart \/ Dispatch \/ DispatchHeld \/ Send \/ SendRefused
    BY <1>2, <1>6 DEF PrepareStart, Dispatch, DispatchHeld, Send, SendRefused, End
  <1>7. CASE Operator \/ ResetBetweenRuns \/ Tick
    BY <1>2, <1>7 DEF Operator, ResetBetweenRuns, Tick, runVars
  <1>8. ASSUME NEW l, NEW fails, RunOrder(l, fails) PROVE NothingLeft'
    BY <1>2, <1>8 DEF RunOrder
  <1>9. CASE UNCHANGED <<vars, runVars>>
    BY <1>1, <1>2, <1>9 DEF vars, runVars
  <1> QED
    BY <1>3, <1>4, <1>5, <1>6, <1>7, <1>8, <1>9 DEF RunnerNext, Run

-----------------------------------------------------------------------------
(* The runner is right.                                                    *)

\* Together the parts are inductive: the runner keeps the line's types because
\* its steps are the line's, and they are because of what its phases promise.
THEOREM RunnerCorrect == RunnerSpec => []RunnerInv
  <1>1. RunnerInit => RunnerInv
    <2> SUFFICES ASSUME RunnerInit PROVE RunnerInv
      OBVIOUS
    <2>1. TypeOK
      BY FabAssumption
         DEF RunnerInit, Init, FreshLots, TypeOK, LotStatuses, PanelStatuses, OrderStatuses,
             EquipmentStatuses
    <2>2. PlanTypes
      <3>1. <<>> \in Seq(Equipment)
        BY EmptySeq
      <3>2. todo \in Seq(Equipment)
        BY <3>1 DEF RunnerInit
      <3> QED
        BY <3>2, Zenon DEF RunnerInit, PlanTypes
    <2>3. StampTypes
      BY RunnerAssumption DEF RunnerInit, StampTypes
    <2>4. RunUnderWay /\ NothingLeft
      BY DEF RunnerInit, RunUnderWay, NothingLeft
    <2>5. StampsAreRecorded
      BY DEF RunnerInit, StampsAreRecorded
    <2> QED
      BY <2>1, <2>2, <2>3, <2>4, <2>5, TypesApart DEF RunnerInv
  <1>2. RunnerInv /\ [RunnerNext]_<<vars, runVars>> => RunnerInv'
    <2> SUFFICES ASSUME RunnerInv, [RunnerNext]_<<vars, runVars>> PROVE RunnerInv'
      OBVIOUS
    <2>1. TypeOK'
      BY RunnerStepsAreNext, TypeStays DEF RunnerInv
    <2>2. RunnerTypeOK' /\ RunUnderWay'
      BY RunStays, StampsStay, TypesApart
    <2> QED
      BY <2>1, <2>2, StampsStayRecorded, NothingStaysLeft DEF RunnerInv
  <1> QED
    BY <1>1, <1>2, PTL DEF RunnerSpec

\* Whatever the order of runs, commands, sweeps and resets, the runner's state
\* keeps its type; in particular no stamp is further ahead than the horizon.
THEOREM RunnerTypeCorrect == RunnerSpec => []RunnerTypeOK
  <1>1. RunnerInv => RunnerTypeOK
    BY DEF RunnerInv
  <1> QED
    BY <1>1, RunnerCorrect, PTL

\* What the runner does is what equipment, operators and the sweep may do, so
\* that everything proved of the line holds of a line that is run.
THEOREM RunnerRunsTheLine == RunnerSpec => RunsTheLine
  <1>1. RunnerInit => Init
    BY DEF RunnerInit
  <1>2. RunnerInv /\ [RunnerNext]_<<vars, runVars>> => [Next]_vars
    BY RunnerStepsAreNext
  <1> QED
    BY <1>1, <1>2, RunnerCorrect, PTL DEF RunnerSpec, RunsTheLine, Spec

\* A panel that is done or failed has been through its whole route, or was
\* scrapped on the way.
LEMMA DoneIsWhole ==
  ASSUME NoStepSkipped, NEW p \in Panels,
         panelStatus[p] \in {"FAIL", "SCRAP"} \/ PanelDone(p)
  PROVE  history[p] = StepsOf(ProductOf(p)) \/ panelStatus[p] = "SCRAP"
  <1>1. /\ IsRoutePrefix(history[p], ProductOf(p))
        /\ lastStep[p] \in history[p] \cup {None}
        /\ panelStatus[p] \in {"COMPLETE", "FAIL"} => history[p] = StepsOf(ProductOf(p))
    BY DEF NoStepSkipped
  <1>2. ProductOf(p) \in Products
    BY FabAssumption DEF ProductOf
  <1>3. CASE panelStatus[p] \in {"FAIL", "SCRAP", "COMPLETE"}
    BY <1>1, <1>3
  <1>4. CASE panelStatus[p] \notin {"FAIL", "SCRAP", "COMPLETE"}
    <2>2. lastStep[p] = "INSPECT"
      BY <1>4, DoneIsInspected DEF Finished
    <2>3. "INSPECT" \in history[p]
      BY <1>1, <2>2, NoneIsNotAStep DEF Steps
    <2> QED
      BY <1>1, <1>2, <2>3, InspectedIsWhole
  <1> QED
    BY <1>3, <1>4

\* A run that reports the order done has left nothing undone, although the
\* dispatcher looks at one panel at a time and the farewell takes many steps.
THEOREM DoneRunHolds == RunnerSpec => DoneRunLeftNothing
  <1> DEFINE Whole == \A p \in PanelsOf(running) :
                        history[p] = StepsOf(ProductOf(p)) \/ panelStatus[p] = "SCRAP"
  <1>1. RunnerInv /\ NoStepSkipped => (phase = "farewell" /\ outcome' = "done" => Whole)
    <2> SUFFICES ASSUME RunnerInv, NoStepSkipped, phase = "farewell",
                        NEW p \in PanelsOf(running)
                 PROVE  history[p] = StepsOf(ProductOf(p)) \/ panelStatus[p] = "SCRAP"
      OBVIOUS
    <2>1. p \in Panels
      BY DEF PanelsOf
    <2>2. panelStatus[p] \in {"FAIL", "SCRAP"} \/ PanelDone(p)
      BY DEF RunnerInv, NothingLeft
    <2> QED
      BY <2>1, <2>2, DoneIsWhole
  <1>2. RunnerSpec => []NoStepSkipped
    BY RunnerRunsTheLine, StepsInOrder, PTL DEF RunsTheLine
  <1> QED
    BY <1>1, <1>2, RunnerCorrect, PTL DEF DoneRunLeftNothing
=============================================================================
