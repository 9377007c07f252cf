--------------------------- MODULE Demonstration ---------------------------
(***************************************************************************)
(* The public demonstration: scenarios that anyone may play, each a script *)
(* of commands and events that goes through the same door as equipment, and*)
(* the autopilot that keeps the line alive -- a beat for all equipment, a  *)
(* scenario of its rotation, and now and then a reset.                     *)
(*                                                                         *)
(* A scenario holds the write lock from its first step to its last, so no  *)
(* command comes in between; an exception or the end of the process may.   *)
(* Between scenarios visitors play, command and reset as they like.        *)
(*                                                                         *)
(* Time is counted in beats.  The sweep is left out: the beats come well   *)
(* within the time-out, and the only loss is the one a scenario stages.    *)
(***************************************************************************)
EXTENDS Dispatch

CONSTANTS
  Lot001, Lot002, Lot003,  \* the practice cassettes LOT-20260918-00n
  A01, B01, C01,           \* RCP-OLED-A01, RCP-OLED-B01, RCP-LCD-C01
  RunEvery,                \* beats between two scenarios of the autopilot
  ResetEvery,              \* beats between two resets
  MaxUpsets,               \* visits and failures between two resets, a bound
  ByVisitor                \* the scenarios visitors play

\* The catalogue.
Ordered == {"demo_oled_pass", "demo_oled_fail", "demo_lcd_pass", "demo_recipe_mismatch"}
Practice == {"oled_happy", "lcd_happy", "lcd_into_oled_evap", "oled_recipe_mismatch",
             "oled_skip_encap", "oled_inspect_fail"}
Contact == {"demo_comm_loss", "demo_alive", "heartbeat"}
Scenarios == Ordered \cup Practice \cup Contact

Rotation == <<"demo_oled_pass", "demo_lcd_pass", "demo_oled_pass", "demo_oled_fail",
              "demo_oled_pass", "demo_lcd_pass", "demo_recipe_mismatch">>

ASSUME DemonstrationAssumption ==
  /\ {Lot001, Lot002, Lot003} \subseteq SampleLots
  /\ LotProduct[Lot001] = "OLED" /\ LotProduct[Lot002] = "OLED" /\ LotProduct[Lot003] = "LCD"
  /\ {A01, B01, C01} \subseteq Recipes
  /\ RecipeProduct[A01] = "OLED" /\ RecipeProduct[B01] = "OLED" /\ RecipeProduct[C01] = "LCD"
  /\ \A l \in Lots : LotRecipe[l] = IF LotProduct[l] = "OLED" THEN A01 ELSE C01
  /\ A01 # B01 /\ "RUN" \in EventStatuses
  /\ \A p, q \in Panels :         \* a demonstration orders one panel
       PanelLot[p] = PanelLot[q] /\ PanelLot[p] \notin SampleLots => p = q
  /\ Equipment = EquipmentIds
  /\ RunEvery \in Nat \ {0} /\ ResetEvery \in Nat \ {0} /\ MaxUpsets \in Nat
  /\ ByVisitor \subseteq Scenarios
  /\ None \notin Scenarios \cup Products \cup Panels \cup {"PASS", "FAIL"}

VARIABLES
  played,      \* the scenario being played, or None
  script,      \* what is left of it
  target,      \* the panel it is about, or None
  clear,       \* was the line clear for it when it began
  answer,      \* what the host said to its latest event
  pilot,       \* what the autopilot is about to do
  sinceRun, sinceReset,   \* its timers, in beats
  turn,        \* its place in the rotation
  upsets,      \* what visitors did and what failed since the reset
  calm         \* no visitor comes and nothing fails any more

playVars == <<played, script, target, clear, answer>>
pilotVars == <<pilot, sinceRun, sinceReset, turn>>
demoVars == <<vars, playVars, pilotVars, upsets, calm>>

Answers == {None, "ACCEPTED", "COMMUNICATION_LOSS", "EQUIPMENT_MAINTENANCE", "EQUIPMENT_STOPPED",
            "INVALID_LOT", "INVALID_PANEL", "PANEL_SCRAPPED", "PRODUCT_ROUTE_VIOLATION",
            "RECIPE_NOT_SELECTED", "RECIPE_MISMATCH", "EQUIPMENT_BUSY",
            "STEP_SEQUENCE_VIOLATION", "INTERLOCK_VIOLATION"}

DemoTypeOK ==
  /\ TypeOK
  /\ played \in Scenarios \cup {None}
  /\ target \in Panels \cup {None}
  /\ clear \in BOOLEAN /\ calm \in BOOLEAN
  /\ answer \in Answers
  /\ pilot \in {"sleep", "reset", "beat", "run"}
  /\ sinceRun \in 0 .. RunEvery /\ sinceReset \in 0 .. ResetEvery - 1
  /\ turn \in DOMAIN Rotation
  /\ upsets \in 0 .. MaxUpsets

DemoInit ==
  /\ Init
  /\ played = None /\ script = <<>> /\ target = None /\ clear = FALSE /\ answer = None
  /\ pilot = "sleep" /\ sinceRun = 0 /\ sinceReset = 0 /\ turn = 1
  /\ upsets = 0 /\ calm = FALSE

-----------------------------------------------------------------------------
(* The scripts.                                                            *)

Report(e, recipe, result) ==
  [do |-> "report", equipment |-> e, recipe |-> recipe, fails |-> result = "FAIL"]

SelectOn(e, recipe) == [do |-> "select", equipment |-> e, recipe |-> recipe]

Prepare(recipe) == [do |-> "prepare", recipe |-> recipe]

RunDemo(result) == <<[do |-> "run", fails |-> result = "FAIL"]>>

DemoRecipeMismatch ==
  << Report("LOAD-01", A01, None), Report("CLEAN-01", A01, None),
     SelectOn("PROC-01", B01), Report("PROC-01", B01, None) >>

DemoCommLoss == <<[do |-> "cut"]>>

OledHappy ==
  << Report("LOAD-01", A01, None), Report("CLEAN-01", A01, None), Report("PROC-01", A01, None),
     Report("ENC-01", A01, None), Report("INSPECT-01", A01, "PASS") >>

LcdHappy ==
  << Report("LOAD-01", C01, None), Report("PI-01", C01, None), Report("LCD-01", C01, None),
     Report("INSPECT-01", C01, "PASS") >>

LcdIntoOledEvap == << Report("LOAD-01", C01, None), Report("PROC-01", C01, None) >>

OledRecipeMismatch ==
  << Report("LOAD-01", A01, None), Report("CLEAN-01", A01, None),
     SelectOn("PROC-01", B01), Report("PROC-01", B01, None) >>

OledSkipEncap ==
  << Report("LOAD-01", A01, None), Report("CLEAN-01", A01, None), Report("PROC-01", A01, None),
     Report("INSPECT-01", A01, "PASS") >>

OledInspectFail ==
  << Report("LOAD-01", A01, None), Report("CLEAN-01", A01, None), Report("PROC-01", A01, None),
     Report("ENC-01", A01, None), Report("INSPECT-01", A01, "FAIL") >>

\* The events and commands of a scenario, once the line is prepared.
Events(s) ==
  CASE s \in {"demo_oled_pass", "demo_lcd_pass"} -> RunDemo("PASS")
    [] s = "demo_oled_fail"       -> RunDemo("FAIL")
    [] s = "demo_comm_loss"       -> DemoCommLoss
    [] s = "demo_alive"           -> <<>>
    [] s = "demo_recipe_mismatch" -> DemoRecipeMismatch
    [] s = "oled_happy"           -> OledHappy
    [] s = "lcd_happy"            -> LcdHappy
    [] s = "lcd_into_oled_evap"   -> LcdIntoOledEvap
    [] s = "oled_recipe_mismatch" -> OledRecipeMismatch
    [] s = "oled_skip_encap"      -> OledSkipEncap
    [] s = "oled_inspect_fail"    -> OledInspectFail

\* The recipe the line is prepared for.
PreparedFor(s) ==
  IF s \in {"demo_lcd_pass", "lcd_happy", "lcd_into_oled_evap"} THEN C01 ELSE A01

PracticeLot(s) ==
  CASE s \in {"oled_happy", "oled_skip_encap", "oled_inspect_fail"} -> Lot001
    [] s = "oled_recipe_mismatch"                                   -> Lot002
    [] s \in {"lcd_happy", "lcd_into_oled_evap"}                    -> Lot003

Waiting(l) == {p \in PanelsOf(l) : LotKnown(l) /\ panelStatus[p] = "WAIT"}

FirstOf(panels) == CHOOSE p \in panels : \A q \in panels : Slot[p] <= Slot[q]

\* The lots the next work order may make.
Unused(s) ==
  {l \in Lots \ SampleLots :
     lotStatus[l] = "ABSENT" /\ LotProduct[l] = RecipeProduct[PreparedFor(s)]}

\* The whole script.  Without a waiting panel a practice scenario ends once the
\* line is prepared.
Script(s) ==
  CASE s = "heartbeat"  -> <<[do |-> "beat"]>>
    [] s \in Ordered    -> <<Prepare(PreparedFor(s)), [do |-> "order"]>> \o Events(s)
    [] s \in Practice   -> IF Waiting(PracticeLot(s)) = {} THEN <<Prepare(PreparedFor(s))>>
                           ELSE <<Prepare(PreparedFor(s))>> \o Events(s)
    [] OTHER            -> <<Prepare(PreparedFor(s))>> \o Events(s)

-----------------------------------------------------------------------------
(* Playing a scenario.                                                     *)

\* An equipment that a scenario can use for lot l, after preparing it.
FreeFor(e, l) ==
  /\ eqStatus[e] # "MAINTENANCE"
  /\ eqLot[e] \in {None, l} \/ lotStatus[eqLot[e]] # "PROCESSING"

\* The line is clear for the scenario: the equipment it needs is not under
\* maintenance nor kept by another lot in process, and its own lot may go on.
Clear(s) ==
  LET events == Events(s)
  IN  CASE s = "demo_alive" -> \A e \in Equipment : eqStatus[e] # "MAINTENANCE"
        [] s \in Contact \ {"demo_alive"} -> TRUE
        [] s = "demo_recipe_mismatch" ->
             \A i \in DOMAIN events : FreeFor(events[i].equipment, None)
        [] s \in Ordered \ {"demo_recipe_mismatch"} ->
             \A step \in StepsOf(RecipeProduct[PreparedFor(s)]) :
               \E e \in Equipment : EquipmentStep(e) = step /\ FreeFor(e, None)
        [] s \in Practice ->
             /\ Waiting(PracticeLot(s)) # {}
             /\ lotStatus[PracticeLot(s)] # "HOLD"
             /\ \A i \in DOMAIN events : FreeFor(events[i].equipment, PracticeLot(s))

\* A scenario begins.  (An instance without an unused lot cannot order one.)
Play(s) ==
  /\ played = None
  /\ s \in Ordered => Unused(s) # {}
  /\ played' = s
  /\ script' = Script(s)
  /\ target' = IF s \in Practice /\ Waiting(PracticeLot(s)) # {}
               THEN FirstOf(Waiting(PracticeLot(s))) ELSE None
  /\ clear' = Clear(s)
  /\ answer' = None
  /\ UNCHANGED vars

\* Mutant: what stands on the equipment stays there.
PrepareInPlace(recipe) ==
  LET up == {e \in Equipment : eqStatus[e] # "MAINTENANCE"}
  IN  /\ lost' = lost \ up
      /\ eqStatus' = [e \in Equipment |-> IF e \in up THEN "RUN" ELSE eqStatus[e]]
      /\ eqRecipe' = [e \in Equipment |->
                        IF e \in up /\ EquipmentProduct(e) # None
                        THEN RecipeFor(e, recipe) ELSE eqRecipe[e]]
      /\ UNCHANGED <<lotVars, panelVars, order, eqLot>>

\* Every equipment that is not under maintenance is freed of a lot that is not
\* in process, woken, started and given its recipe.
PrepareLine(recipe) ==
  LET up == {e \in Equipment : eqStatus[e] # "MAINTENANCE"}
  IN  /\ eqLot' = [e \in Equipment |->
                     IF e \in up /\ eqLot[e] # None /\ lotStatus[eqLot[e]] # "PROCESSING"
                     THEN None ELSE eqLot[e]]
      /\ lost' = lost \ up
      /\ eqStatus' = [e \in Equipment |-> IF e \in up THEN "RUN" ELSE eqStatus[e]]
      /\ eqRecipe' = [e \in Equipment |->
                        IF e \in up /\ EquipmentProduct(e) # None
                        THEN RecipeFor(e, recipe) ELSE eqRecipe[e]]
      /\ UNCHANGED <<lotVars, panelVars, order>>

\* What the host says to an event, the first check that fails.
Verdict(e, l, p, step, recipe) ==
  CASE e \in lost                       -> "COMMUNICATION_LOSS"
    [] e \notin lost /\ eqStatus[e] = "MAINTENANCE" -> "EQUIPMENT_MAINTENANCE"
    [] e \notin lost /\ eqStatus[e] \in {"IDLE", "STOP", "ERROR"} -> "EQUIPMENT_STOPPED"
    [] OTHER ->
       IF ~LotKnown(l) THEN "INVALID_LOT"
       ELSE IF ~PanelInLot(p, l) THEN "INVALID_PANEL"
       ELSE IF ~PanelNotScrapped(p) THEN "PANEL_SCRAPPED"
       ELSE IF ~ProductMatches(e, l) THEN "PRODUCT_ROUTE_VIOLATION"
       ELSE IF ~RecipeReady(e, recipe)
            THEN IF eqRecipe[e] = None THEN "RECIPE_NOT_SELECTED" ELSE "RECIPE_MISMATCH"
       ELSE IF ~NotBusy(e, l) THEN "EQUIPMENT_BUSY"
       ELSE IF ~StepAllowed(p, l, step) THEN "STEP_SEQUENCE_VIOLATION"
       ELSE IF ~LotNotHeld(l) THEN "INTERLOCK_VIOLATION"
       ELSE "ACCEPTED"

\* One event for the scenario's panel, in the equipment's name.
Ingest(e, step, recipe, fails) ==
  LET l == PanelLot[target]
  IN  /\ answer' = Verdict(e, l, target, step, recipe)
      /\ IF answer' = "ACCEPTED" THEN Apply(e, l, target, step, recipe, "RUN", fails, FALSE)
         ELSE RejectProcess(e)

BeatAll ==
  /\ eqStatus' = [e \in Equipment |-> "IDLE"]
  /\ lost' = {}
  /\ UNCHANGED <<lotVars, panelVars, order, eqLot, eqRecipe>>

\* PROC-01's last contact is set back and the sweep made; it may find others
\* silent that preparation left alone.
CutLine ==
  /\ \E silent \in SUBSET {e \in MaySilence : eqStatus[e] = "MAINTENANCE"} :
       lost' = lost \cup {"PROC-01"} \cup silent
  /\ UNCHANGED <<lotVars, panelVars, order, eqStatus, eqLot, eqRecipe>>

Do(kind) == played # None /\ script # <<>> /\ Head(script).do = kind

DoBeat ==
  /\ Do("beat") /\ BeatAll
  /\ script' = Tail(script) /\ UNCHANGED <<target, answer>>

DoPrepare ==
  /\ Do("prepare") /\ PrepareLine(Head(script).recipe)
  /\ script' = Tail(script) /\ UNCHANGED <<target, answer>>

DoOrder ==
  /\ Do("order")
  /\ LET l == CHOOSE x \in Unused(played) : TRUE
     IN  CreateAndRelease(l) /\ target' = FirstOf(PanelsOf(l))
  /\ script' = Tail(script) /\ UNCHANGED answer

DoSelect ==
  /\ Do("select")
  /\ IF EquipmentProduct(Head(script).equipment) \in {None, RecipeProduct[Head(script).recipe]}
     THEN SelectRecipe(Head(script).equipment, Head(script).recipe) ELSE UNCHANGED vars
  /\ script' = Tail(script) /\ UNCHANGED <<target, answer>>

\* A script goes on whatever the host says.
DoReport ==
  /\ Do("report")
  /\ LET r == Head(script)
     IN  Ingest(r.equipment, EquipmentStep(r.equipment), r.recipe, r.fails)
  /\ script' = Tail(script) /\ UNCHANGED target

DoCut ==
  /\ Do("cut") /\ CutLine
  /\ script' = Tail(script) /\ UNCHANGED <<target, answer>>

\* One turn of the run of an order: it ends when the lot is stopped, when an
\* event is refused, or, after a wake-up for all, when nothing is left to do.
\* (The equipment was prepared with the line: LineRunner prepares it again.)
DoRun ==
  /\ Do("run")
  /\ LET l    == PanelLot[target]
         step == NextStep(target)
     IN  IF lotStatus[l] = "HOLD"
         THEN UNCHANGED <<vars, answer>> /\ script' = <<>>
         ELSE IF PanelDone(target)
         THEN /\ lost' = {}
              /\ UNCHANGED <<lotVars, panelVars, order, eqStatus, eqLot, eqRecipe, answer>>
              /\ script' = <<>>
         ELSE /\ \E e \in {PickEquipment(step)} :
                   Ingest(e, step, LotRecipe[l], Head(script).fails /\ step = "INSPECT")
              /\ script' = IF answer' = "ACCEPTED" THEN script ELSE <<>>
  /\ UNCHANGED target

ScenarioStep ==
  /\ DoBeat \/ DoPrepare \/ DoOrder \/ DoSelect \/ DoReport \/ DoCut \/ DoRun
  /\ UNCHANGED <<played, clear, pilotVars, upsets, calm>>

Off == played' = None /\ script' = <<>> /\ target' = None /\ clear' = FALSE /\ answer' = None

Finish ==
  /\ played # None /\ script = <<>>
  /\ Off
  /\ UNCHANGED <<vars, pilotVars, upsets, calm>>

-----------------------------------------------------------------------------
(* The autopilot.                                                          *)

\* Mutant: the reset timer is not cleared, so that every turn resets.
ResetTimerKept ==
  /\ pilot = "sleep" /\ played = None
  /\ IF sinceReset + 1 >= ResetEvery
     THEN sinceRun' = 0 /\ pilot' = "reset" /\ UNCHANGED sinceReset
     ELSE sinceReset' = sinceReset + 1 /\ sinceRun' = sinceRun + 1 /\ pilot' = "beat"
  /\ UNCHANGED <<vars, playVars, turn, upsets, calm>>

\* The autopilot wakes, while no scenario is played.
PilotWakes ==
  /\ pilot = "sleep" /\ played = None
  /\ IF sinceReset + 1 >= ResetEvery
     THEN sinceReset' = 0 /\ sinceRun' = 0 /\ pilot' = "reset"
     ELSE sinceReset' = sinceReset + 1 /\ sinceRun' = sinceRun + 1 /\ pilot' = "beat"
  /\ UNCHANGED <<vars, playVars, turn, upsets, calm>>

\* All records go and the practice lots come back.
ResetAll == Reset /\ lotStatus' = FreshLots(SampleLots) /\ upsets' = 0

PilotResets ==
  /\ pilot = "reset" /\ played = None
  /\ ResetAll
  /\ pilot' = "beat"
  /\ UNCHANGED <<playVars, sinceRun, sinceReset, turn, calm>>

AfterBeat == IF sinceRun >= RunEvery THEN "run" ELSE "sleep"

\* The scenario "heartbeat", in one step.
PilotBeats ==
  /\ pilot = "beat" /\ played = None
  /\ BeatAll
  /\ pilot' = AfterBeat
  /\ UNCHANGED <<playVars, sinceRun, sinceReset, turn, upsets, calm>>

\* Mutant: the rotation is not begun again.
TurnPastEnd == turn + 1

NextTurn == (turn % Len(Rotation)) + 1

\* The next scenario of the rotation; in an instance whose lots are used up
\* its turn passes.
PilotPlays ==
  /\ pilot = "run" /\ played = None
  /\ IF Unused(Rotation[turn]) = {} THEN UNCHANGED <<vars, playVars>> ELSE Play(Rotation[turn])
  /\ turn' = NextTurn
  /\ sinceRun' = 0 /\ pilot' = "sleep"
  /\ UNCHANGED <<sinceReset, upsets, calm>>

-----------------------------------------------------------------------------
(* What disturbs it.                                                       *)

Upset == ~calm /\ upsets < MaxUpsets /\ upsets' = upsets + 1 /\ UNCHANGED calm

\* What a visitor does at the public address.
Visit ==
  /\ Upset /\ played = None
  /\ \/ \E s \in ByVisitor : Play(s)
     \/ \E type \in Commands : Command(type) /\ UNCHANGED playVars
  /\ UNCHANGED pilotVars

VisitorResets ==
  /\ ~calm /\ played = None
  /\ ResetAll
  /\ UNCHANGED <<playVars, pilotVars, calm>>

\* An exception ends a scenario half-way, or a reset before its commit.
Exception ==
  /\ Upset
  /\ \/ played # None /\ Off /\ UNCHANGED pilot
     \/ pilot = "reset" /\ played = None /\ pilot' = "beat" /\ UNCHANGED playVars
  /\ UNCHANGED <<vars, sinceRun, sinceReset, turn>>

\* The process ends and starts again: the autopilot begins from its beginning,
\* and a reset that had deleted everything has no practice lots laid out.
Crash ==
  /\ Upset
  /\ \/ UNCHANGED vars
     \/ pilot = "reset" /\ played = None /\ Reset /\ lotStatus' = FreshLots({})
  /\ Off
  /\ pilot' = "sleep" /\ sinceRun' = 0 /\ sinceReset' = 0 /\ turn' = 1

Settle == ~calm /\ calm' = TRUE /\ UNCHANGED <<vars, playVars, pilotVars, upsets>>

Pilot == PilotWakes \/ PilotResets \/ PilotBeats \/ PilotPlays

DemoNext ==
  \/ ScenarioStep \/ Finish
  \/ Pilot
  \/ Visit \/ VisitorResets \/ Exception \/ Crash \/ Settle

DemoSpec == DemoInit /\ [][DemoNext]_demoVars

\* A scenario that was begun goes on, and the autopilot gets its turn.
DemoFairSpec ==
  /\ DemoSpec
  /\ WF_demoVars(ScenarioStep \/ Finish)
  /\ WF_demoVars(Pilot)

-----------------------------------------------------------------------------
(* Properties.                                                             *)

\* What the catalogue says of the end of a scenario.
PanelAsAnnounced(s, p) ==
  LET l == PanelLot[p]
  IN  CASE s \in {"demo_oled_pass", "demo_lcd_pass"} ->
             lotStatus[l] = "COMPLETE" /\ order[l] = "DONE"
        [] s \in {"oled_happy", "lcd_happy"} -> panelStatus[p] = "COMPLETE"
        [] s \in {"demo_oled_fail", "oled_inspect_fail"} ->
             panelStatus[p] = "FAIL" /\ lotStatus[l] = "HOLD"
        [] s \in {"demo_recipe_mismatch", "oled_recipe_mismatch"} ->
             panelStatus[p] = "HOLD" /\ lotStatus[l] = "HOLD" /\ lotStep[l] = "EVAP"
        [] s = "lcd_into_oled_evap" ->
             answer = "PRODUCT_ROUTE_VIOLATION" /\ history[p] = {"LOAD"}
        [] s = "oled_skip_encap" ->
             answer = "STEP_SEQUENCE_VIOLATION" /\ lastStep[p] = "EVAP"

AsAnnounced(s) ==
  CASE s = "demo_comm_loss" -> "PROC-01" \in lost
    [] s = "demo_alive"     -> lost = {}
    [] s = "heartbeat"      -> "PROC-01" \notin lost
    [] OTHER                -> target # None /\ PanelAsAnnounced(s, target)

Ended == played # None /\ script = <<>>

\* A scenario that finds the line clear ends as the catalogue says, whatever
\* was played, commanded, broken off or reset before it.
EndsAsAnnounced == Ended /\ clear => AsAnnounced(played)

\* Left alone, the line recovers from whatever visitors left on it, half-played
\* scenarios, jammed lots and broken-off resets included: sooner or later every
\* scenario of the autopilot ends as announced, orders get done again and again,
\* and the practice lots are there for good.
CalmLineRecovers ==
  <>calm => /\ <>[](Ended => AsAnnounced(played))
            /\ []<>(Ended /\ played \in {"demo_oled_pass", "demo_lcd_pass"})
            /\ <>[](\A l \in SampleLots : LotKnown(l))
=============================================================================
