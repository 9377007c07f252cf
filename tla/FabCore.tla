------------------------------ MODULE FabCore ------------------------------
(***************************************************************************)
(* The host's production state: cassettes (lots), their glass panels, the  *)
(* work orders, the equipment, and every operation that changes them --    *)
(* an equipment's PROCESS or HEARTBEAT event, a host command, a new work   *)
(* order, the offline sweep, the wake-up the line runner performs, and the *)
(* reset of the demonstration.                                             *)
(*                                                                         *)
(* Each handler of the host runs under one write lock and commits once, so *)
(* one action is one handler.  Steps of different actors -- equipment      *)
(* that reports, an operator who commands, the sweep -- interleave.        *)
(*                                                                         *)
(* Time stamps are abstracted to what the handlers read of them: whether   *)
(* an accepted event is older than the panel's latest one ("late").  The   *)
(* connection status, the alarms and the downtimes are in EquipmentLink.   *)
(***************************************************************************)
EXTENDS Route

CONSTANTS
  Lots,           \* cassette ids
  Panels,         \* glass ids
  PanelLot,       \* the lot each panel belongs to
  LotProduct,     \* the product of each lot
  LotRecipe,      \* the recipe each lot expects
  SampleLots,     \* the lots seeded at start; the others come with a work order
  Recipes,        \* recipe ids an event or a command may name
  RecipeProduct,  \* their product; None for an id the host does not know
  Equipment,      \* the equipment of this instance of the line
  EventStatuses,  \* the equipment_status values PROCESS events carry
  Commands,       \* the host commands the operator may send
  MaySilence,     \* the equipment that may fall silent
  Orderable       \* may a work order be created

EquipmentStatuses == {"IDLE", "RUN", "STOP", "ERROR", "MAINTENANCE"}

CommandTypes == {"HOLD_LOT", "RELEASE_LOT", "MAINT_ENTER", "MAINT_EXIT", "START",
                 "STOP", "SELECT_RECIPE", "SCRAP_PANEL"}

ASSUME FabAssumption ==
  /\ Equipment \subseteq EquipmentIds
  /\ PanelLot \in [Panels -> Lots]
  /\ LotProduct \in [Lots -> Products]
  /\ LotRecipe \in [Lots -> Recipes]
  /\ RecipeProduct \in [Recipes -> Products \cup {None}]
  /\ \A l \in Lots : RecipeProduct[LotRecipe[l]] = LotProduct[l]
  /\ SampleLots \subseteq Lots
  /\ EventStatuses \subseteq EquipmentStatuses
  /\ Commands \subseteq CommandTypes
  /\ MaySilence \subseteq Equipment
  /\ Orderable \in BOOLEAN
  /\ None \notin Lots \cup Recipes \cup EquipmentIds

VARIABLES
  lotStatus,      \* "ABSENT" while the lot has no row
  lotStep,        \* the step of the lot's latest accepted event, or None
  lotEquipment,   \* the equipment that reported it, or None
  panelStatus,
  history,        \* the steps each panel has an accepted event for
  lastStep,       \* the step of the panel's event with the latest time stamp
  order,          \* the work order of each lot: "NONE", "RELEASED" or "DONE"
  eqStatus,
  eqLot,          \* the lot that occupies each equipment, or None
  eqRecipe,       \* the recipe selected on each equipment, or None
  lost            \* the equipment marked OFFLINE and not heard of since

lotVars == <<lotStatus, lotStep, lotEquipment>>
panelVars == <<panelStatus, history, lastStep>>
eqVars == <<eqStatus, eqLot, eqRecipe, lost>>
vars == <<lotStatus, lotStep, lotEquipment, panelStatus, history, lastStep, order,
          eqStatus, eqLot, eqRecipe, lost>>

LotStatuses == {"WAIT", "PROCESSING", "HOLD", "COMPLETE"}
PanelStatuses == {"WAIT", "PROCESSING", "HOLD", "COMPLETE", "FAIL", "SCRAP"}
OrderStatuses == {"NONE", "RELEASED", "DONE"}

TypeOK ==
  /\ lotStatus \in [Lots -> LotStatuses \cup {"ABSENT"}]
  /\ lotStep \in [Lots -> Steps \cup {None}]
  /\ lotEquipment \in [Lots -> Equipment \cup {None}]
  /\ panelStatus \in [Panels -> PanelStatuses]
  /\ history \in [Panels -> SUBSET Steps]
  /\ lastStep \in [Panels -> Steps \cup {None}]
  /\ order \in [Lots -> OrderStatuses]
  /\ eqStatus \in [Equipment -> EquipmentStatuses]
  /\ eqLot \in [Equipment -> Lots \cup {None}]
  /\ eqRecipe \in [Equipment -> Recipes \cup {None}]
  /\ lost \subseteq Equipment

-----------------------------------------------------------------------------
(* Start-up: the masters are in place, the sample lots wait, and nothing   *)
(* has been heard of any equipment.  Masters and sample lots are committed *)
(* one after the other; a host that dies in between takes the database for *)
(* seeded when it starts again, and the sample lots stay away.             *)

\* The lots at the beginning of a day on which `seeded` were committed.
FreshLots(seeded) == [l \in Lots |-> IF l \in seeded THEN "WAIT" ELSE "ABSENT"]

Init ==
  /\ \E seeded \in {SampleLots, {}} : lotStatus = FreshLots(seeded)
  /\ lotStep = [l \in Lots |-> None]
  /\ lotEquipment = [l \in Lots |-> None]
  /\ panelStatus = [p \in Panels |-> "WAIT"]
  /\ history = [p \in Panels |-> {}]
  /\ lastStep = [p \in Panels |-> None]
  /\ order = [l \in Lots |-> "NONE"]
  /\ eqStatus = [e \in Equipment |-> "IDLE"]
  /\ eqLot = [e \in Equipment |-> None]
  /\ eqRecipe = [e \in Equipment |-> None]
  /\ lost = {}

PanelsOf(l) == {p \in Panels : PanelLot[p] = l}

Finished == {"COMPLETE", "SCRAP"}

\* Every panel of the lot passed its inspection or was scrapped.
AllFinished(status, l) == \A p \in PanelsOf(l) : status[p] \in Finished

\* Mutant: a scrapped panel does not count as finished.
RefreshIgnoresScrap(status, l) ==
  IF order[l] # "NONE" /\ \A p \in PanelsOf(l) : status[p] = "COMPLETE"
  THEN [order EXCEPT ![l] = "DONE"]
  ELSE order

\* The work orders after the panels became `status`: the lot's order is done
\* once all its panels are finished, and is never reopened.
RefreshWorkOrder(status, l) ==
  IF order[l] # "NONE" /\ PanelsOf(l) # {} /\ AllFinished(status, l)
  THEN [order EXCEPT ![l] = "DONE"]
  ELSE order

-----------------------------------------------------------------------------
(* Validation of a PROCESS event, check by check.                          *)

\* The sender's side: a known line position, in contact and running.
EquipmentReady(e) == e \notin lost /\ eqStatus[e] = "RUN"

StepMatchesEquipment(e, step) == step = EquipmentStep(e)

LotKnown(l) == lotStatus[l] # "ABSENT"

PanelInLot(p, l) == PanelLot[p] = l

PanelNotScrapped(p) == panelStatus[p] # "SCRAP"

ProductMatches(e, l) == EquipmentProduct(e) \in {None, LotProduct[l]}

\* Mutant: any recipe selected on the equipment will do.
AnyRecipeReady(e, recipe) == EquipmentStep(e) \in RecipeSteps => eqRecipe[e] # None

RecipeReady(e, recipe) ==
  EquipmentStep(e) \in RecipeSteps =>
    eqRecipe[e] # None /\ recipe \in {None, eqRecipe[e]}

\* Mutant: another lot's occupancy is not looked at.
BusyIgnored(e, l) == TRUE

NotBusy(e, l) == eqLot[e] \in {None, l}

StepAllowed(p, l, step) == step \in AllowedNextSteps(LotProduct[l], lastStep[p])

\* Mutant: a lot on HOLD goes on.
HoldIgnored(l) == TRUE

LotNotHeld(l) == lotStatus[l] # "HOLD"

Acceptable(e, l, p, step) ==
  /\ EquipmentReady(e)
  /\ StepMatchesEquipment(e, step)
  /\ LotKnown(l)
  /\ PanelInLot(p, l)
  /\ PanelNotScrapped(p)
  /\ ProductMatches(e, l)
  /\ NotBusy(e, l)
  /\ StepAllowed(p, l, step)
  /\ LotNotHeld(l)

-----------------------------------------------------------------------------
(* Equipment events.                                                       *)

\* The panel's status after an accepted event.
PanelAfter(step, mismatch, fails) ==
  CASE fails              -> "FAIL"
    [] ~fails /\ mismatch -> "HOLD"
    [] OTHER              -> IF step = "INSPECT" THEN "COMPLETE" ELSE "PROCESSING"

\* Mutants: the panel's verdict becomes the lot's status; the first inspected
\* panel completes the lot.
LotTakesVerdict(l, step, held, status) == IF held THEN "FAIL" ELSE "PROCESSING"

LotAfterFirstPanel(l, step, held, status) ==
  CASE held -> "HOLD"
    [] ~held /\ step = "INSPECT" -> "COMPLETE"
    [] OTHER -> "PROCESSING"

\* The lot's status after an accepted event that left the panels at `status`.
LotAfter(l, step, held, status) ==
  CASE held -> "HOLD"
    [] ~held /\ step = "INSPECT" /\ AllFinished(status, l) -> "COMPLETE"
    [] OTHER -> "PROCESSING"

\* Mutant: the equipment the cassette came from keeps it.
OccupyAlso(e, l, complete) == [eqLot EXCEPT ![e] = IF complete THEN None ELSE l]

\* The cassette is at e now, and nowhere else; a complete one is nowhere.
Occupy(e, l, complete) ==
  [x \in Equipment |->
     IF x = e THEN IF complete THEN None ELSE l
     ELSE IF eqLot[x] = l THEN None ELSE eqLot[x]]

\* Record an accepted event: step `step` of panel p of lot l on equipment e,
\* reported with `recipe`, equipment status `status` and, at INSPECT, a
\* failing result or not.
Apply(e, l, p, step, recipe, status, fails, late) ==
  LET mismatch == recipe \notin {None, LotRecipe[l]}
      panels   == [panelStatus EXCEPT ![p] = PanelAfter(step, mismatch, fails)]
      lotNow   == LotAfter(l, step, mismatch \/ fails, panels)
  IN  /\ panelStatus' = panels
      /\ lotStatus' = [lotStatus EXCEPT ![l] = lotNow]
      /\ lotStep' = [lotStep EXCEPT ![l] = step]
      /\ lotEquipment' = [lotEquipment EXCEPT ![l] = e]
      /\ history' = [history EXCEPT ![p] = @ \cup {step}]
      /\ lastStep' = IF late THEN lastStep ELSE [lastStep EXCEPT ![p] = step]
      /\ order' = RefreshWorkOrder(panels, l)
      /\ eqStatus' = [eqStatus EXCEPT ![e] = IF lotNow = "COMPLETE" THEN "IDLE" ELSE status]
      /\ eqLot' = Occupy(e, l, lotNow = "COMPLETE")
      /\ eqRecipe' = [eqRecipe EXCEPT ![e] = IF recipe = None THEN LotRecipe[l] ELSE recipe]
      /\ lost' = lost \ {e}

AcceptProcess(e, l, p, step) ==
  /\ Acceptable(e, l, p, step)
  /\ \E recipe \in Recipes \cup {None} :
       /\ RecipeReady(e, recipe)
       /\ \E status \in EventStatuses, fails \in BOOLEAN, late \in BOOLEAN :
            /\ fails => step = "INSPECT"
            /\ late => history[p] # {}
            /\ Apply(e, l, p, step, recipe, status, fails, late)

\* An event the host refuses -- one that fails a check above, or a stale, a
\* duplicate or an incomplete one, which equipment can send in any state --
\* still shows that the equipment is alive.
RejectProcess(e) ==
  /\ lost' = lost \ {e}
  /\ UNCHANGED <<lotVars, panelVars, order, eqStatus, eqLot, eqRecipe>>

\* A heartbeat proves contact; of the status it reports only IDLE is taken.
Heartbeat(e, status) ==
  /\ lost' = lost \ {e}
  /\ eqStatus' = IF status = "IDLE" THEN [eqStatus EXCEPT ![e] = "IDLE"] ELSE eqStatus
  /\ UNCHANGED <<lotVars, panelVars, order, eqLot, eqRecipe>>

\* The sweep finds a set of equipment silent for too long.  (An equipment
\* never heard of is OFFLINE too, but the host accepts its first event; one
\* heartbeat makes it an equipment that the sweep can mark.)
MarkOffline(silent) ==
  /\ silent # {}
  /\ silent \cap lost = {}
  /\ lost' = lost \cup silent
  /\ UNCHANGED <<lotVars, panelVars, order, eqStatus, eqLot, eqRecipe>>

-----------------------------------------------------------------------------
(* Host commands.  A command the host refuses changes nothing here.        *)

HoldLot(l) ==
  /\ lotStatus[l] \notin {"ABSENT", "COMPLETE"}
  /\ lotStatus' = [lotStatus EXCEPT ![l] = "HOLD"]
  /\ UNCHANGED <<lotStep, lotEquipment, panelVars, order, eqVars>>

\* Mutant: a released lot always waits.
ReleaseToWait(l) ==
  /\ lotStatus[l] = "HOLD"
  /\ lotStatus' = [lotStatus EXCEPT ![l] = "WAIT"]
  /\ UNCHANGED <<lotStep, lotEquipment, panelVars, order, eqVars>>

ReleaseLot(l) ==
  LET back == IF lotStep[l] = None THEN "WAIT" ELSE "PROCESSING"
  IN  /\ lotStatus[l] = "HOLD"
      /\ lotStatus' = [lotStatus EXCEPT ![l] = back]
      /\ panelStatus' = [p \in Panels |->
                           IF PanelLot[p] = l /\ panelStatus[p] = "HOLD"
                           THEN back ELSE panelStatus[p]]
      /\ UNCHANGED <<lotStep, lotEquipment, history, lastStep, order, eqVars>>

SetEquipmentStatus(e, status) ==
  /\ eqStatus' = [eqStatus EXCEPT ![e] = status]
  /\ UNCHANGED <<lotVars, panelVars, order, eqLot, eqRecipe, lost>>

MaintEnter(e) == SetEquipmentStatus(e, "MAINTENANCE")

MaintExit(e) == eqStatus[e] = "MAINTENANCE" /\ SetEquipmentStatus(e, "IDLE")

Start(e) == eqStatus[e] # "MAINTENANCE" /\ SetEquipmentStatus(e, "RUN")

Stop(e) == eqStatus[e] # "MAINTENANCE" /\ SetEquipmentStatus(e, "STOP")

SelectRecipe(e, recipe) ==
  /\ RecipeProduct[recipe] # None
  /\ EquipmentProduct(e) \in {None, RecipeProduct[recipe]}
  /\ eqRecipe' = [eqRecipe EXCEPT ![e] = recipe]
  /\ UNCHANGED <<lotVars, panelVars, order, eqStatus, eqLot, lost>>

ScrapPanel(p) ==
  LET panels == [panelStatus EXCEPT ![p] = "SCRAP"]
  IN  /\ lotStatus[PanelLot[p]] # "ABSENT"
      /\ panelStatus[p] \notin Finished
      /\ panelStatus' = panels
      /\ order' = RefreshWorkOrder(panels, PanelLot[p])
      /\ UNCHANGED <<lotVars, history, lastStep, eqVars>>

Command(type) ==
  \/ type = "HOLD_LOT" /\ \E l \in Lots : HoldLot(l)
  \/ type = "RELEASE_LOT" /\ \E l \in Lots : ReleaseLot(l)
  \/ type = "MAINT_ENTER" /\ \E e \in Equipment : MaintEnter(e)
  \/ type = "MAINT_EXIT" /\ \E e \in Equipment : MaintExit(e)
  \/ type = "START" /\ \E e \in Equipment : Start(e)
  \/ type = "STOP" /\ \E e \in Equipment : Stop(e)
  \/ type = "SELECT_RECIPE" /\ \E e \in Equipment, r \in Recipes : SelectRecipe(e, r)
  \/ type = "SCRAP_PANEL" /\ \E p \in Panels : ScrapPanel(p)

-----------------------------------------------------------------------------
(* Work orders and the line runner's wake-up.                              *)

\* A work order comes with a new lot and its panels, released at once.
CreateAndRelease(l) ==
  /\ Orderable
  /\ l \notin SampleLots
  /\ lotStatus[l] = "ABSENT"
  /\ lotStatus' = [lotStatus EXCEPT ![l] = "WAIT"]
  /\ order' = [order EXCEPT ![l] = "RELEASED"]
  /\ UNCHANGED <<lotStep, lotEquipment, panelVars, eqVars>>

\* Before the line runner uses an equipment it frees it of a lot that is not
\* being processed, and sends a heartbeat in its name.
WakeEquipment(e) ==
  /\ eqStatus[e] # "MAINTENANCE"
  /\ eqLot' = IF eqLot[e] # None /\ lotStatus[eqLot[e]] # "PROCESSING"
              THEN [eqLot EXCEPT ![e] = None]
              ELSE eqLot
  /\ lost' = lost \ {e}
  /\ UNCHANGED <<lotVars, panelVars, order, eqStatus, eqRecipe>>

-----------------------------------------------------------------------------
(* The demonstration starts afresh: every record is deleted, the equipment *)
(* set back and, in a second commit, the sample lots laid out again.  The  *)
(* write lock keeps others out until then, so only a host that dies after  *)
(* the first commit leaves a day without sample lots behind.  Numbers are  *)
(* given out from the beginning: what is ordered next has the old ids.     *)

Reset ==
  /\ \E seeded \in {SampleLots, {}} : lotStatus' = FreshLots(seeded)
  /\ lotStep' = [l \in Lots |-> None]
  /\ lotEquipment' = [l \in Lots |-> None]
  /\ panelStatus' = [p \in Panels |-> "WAIT"]
  /\ history' = [p \in Panels |-> {}]
  /\ lastStep' = [p \in Panels |-> None]
  /\ order' = [l \in Lots |-> "NONE"]
  /\ eqStatus' = [e \in Equipment |-> "IDLE"]
  /\ eqLot' = [e \in Equipment |-> None]
  /\ eqRecipe' = [e \in Equipment |-> None]
  /\ lost' = {}

Next ==
  \/ \E e \in Equipment, l \in Lots, p \in Panels, sent \in Steps \cup Aliases :
       AcceptProcess(e, l, p, NormalizeStep(sent))
  \/ \E e \in Equipment : RejectProcess(e)
  \/ \E e \in Equipment, status \in EquipmentStatuses : Heartbeat(e, status)
  \/ \E silent \in SUBSET MaySilence : MarkOffline(silent)
  \/ \E type \in Commands : Command(type)
  \/ \E l \in Lots : CreateAndRelease(l)
  \/ \E e \in Equipment : WakeEquipment(e)
  \/ Reset

Spec == Init /\ [][Next]_vars

-----------------------------------------------------------------------------
(* Safety properties.                                                      *)

ProductOf(p) == LotProduct[PanelLot[p]]

\* No panel skips a step of its route, in whatever order events and time
\* stamps arrive, and an inspected panel has been through all of it: the
\* sequence check reads only the event with the latest time stamp, and a late
\* event does not become that one.
NoStepSkipped ==
  \A p \in Panels :
    /\ IsRoutePrefix(history[p], ProductOf(p))
    /\ lastStep[p] \in history[p] \cup {None}
    /\ panelStatus[p] \in {"COMPLETE", "FAIL"} => history[p] = StepsOf(ProductOf(p))

\* A cassette stands on one equipment at most -- the one of its latest event,
\* which is fit for its product -- and a complete one on none.  Accepted
\* events, the runner's wake-up and completion all move the occupancy.
OneStationPerLot ==
  \A e \in Equipment : eqLot[e] # None =>
    /\ lotEquipment[eqLot[e]] = e
    /\ lotStep[eqLot[e]] = EquipmentStep(e)
    /\ EquipmentProduct(e) \in {None, LotProduct[eqLot[e]]}
    /\ lotStatus[eqLot[e]] # "COMPLETE"

\* A COMPLETE lot has no panel left to process, even when its panels are
\* inspected or processed again; and a stopped panel is in a stopped lot, so
\* that releasing the lot releases it.
LotAgreesWithPanels ==
  \A p \in Panels :
    /\ lotStatus[PanelLot[p]] = "COMPLETE" => panelStatus[p] \in Finished
    /\ panelStatus[p] = "HOLD" => lotStatus[PanelLot[p]] = "HOLD"

\* Whichever operation finishes the last panel of a lot -- a passed inspection
\* or the scrapping of the last one that was left -- its work order is closed.
OrderClosesWithLastPanel ==
  \A l \in Lots :
    order[l] # "NONE" /\ PanelsOf(l) # {} /\ AllFinished(panelStatus, l) => order[l] = "DONE"

\* A lot that waits is untouched: no accepted event names it, its panels
\* wait or were scrapped, and no equipment is occupied by it -- also after it
\* was stopped and released, which has to tell "not started" from "started".
WaitingLotIsUntouched ==
  \A l \in Lots :
    /\ lotStatus[l] \in {"WAIT", "ABSENT"} => lotStep[l] = None
    /\ lotStep[l] = None =>
         /\ \A p \in PanelsOf(l) : history[p] = {} /\ panelStatus[p] \in {"WAIT", "SCRAP"}
         /\ \A e \in Equipment : eqLot[e] # l

\* An equipment passes from one lot to another only by being free in between:
\* no event, command or wake-up puts a lot in the place of another.
NoLotDisplaced ==
  [][\A e \in Equipment : eqLot[e] # None /\ eqLot'[e] # None => eqLot'[e] = eqLot[e]]_vars

-----------------------------------------------------------------------------
(* FabCore implements GlassFlow: the steps on record are the steps passed, *)
(* the panel's status its verdict, and a lot on HOLD is stopped.           *)

VerdictOf(status) ==
  CASE status = "COMPLETE" -> "GOOD"
    [] status = "FAIL"     -> "BAD"
    [] status = "SCRAP"    -> "SCRAPPED"
    [] OTHER               -> "OPEN"

Flow == INSTANCE GlassFlow WITH
          passed  <- history,
          verdict <- [p \in Panels |-> VerdictOf(panelStatus[p])],
          stopped <- {l \in Lots : lotStatus[l] = "HOLD"}

\* Panels advance in route order, only in lots that are not stopped, and a
\* scrapped or a judged panel changes only as GlassFlow allows.
ImplementsGlassFlow == Flow!FlowSpec
=============================================================================
