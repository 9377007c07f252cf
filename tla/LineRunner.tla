---------------------------- MODULE LineRunner ----------------------------
(***************************************************************************)
(* The line runner: "run this work order to the end of the line".  It      *)
(* prepares the equipment, and then asks the dispatcher again and again    *)
(* what the lot's next step is and where, prepares that equipment, and     *)
(* reports the step in its name, through the same door as any equipment.   *)
(*                                                                         *)
(* A run holds the write lock from beginning to end: operators and the     *)
(* sweep act only between runs.  Each event is stamped one second later    *)
(* than the one before, ahead of the clock, and the host refuses events    *)
(* stamped too far in the future, so a run has a horizon; the next run     *)
(* starts behind the stamps this one left.  (The limit of 80 events lies   *)
(* beyond that horizon and is never met.)                                  *)
(*                                                                         *)
(* The state of the line is FabCore's, every step of a run one of its      *)
(* actions.                                                                *)
(***************************************************************************)
EXTENDS Dispatch

CONSTANTS
  Tolerance,      \* future_event_tolerance_sec
  ByOperator,     \* the commands on lots and panels the operator sends between runs
  MayMaintain,    \* the equipment the operator may take into maintenance
  MayFail         \* may a run be asked to report failed inspections

ASSUME RunnerAssumption ==
  /\ Tolerance \in Nat
  /\ "RUN" \in EventStatuses   \* the status the runner reports
  /\ ByOperator \cup {"START", "SELECT_RECIPE", "MAINT_ENTER", "MAINT_EXIT"} \subseteq Commands
  /\ MayMaintain \subseteq Equipment
  /\ MayFail \in BOOLEAN

VARIABLES
  phase,    \* "idle", or what the run is doing
  running,  \* the lot of the work order that is run, or None
  failing,  \* the run reports failed inspections
  todo,     \* the equipment still to prepare, or at the end to wake, in order
  plan,     \* the panel, step and equipment of the event to send, or None
  count,    \* the events sent: the seconds the next stamp is ahead of the clock
  ahead,    \* how far each panel's latest stamp is ahead of the clock, if it is
  outcome   \* how the latest run ended, or None

runVars == <<phase, running, failing, todo, plan, count, ahead, outcome>>

RunnerTypeOK ==
  /\ phase \in {"idle", "wake", "start", "select", "dispatch", "send", "farewell"}
  /\ running \in Lots \cup {None}
  /\ failing \in BOOLEAN
  /\ todo \in Seq(Equipment)
  /\ plan \in [panel : Panels, step : Steps, equipment : Equipment] \cup {None}
  /\ count \in 0 .. Tolerance + 1
  /\ ahead \in [Panels -> 0 .. Tolerance]
  /\ outcome \in {None, "done", "LOT HOLD", "STALE_TIMESTAMP", "rejected"}

RunnerInit ==
  /\ Init
  /\ phase = "idle" /\ running = None /\ failing = FALSE
  /\ todo = <<>> /\ plan = None /\ count = 0
  /\ ahead = [p \in Panels |-> 0]
  /\ outcome = None

-----------------------------------------------------------------------------
(* A run.                                                                  *)

End(how) == phase' = "idle" /\ outcome' = how /\ UNCHANGED <<running, failing, todo, plan, count>>

\* Mutant: a run begins where the one before it ended.
RunKeepsCount(l, fails) ==
  /\ phase = "idle"
  /\ order[l] # "NONE"
  /\ phase' = "wake"
  /\ running' = l
  /\ failing' = fails
  /\ todo' = LineEquipment
  /\ plan' = None
  /\ outcome' = None
  /\ UNCHANGED <<vars, count, ahead>>

RunOrder(l, fails) ==
  /\ phase = "idle"
  /\ order[l] # "NONE"
  /\ phase' = "wake"
  /\ running' = l
  /\ failing' = fails
  /\ todo' = LineEquipment
  /\ plan' = None
  /\ count' = 0
  /\ outcome' = None
  /\ UNCHANGED <<vars, ahead>>

\* On to the next equipment to prepare; after the last to the dispatcher, or to
\* the event that waits for it.
Prepared ==
  /\ todo' = Tail(todo)
  /\ phase' = IF Len(todo) > 1 THEN "wake" ELSE IF plan = None THEN "dispatch" ELSE "send"

\* Equipment under maintenance is left alone.
PrepareWake ==
  /\ phase = "wake"
  /\ IF eqStatus[Head(todo)] = "MAINTENANCE"
     THEN Prepared /\ UNCHANGED vars
     ELSE WakeEquipment(Head(todo)) /\ phase' = "start" /\ UNCHANGED todo
  /\ UNCHANGED <<running, failing, plan, count, ahead, outcome>>

PrepareStart ==
  /\ phase = "start"
  /\ IF eqStatus[Head(todo)] = "RUN" THEN UNCHANGED vars ELSE Start(Head(todo))
  /\ phase' = "select"
  /\ UNCHANGED <<running, failing, todo, plan, count, ahead, outcome>>

PrepareSelect ==
  /\ phase = "select"
  /\ IF EquipmentProduct(Head(todo)) = None THEN UNCHANGED vars
     ELSE SelectRecipe(Head(todo), RecipeFor(Head(todo), LotRecipe[running]))
  /\ Prepared
  /\ UNCHANGED <<running, failing, plan, count, ahead, outcome>>

Dispatch ==
  /\ phase = "dispatch"
  /\ lotStatus[running] # "HOLD"
  /\ \E p \in {NextPanel(running)} :
       /\ ~PanelDone(p)
       /\ \E step \in {NextStep(p)} :
            /\ plan' = [panel |-> p, step |-> step, equipment |-> PickEquipment(step)]
            /\ todo' = <<plan'.equipment>>
  /\ phase' = "wake"
  /\ UNCHANGED <<vars, running, failing, count, ahead, outcome>>

DispatchHeld ==
  /\ phase = "dispatch"
  /\ lotStatus[running] = "HOLD"
  /\ End("LOT HOLD")
  /\ UNCHANGED <<vars, ahead>>

\* Nothing is left to do: the whole line is woken once more, one by one.
DispatchDone ==
  /\ phase = "dispatch"
  /\ lotStatus[running] # "HOLD"
  /\ PanelDone(NextPanel(running))
  /\ phase' = "farewell"
  /\ todo' = LineEquipment
  /\ UNCHANGED <<vars, running, failing, plan, count, ahead, outcome>>

Farewell ==
  /\ phase = "farewell"
  /\ Heartbeat(Head(todo), "RUN")
  /\ IF Len(todo) > 1
     THEN todo' = Tail(todo) /\ UNCHANGED <<phase, running, failing, plan, count, outcome>>
     ELSE End("done")
  /\ UNCHANGED ahead

\* Mutants: the host looks at the stamp alone; it does not look at the stamp.
AcceptedIfFresh == count <= Tolerance

AcceptedAnyStamp ==
  /\ Acceptable(plan.equipment, running, plan.panel, plan.step)
  /\ RecipeReady(plan.equipment, LotRecipe[running])

\* The host's checks of the event the runner is about to send.
Accepted ==
  /\ count <= Tolerance
  /\ Acceptable(plan.equipment, running, plan.panel, plan.step)
  /\ RecipeReady(plan.equipment, LotRecipe[running])

Send ==
  /\ phase = "send"
  /\ Accepted
  /\ Apply(plan.equipment, running, plan.panel, plan.step, LotRecipe[running], "RUN",
           failing /\ plan.step = "INSPECT", count < ahead[plan.panel])
  /\ ahead' = [ahead EXCEPT ![plan.panel] = IF count < @ THEN @ ELSE count]
  /\ phase' = "dispatch"
  /\ plan' = None
  /\ count' = count + 1
  /\ UNCHANGED <<running, failing, todo, outcome>>

\* The event is refused, which ends the run.
SendRefused ==
  /\ phase = "send"
  /\ ~Accepted
  /\ RejectProcess(plan.equipment)
  /\ End(IF count > Tolerance THEN "STALE_TIMESTAMP" ELSE "rejected")
  /\ UNCHANGED ahead

Run == PrepareWake \/ PrepareStart \/ PrepareSelect \/ Dispatch \/ DispatchHeld
         \/ DispatchDone \/ Farewell \/ Send \/ SendRefused

-----------------------------------------------------------------------------
(* Between runs: the operator, the sweep, and time.                        *)

Operator ==
  /\ phase = "idle"
  /\ \/ \E type \in ByOperator : Command(type)
     \/ \E e \in MayMaintain : MaintEnter(e) \/ MaintExit(e)
     \/ \E l \in Lots : CreateAndRelease(l)
     \/ \E silent \in SUBSET MaySilence : MarkOffline(silent)
  /\ UNCHANGED runVars

\* The demonstration is reset between two runs; no stamp is left of it.
ResetBetweenRuns ==
  /\ phase = "idle"
  /\ Reset
  /\ ahead' = [p \in Panels |-> 0]
  /\ UNCHANGED <<phase, running, failing, todo, plan, count, outcome>>

Tick ==
  /\ phase = "idle"
  /\ ahead' = [p \in Panels |-> IF ahead[p] = 0 THEN 0 ELSE ahead[p] - 1]
  /\ UNCHANGED <<vars, phase, running, failing, todo, plan, count, outcome>>

RunnerNext ==
  \/ \E l \in Lots, fails \in {FALSE, MayFail} : RunOrder(l, fails)
  \/ Run
  \/ Operator
  \/ ResetBetweenRuns
  \/ Tick

RunnerSpec == RunnerInit /\ [][RunnerNext]_<<vars, runVars>>

\* A run that was begun goes on, and every order is run again and again.
RunnerFairSpec ==
  /\ RunnerSpec
  /\ WF_<<vars, runVars>>(Run)
  /\ \A l \in Lots : WF_<<vars, runVars>>(RunOrder(l, FALSE))

-----------------------------------------------------------------------------
(* Properties.                                                             *)

\* What the runner does is what equipment, operators and the sweep may do:
\* every step of it is a step of FabCore.
RunsTheLine == Spec

\* A run that reports the order done has left nothing undone: every panel of
\* its lot has been through its whole route or was scrapped.
DoneRunLeftNothing ==
  [][phase = "farewell" /\ outcome' = "done" =>
       \A p \in PanelsOf(running) :
         history[p] = StepsOf(ProductOf(p)) \/ panelStatus[p] = "SCRAP"]_<<vars, runVars>>

\* An order that is run again and again gets done, although a run breaks off at
\* its horizon and the next one starts behind the stamps it left -- unless the
\* lot is stopped, a panel is found bad, equipment is under maintenance, or the
\* order is gone with a reset.
OrderGetsDone ==
  \A l \in Lots :
    order[l] = "RELEASED" ~>
      \/ order[l] \in {"DONE", "NONE"}
      \/ lotStatus[l] = "HOLD"
      \/ \E p \in PanelsOf(l) : panelStatus[p] = "FAIL"
      \/ \E e \in Equipment : eqStatus[e] = "MAINTENANCE"
=============================================================================
