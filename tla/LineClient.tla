----------------------------- MODULE LineClient -----------------------------
(***************************************************************************)
(* The simulators' own way of running a work order: a program outside the  *)
(* host, in Python or in C#, that starts the equipment and selects the     *)
(* recipe once, and then asks the dispatcher over and over what comes next *)
(* and reports it.  Each command and each report goes through the gate for *)
(* itself; the question does not.  So what was asked may be out of date    *)
(* when it is reported, and a report made out earlier may come later.      *)
(*                                                                         *)
(* Several such programs may run, for different orders or for the same:    *)
(* the newest order is the default of both.  Each runs one order here.     *)
(*                                                                         *)
(* A refused report ends the Python program.  The C# program only looks    *)
(* for an HTTP error, so it asks again, for 80 turns in all; an order      *)
(* takes 50 at most, so only one that was refused can run out of them.     *)
(***************************************************************************)
EXTENDS Dispatch

CONSTANTS
  Clients,
  ByOperator,      \* the commands on lots and panels the operator may send
  MaxDisturbances  \* what operators, failures and the clock do, a bound

ASSUME ClientAssumption ==
  /\ Clients # {}
  /\ Orderable
  /\ {"START", "SELECT_RECIPE"} \cup ByOperator \subseteq Commands
  /\ "RUN" \in EventStatuses   \* the status the programs report
  /\ MaxDisturbances \in Nat
  /\ None \notin Products \cup {"done", "held", "refused", "out of turns", "broken"}

VARIABLES
  stage,       \* what each program is doing
  program,     \* which one it is
  runs,        \* the lot of the order it runs, or None
  todo,        \* the commands of its preparation still to send
  plan,        \* the panel, step and equipment of its report, or None
  refused,     \* has a report of it been refused
  outcome,     \* how it ended, or None
  older,       \* whose reports, made out and not sent yet, are older than one's own
  overtaken,   \* whose report has been overtaken by a later one of its panel
  disturbed    \* how often it was disturbed from outside

clientVars == <<stage, program, runs, todo, plan, refused, outcome, older, overtaken, disturbed>>

ClientTypeOK ==
  /\ stage \in [Clients -> {"off", "prepare", "ask", "report"}]
  /\ program \in [Clients -> {"python", "csharp", None}]
  /\ runs \in [Clients -> Lots \cup {None}]
  /\ todo \in [Clients -> Seq([do : {"start", "select"}, equipment : Equipment])]
  /\ plan \in [Clients -> [panel : Panels, step : Steps, equipment : Equipment] \cup {None}]
  /\ refused \subseteq Clients
  /\ outcome \in [Clients -> {None, "done", "held", "refused", "out of turns", "broken"}]
  /\ older \in [Clients -> SUBSET Clients]
  /\ \A c \in Clients : older[c] \subseteq {d \in Clients : stage[d] = "report"}
  /\ overtaken \subseteq Clients
  /\ disturbed \in 0 .. MaxDisturbances

ClientInit ==
  /\ Init
  /\ stage = [c \in Clients |-> "off"]
  /\ program = [c \in Clients |-> None]
  /\ runs = [c \in Clients |-> None]
  /\ todo = [c \in Clients |-> <<>>]
  /\ plan = [c \in Clients |-> None]
  /\ refused = {}
  /\ outcome = [c \in Clients |-> None]
  /\ older = [c \in Clients |-> {}] /\ overtaken = {} /\ disturbed = 0

-----------------------------------------------------------------------------
(* A program.                                                              *)

\* All equipment is started; then that of the order's product gets its recipe.
Preparation(l) ==
  LET own == LineOf({e \in Equipment : EquipmentProduct(e) = LotProduct[l]})
  IN  [i \in DOMAIN LineEquipment |-> [do |-> "start", equipment |-> LineEquipment[i]]]
        \o [i \in DOMAIN own |-> [do |-> "select", equipment |-> own[i]]]

Begin(c, l, kind) ==
  /\ stage[c] = "off" /\ outcome[c] = None
  /\ order[l] # "NONE"
  /\ stage' = [stage EXCEPT ![c] = "prepare"]
  /\ program' = [program EXCEPT ![c] = kind]
  /\ runs' = [runs EXCEPT ![c] = l]
  /\ todo' = [todo EXCEPT ![c] = Preparation(l)]
  /\ UNCHANGED <<vars, plan, refused, outcome, older, overtaken, disturbed>>

\* The next command; whether it is accepted is not looked at.
Prepare(c) ==
  /\ stage[c] = "prepare"
  /\ LET e == Head(todo[c]).equipment
     IN  IF eqStatus[e] = "MAINTENANCE" /\ Head(todo[c]).do = "start" THEN UNCHANGED vars
         ELSE IF Head(todo[c]).do = "start" THEN Start(e)
         ELSE SelectRecipe(e, LotRecipe[runs[c]])
  /\ todo' = [todo EXCEPT ![c] = Tail(@)]
  /\ stage' = [stage EXCEPT ![c] = IF Len(todo[c]) > 1 THEN "prepare" ELSE "ask"]
  /\ UNCHANGED <<program, runs, plan, refused, outcome, older, overtaken, disturbed>>

\* Now and then, before it asks, a beat for all equipment.
Beat(c) ==
  /\ stage[c] = "ask" /\ lost # {}
  /\ lost' = {}
  /\ UNCHANGED <<lotVars, panelVars, order, eqStatus, eqLot, eqRecipe, clientVars>>

End(c, how) ==
  /\ stage' = [stage EXCEPT ![c] = "off"]
  /\ outcome' = [outcome EXCEPT ![c] = how]

\* The dispatcher is asked, and the report made out and stamped.
Ask(c) ==
  /\ stage[c] = "ask"
  /\ lotStatus[runs[c]] # "HOLD"
  /\ LET p == NextPanel(runs[c])
         step == NextStep(p)
     IN  /\ ~PanelDone(p)
         /\ plan' = [plan EXCEPT ![c] =
                       [panel |-> p, step |-> step, equipment |-> PickEquipment(step)]]
  /\ older' = [older EXCEPT ![c] = {d \in Clients : stage[d] = "report"}]
  /\ stage' = [stage EXCEPT ![c] = "report"]
  /\ UNCHANGED <<vars, program, runs, todo, refused, outcome, overtaken, disturbed>>

AskHeld(c) ==
  /\ stage[c] = "ask"
  /\ lotStatus[runs[c]] = "HOLD"
  /\ End(c, "held")
  /\ UNCHANGED <<vars, program, runs, todo, plan, refused, older, overtaken, disturbed>>

AskDone(c) ==
  /\ stage[c] = "ask"
  /\ lotStatus[runs[c]] # "HOLD"
  /\ PanelDone(NextPanel(runs[c]))
  /\ End(c, "done")
  /\ UNCHANGED <<vars, program, runs, todo, plan, refused, older, overtaken, disturbed>>

OutOfTurns(c) ==
  /\ stage[c] = "ask" /\ c \in refused
  /\ End(c, "out of turns")
  /\ UNCHANGED <<vars, program, runs, todo, plan, refused, older, overtaken, disturbed>>

\* Those who made out a report of panel p before c did.
Before(c, p) == {d \in older[c] : plan[d].panel = p}

Accepted(c) ==
  /\ Acceptable(plan[c].equipment, runs[c], plan[c].panel, plan[c].step)
  /\ RecipeReady(plan[c].equipment, LotRecipe[runs[c]])

\* The report of c is made out no longer.
Gone(c) == older' = [d \in Clients |-> IF d = c THEN {} ELSE older[d] \ {c}]

\* Mutant: what was sent keeps its place among the reports made out.
SentKeepsPlace(c) ==
  /\ stage[c] = "report"
  /\ plan' = [plan EXCEPT ![c] = None]
  /\ UNCHANGED <<older, program, runs, todo, disturbed>>

Sent(c) ==
  /\ stage[c] = "report"
  /\ plan' = [plan EXCEPT ![c] = None]
  /\ Gone(c)
  /\ UNCHANGED <<program, runs, todo, disturbed>>

Report(c) ==
  /\ Sent(c) /\ Accepted(c)
  /\ Apply(plan[c].equipment, runs[c], plan[c].panel, plan[c].step, LotRecipe[runs[c]],
           "RUN", FALSE, c \in overtaken)
  /\ overtaken' = (overtaken \cup Before(c, plan[c].panel)) \ {c}
  /\ stage' = [stage EXCEPT ![c] = "ask"]
  /\ UNCHANGED <<refused, outcome>>

ReportRefused(c) ==
  /\ Sent(c) /\ ~Accepted(c)
  /\ RejectProcess(plan[c].equipment)
  /\ overtaken' = overtaken \ {c}
  /\ IF program[c] = "python" THEN End(c, "refused") /\ UNCHANGED refused
     ELSE /\ stage' = [stage EXCEPT ![c] = "ask"]
          /\ refused' = refused \cup {c}
          /\ UNCHANGED outcome

Client(c) ==
  \/ Prepare(c) \/ Beat(c)
  \/ Ask(c) \/ AskHeld(c) \/ AskDone(c) \/ OutOfTurns(c)
  \/ Report(c) \/ ReportRefused(c)

-----------------------------------------------------------------------------
(* The world around.                                                       *)

Order(l) == CreateAndRelease(l) /\ UNCHANGED clientVars

Disturbed ==
  /\ disturbed < MaxDisturbances /\ disturbed' = disturbed + 1
  /\ UNCHANGED <<program, runs, todo, plan, refused>>

\* A command, a beat of a simulator that only beats, or a sweep that finds
\* equipment silent.
Disturb ==
  /\ Disturbed
  /\ \/ \E type \in ByOperator : Command(type)
     \/ \E e \in Equipment : Heartbeat(e, "IDLE")
     \/ \E silent \in SUBSET MaySilence : MarkOffline(silent)
  /\ UNCHANGED <<stage, outcome, older, overtaken>>

\* A program breaks off, with the host out of its reach or for good.
Break(c) ==
  /\ Disturbed
  /\ stage[c] # "off"
  /\ End(c, "broken")
  /\ Gone(c)
  /\ overtaken' = overtaken \ {c}
  /\ UNCHANGED vars

ClientNext ==
  \/ \E c \in Clients, l \in Lots, kind \in {"python", "csharp"} : Begin(c, l, kind)
  \/ \E c \in Clients : Client(c)
  \/ \E l \in Lots : Order(l)
  \/ Disturb
  \/ \E c \in Clients : Break(c)

ClientSpec == ClientInit /\ [][ClientNext]_<<vars, clientVars>>

-----------------------------------------------------------------------------
(* Properties.                                                             *)

\* No two runs select different recipes on the same equipment.
RecipesAgree ==
  \A c, d \in Clients :
    runs[c] # None /\ runs[d] # None /\ LotProduct[runs[c]] = LotProduct[runs[d]]
      => LotRecipe[runs[c]] = LotRecipe[runs[d]]

\* Runs of one panel each, or runs of one order: a run of several panels can
\* be stopped by another's cassette that was left where its next panel begins.
NoCassetteInTheWay ==
  \/ \A c \in Clients : runs[c] # None => Cardinality(PanelsOf(runs[c])) = 1
  \/ \A c, d \in Clients : runs[c] = runs[d]

\* Runs that get in each other's way -- on one order, where each finds its
\* question out of date, or on two, at one equipment -- do not bring each other
\* to a halt: at least one of them gets its order done.
OneOfThemFinishes ==
  /\ \A c \in Clients : outcome[c] \in {"done", "held", "refused"}
  /\ disturbed = 0 /\ RecipesAgree /\ NoCassetteInTheWay
  => \E c \in Clients : order[runs[c]] = "DONE"

\* However the runs of two orders with different recipes overlap, a panel goes
\* through a recipe step only while the equipment is set to its lot's recipe.
WorkedAsOrdered ==
  [][\A p \in Panels :
       LET e == lotEquipment'[PanelLot[p]]
       IN  history'[p] # history[p] /\ EquipmentStep(e) \in RecipeSteps
             => eqRecipe[e] = LotRecipe[PanelLot[p]]]_<<vars, clientVars>>

\* A program says done only of an order that is closed, also when panels were
\* scrapped, the lot stopped, or another program reported the step it asked for.
DoneMeansDone == \A c \in Clients : outcome[c] = "done" => order[runs[c]] = "DONE"
=============================================================================
