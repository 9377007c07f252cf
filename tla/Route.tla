------------------------------- MODULE Route -------------------------------
(***************************************************************************)
(* The process routes of the two product families and the tables that say  *)
(* which equipment performs which step for which product: the rules of     *)
(* backend/app/domain/rules.py.  Everything here is constant.              *)
(***************************************************************************)
EXTENDS Naturals, Sequences

CONSTANT None   \* the absent value: a NULL column, an omitted field, no answer

Products == {"OLED", "LCD"}

Steps == {"LOAD", "CLEAN", "EVAP", "ENCAP", "PI", "LCD_CELL", "INSPECT"}

\* Legacy step names an old client may send; the host stores the new name.
Aliases == {"DEPOSITION", "DEPO", "CELL", "PI_COAT"}

ASSUME NoneIsNotAStep == None \notin Steps \cup Aliases

OledRoute == <<"LOAD", "CLEAN", "EVAP", "ENCAP", "INSPECT">>

LcdRoute == <<"LOAD", "PI", "LCD_CELL", "INSPECT">>

EquipmentIds == {"LOAD-01", "CLEAN-01", "PROC-01", "PROC-02",
                 "ENC-01", "PI-01", "LCD-01", "INSPECT-01"}

NormalizeStep(step) ==
  CASE step \in {"DEPOSITION", "DEPO"} -> "EVAP"
    [] step = "CELL"                   -> "LCD_CELL"
    [] step = "PI_COAT"                -> "PI"
    [] OTHER                           -> step

EquipmentStep(e) ==
  CASE e = "LOAD-01"                -> "LOAD"
    [] e = "CLEAN-01"               -> "CLEAN"
    [] e \in {"PROC-01", "PROC-02"} -> "EVAP"
    [] e = "ENC-01"                 -> "ENCAP"
    [] e = "PI-01"                  -> "PI"
    [] e = "LCD-01"                 -> "LCD_CELL"
    [] e = "INSPECT-01"             -> "INSPECT"

\* The product an equipment is reserved for; None for the shared ends.
EquipmentProduct(e) ==
  CASE e \in {"CLEAN-01", "PROC-01", "PROC-02", "ENC-01"} -> "OLED"
    [] e \in {"PI-01", "LCD-01"}                          -> "LCD"
    [] e \in {"LOAD-01", "INSPECT-01"}                    -> None

\* The steps whose equipment must hold a recipe before it processes glass.
RecipeSteps == {"CLEAN", "EVAP", "ENCAP", "PI", "LCD_CELL"}

RouteFor(product) == IF product = "LCD" THEN LcdRoute ELSE OledRoute

StepsOf(product) == {RouteFor(product)[i] : i \in DOMAIN RouteFor(product)}

\* The steps that come directly after `step` on the route: one, or none at its end.
Successors(product, step) ==
  LET route == RouteFor(product)
  IN  {route[i + 1] : i \in {j \in 1 .. Len(route) - 1 : route[j] = step}}

\* Mutant: the slice of the route reaches one step too far.
AllowedTwoAhead(product, last) ==
  IF last \in StepsOf(product)
  THEN {last} \cup Successors(product, last)
         \cup UNION {Successors(product, step) : step \in Successors(product, last)}
  ELSE {RouteFor(product)[1]}

\* What a panel whose latest step is `last` may do now: start its route, or
\* repeat that step, or go one step on.
AllowedNextSteps(product, last) ==
  IF last \in StepsOf(product)
  THEN {last} \cup Successors(product, last)
  ELSE {RouteFor(product)[1]}

\* The step the host sends a panel to after `last`; None when it is finished.
NextOperation(product, last) ==
  LET route == RouteFor(product)
  IN  IF last \notin StepsOf(product) THEN route[1]
      ELSE IF Successors(product, last) = {} THEN None
      ELSE CHOOSE step \in Successors(product, last) : TRUE

\* A set of steps a panel can have been through when it skipped none: with
\* every step it holds, it holds the one before it on the route.
IsRoutePrefix(done, product) ==
  LET route == RouteFor(product)
  IN  /\ done \subseteq StepsOf(product)
      /\ \A i \in 1 .. Len(route) - 1 : route[i + 1] \in done => route[i] \in done
=============================================================================
