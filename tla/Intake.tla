------------------------------- MODULE Intake -------------------------------
(***************************************************************************)
(* What the host promises to an equipment whose events it takes: whatever  *)
(* is repeated, lost, late or answered twice, an event is recorded at most *)
(* once, and events are recorded in the order in which they happened.      *)
(* Only a reset forgets them, all at once.                                 *)
(***************************************************************************)
EXTENDS Naturals, Sequences

CONSTANT MaxEvents

VARIABLE log    \* the events recorded, by their number

Init == log = <<>>

Record ==
  \E n \in 1 .. MaxEvents :
    /\ log # <<>> => log[Len(log)] < n
    /\ log' = Append(log, n)

Forget == log # <<>> /\ log' = <<>>

Spec == Init /\ [][Record \/ Forget]_log
=============================================================================
