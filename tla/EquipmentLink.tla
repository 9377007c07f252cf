--------------------------- MODULE EquipmentLink ---------------------------
(***************************************************************************)
(* Contact with the equipment.  The host knows an equipment is alive only  *)
(* because it was heard of; a background sweep marks those silent for too  *)
(* long OFFLINE, raises an alarm and opens a downtime record, and whatever *)
(* is heard next -- a report, or one the host refuses -- takes that back.  *)
(* Operators meanwhile start, stop and maintain the equipment, which has   *)
(* downtime records of its own, and reports carry a status of their own.   *)
(*                                                                         *)
(* Reports, commands, the sweep, the passing of time and crashes of the    *)
(* host interleave.  Every handler holds the write lock and commits once,  *)
(* so each is one action.  What reports say of lots is in FabCore.         *)
(***************************************************************************)
EXTENDS Naturals

CONSTANTS
  None,       \* no contact yet: a NULL last_seen_at
  Equipment,
  Timeout,    \* communication_timeout_sec, in ticks
  Interval,   \* offline_check_interval_sec, in ticks
  MaxCrashes  \* bound on the crashes of the host

ASSUME LinkAssumption ==
  /\ Timeout \in Nat \ {0}
  /\ Interval \in Nat \ {0}
  /\ MaxCrashes \in Nat
  /\ None \notin Nat

VARIABLES
  silence,     \* ticks since each equipment was last heard of, up to Timeout, or None
  online,      \* the equipment whose connection_status is ONLINE
  status,      \* equipment_status
  lossAlarms,  \* how many COMMUNICATION_LOSS alarms are open for each equipment
  acked,       \* the equipment whose open COMMUNICATION_LOSS alarm was acknowledged
  down,        \* the reasons for which each equipment has an open downtime record
  nap,         \* ticks until the sweep wakes up
  up,          \* the host is running
  crashes      \* the crashes so far

link == <<silence, online, lossAlarms, acked>>
host == <<nap, up, crashes>>
vars == <<silence, online, status, lossAlarms, acked, down, nap, up, crashes>>

EquipmentStatuses == {"IDLE", "RUN", "STOP", "ERROR", "MAINTENANCE"}
Reasons == {"COMMUNICATION_LOSS", "STOP", "MAINTENANCE"}

TypeOK ==
  /\ silence \in [Equipment -> 0 .. Timeout \cup {None}]
  /\ online \subseteq Equipment
  /\ status \in [Equipment -> EquipmentStatuses]
  /\ lossAlarms \in [Equipment -> Nat]
  /\ acked \subseteq Equipment
  /\ down \in [Equipment -> SUBSET Reasons]
  /\ nap \in 0 .. Interval
  /\ up \in BOOLEAN
  /\ crashes \in 0 .. MaxCrashes

Init ==
  /\ silence = [e \in Equipment |-> None]
  /\ online = {}
  /\ status = [e \in Equipment |-> "IDLE"]
  /\ lossAlarms = [e \in Equipment |-> 0]
  /\ acked = {}
  /\ down = [e \in Equipment |-> {}]
  /\ nap = Interval
  /\ up = TRUE
  /\ crashes = 0

\* Marked OFFLINE, having been in contact before.
Lost(e) == e \notin online /\ silence[e] # None

-----------------------------------------------------------------------------
(* Reports of the equipment.                                               *)

\* Mutant: the alarm is left open when contact is back.
HearSilently(e, refused) ==
  /\ silence' = [silence EXCEPT ![e] = 0]
  /\ online' = online \cup {e}
  /\ UNCHANGED <<lossAlarms, acked>>
  /\ down' = [down EXCEPT ![e] = @ \ {"COMMUNICATION_LOSS"}]

\* Anything heard of e proves contact: its alarms of loss are resolved and its
\* downtime ends.  If it is refused for being OFFLINE, that raises a new alarm.
Hear(e, refused) ==
  /\ silence' = [silence EXCEPT ![e] = 0]
  /\ online' = online \cup {e}
  /\ lossAlarms' = [lossAlarms EXCEPT ![e] = IF refused THEN 1 ELSE 0]
  /\ acked' = acked \ {e}
  /\ down' = [down EXCEPT ![e] = @ \ {"COMMUNICATION_LOSS"}]

\* Mutant: the reported status is taken as it is.
HeartbeatSetsStatus(e, reported) ==
  /\ up
  /\ Hear(e, FALSE)
  /\ status' = [status EXCEPT ![e] = reported]
  /\ UNCHANGED host

\* Of the status a heartbeat reports, only IDLE is taken -- also from an
\* equipment under maintenance.
Heartbeat(e, reported) ==
  /\ up
  /\ Hear(e, FALSE)
  /\ status' = IF reported = "IDLE" THEN [status EXCEPT ![e] = "IDLE"] ELSE status
  /\ UNCHANGED host

\* An accepted PROCESS event sets the status it reports, or IDLE when it
\* completes its lot.
AcceptProcess(e, reported) ==
  /\ up
  /\ ~Lost(e)
  /\ status[e] = "RUN"
  /\ Hear(e, FALSE)
  /\ status' = [status EXCEPT ![e] = reported]
  /\ UNCHANGED host

\* A refused event.  One that is stale, a duplicate or incomplete is refused
\* before the connection is looked at, the others of a lost equipment because
\* of it.
RefuseEvent(e, wellFormed) ==
  /\ up
  /\ Hear(e, wellFormed /\ Lost(e))
  /\ UNCHANGED <<status, host>>

-----------------------------------------------------------------------------
(* The sweep.                                                              *)

\* The equipment the sweep finds out of contact.
Overdue == {e \in online : silence[e] = Timeout}

\* Mutants: it marks only equipment that has no alarm open yet; it raises an
\* alarm whether or not one is open.
SweepNewOnly ==
  LET new == {e \in Overdue : lossAlarms[e] = 0}
  IN  /\ up /\ nap = 0
      /\ nap' = Interval
      /\ online' = online \ new
      /\ lossAlarms' = [e \in Equipment |-> IF e \in new THEN 1 ELSE lossAlarms[e]]
      /\ down' = [e \in Equipment |-> IF e \in new THEN down[e] \cup {"COMMUNICATION_LOSS"}
                                                   ELSE down[e]]
      /\ UNCHANGED <<silence, status, acked, up, crashes>>

SweepAlarmsAgain ==
  /\ up /\ nap = 0
  /\ nap' = Interval
  /\ online' = online \ Overdue
  /\ lossAlarms' = [e \in Equipment |-> IF e \in Overdue THEN lossAlarms[e] + 1
                                                         ELSE lossAlarms[e]]
  /\ down' = [e \in Equipment |-> IF e \in Overdue THEN down[e] \cup {"COMMUNICATION_LOSS"}
                                                   ELSE down[e]]
  /\ UNCHANGED <<silence, status, acked, up, crashes>>

\* All that is overdue is marked in one commit; an alarm left open by a
\* refused event is not raised twice.
Sweep ==
  /\ up /\ nap = 0
  /\ nap' = Interval
  /\ online' = online \ Overdue
  /\ lossAlarms' = [e \in Equipment |-> IF e \in Overdue /\ lossAlarms[e] = 0
                                        THEN 1 ELSE lossAlarms[e]]
  /\ down' = [e \in Equipment |-> IF e \in Overdue THEN down[e] \cup {"COMMUNICATION_LOSS"}
                                                   ELSE down[e]]
  /\ UNCHANGED <<silence, status, acked, up, crashes>>

\* A sweep that fails -- the database does not answer -- changes nothing; the
\* loop sleeps again and retries.
SweepFails == up /\ nap = 0 /\ nap' = Interval /\ UNCHANGED <<link, status, down, up, crashes>>

-----------------------------------------------------------------------------
(* Host commands; one the host refuses changes nothing here.               *)

\* The operator acknowledges an alarm of loss: it stays open until contact.
AckAlarm(e) ==
  /\ up
  /\ lossAlarms[e] # 0
  /\ acked' = acked \cup {e}
  /\ UNCHANGED <<silence, online, status, lossAlarms, down, host>>

SetStatus(e, to, reasons) ==
  /\ up
  /\ status' = [status EXCEPT ![e] = to]
  /\ down' = [down EXCEPT ![e] = reasons]
  /\ UNCHANGED <<link, host>>

MaintEnter(e) == SetStatus(e, "MAINTENANCE", down[e] \cup {"MAINTENANCE"})

MaintExit(e) ==
  status[e] = "MAINTENANCE" /\ SetStatus(e, "IDLE", down[e] \ {"MAINTENANCE"})

\* Mutant: starting closes no record.
StartLeavesRecord(e) == status[e] # "MAINTENANCE" /\ SetStatus(e, "RUN", down[e])

Start(e) == status[e] # "MAINTENANCE" /\ SetStatus(e, "RUN", down[e] \ {"STOP"})

Stop(e) == status[e] # "MAINTENANCE" /\ SetStatus(e, "STOP", down[e] \cup {"STOP"})

\* Resetting the demonstration forgets every record and every contact.
Reset ==
  /\ up
  /\ silence' = [e \in Equipment |-> None]
  /\ online' = {}
  /\ status' = [e \in Equipment |-> "IDLE"]
  /\ lossAlarms' = [e \in Equipment |-> 0]
  /\ acked' = {}
  /\ down' = [e \in Equipment |-> {}]
  /\ UNCHANGED host

-----------------------------------------------------------------------------
(* Time, and the host's own life: the records survive a crash, the sweep's *)
(* timer does not, and what equipment sends while the host is down is lost.*)

\* Mutant: the timer runs on below zero.
TickPastZero ==
  /\ silence' = [e \in Equipment |-> IF silence[e] \in 0 .. Timeout - 1 THEN silence[e] + 1
                                                                         ELSE silence[e]]
  /\ nap' = nap - 1
  /\ UNCHANGED <<online, status, lossAlarms, acked, down, up, crashes>>

Tick ==
  /\ silence' = [e \in Equipment |-> IF silence[e] \in 0 .. Timeout - 1 THEN silence[e] + 1
                                                                         ELSE silence[e]]
  /\ nap' = IF nap = 0 THEN 0 ELSE nap - 1
  /\ UNCHANGED <<online, status, lossAlarms, acked, down, up, crashes>>

Crash ==
  /\ up
  /\ crashes < MaxCrashes
  /\ up' = FALSE
  /\ crashes' = crashes + 1
  /\ UNCHANGED <<link, status, down, nap>>

Restart ==
  /\ ~up
  /\ up' = TRUE
  /\ nap' = Interval
  /\ UNCHANGED <<link, status, down, crashes>>

Next ==
  \/ \E e \in Equipment, s \in EquipmentStatuses : Heartbeat(e, s)
  \/ \E e \in Equipment, s \in EquipmentStatuses : AcceptProcess(e, s)
  \/ \E e \in Equipment, wellFormed \in BOOLEAN : RefuseEvent(e, wellFormed)
  \/ Sweep
  \/ SweepFails
  \/ \E e \in Equipment : AckAlarm(e)
  \/ \E e \in Equipment : MaintEnter(e)
  \/ \E e \in Equipment : MaintExit(e)
  \/ \E e \in Equipment : Start(e)
  \/ \E e \in Equipment : Stop(e)
  \/ Reset
  \/ Tick
  \/ Crash
  \/ Restart

Spec == Init /\ [][Next]_vars

\* Time passes, a dead host is started again, and the sweep, whose loop waits
\* its turn for the write lock (the lock is first come, first served) and goes
\* on after an error, is not kept from the database for ever.
FairSpec == Spec /\ WF_vars(Tick) /\ WF_vars(Restart) /\ SF_vars(Sweep)

-----------------------------------------------------------------------------
(* Properties.                                                             *)

\* The loss of an equipment is on record exactly while it is lost: one alarm
\* is open -- never two, though the sweep and a refused event both raise it,
\* and acknowledging does not close it -- and the downtime runs.
LossIsOnRecord ==
  \A e \in Equipment :
    /\ Lost(e) => lossAlarms[e] = 1
    /\ lossAlarms[e] <= 1
    /\ Lost(e) <=> "COMMUNICATION_LOSS" \in down[e]

\* No stop is left on the clock of a running equipment: every path to RUN
\* passes START, which closes the record, because a heartbeat that reports RUN
\* does not count and a stopped equipment's events are refused.
NoStopWhileRunning == \A e \in Equipment : status[e] = "RUN" => "STOP" \notin down[e]

\* Whatever is reported or ordered meanwhile, an equipment under maintenance
\* stays in it or becomes idle; it does not start running.
MaintenanceEndsIdle ==
  [][\A e \in Equipment : status[e] = "MAINTENANCE" => status'[e] \in {"MAINTENANCE", "IDLE"}]_vars

\* An equipment that stays silent is marked OFFLINE, in spite of failed
\* sweeps, of crashes and of an alarm that is open already.
SilenceIsNoticed ==
  \A e \in Equipment :
    e \in online /\ silence[e] = Timeout ~> e \notin online \/ silence[e] # Timeout

\* An alarm of loss does not stay open for good on an equipment that is
\* ONLINE: either it is heard of again, which resolves the alarm, or the sweep
\* finds it lost in fact.
StaleLossAlarmEnds ==
  \A e \in Equipment : e \in online /\ lossAlarms[e] # 0 ~> e \notin online \/ lossAlarms[e] = 0
=============================================================================
