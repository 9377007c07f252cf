------------------------ MODULE EquipmentLinkProofs ------------------------
(* Theorems about EquipmentLink, for every set of equipment, every timeout *)
(* and interval, and any number of crashes.                                *)
EXTENDS EquipmentLink, TLAPS

USE DEF link, host

\* Every variable keeps its type.
THEOREM TypeCorrect == Spec => []TypeOK
  <1>1. Init => TypeOK
    BY LinkAssumption DEF Init, TypeOK, EquipmentStatuses
  <1>2. TypeOK /\ [Next]_vars => TypeOK'
    <2> SUFFICES ASSUME TypeOK, [Next]_vars PROVE TypeOK'
      OBVIOUS
    <2> USE LinkAssumption DEF TypeOK, EquipmentStatuses, Reasons
    <2>1. ASSUME NEW e \in Equipment, NEW s \in EquipmentStatuses, Heartbeat(e, s)
          PROVE  TypeOK'
      BY <2>1 DEF Heartbeat, Hear
    <2>2. ASSUME NEW e \in Equipment, NEW s \in EquipmentStatuses, AcceptProcess(e, s)
          PROVE  TypeOK'
      BY <2>2 DEF AcceptProcess, Hear
    <2>3. ASSUME NEW e \in Equipment, NEW wellFormed \in BOOLEAN, RefuseEvent(e, wellFormed)
          PROVE  TypeOK'
      BY <2>3 DEF RefuseEvent, Hear
    <2>4. ASSUME Sweep PROVE TypeOK'
      BY <2>4 DEF Sweep
    <2>5. ASSUME SweepFails PROVE TypeOK'
      BY <2>5 DEF SweepFails
    <2>6. ASSUME NEW e \in Equipment, AckAlarm(e) PROVE TypeOK'
      BY <2>6 DEF AckAlarm
    <2>7. ASSUME NEW e \in Equipment, MaintEnter(e) PROVE TypeOK'
      BY <2>7 DEF MaintEnter, SetStatus
    <2>8. ASSUME NEW e \in Equipment, MaintExit(e) PROVE TypeOK'
      BY <2>8 DEF MaintExit, SetStatus
    <2>9. ASSUME NEW e \in Equipment, Start(e) PROVE TypeOK'
      BY <2>9 DEF Start, SetStatus
    <2>10. ASSUME NEW e \in Equipment, Stop(e) PROVE TypeOK'
      BY <2>10 DEF Stop, SetStatus
    <2>11. ASSUME Reset PROVE TypeOK'
      BY <2>11 DEF Reset
    <2>12. ASSUME Tick PROVE TypeOK'
      <3>1. ASSUME NEW e \in Equipment
            PROVE  silence'[e] \in 0 .. Timeout \cup {None}
        BY <2>12 DEF Tick
      <3>2. silence' \in [Equipment -> 0 .. Timeout \cup {None}]
        BY <2>12, <3>1 DEF Tick
      <3>3. nap' \in 0 .. Interval
        BY <2>12 DEF Tick
      <3>4. UNCHANGED <<online, status, lossAlarms, acked, down, up, crashes>>
        BY <2>12 DEF Tick
      <3> QED
        BY <3>2, <3>3, <3>4
    <2>13. ASSUME Crash PROVE TypeOK'
      <3>1. crashes' \in 0 .. MaxCrashes
        BY <2>13 DEF Crash
      <3>2. up' = FALSE /\ UNCHANGED <<silence, online, status, lossAlarms, acked, down, nap>>
        BY <2>13 DEF Crash
      <3> QED
        BY <3>1, <3>2
    <2>14. ASSUME Restart PROVE TypeOK'
      BY <2>14 DEF Restart
    <2>15. ASSUME UNCHANGED vars PROVE TypeOK'
      BY <2>15 DEF vars
    <2> QED
      BY <2>1, <2>2, <2>3, <2>4, <2>5, <2>6, <2>7, <2>8, <2>9, <2>10, <2>11, <2>12,
         <2>13, <2>14, <2>15 DEF Next
  <1> QED
    BY <1>1, <1>2, PTL DEF Spec

\* The alarm and the downtime of a loss are on record exactly while it lasts,
\* once each.
THEOREM LossRecorded == Spec => []LossIsOnRecord
  <1>1. Init => LossIsOnRecord
    BY DEF Init, LossIsOnRecord, Lost
  <1>2. TypeOK /\ LossIsOnRecord /\ [Next]_vars => LossIsOnRecord'
    <2> SUFFICES ASSUME TypeOK, LossIsOnRecord, [Next]_vars PROVE LossIsOnRecord'
      OBVIOUS
    <2> USE LinkAssumption DEF LossIsOnRecord, Lost
    \* Whatever is heard of one equipment closes its record.
    <2>1. ASSUME NEW e \in Equipment, NEW refused \in BOOLEAN, Hear(e, refused)
          PROVE  LossIsOnRecord'
      BY <2>1 DEF Hear, TypeOK
    \* What leaves contact alone may only touch the other records.
    <2>2. ASSUME UNCHANGED <<online, silence, lossAlarms>>,
                 \A e \in Equipment :
                   "COMMUNICATION_LOSS" \in down'[e] <=> "COMMUNICATION_LOSS" \in down[e]
          PROVE  LossIsOnRecord'
      BY <2>2
    <2>3. ASSUME Sweep PROVE LossIsOnRecord'
      <3>1. ASSUME NEW e \in Overdue
            PROVE  /\ e \notin online' /\ silence'[e] # None
                   /\ lossAlarms'[e] = 1 /\ "COMMUNICATION_LOSS" \in down'[e]
        BY <2>3, <3>1 DEF Sweep, Overdue, TypeOK
      <3>2. ASSUME NEW e \in Equipment \ Overdue
            PROVE  /\ e \in online' <=> e \in online
                   /\ silence'[e] = silence[e]
                   /\ lossAlarms'[e] = lossAlarms[e] /\ down'[e] = down[e]
        BY <2>3, <3>2 DEF Sweep, TypeOK
      <3> QED
        BY <3>1, <3>2
    <2>4. ASSUME Reset PROVE LossIsOnRecord'
      BY <2>4 DEF Reset
    <2>5. ASSUME Tick PROVE LossIsOnRecord'
      <3>1. ASSUME NEW e \in Equipment PROVE silence'[e] = None <=> silence[e] = None
        BY <2>5 DEF Tick, TypeOK
      <3> QED
        BY <2>5, <3>1 DEF Tick
    <2>6. ASSUME NEW e \in Equipment, NEW s \in EquipmentStatuses, Heartbeat(e, s)
          PROVE  LossIsOnRecord'
      BY <2>1, <2>6 DEF Heartbeat
    <2>7. ASSUME NEW e \in Equipment, NEW s \in EquipmentStatuses, AcceptProcess(e, s)
          PROVE  LossIsOnRecord'
      BY <2>1, <2>7 DEF AcceptProcess
    <2>8. ASSUME NEW e \in Equipment, NEW wellFormed \in BOOLEAN, RefuseEvent(e, wellFormed)
          PROVE  LossIsOnRecord'
      BY <2>1, <2>8 DEF RefuseEvent
    <2>9. ASSUME SweepFails PROVE LossIsOnRecord'
      BY <2>2, <2>9 DEF SweepFails
    <2>10. ASSUME NEW e \in Equipment, AckAlarm(e) PROVE LossIsOnRecord'
      BY <2>2, <2>10 DEF AckAlarm
    <2>11. ASSUME NEW e \in Equipment, MaintEnter(e) PROVE LossIsOnRecord'
      BY <2>2, <2>11 DEF MaintEnter, SetStatus, TypeOK
    <2>12. ASSUME NEW e \in Equipment, MaintExit(e) PROVE LossIsOnRecord'
      BY <2>2, <2>12 DEF MaintExit, SetStatus, TypeOK
    <2>13. ASSUME NEW e \in Equipment, Start(e) PROVE LossIsOnRecord'
      BY <2>2, <2>13 DEF Start, SetStatus, TypeOK
    <2>14. ASSUME NEW e \in Equipment, Stop(e) PROVE LossIsOnRecord'
      BY <2>2, <2>14 DEF Stop, SetStatus, TypeOK
    <2>15. ASSUME Crash PROVE LossIsOnRecord'
      BY <2>2, <2>15 DEF Crash
    <2>16. ASSUME Restart PROVE LossIsOnRecord'
      BY <2>2, <2>16 DEF Restart
    <2>17. ASSUME UNCHANGED vars PROVE LossIsOnRecord'
      BY <2>2, <2>17 DEF vars
    <2> QED
      BY <2>3, <2>4, <2>5, <2>6, <2>7, <2>8, <2>9, <2>10, <2>11, <2>12, <2>13, <2>14,
         <2>15, <2>16, <2>17 DEF Next
  <1> QED
    BY <1>1, <1>2, TypeCorrect, PTL DEF Spec

\* No stop is on the clock of a running equipment.
THEOREM StopsEnd == Spec => []NoStopWhileRunning
  <1>1. Init => NoStopWhileRunning
    BY DEF Init, NoStopWhileRunning
  <1>2. TypeOK /\ NoStopWhileRunning /\ [Next]_vars => NoStopWhileRunning'
    <2> SUFFICES ASSUME TypeOK, NoStopWhileRunning, [Next]_vars,
                        NEW e \in Equipment, status'[e] = "RUN"
                 PROVE  "STOP" \notin down'[e]
      BY DEF NoStopWhileRunning
    <2> USE DEF NoStopWhileRunning, TypeOK
    <2>1. ASSUME status[e] = "RUN", down'[e] \subseteq down[e] \cup {"COMMUNICATION_LOSS"}
          PROVE  "STOP" \notin down'[e]
      BY <2>1
    <2>2. ASSUME NEW x \in Equipment, NEW s \in EquipmentStatuses, Heartbeat(x, s)
          PROVE  "STOP" \notin down'[e]
      BY <2>1, <2>2 DEF Heartbeat, Hear
    <2>3. ASSUME NEW x \in Equipment, NEW s \in EquipmentStatuses, AcceptProcess(x, s)
          PROVE  "STOP" \notin down'[e]
      BY <2>1, <2>3 DEF AcceptProcess, Hear
    <2>4. ASSUME NEW x \in Equipment, NEW wellFormed \in BOOLEAN, RefuseEvent(x, wellFormed)
          PROVE  "STOP" \notin down'[e]
      BY <2>1, <2>4 DEF RefuseEvent, Hear
    <2>5. ASSUME Sweep PROVE "STOP" \notin down'[e]
      BY <2>1, <2>5 DEF Sweep
    <2>6. ASSUME NEW x \in Equipment, MaintEnter(x) PROVE "STOP" \notin down'[e]
      BY <2>6 DEF MaintEnter, SetStatus
    <2>7. ASSUME NEW x \in Equipment, MaintExit(x) PROVE "STOP" \notin down'[e]
      BY <2>7 DEF MaintExit, SetStatus
    <2>8. ASSUME NEW x \in Equipment, Start(x) PROVE "STOP" \notin down'[e]
      BY <2>8 DEF Start, SetStatus
    <2>9. ASSUME NEW x \in Equipment, Stop(x) PROVE "STOP" \notin down'[e]
      BY <2>9 DEF Stop, SetStatus
    <2>10. ASSUME Reset PROVE "STOP" \notin down'[e]
      BY <2>10 DEF Reset
    <2>11. ASSUME UNCHANGED <<status, down>> PROVE "STOP" \notin down'[e]
      BY <2>11
    <2>12. ASSUME NEW x \in Equipment, AckAlarm(x) PROVE "STOP" \notin down'[e]
      BY <2>11, <2>12 DEF AckAlarm
    <2>13. CASE SweepFails \/ Tick \/ Crash \/ Restart \/ UNCHANGED vars
      BY <2>11, <2>13 DEF SweepFails, Tick, Crash, Restart, vars
    <2> QED
      BY <2>2, <2>3, <2>4, <2>5, <2>6, <2>7, <2>8, <2>9, <2>10, <2>12, <2>13 DEF Next
  <1> QED
    BY <1>1, <1>2, TypeCorrect, PTL DEF Spec

\* Maintenance ends in IDLE.
THEOREM MaintenanceEnds == Spec => MaintenanceEndsIdle
  <1> DEFINE Kept == \A e \in Equipment :
                       status[e] = "MAINTENANCE" => status'[e] \in {"MAINTENANCE", "IDLE"}
  <1>1. TypeOK /\ [Next]_vars => Kept
    <2> SUFFICES ASSUME TypeOK, [Next]_vars, NEW e \in Equipment, status[e] = "MAINTENANCE"
                 PROVE  status'[e] \in {"MAINTENANCE", "IDLE"}
      OBVIOUS
    <2> USE DEF TypeOK
    <2>1. ASSUME NEW x \in Equipment, NEW s \in EquipmentStatuses, Heartbeat(x, s)
          PROVE  status'[e] \in {"MAINTENANCE", "IDLE"}
      BY <2>1 DEF Heartbeat
    <2>2. ASSUME NEW x \in Equipment, NEW s \in EquipmentStatuses, AcceptProcess(x, s)
          PROVE  status'[e] \in {"MAINTENANCE", "IDLE"}
      BY <2>2 DEF AcceptProcess
    <2>3. ASSUME NEW x \in Equipment, NEW to \in {"MAINTENANCE", "IDLE"}, NEW reasons,
                 SetStatus(x, to, reasons)
          PROVE  status'[e] \in {"MAINTENANCE", "IDLE"}
      BY <2>3 DEF SetStatus
    <2>4. ASSUME NEW x \in Equipment, MaintEnter(x) PROVE status'[e] \in {"MAINTENANCE", "IDLE"}
      BY <2>3, <2>4 DEF MaintEnter
    <2>5. ASSUME NEW x \in Equipment, MaintExit(x) PROVE status'[e] \in {"MAINTENANCE", "IDLE"}
      BY <2>3, <2>5 DEF MaintExit
    <2>6. ASSUME NEW x \in Equipment, Start(x) PROVE status'[e] \in {"MAINTENANCE", "IDLE"}
      BY <2>6 DEF Start, SetStatus
    <2>7. ASSUME NEW x \in Equipment, Stop(x) PROVE status'[e] \in {"MAINTENANCE", "IDLE"}
      BY <2>7 DEF Stop, SetStatus
    <2>8. ASSUME Reset PROVE status'[e] \in {"MAINTENANCE", "IDLE"}
      BY <2>8 DEF Reset
    <2>9. ASSUME UNCHANGED status PROVE status'[e] \in {"MAINTENANCE", "IDLE"}
      BY <2>9
    <2>10. ASSUME NEW x \in Equipment, NEW wellFormed \in BOOLEAN, RefuseEvent(x, wellFormed)
           PROVE  status'[e] \in {"MAINTENANCE", "IDLE"}
      BY <2>9, <2>10 DEF RefuseEvent
    <2>11. ASSUME NEW x \in Equipment, AckAlarm(x) PROVE status'[e] \in {"MAINTENANCE", "IDLE"}
      BY <2>9, <2>11 DEF AckAlarm
    <2>12. CASE Sweep \/ SweepFails \/ Tick \/ Crash \/ Restart \/ UNCHANGED vars
      BY <2>9, <2>12 DEF Sweep, SweepFails, Tick, Crash, Restart, vars
    <2> QED
      BY <2>1, <2>2, <2>4, <2>5, <2>6, <2>7, <2>8, <2>10, <2>11, <2>12 DEF Next
  <1>2. TypeOK /\ [Next]_vars => [Kept]_vars
    BY <1>1
  <1> QED
    BY <1>2, TypeCorrect, PTL DEF Spec, MaintenanceEndsIdle
=============================================================================
