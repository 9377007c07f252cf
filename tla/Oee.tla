-------------------------------- MODULE Oee --------------------------------
(***************************************************************************)
(* How the availability part of the OEE is computed from the downtime      *)
(* records of one day.  The records and the stamps of reports grow as      *)
(* equipment stops, starts and reports; the report is computed at every    *)
(* moment and compared with what really happened, second by second.        *)
(***************************************************************************)
EXTENDS Integers, FiniteSetsExt

CONSTANTS
  Equipment,
  Reasons,       \* why an equipment stands still; several at once, perhaps
  Settings,      \* settings of the planned time: 0 is "since the first report"
  MaxTime,       \* the length of the day, a bound
  MaxRows,       \* how many downtime records it has, a bound
  StaleAfter,    \* events older than that are refused
  Ahead          \* and those stamped further ahead

ASSUME OeeAssumption ==
  /\ IsFiniteSet(Equipment) /\ Settings \subseteq Nat
  /\ MaxTime \in Nat /\ MaxRows \in Nat /\ StaleAfter \in Nat /\ Ahead \in Nat

VARIABLES
  planned,       \* the setting
  now,
  first,         \* the earliest stamp of a report of the day, or Never
  heard,         \* when the first report arrived, or Never (history)
  rows,          \* the downtime records
  standing,      \* the equipment that stands now, and why (history)
  stood          \* every second every equipment stood, and why (history)

oeeVars == <<planned, now, first, heard, rows, standing, stood>>

Never == MaxTime + Ahead + 1
Open == -1

Larger(a, b) == IF a > b THEN a ELSE b
Smaller(a, b) == IF a < b THEN a ELSE b

OeeTypeOK ==
  /\ planned \in Settings
  /\ now \in 0 .. MaxTime
  /\ first \in 0 .. Never /\ heard \in 0 .. Never
  /\ rows \subseteq [of : Equipment, reason : Reasons, from : 0 .. MaxTime, to : Open .. MaxTime]
  /\ standing \subseteq Equipment \X Reasons
  /\ stood \subseteq Equipment \X Reasons \X (0 .. MaxTime - 1)

OeeInit ==
  /\ planned \in Settings
  /\ now = 0 /\ first = Never /\ heard = Never
  /\ rows = {} /\ standing = {} /\ stood = {}

-----------------------------------------------------------------------------
\* Mutant: the day does not end.
TickPastTheEnd ==
  /\ now <= MaxTime
  /\ now' = now + 1
  /\ stood' = stood \cup {<<x[1], x[2], now>> : x \in standing}
  /\ UNCHANGED <<planned, first, heard, rows, standing>>

Tick ==
  /\ now < MaxTime
  /\ now' = now + 1
  /\ stood' = stood \cup {<<x[1], x[2], now>> : x \in standing}
  /\ UNCHANGED <<planned, first, heard, rows, standing>>

\* A report is kept with its own stamp, before it is judged: one that is refused
\* for its stamp counts as well.
AcceptPush(stamp) ==
  /\ first' = Smaller(first, stamp)
  /\ heard' = Smaller(heard, now)
  /\ UNCHANGED <<planned, now, rows, standing, stood>>

\* An equipment stands for a reason from the call that says so to the call that
\* ends it, whatever rows they find and write.
OpenRows(e, reason) == {row \in rows : row.of = e /\ row.reason = reason /\ row.to = Open}

\* A record that is open goes on; otherwise one is opened.
OpenDowntime(e, reason) ==
  /\ \/ OpenRows(e, reason) # {} /\ UNCHANGED rows
     \/ /\ OpenRows(e, reason) = {}
        /\ Cardinality(rows) < MaxRows
        /\ rows' = rows \cup {[of |-> e, reason |-> reason, from |-> now, to |-> Open]}
  /\ standing' = standing \cup {<<e, reason>>}
  /\ UNCHANGED <<planned, now, first, heard, stood>>

\* Mutant: the records of every reason are closed.
CloseEveryReason(e, reason) ==
  LET ending == {row \in rows : row.of = e /\ row.to = Open}
  IN  /\ rows' = (rows \ ending) \cup {[row EXCEPT !.to = now] : row \in ending}
      /\ standing' = standing \ {<<e, reason>>}
      /\ UNCHANGED <<planned, now, first, heard, stood>>

CloseDowntime(e, reason) ==
  LET ending == OpenRows(e, reason)
  IN  /\ rows' = (rows \ ending) \cup {[row EXCEPT !.to = now] : row \in ending}
      /\ standing' = standing \ {<<e, reason>>}
      /\ UNCHANGED <<planned, now, first, heard, stood>>

OeeNext ==
  \/ Tick
  \/ \E stamp \in 0 .. now + Ahead : AcceptPush(stamp)
  \/ \E e \in Equipment, reason \in Reasons : OpenDowntime(e, reason) \/ CloseDowntime(e, reason)

OeeSpec == OeeInit /\ [][OeeNext]_oeeVars

-----------------------------------------------------------------------------
(* The report.                                                             *)

LineOpenAt == first

HasWindow == planned > 0 \/ LineOpenAt # Never

Start == IF planned > 0 THEN now - planned ELSE LineOpenAt

PlannedTime == IF planned > 0 THEN planned ELSE Larger(now - Start, 1)

\* Mutant: a record counts from its beginning, however long before the window.
SecondsOfAll(row) == Larger((IF row.to = Open THEN now ELSE row.to) - row.from, 0)

\* Mutant: a record counts once it is closed.
SecondsOfClosed(row) == IF row.to = Open THEN 0 ELSE Larger(row.to - Larger(row.from, Start), 0)

Seconds(row) ==
  Larger((IF row.to = Open THEN now ELSE row.to) - Larger(row.from, Start), 0)

DowntimeSeconds(e) == MapThenSumSet(Seconds, {row \in rows : row.of = e})

OperatingTime(e) == Larger(PlannedTime - DowntimeSeconds(e), 0)

LineOperatingTime ==
  Larger(PlannedTime * Cardinality(Equipment) - MapThenSumSet(DowntimeSeconds, Equipment), 0)

-----------------------------------------------------------------------------
(* What really happened in the window.                                     *)

Moments == {t \in 0 .. now - 1 : t >= Start}
StoodFor(e) == {x \in stood : x[1] = e /\ x[3] \in Moments}
UpSeconds(e) == Cardinality({t \in Moments : ~\E x \in StoodFor(e) : x[3] = t})
OneReasonAtATime(e) == \A x, y \in StoodFor(e) : x[3] = y[3] => x = y

\* Does a record cover second t, an open one up to a time?
Covers(row, t, upTo) == row.from <= t /\ t < (IF row.to = Open THEN upTo ELSE row.to)

\* Every second an equipment stood for a reason, from the call that opened its
\* downtime to the one that closed it, is covered by a record of it; every second a
\* record covers was stood; and none is covered twice.  Overlapping calls for one
\* reason, and calls for another reason in between, neither lose nor add seconds.
SecondsAreRecordedOnce ==
  /\ \A e \in Equipment, reason \in Reasons, t \in 0 .. now - 1 :
       <<e, reason, t>> \in stood <=>
         \E row \in rows : row.of = e /\ row.reason = reason /\ Covers(row, t, now)
  /\ \A r, s \in rows : r.of = s.of /\ r.reason = s.reason /\ r # s =>
       \A t \in 0 .. now - 1 : ~(Covers(r, t, now) /\ Covers(s, t, now))

\* The records, cut at the window and open ones up to now, give the seconds that
\* the equipment stood, each once for every reason.
DowntimeIsTimeStood ==
  HasWindow => \A e \in Equipment : DowntimeSeconds(e) = Cardinality(StoodFor(e))

\* No operating time is made up: a report over a window of some length gives an
\* equipment no more than it was up since the window, or the day, began, all of
\* it if no two reasons came together, and the line no more than its equipment.
NoOperatingTimeMadeUp ==
  HasWindow /\ Start >= 0 /\ Start < now =>
    /\ \A e \in Equipment : /\ OperatingTime(e) <= UpSeconds(e)
                            /\ OneReasonAtATime(e) => OperatingTime(e) = UpSeconds(e)
    /\ LineOperatingTime <= MapThenSumSet(UpSeconds, Equipment)
=============================================================================
