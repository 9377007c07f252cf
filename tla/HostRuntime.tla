---------------------------- MODULE HostRuntime ----------------------------
(***************************************************************************)
(* The host as a process.  Every write goes through one gate: the requests *)
(* of senders, behind the rate limit, and two tasks of the host's own, the *)
(* offline sweep and the autopilot.  Whoever holds the gate has its work   *)
(* done in a thread; the gate is free again when the holder has its answer.*)
(*                                                                         *)
(* A sender numbers its events, tries each up to MaxAttempts times with the*)
(* same content, and goes on to the next one whatever came of it.  Requests*)
(* and answers get lost, and a time-out may come while the request waits.  *)
(*                                                                         *)
(* What the sweep and the autopilot do is EquipmentLink's and              *)
(* Demonstration's concern; here they hold the gate, and the autopilot may *)
(* reset the records.  A request that comes after its sender's time-out was*)
(* sent before the next one and stands before it in the queue.             *)
(***************************************************************************)
EXTENDS RateLimit

CONSTANTS
  None,
  MaxEvents,     \* events the sender has, a bound
  MaxAttempts,   \* how often it tries each
  QueueSize      \* messages a reader of the stream may lag behind

Task(name) == [who |-> name, event |-> 0, attempt |-> 0]
Tasks == {Task("sweep"), Task("autopilot")}
Copy == [who : {"sender"}, event : 1 .. MaxEvents, attempt : 1 .. MaxAttempts]

ASSUME HostAssumption ==
  /\ MaxEvents \in Nat /\ MaxAttempts \in Nat \ {0} /\ QueueSize \in Nat \ {0}
  /\ None \notin {"ACCEPTED", "DUPLICATE_EVENT", "DB_WRITE_FAILURE", "TOO_MANY", "UNREACHABLE"}
  /\ None \notin Tasks \cup Copy

VARIABLES
  host,       \* "up", "stopping", "exiting" or "down"
  waiting,    \* the queue at the gate
  holder,     \* who holds the gate, or None
  threads,    \* the work under way
  sender,     \* its current event, the attempt and what it does
  told,       \* what it was told of that event
  log,        \* the events recorded since the reset, in the order of the table
  ever,       \* the events recorded at any time (history)
  reader,     \* the reader of the stream
  queue,      \* the messages it has not been given yet
  shown       \* the event of its latest message, 0 if none

gateVars == <<host, waiting, holder, threads>>
sendVars == <<sender, told>>
streamVars == <<reader, queue, shown>>
hostVars == <<gateVars, sendVars, log, ever, streamVars, limitVars>>

Answers == {None, "ACCEPTED", "DUPLICATE_EVENT", "DB_WRITE_FAILURE", "TOO_MANY", "UNREACHABLE"}
Stages == {"begun", "checked", "committed", "published", "failed"}

HostTypeOK ==
  /\ LimitTypeOK
  /\ host \in {"up", "stopping", "exiting", "down"}
  /\ waiting \in Seq(Tasks \cup Copy)
  /\ holder \in Tasks \cup Copy \cup {None}
  /\ threads \subseteq [of : Tasks \cup Copy, stage : Stages, repeated : BOOLEAN]
  /\ sender \in [event : 0 .. MaxEvents, attempt : 0 .. MaxAttempts,
                 does : {"next", "post", "wait"}]
  /\ told \in Answers
  /\ log \in Seq(1 .. MaxEvents) /\ Len(log) <= MaxEvents
  /\ ever \subseteq 1 .. MaxEvents
  /\ reader \in {"away", "looks", "turns", "waits"}
  /\ queue \in Seq(1 .. MaxEvents) /\ Len(queue) <= QueueSize
  /\ shown \in 0 .. MaxEvents

HostInit ==
  /\ LimitInit
  /\ host = "up" /\ waiting = <<>> /\ holder = None /\ threads = {}
  /\ sender = [event |-> 0, attempt |-> 0, does |-> "next"] /\ told = None
  /\ log = <<>> /\ ever = {}
  /\ reader = "away" /\ queue = <<>> /\ shown = 0

-----------------------------------------------------------------------------
(* The gate.                                                               *)

AtGate == {waiting[i] : i \in DOMAIN waiting} \cup ({holder} \ {None})

\* Mutant: who comes last is served first.
AskAhead(t) == waiting' = <<t>> \o waiting

Ask(t) == waiting' = Append(waiting, t)

\* The sender still waits for the answer to this copy.
Awaited(t) ==
  sender.does = "wait" /\ sender.event = t.event /\ sender.attempt = t.attempt

TaskAsks(t) ==
  /\ host \in {"up", "stopping"}
  /\ t \notin AtGate
  /\ Ask(t)
  /\ UNCHANGED <<host, holder, threads, sendVars, log, ever, streamVars, limitVars>>

Enter ==
  /\ holder = None /\ waiting # <<>>
  /\ holder' = Head(waiting)
  /\ waiting' = Tail(waiting)
  /\ threads' = threads \cup {[of |-> Head(waiting), stage |-> "begun", repeated |-> FALSE]}
  /\ UNCHANGED <<host, sendVars, log, ever, streamVars, limitVars>>

\* A copy whose sender has hung up may be dropped when its turn comes.
EnterGone ==
  /\ holder = None /\ waiting # <<>>
  /\ Head(waiting) \in Copy /\ ~Awaited(Head(waiting))
  /\ waiting' = Tail(waiting)
  /\ UNCHANGED <<host, holder, threads, sendVars, log, ever, streamVars, limitVars>>

-----------------------------------------------------------------------------
(* The work.                                                               *)

\* Mutant: what identifies an event leaves out what tells it from the next.
FingerprintOfKind(n) == 1

\* What identifies an event: its content, the time stamp included.
Fingerprint(n) == n

OnRecord(n) == \E i \in DOMAIN log : Fingerprint(log[i]) = Fingerprint(n)

Proceeds(w, stage) == threads' = (threads \ {w}) \cup {[w EXCEPT !.stage = stage]}

Check(w) ==
  /\ w.of \in Copy /\ w.stage = "begun"
  /\ threads' = (threads \ {w})
                 \cup {[w EXCEPT !.stage = "checked", !.repeated = OnRecord(w.of.event)]}
  /\ UNCHANGED <<host, waiting, holder, sendVars, log, ever, streamVars, limitVars>>

\* A duplicate leaves a refusal in the event log only.  The column of the
\* fingerprints is unique: a second row fails.
Commit(w) ==
  /\ w.of \in Copy /\ w.stage = "checked"
  /\ LET n == w.of.event
     IN  IF w.repeated THEN Proceeds(w, "committed") /\ UNCHANGED <<log, ever>>
         ELSE IF OnRecord(n) THEN Proceeds(w, "failed") /\ UNCHANGED <<log, ever>>
         ELSE /\ Proceeds(w, "committed")
              /\ log' = Append(log, n)
              /\ ever' = ever \cup {n}
  /\ UNCHANGED <<host, waiting, holder, sendVars, streamVars, limitVars>>

\* An error before the commit: nothing is recorded.
Fail(w) ==
  /\ w.of \in Copy /\ w.stage = "checked"
  /\ Proceeds(w, "failed")
  /\ UNCHANGED <<host, waiting, holder, sendVars, log, ever, streamVars, limitVars>>

\* Announced to the reader unless it lags too far behind, accepted or not.  A
\* reader that waits is woken.
Publish(w) ==
  /\ w.of \in Copy /\ w.stage = "committed"
  /\ Proceeds(w, "published")
  /\ IF reader # "away" /\ Len(queue) < QueueSize
     THEN /\ queue' = Append(queue, w.of.event)
          /\ reader' = IF reader = "waits" THEN "looks" ELSE reader
     ELSE UNCHANGED <<queue, reader>>
  /\ UNCHANGED <<host, waiting, holder, sendVars, log, ever, shown, limitVars>>

\* The autopilot's work may be a reset.
TaskWorks(w) ==
  /\ w.of \in Tasks /\ w.stage = "begun"
  /\ Proceeds(w, "committed")
  /\ log' \in IF w.of = Task("autopilot") THEN {log, <<>>} ELSE {log}
  /\ UNCHANGED <<host, waiting, holder, sendVars, ever, streamVars, limitVars>>

Done(w) ==
  \/ w.of \in Tasks /\ w.stage = "committed"
  \/ w.of \in Copy /\ w.stage \in {"published", "failed"}

AnswerOf(w) ==
  IF w.stage = "failed" THEN "DB_WRITE_FAILURE"
  ELSE IF w.repeated THEN "DUPLICATE_EVENT" ELSE "ACCEPTED"

\* The thread ends; its holder, unless cancelled, opens the gate and answers.
\* The answer may get lost.
Leave(w) ==
  /\ Done(w)
  /\ threads' = threads \ {w}
  /\ holder' = IF holder = w.of THEN None ELSE holder
  /\ \/ UNCHANGED sendVars
     \/ /\ w.of \in Copy /\ Awaited(w.of)
        /\ told' = AnswerOf(w)
        /\ sender' = [sender EXCEPT !.does = "next"]
  /\ UNCHANGED <<host, waiting, log, ever, streamVars, limitVars>>

Work(w) == Check(w) \/ Commit(w) \/ Fail(w) \/ Publish(w) \/ TaskWorks(w) \/ Leave(w)

-----------------------------------------------------------------------------
(* The sender.                                                             *)

\* Mutant: one attempt too many.
OneMoreAttempt ==
  IF sender.attempt <= MaxAttempts
  THEN sender' = [sender EXCEPT !.attempt = @ + 1, !.does = "post"] /\ UNCHANGED told
  ELSE sender' = [sender EXCEPT !.does = "next"] /\ told' = "UNREACHABLE"

\* The next attempt, with the same content, or giving up.
NextAttempt ==
  IF sender.attempt < MaxAttempts
  THEN sender' = [sender EXCEPT !.attempt = @ + 1, !.does = "post"] /\ UNCHANGED told
  ELSE sender' = [sender EXCEPT !.does = "next"] /\ told' = "UNREACHABLE"

NextEvent ==
  /\ sender.does = "next" /\ sender.event < MaxEvents
  /\ sender' = [event |-> sender.event + 1, attempt |-> 1, does |-> "post"]
  /\ told' = None
  /\ UNCHANGED <<gateVars, log, ever, streamVars, limitVars>>

Post ==
  /\ sender.does = "post" /\ host = "up"
  /\ LetIn
  /\ Ask([who |-> "sender", event |-> sender.event, attempt |-> sender.attempt])
  /\ sender' = [sender EXCEPT !.does = "wait"]
  /\ UNCHANGED <<host, holder, threads, told, log, ever, streamVars>>

\* Being turned away is an answer: it is not tried again.
PostTurnedAway ==
  /\ sender.does = "post" /\ host = "up"
  /\ TurnAway
  /\ told' = "TOO_MANY"
  /\ sender' = [sender EXCEPT !.does = "next"]
  /\ UNCHANGED <<gateVars, log, ever, streamVars>>

\* The request gets lost, or the host takes no connection.
PostFails ==
  /\ sender.does = "post"
  /\ NextAttempt
  /\ UNCHANGED <<gateVars, log, ever, streamVars, limitVars>>

TimeOut ==
  /\ sender.does = "wait"
  /\ NextAttempt
  /\ UNCHANGED <<gateVars, log, ever, streamVars, limitVars>>

-----------------------------------------------------------------------------
(* The stream.                                                             *)

Subscribe ==
  /\ host = "up" /\ reader = "away"
  /\ reader' = "looks" /\ shown' = 0
  /\ UNCHANGED <<gateVars, sendVars, log, ever, queue, limitVars>>

Unsubscribe ==
  /\ reader # "away"
  /\ reader' = "away" /\ queue' = <<>> /\ shown' = 0
  /\ UNCHANGED <<gateVars, sendVars, log, ever, limitVars>>

\* The reader takes the first message.  When it finds none it turns to wait for
\* one, and a message that comes just then does not wake it.
Look ==
  /\ reader = "looks"
  /\ IF queue # <<>>
     THEN shown' = Head(queue) /\ queue' = Tail(queue) /\ UNCHANGED reader
     ELSE reader' = "turns" /\ UNCHANGED <<shown, queue>>
  /\ UNCHANGED <<gateVars, sendVars, log, ever, limitVars>>

Turn ==
  /\ reader = "turns" /\ reader' = "waits"
  /\ UNCHANGED <<gateVars, sendVars, log, ever, queue, shown, limitVars>>

\* Mutant: a ping does not look again.
PingOnly == reader = "waits" /\ UNCHANGED hostVars

\* After a while without a message it pings, and looks again.
Ping ==
  /\ reader = "waits" /\ reader' = "looks"
  /\ UNCHANGED <<gateVars, sendVars, log, ever, queue, shown, limitVars>>

-----------------------------------------------------------------------------
(* The life of the process.                                                *)

\* Told to end: it takes no more connections and finishes what it has.
Stop ==
  /\ host = "up" /\ host' = "stopping"
  /\ UNCHANGED <<waiting, holder, threads, sendVars, log, ever, streamVars, limitVars>>

\* Mutant: the gate has to be quiet before the tasks are cancelled.
DrainedAndQuiet == AtGate = {} /\ reader = "away"

Drained == AtGate \subseteq Tasks /\ reader = "away"

\* Mutant: the sweep is cancelled, and has ended, before the autopilot is.
CancelOneByOne ==
  /\ host = "stopping" /\ Drained
  /\ host' = "exiting"
  /\ waiting' = SelectSeq(waiting, LAMBDA t : t # Task("sweep"))
  /\ holder' = IF holder = Task("sweep") THEN None ELSE holder
  /\ UNCHANGED <<threads, sendVars, log, ever, streamVars, limitVars>>

\* Both tasks are cancelled at once.  One that waits leaves the queue; one that
\* holds the gate opens it, though its thread goes on.
Cancel ==
  /\ host = "stopping" /\ Drained
  /\ host' = "exiting" /\ waiting' = <<>> /\ holder' = None
  /\ UNCHANGED <<threads, sendVars, log, ever, streamVars, limitVars>>

Gone ==
  /\ host' = "down" /\ waiting' = <<>> /\ holder' = None /\ threads' = {}
  /\ reader' = "away" /\ queue' = <<>> /\ shown' = 0
  /\ Forgotten

\* The process ends when its threads have.
Exit ==
  /\ host = "exiting" /\ threads = {}
  /\ Gone
  /\ UNCHANGED <<sendVars, log, ever>>

Crash ==
  /\ host # "down"
  /\ Gone
  /\ UNCHANGED <<sendVars, log, ever>>

Start ==
  /\ host = "down" /\ host' = "up"
  /\ UNCHANGED <<waiting, holder, threads, sendVars, log, ever, streamVars, limitVars>>

\* Time is let pass where it makes a difference, before a request.
Tick ==
  /\ sender.does = "post"
  /\ Passes
  /\ limitVars' # limitVars
  /\ UNCHANGED <<gateVars, sendVars, log, ever, streamVars>>

-----------------------------------------------------------------------------
Works == \E w \in threads : Work(w)
Reads == Look \/ Turn \/ Ping
Sends == NextEvent \/ Post \/ PostTurnedAway \/ PostFails \/ TimeOut

HostNext ==
  \/ \E t \in Tasks : TaskAsks(t)
  \/ Enter \/ EnterGone \/ Works
  \/ Sends
  \/ Subscribe \/ Unsubscribe \/ Reads
  \/ Stop \/ Cancel \/ Exit \/ Crash \/ Start
  \/ Tick

HostSpec == HostInit /\ [][HostNext]_hostVars

\* The event loop runs what is ready, threads end, the reader's connection is
\* served; nothing is asked of senders, readers and operators.
HostFairSpec ==
  /\ HostSpec
  /\ WF_hostVars(Enter) /\ WF_hostVars(Works)
  /\ WF_hostVars(Reads)
  /\ WF_hostVars(Cancel) /\ WF_hostVars(Exit)

-----------------------------------------------------------------------------
(* Properties.                                                             *)

\* No two threads write at a time, not even while the host shuts down and the
\* cancelled holder of the gate has opened it with its thread still at work.
OneWriter == Cardinality(threads) <= 1

\* What a sender is told of its event is true: an event that is called accepted
\* or a duplicate has been recorded, also when the host crashed in between.
AnswerIsTrue ==
  told \in {"ACCEPTED", "DUPLICATE_EVENT"} => sender.event \in ever

\* The reader is shown the events in the order in which they happened, with gaps
\* where it lagged, and repetitions where a sender repeated itself.
StreamInOrder ==
  LET seen == <<shown>> \o queue
  IN  \A i, j \in DOMAIN seen : i <= j => seen[i] <= seen[j]

\* A client that waited as long as it was told is let in.
RetryAfterIsHonest == [][told' = "TOO_MANY" /\ told # "TOO_MANY" => owed # 0]_hostVars

\* Whatever crashes, is lost, late or repeated, events are recorded once and in
\* order.
IntakeSpec == INSTANCE Intake
ImplementsIntake == IntakeSpec!Spec

\* However busy requests and the autopilot keep the gate, the sweep gets its turn.
SweepGetsItsTurn ==
  LET Waits == \E i \in DOMAIN waiting : waiting[i] = Task("sweep")
  IN  Waits ~> ~Waits

\* A host that was told to end does, unless a dashboard keeps its stream open.
StopsUnlessWatched == host = "stopping" ~> (host = "down" \/ reader # "away")

\* A message does not lie in the queue of a reader that waits for one.
NewsArrives == queue # <<>> ~> (queue = <<>> \/ reader = "away")
=============================================================================
