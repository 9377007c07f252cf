------------------------- MODULE HostRuntimeProofs -------------------------
(***************************************************************************)
(* Theorems about HostRuntime, for any number of events, attempts, places  *)
(* in a reader's queue and requests in a window, and any number of crashes.*)
(***************************************************************************)
EXTENDS HostRuntime, FiniteSetTheorems, SequenceTheorems, TLAPS

-----------------------------------------------------------------------------
(* The window of the rate limit.                                           *)

\* Once it was told when to come back, a client finds the oldest request out of
\* the window by then, unless there is room already.
HonestyHolds ==
  owed # Unowed => Len(hits) < PerWindow \/ owed + hits[1] >= 2 * Window + 1

LimitInv == LimitTypeOK /\ HonestyHolds

\* What is left of a window is a part of it, and all of it if no request is old.
LEMMA CurrentIsPart ==
  ASSUME LimitTypeOK
  PROVE  /\ Current \in Seq(0 .. 2 * Window + 1)
         /\ Len(Current) <= Len(hits)
         /\ Len(Current) = Len(hits) => Current = hits
         /\ Len(hits) > 0 /\ hits[1] > 2 * Window => Len(Current) < Len(hits)
  <1>1. Len(hits) \in Nat /\ DOMAIN hits = 1 .. Len(hits)
    BY LenProperties DEF LimitTypeOK
  <1>2. PICK n \in Nat : /\ Current = SubSeq(hits, n + 1, Len(hits))
                         /\ Len(hits) > 0 /\ hits[1] > 2 * Window => n # 0
    <2> DEFINE old == {i \in DOMAIN hits : hits[i] > 2 * Window}
    <2>1. IsFiniteSet(old)
      <3>1. IsFiniteSet(DOMAIN hits)
        BY <1>1, FS_Interval
      <3> QED
        BY <3>1, FS_Subset
    <2>2. Cardinality(old) \in Nat
      BY <2>1, FS_CardinalityType
    <2>3. ASSUME Len(hits) > 0, hits[1] > 2 * Window PROVE Cardinality(old) # 0
      <3>1. 1 \in old
        BY <1>1, <2>3
      <3> QED
        BY <3>1, <2>1, FS_EmptySet
    <2> QED
      BY <2>2, <2>3 DEF Current
  <1>3. \A i \in 1 .. Len(hits) : hits[i] \in 0 .. 2 * Window + 1
    BY <1>1, ElementOfSeq DEF LimitTypeOK
  <1>4. \A i \in n + 1 .. Len(hits) : hits[i] \in 0 .. 2 * Window + 1
    BY <1>1, <1>3
  <1>5. /\ Current \in Seq(0 .. 2 * Window + 1)
        /\ Len(Current) = IF n + 1 <= Len(hits) THEN Len(hits) - (n + 1) + 1 ELSE 0
    BY <1>1, <1>2, <1>4, SubSeqProperties
  <1>6. Len(Current) <= Len(hits) /\ (n # 0 /\ Len(hits) > 0 => Len(Current) < Len(hits))
    BY <1>1, <1>2, <1>5
  <1>7. ASSUME Len(Current) = Len(hits) PROVE Current = hits
    <2>1. CASE n = 0
      BY <2>1, <1>2, SubSeqFull DEF LimitTypeOK
    <2>2. CASE n # 0
      <3>1. Len(hits) = 0 /\ Len(Current) = 0
        BY <2>2, <1>1, <1>6, <1>7
      <3> QED
        BY <3>1, <1>5, EmptySeq DEF LimitTypeOK
    <2> QED
      BY <2>1, <2>2
  <1> QED
    BY <1>2, <1>5, <1>6, <1>7

\* A request that is let in, or turned away, and a half second that passes keep
\* the window and the promise made to the client.
LEMMA LimitStep ==
  ASSUME LimitInv, LetIn \/ TurnAway \/ Forgotten \/ Passes \/ UNCHANGED limitVars
  PROVE  LimitInv'
  <1> USE RateLimitAssumption DEF Unowed
  <1>1. CASE LetIn
    <2>1. 0 \in 0 .. 2 * Window + 1
      OBVIOUS
    <2>2. hits' \in Seq(0 .. 2 * Window + 1) /\ Len(hits') = Len(Current) + 1
      BY <1>1, <2>1, CurrentIsPart, AppendProperties DEF LetIn, LimitInv
    <2>3. Len(Current) \in Nat
      BY CurrentIsPart, LenProperties DEF LimitInv
    <2> QED
      BY <1>1, <2>2, <2>3 DEF LetIn, LimitInv, LimitTypeOK, HonestyHolds
  <1>2. CASE TurnAway
    <2>1. Current = hits /\ Len(hits) = PerWindow
      <3>1. Len(Current) \in Nat /\ Len(hits) \in Nat
        BY CurrentIsPart, LenProperties DEF LimitInv, LimitTypeOK
      <3> QED
        BY <3>1, <1>2, CurrentIsPart DEF TurnAway, LimitInv, LimitTypeOK
    <2>2. hits[1] \in 0 .. 2 * Window + 1 /\ Head(hits) = hits[1]
      BY <2>1, ElementOfSeq DEF LimitInv, LimitTypeOK
    <2>3. RetryAfter \in 1 .. Window + 1 /\ 2 * RetryAfter + hits[1] >= 2 * Window + 1
      BY <2>1, <2>2 DEF RetryAfter
    <2>4. hits' = hits /\ owed' = IF owed \in 0 .. 2 * RetryAfter THEN owed ELSE 2 * RetryAfter
      BY <1>2, <2>1 DEF TurnAway
    <2>5. owed' \in 0 .. 2 * (Window + 1) /\ owed' + hits[1] >= 2 * Window + 1
      BY <2>1, <2>2, <2>3, <2>4 DEF LimitInv, LimitTypeOK, HonestyHolds
    <2> QED
      BY <2>4, <2>5 DEF LimitInv, LimitTypeOK, HonestyHolds
  <1>3. CASE Forgotten
    <2>1. <<>> \in Seq(0 .. 2 * Window + 1) /\ Len(<<>>) = 0
      BY EmptySeq
    <2> QED
      BY <1>3, <2>1 DEF Forgotten, LimitInv, LimitTypeOK, HonestyHolds
  <1>4. CASE Passes
    <2>1. Len(hits) \in Nat /\ DOMAIN hits = 1 .. Len(hits)
      BY LenProperties DEF LimitInv, LimitTypeOK
    <2>2. \A i \in 1 .. Len(hits) : hits[i] \in 0 .. 2 * Window + 1
      BY ElementOfSeq DEF LimitInv, LimitTypeOK
    <2>3. hits' \in [1 .. Len(hits) -> 0 .. 2 * Window + 1]
      BY <1>4, <2>1, <2>2 DEF Passes
    <2>4. hits' \in Seq(0 .. 2 * Window + 1)
      BY <2>1, <2>3, SeqDef
    <2>5. Len(hits') = Len(hits)
      BY <2>1, <2>3, <2>4, LenProperties
    <2>6. owed' \in {Unowed} \cup 0 .. 2 * (Window + 1)
      BY <1>4 DEF Passes, LimitInv, LimitTypeOK
    <2>7. HonestyHolds'
      <3> SUFFICES ASSUME owed' # Unowed, Len(hits') >= PerWindow
                   PROVE  owed' + hits'[1] >= 2 * Window + 1
        BY <2>1, <2>5 DEF HonestyHolds
      <3>1. 1 \in DOMAIN hits
        BY <2>1, <2>5
      <3>2. hits'[1] = IF hits[1] <= 2 * Window THEN hits[1] + 1 ELSE hits[1]
        BY <3>1, <1>4 DEF Passes
      <3>3. owed \in 0 .. 2 * (Window + 1) /\ owed + hits[1] >= 2 * Window + 1
        BY <1>4, <2>1, <2>5 DEF Passes, LimitInv, LimitTypeOK, HonestyHolds
      <3>4. hits[1] \in 0 .. 2 * Window + 1
        BY <2>1, <2>2, <3>1
      <3> QED
        BY <1>4, <3>2, <3>3, <3>4 DEF Passes
    <2> QED
      BY <2>4, <2>5, <2>6, <2>7 DEF LimitInv, LimitTypeOK
  <1>5. CASE UNCHANGED limitVars
    BY <1>5 DEF limitVars, LimitInv, LimitTypeOK, HonestyHolds
  <1> QED
    BY <1>1, <1>2, <1>3, <1>4, <1>5

\* Nobody is turned away who waited as long as it was told.
LEMMA TurnedAwayIsOwed ==
  ASSUME LimitInv, TurnAway
  PROVE  owed # 0
  <1> SUFFICES ASSUME owed = 0 PROVE FALSE
    OBVIOUS
  <1>1. Len(Current) \in Nat /\ Len(hits) \in Nat /\ Len(Current) <= Len(hits)
    BY CurrentIsPart, LenProperties DEF LimitInv, LimitTypeOK
  <1>2. Len(hits) = PerWindow /\ Len(Current) = Len(hits)
    BY <1>1, RateLimitAssumption DEF TurnAway, LimitInv, LimitTypeOK
  <1>3. hits[1] \in 0 .. 2 * Window + 1
    BY <1>2, ElementOfSeq, RateLimitAssumption DEF LimitInv, LimitTypeOK
  <1>4. hits[1] > 2 * Window
    BY <1>2, <1>3, RateLimitAssumption DEF LimitInv, HonestyHolds, Unowed
  <1> QED
    BY <1>1, <1>2, <1>4, CurrentIsPart, RateLimitAssumption DEF LimitInv

-----------------------------------------------------------------------------
(* The invariant.                                                          *)

\* A sender that posts or waits has an event, and tries it.
SenderBegun == sender.does # "next" => sender.event >= 1 /\ sender.attempt >= 1

\* One thread at most, its work that of the gate's holder -- unless the host is
\* about to exit, when nobody asks for the gate any more.
GateInv ==
  /\ \A v, w \in threads : v = w
  /\ \A w \in threads : holder = w.of \/ (host = "exiting" /\ holder = None)
  /\ host = "exiting" => waiting = <<>>

\* Event n is not later than any event still to be worked on.
Past(n) ==
  /\ n <= sender.event
  /\ \A i \in DOMAIN waiting : waiting[i] \in Copy => n <= waiting[i].event
  /\ \A w \in threads : w.of \in Copy => n <= w.of.event

\* Copies are worked on in the order in which they were sent.
CopiesInLine ==
  /\ \A i, j \in DOMAIN waiting :
       i <= j /\ waiting[i] \in Copy /\ waiting[j] \in Copy
         => waiting[i].event <= waiting[j].event
  /\ \A i \in DOMAIN waiting : waiting[i] \in Copy => waiting[i].event <= sender.event
  /\ \A w \in threads : w.of \in Copy => Past(w.of.event)

\* The log has each event once, in order, and none that is still to come.
LogInv ==
  /\ \A i \in DOMAIN log : i <= log[i] /\ Past(log[i])
  /\ \A i, j \in DOMAIN log : i < j => log[i] < log[j]

\* So has the stream, but for repetitions.
StreamInv ==
  /\ Past(shown)
  /\ \A i \in DOMAIN queue : shown <= queue[i] /\ Past(queue[i])
  /\ \A i, j \in DOMAIN queue : i <= j => queue[i] <= queue[j]

\* What was recorded at any time holds what is on record, the events whose work
\* has come that far or that were found repeated, and the event that was answered.
RecordInv ==
  /\ \A i \in DOMAIN log : log[i] \in ever
  /\ \A w \in threads :
       w.of \in Copy /\ (w.repeated \/ w.stage \in {"committed", "published"})
         => w.of.event \in ever
  /\ AnswerIsTrue

HostInv ==
  /\ HostTypeOK /\ HonestyHolds /\ SenderBegun /\ GateInv
  /\ CopiesInLine /\ LogInv /\ StreamInv /\ RecordInv

-----------------------------------------------------------------------------
(* The steps, by what they do to the gate, the sender, the log, the stream *)
(* and the window.                                                         *)

\* What a step may do to the log and its history.
LEMMA LogSteps ==
  ASSUME [HostNext]_hostVars
  PROVE  \/ UNCHANGED <<log, ever>>
         \/ log' = <<>> /\ ever' = ever
         \/ \E w \in threads :
              /\ w.of \in Copy /\ ~OnRecord(w.of.event)
              /\ log' = Append(log, w.of.event) /\ ever' = ever \cup {w.of.event}
  <1> USE DEF hostVars, gateVars, sendVars, streamVars, limitVars
  <1>1. ASSUME NEW w \in threads, Work(w)
        PROVE  \/ UNCHANGED <<log, ever>>
               \/ log' = <<>> /\ ever' = ever
               \/ /\ w.of \in Copy /\ ~OnRecord(w.of.event)
                  /\ log' = Append(log, w.of.event) /\ ever' = ever \cup {w.of.event}
    BY <1>1 DEF Work, Check, Commit, Fail, Publish, TaskWorks, Leave
  <1> QED
    BY <1>1 DEF HostNext, Works, Sends, Reads, TaskAsks, Enter, EnterGone, NextEvent, Post,
       PostTurnedAway, PostFails, TimeOut, Look, Turn, Ping, Subscribe, Unsubscribe, Stop,
       Cancel, Exit, Crash, Start, Tick

\* What a step may do to the window.
LEMMA LimitSteps ==
  ASSUME [HostNext]_hostVars
  PROVE  LetIn \/ TurnAway \/ Forgotten \/ Passes \/ UNCHANGED limitVars
  <1> USE DEF hostVars, gateVars, sendVars, streamVars
  <1>1. ASSUME NEW w \in threads, Work(w)
        PROVE  UNCHANGED limitVars
    BY <1>1 DEF Work, Check, Commit, Fail, Publish, TaskWorks, Leave
  <1> QED
    BY <1>1 DEF HostNext, Works, Sends, Reads, TaskAsks, Enter, EnterGone, NextEvent, Post,
       PostTurnedAway, PostFails, TimeOut, Look, Turn, Ping, Subscribe, Unsubscribe, Stop,
       Cancel, Exit, Crash, Start, Tick, Gone

\* What a step may do to the sender and what it was told.
LEMMA SenderSteps ==
  ASSUME [HostNext]_hostVars
  PROVE  \/ UNCHANGED sendVars
         \/ NextEvent \/ Post \/ PostTurnedAway \/ PostFails \/ TimeOut
         \/ \E w \in threads :
              /\ w.of \in Copy /\ w.stage \in {"published", "failed"} /\ Awaited(w.of)
              /\ told' = AnswerOf(w) /\ sender' = [sender EXCEPT !.does = "next"]
  <1> USE DEF hostVars, gateVars, sendVars, streamVars
  <1>1. ASSUME NEW w \in threads, Work(w)
        PROVE  \/ UNCHANGED sendVars
               \/ /\ w.of \in Copy /\ w.stage \in {"published", "failed"} /\ Awaited(w.of)
                  /\ told' = AnswerOf(w) /\ sender' = [sender EXCEPT !.does = "next"]
    <2>1. ASSUME Leave(w), w.of \in Copy PROVE w.stage \in {"published", "failed"}
      BY <2>1 DEF Leave, Done, Tasks, Task, Copy
    <2> QED
      BY <1>1, <2>1 DEF Work, Check, Commit, Fail, Publish, TaskWorks, Leave
  <1> QED
    BY <1>1 DEF HostNext, Works, Sends, Reads, TaskAsks, Enter, EnterGone, Look, Turn, Ping,
       Subscribe, Unsubscribe, Stop, Cancel, Exit, Crash, Start, Tick

\* What a step may do to the stream.
LEMMA StreamSteps ==
  ASSUME [HostNext]_hostVars
  PROVE  \/ UNCHANGED <<queue, shown>>
         \/ queue' = <<>> /\ shown' = 0
         \/ queue' = queue /\ shown' = 0
         \/ queue # <<>> /\ shown' = Head(queue) /\ queue' = Tail(queue)
         \/ \E w \in threads :
              /\ w.of \in Copy /\ Len(queue) < QueueSize
              /\ queue' = Append(queue, w.of.event) /\ shown' = shown
  <1> USE DEF hostVars, gateVars, sendVars, streamVars
  <1>1. ASSUME NEW w \in threads, Work(w)
        PROVE  \/ UNCHANGED <<queue, shown>>
               \/ /\ w.of \in Copy /\ Len(queue) < QueueSize
                  /\ queue' = Append(queue, w.of.event) /\ shown' = shown
    BY <1>1 DEF Work, Check, Commit, Fail, Publish, TaskWorks, Leave
  <1> QED
    BY <1>1 DEF HostNext, Works, Sends, Reads, TaskAsks, Enter, EnterGone, NextEvent, Post,
       PostTurnedAway, PostFails, TimeOut, Look, Turn, Ping, Subscribe, Unsubscribe, Stop,
       Cancel, Exit, Crash, Start, Tick, Gone

\* What a step may do to the queue at the gate: it grows at its end, by a task or
\* by a copy of the sender's event, or shrinks.
LEMMA QueueSteps ==
  ASSUME [HostNext]_hostVars
  PROVE  \/ waiting' = waiting
         \/ waiting' = <<>>
         \/ waiting # <<>> /\ waiting' = Tail(waiting)
         \/ \E t \in Tasks : waiting' = Append(waiting, t) /\ host \in {"up", "stopping"}
                             /\ host' = host
         \/ Post
  <1> USE DEF hostVars, gateVars, sendVars, streamVars
  <1>1. ASSUME NEW w \in threads, Work(w)
        PROVE  waiting' = waiting
    BY <1>1 DEF Work, Check, Commit, Fail, Publish, TaskWorks, Leave
  <1> QED
    BY <1>1 DEF HostNext, Works, Sends, Reads, TaskAsks, Ask, Enter, EnterGone, NextEvent,
       PostTurnedAway, PostFails, TimeOut, Look, Turn, Ping, Subscribe, Unsubscribe, Stop,
       Cancel, Exit, Crash, Start, Tick, Gone

\* What a step may do to the threads: one begins, one proceeds, one ends, or all do.
LEMMA ThreadSteps ==
  ASSUME [HostNext]_hostVars
  PROVE  \/ UNCHANGED threads
         \/ threads' = {}
         \/ Enter
         \/ \E w \in threads : threads' = threads \ {w}
         \/ \E w \in threads : Check(w) \/ Commit(w) \/ Fail(w) \/ Publish(w) \/ TaskWorks(w)
  <1> USE DEF hostVars, gateVars, sendVars, streamVars
  <1>1. ASSUME NEW w \in threads, Leave(w)
        PROVE  threads' = threads \ {w}
    BY <1>1 DEF Leave
  <1> QED
    BY <1>1 DEF HostNext, Works, Work, Sends, Reads, TaskAsks, EnterGone, NextEvent, Post,
       PostTurnedAway, PostFails, TimeOut, Look, Turn, Ping, Subscribe, Unsubscribe, Stop,
       Cancel, Exit, Crash, Start, Tick, Gone

-----------------------------------------------------------------------------
(* The parts of the invariant, one by one.                                 *)

Threads == [of : Tasks \cup Copy, stage : Stages, repeated : BOOLEAN]

\* The first of the queue is a task or a copy, and the rest stays in line.
LEMMA HeadOfQueue ==
  ASSUME HostTypeOK, waiting # <<>>
  PROVE  /\ Head(waiting) \in Tasks \cup Copy /\ Head(waiting) = waiting[1]
         /\ 1 \in DOMAIN waiting
         /\ Tail(waiting) \in Seq(Tasks \cup Copy)
         /\ \A i \in DOMAIN Tail(waiting) :
              i + 1 \in DOMAIN waiting /\ Tail(waiting)[i] = waiting[i + 1]
  <1>1. waiting \in Seq(Tasks \cup Copy)
    BY DEF HostTypeOK
  <1>2. /\ Len(waiting) \in Nat \ {0} /\ DOMAIN waiting = 1 .. Len(waiting)
        /\ Head(waiting) \in Tasks \cup Copy /\ Head(waiting) = waiting[1]
    BY <1>1, EmptySeq, LenProperties, HeadTailProperties
  <1>3. /\ Tail(waiting) \in Seq(Tasks \cup Copy) /\ Len(Tail(waiting)) = Len(waiting) - 1
        /\ \A i \in 1 .. Len(Tail(waiting)) : Tail(waiting)[i] = waiting[i + 1]
    BY <1>1, HeadTailProperties
  <1>4. DOMAIN Tail(waiting) = 1 .. Len(waiting) - 1
    BY <1>3, LenProperties
  <1> QED
    BY <1>2, <1>3, <1>4

\* Every thread works for whom one worked before, or for the first of the queue.
LEMMA ThreadsComeFrom ==
  ASSUME HostTypeOK, [HostNext]_hostVars
  PROVE  /\ threads' \subseteq Threads
         /\ \A w \in threads' :
              \/ \E v \in threads : v.of = w.of
              \/ Enter /\ w = [of |-> Head(waiting), stage |-> "begun", repeated |-> FALSE]
  <1> USE DEF Threads, Stages
  <1>1. threads \subseteq Threads
    BY DEF HostTypeOK
  <1>2. CASE Enter
    <2>1. [of |-> Head(waiting), stage |-> "begun", repeated |-> FALSE] \in Threads
      BY <1>2, HeadOfQueue DEF Enter
    <2> QED
      BY <1>1, <1>2, <2>1 DEF Enter
  <1>3. ASSUME NEW w \in threads, Check(w) \/ Commit(w) \/ Fail(w) \/ Publish(w) \/ TaskWorks(w)
        PROVE  \E v \in Threads : threads' = (threads \ {w}) \cup {v} /\ v.of = w.of
    <2>1. w \in Threads
      BY <1>1
    <2>2. CASE Check(w)
      <3> DEFINE v == [w EXCEPT !.stage = "checked", !.repeated = OnRecord(w.of.event)]
      <3>1. OnRecord(w.of.event) \in BOOLEAN
        BY DEF OnRecord
      <3>2. v \in Threads /\ v.of = w.of
        BY <2>1, <3>1
      <3> QED
        BY <2>2, <3>2 DEF Check
    <2>3. ASSUME NEW stage \in Stages, Proceeds(w, stage)
          PROVE  \E v \in Threads : threads' = (threads \ {w}) \cup {v} /\ v.of = w.of
      <3> DEFINE v == [w EXCEPT !.stage = stage]
      <3>1. v \in Threads /\ v.of = w.of
        BY <2>1
      <3> QED
        BY <2>3, <3>1 DEF Proceeds
    <2>4. CASE Commit(w) \/ Fail(w) \/ Publish(w) \/ TaskWorks(w)
      <3>1. PICK stage \in Stages : Proceeds(w, stage)
        BY <2>4 DEF Commit, Fail, Publish, TaskWorks
      <3> QED
        BY <2>3, <3>1
    <2> QED
      BY <1>3, <2>2, <2>4
  <1>4. ASSUME NEW w \in threads, NEW v \in Threads,
               threads' = (threads \ {w}) \cup {v}, v.of = w.of
        PROVE  threads' \subseteq Threads /\ \A u \in threads' : \E t \in threads : t.of = u.of
    BY <1>1, <1>4
  <1>5. CASE \E w \in threads : Check(w) \/ Commit(w) \/ Fail(w) \/ Publish(w) \/ TaskWorks(w)
    BY <1>3, <1>4, <1>5
  <1>6. CASE threads' \subseteq threads
    BY <1>1, <1>6
  <1> QED
    BY <1>2, <1>5, <1>6, ThreadSteps

\* There is one thread at most, of the gate's holder.
LEMMA GateStep ==
  ASSUME HostTypeOK, GateInv, [HostNext]_hostVars
  PROVE  GateInv'
  <1> USE HostAssumption DEF GateInv
  <1> USE DEF hostVars, gateVars
  <1>1. CASE Enter
    <2>1. threads = {}
      BY <1>1 DEF Enter, HostTypeOK
    <2>2. host' = host /\ host # "exiting"
      BY <1>1 DEF Enter
    <2> QED
      BY <1>1, <2>1, <2>2 DEF Enter
  <1>2. CASE \E w \in threads : Check(w) \/ Commit(w) \/ Fail(w) \/ Publish(w) \/ TaskWorks(w)
    <2>1. UNCHANGED <<host, holder, waiting>>
      BY <1>2 DEF Check, Commit, Fail, Publish, TaskWorks
    <2>2. \A w \in threads' : \E v \in threads : v.of = w.of
      BY <1>2, <2>1, ThreadsComeFrom DEF Enter
    <2>3. \A v, w \in threads' : v = w
      BY <1>2 DEF Check, Commit, Fail, Publish, TaskWorks, Proceeds
    <2> QED
      BY <2>1, <2>2, <2>3
  <1>3. ASSUME NEW w \in threads, Leave(w) PROVE GateInv'
    BY <1>3 DEF Leave
  <1>4. CASE Cancel
    BY <1>4 DEF Cancel
  <1>5. CASE Exit \/ Crash
    BY <1>5 DEF Exit, Crash, Gone
  <1>6. CASE EnterGone
    BY <1>6 DEF EnterGone
  <1>7. CASE Stop \/ Start
    BY <1>7 DEF Stop, Start
  <1>8. ASSUME NEW t \in Tasks, TaskAsks(t) PROVE GateInv'
    BY <1>8 DEF TaskAsks
  <1>9. CASE Post
    BY <1>9 DEF Post
  <1>10. CASE UNCHANGED gateVars
    BY <1>10
  <1>11. CASE NextEvent \/ PostTurnedAway \/ PostFails \/ TimeOut \/ Subscribe \/ Unsubscribe
              \/ Look \/ Turn \/ Ping \/ Tick \/ UNCHANGED hostVars
    BY <1>10, <1>11 DEF NextEvent, PostTurnedAway, PostFails, TimeOut, Subscribe, Unsubscribe,
       Look, Turn, Ping, Tick
  <1> QED
    BY <1>1, <1>2, <1>3, <1>4, <1>5, <1>6, <1>7, <1>8, <1>9, <1>11
       DEF HostNext, Works, Work, Sends, Reads

\* The sender keeps its type, and its events go up.
LEMMA SenderStep ==
  ASSUME HostTypeOK, SenderBegun, [HostNext]_hostVars
  PROVE  /\ sender' \in [event : 0 .. MaxEvents, attempt : 0 .. MaxAttempts,
                         does : {"next", "post", "wait"}]
         /\ told' \in Answers
         /\ SenderBegun'
         /\ sender.event <= sender'.event
  <1> DEFINE Sender == [event : 0 .. MaxEvents, attempt : 0 .. MaxAttempts,
                        does : {"next", "post", "wait"}]
  <1> USE HostAssumption DEF SenderBegun
  <1>1. sender \in Sender /\ told \in Answers
    BY DEF HostTypeOK
  <1>2. CASE UNCHANGED sendVars
    BY <1>1, <1>2 DEF sendVars
  <1>3. CASE NextEvent
    BY <1>1, <1>3 DEF NextEvent, Answers
  <1>4. CASE Post
    BY <1>1, <1>4 DEF Post
  <1>5. CASE PostTurnedAway
    BY <1>1, <1>5 DEF PostTurnedAway, Answers
  <1>6. CASE PostFails \/ TimeOut
    <2>1. NextAttempt /\ sender.does # "next"
      BY <1>6 DEF PostFails, TimeOut
    <2>2. CASE sender.attempt < MaxAttempts
      <3>1. /\ told' = told
            /\ sender' = [event |-> sender.event, attempt |-> sender.attempt + 1, does |-> "post"]
        BY <1>1, <2>1, <2>2 DEF NextAttempt
      <3>2. sender.attempt + 1 \in 1 .. MaxAttempts /\ sender.event \in 0 .. MaxEvents
        BY <1>1, <2>2
      <3> QED
        BY <1>1, <2>1, <3>1, <3>2
    <2>3. CASE ~(sender.attempt < MaxAttempts)
      BY <1>1, <2>1, <2>3 DEF NextAttempt, Answers
    <2> QED
      BY <2>2, <2>3
  <1>7. ASSUME NEW w \in threads, told' = AnswerOf(w),
               sender' = [sender EXCEPT !.does = "next"]
        PROVE  /\ sender' \in Sender /\ told' \in Answers
               /\ SenderBegun' /\ sender.event <= sender'.event
    BY <1>1, <1>7 DEF AnswerOf, Answers
  <1> QED
    BY <1>2, <1>3, <1>4, <1>5, <1>6, <1>7, SenderSteps

\* What the queue holds after a step: what it held, in the same order, and at its
\* end perhaps a task or a copy of the sender's event.
LEMMA QueueStep ==
  ASSUME HostTypeOK, SenderBegun, [HostNext]_hostVars
  PROVE  /\ waiting' \in Seq(Tasks \cup Copy)
         /\ \E k \in {0, 1}, n \in Nat :
              /\ \A i \in DOMAIN waiting' :
                   \/ i <= n /\ i + k \in DOMAIN waiting /\ waiting'[i] = waiting[i + k]
                   \/ i = n + 1 /\ (waiting'[i] \in Copy => /\ waiting'[i].event = sender.event
                                                            /\ sender'.event = sender.event)
  <1>1. waiting \in Seq(Tasks \cup Copy)
    BY DEF HostTypeOK
  <1>2. Len(waiting) \in Nat /\ DOMAIN waiting = 1 .. Len(waiting)
    BY <1>1, LenProperties
  <1>3. ASSUME NEW t \in Tasks \cup Copy, waiting' = Append(waiting, t),
               t \in Copy => t.event = sender.event /\ sender'.event = sender.event
        PROVE  /\ waiting' \in Seq(Tasks \cup Copy)
               /\ \A i \in DOMAIN waiting' :
                    \/ i <= Len(waiting) /\ i + 0 \in DOMAIN waiting /\ waiting'[i] = waiting[i + 0]
                    \/ i = Len(waiting) + 1
                       /\ (waiting'[i] \in Copy => /\ waiting'[i].event = sender.event
                                                   /\ sender'.event = sender.event)
    <2>1. /\ waiting' \in Seq(Tasks \cup Copy) /\ Len(waiting') = Len(waiting) + 1
          /\ \A i \in 1 .. Len(waiting) : waiting'[i] = waiting[i]
          /\ waiting'[Len(waiting) + 1] = t
      BY <1>1, <1>3, AppendProperties
    <2>2. DOMAIN waiting' = 1 .. Len(waiting) + 1
      BY <2>1, LenProperties
    <2> QED
      BY <1>2, <1>3, <2>1, <2>2
  <1>4. CASE waiting' = waiting
    <2>1. \A i \in DOMAIN waiting' :
            i <= Len(waiting) /\ i + 0 \in DOMAIN waiting /\ waiting'[i] = waiting[i + 0]
      BY <1>2, <1>4
    <2> QED
      BY <1>1, <1>2, <1>4, <2>1
  <1>5. CASE waiting' = <<>>
    <2>1. <<>> \in Seq(Tasks \cup Copy) /\ DOMAIN <<>> = {}
      BY EmptySeq, LenProperties
    <2> QED
      BY <1>5, <2>1
  <1>6. CASE waiting # <<>> /\ waiting' = Tail(waiting)
    <2>1. \A i \in DOMAIN Tail(waiting) :
            i <= Len(waiting) /\ i + 1 \in DOMAIN waiting /\ Tail(waiting)[i] = waiting[i + 1]
      BY <1>2, <1>6, HeadOfQueue
    <2> QED
      BY <1>2, <1>6, <2>1, HeadOfQueue
  <1>7. CASE \E t \in Tasks : waiting' = Append(waiting, t)
    <2>1. \A t \in Tasks : t \notin Copy
      BY DEF Tasks, Task, Copy
    <2> QED
      BY <1>2, <1>3, <1>7, <2>1
  <1>8. CASE Post
    <2> DEFINE t == [who |-> "sender", event |-> sender.event, attempt |-> sender.attempt]
    <2>1. t \in Copy
      BY <1>8, HostAssumption DEF HostTypeOK, SenderBegun, Post, Copy
    <2>2. waiting' = Append(waiting, t) /\ sender'.event = sender.event
      BY <1>8 DEF Post, Ask, HostTypeOK
    <2> QED
      BY <1>2, <1>3, <2>1, <2>2
  <1> QED
    BY <1>4, <1>5, <1>6, <1>7, <1>8, QueueSteps

\* What is past stays past.
LEMMA PastStays ==
  ASSUME HostTypeOK, SenderBegun, [HostNext]_hostVars, NEW n \in Nat, Past(n)
  PROVE  Past(n)'
  <1>1. n <= sender'.event
    BY SenderStep, HostAssumption DEF Past, HostTypeOK
  <1>2. \A i \in DOMAIN waiting' : waiting'[i] \in Copy => n <= waiting'[i].event
    BY QueueStep DEF Past
  <1>3. \A w \in threads' : w.of \in Copy => n <= w.of.event
    <2>1. ASSUME Enter PROVE Head(waiting) \in Copy => n <= Head(waiting).event
      BY <2>1, HeadOfQueue DEF Past, Enter
    <2> QED
      BY <2>1, ThreadsComeFrom DEF Past
  <1> QED
    BY <1>1, <1>2, <1>3 DEF Past

\* Copies stay in line.
LEMMA CopiesStep ==
  ASSUME HostTypeOK, SenderBegun, GateInv, CopiesInLine, [HostNext]_hostVars
  PROVE  CopiesInLine'
  <1> USE HostAssumption
  <1>1. waiting \in Seq(Tasks \cup Copy) /\ DOMAIN waiting \subseteq Nat
    BY LenProperties DEF HostTypeOK
  <1>2. \A t \in Copy : t.event \in Nat
    BY DEF Copy
  <1>3. sender.event \in Nat /\ sender'.event \in Nat /\ sender.event <= sender'.event
    BY SenderStep DEF HostTypeOK
  <1>4. waiting' \in Seq(Tasks \cup Copy) /\ DOMAIN waiting' \subseteq Nat
    BY QueueStep, LenProperties
  <1>5. \A i \in DOMAIN waiting' : waiting'[i] \in Copy => waiting'[i].event <= sender'.event
    BY <1>2, <1>3, QueueStep DEF CopiesInLine
  <1>6. ASSUME NEW i \in DOMAIN waiting', NEW j \in DOMAIN waiting',
               i <= j, waiting'[i] \in Copy, waiting'[j] \in Copy
        PROVE  waiting'[i].event <= waiting'[j].event
    <2>1. PICK k \in {0, 1}, n \in Nat :
            \A m \in DOMAIN waiting' :
              \/ m <= n /\ m + k \in DOMAIN waiting /\ waiting'[m] = waiting[m + k]
              \/ m = n + 1 /\ (waiting'[m] \in Copy => waiting'[m].event = sender.event)
      BY QueueStep
    <2>2. CASE j <= n
      <3>1. /\ i + k \in DOMAIN waiting /\ waiting'[i] = waiting[i + k]
            /\ j + k \in DOMAIN waiting /\ waiting'[j] = waiting[j + k] /\ i + k <= j + k
        BY <1>4, <1>6, <2>1, <2>2
      <3> QED
        BY <1>6, <3>1 DEF CopiesInLine
    <2>3. CASE j = n + 1 /\ waiting'[j].event = sender.event
      BY <1>2, <1>4, <1>6, <2>1, <2>3 DEF CopiesInLine
    <2> QED
      BY <1>6, <2>1, <2>2, <2>3
  <1>7. ASSUME NEW w \in threads', w.of \in Copy
        PROVE  Past(w.of.event)'
    <2>1. Past(w.of.event)
      <3>1. CASE \E v \in threads : v.of = w.of
        BY <1>7, <3>1 DEF CopiesInLine
      <3>2. CASE Enter /\ w = [of |-> Head(waiting), stage |-> "begun", repeated |-> FALSE]
        <4>1. threads = {}
          BY <3>2 DEF Enter, GateInv, HostTypeOK
        <4>2. w.of = waiting[1] /\ 1 \in DOMAIN waiting
          BY <3>2, HeadOfQueue DEF Enter
        <4>3. \A i \in DOMAIN waiting : 1 <= i
          BY <1>1, LenProperties
        <4> QED
          BY <1>7, <4>1, <4>2, <4>3 DEF CopiesInLine, Past
      <3> QED
        BY <3>1, <3>2, ThreadsComeFrom
    <2> QED
      BY <1>2, <1>7, <2>1, PastStays
  <1> QED
    BY <1>5, <1>6, <1>7 DEF CopiesInLine

\* An event that is recorded is later than every event on record.
LEMMA RecordedIsLater ==
  ASSUME HostTypeOK, GateInv, CopiesInLine, LogInv,
         NEW w \in threads, w.of \in Copy, ~OnRecord(w.of.event)
  PROVE  /\ w.of.event \in 1 .. MaxEvents /\ Past(w.of.event)
         /\ \A i \in DOMAIN log : log[i] < w.of.event
         /\ w.of.event >= Len(log) + 1
  <1> USE HostAssumption
  <1>1. log \in Seq(1 .. MaxEvents)
    BY DEF HostTypeOK
  <1>2. /\ Len(log) \in Nat /\ DOMAIN log = 1 .. Len(log)
        /\ \A i \in DOMAIN log : log[i] \in 1 .. MaxEvents
    BY <1>1, LenProperties, ElementOfSeq
  <1>3. w.of.event \in 1 .. MaxEvents /\ Past(w.of.event)
    BY DEF Copy, CopiesInLine
  <1>4. \A i \in DOMAIN log : log[i] < w.of.event
    <2> SUFFICES ASSUME NEW i \in DOMAIN log PROVE log[i] < w.of.event
      OBVIOUS
    <2>1. log[i] # w.of.event
      BY DEF OnRecord, Fingerprint
    <2>2. log[i] <= w.of.event
      BY DEF LogInv, Past
    <2> QED
      BY <1>2, <1>3, <2>1, <2>2
  <1>5. w.of.event >= Len(log) + 1
    <2>1. CASE Len(log) = 0
      BY <1>3, <2>1
    <2>2. CASE Len(log) # 0
      <3>1. Len(log) \in DOMAIN log
        BY <1>2, <2>2
      <3>2. Len(log) <= log[Len(log)] /\ log[Len(log)] < w.of.event
        BY <1>4, <3>1 DEF LogInv
      <3> QED
        BY <1>2, <1>3, <3>1, <3>2
    <2> QED
      BY <2>1, <2>2
  <1> QED
    BY <1>3, <1>4, <1>5

\* The log stays in order, and what is on record stays past.
LEMMA LogStep ==
  ASSUME HostTypeOK, SenderBegun, GateInv, CopiesInLine, LogInv, [HostNext]_hostVars
  PROVE  LogInv' /\ log' \in Seq(1 .. MaxEvents) /\ ever' \subseteq 1 .. MaxEvents
  <1> USE HostAssumption
  <1>1. log \in Seq(1 .. MaxEvents) /\ ever \subseteq 1 .. MaxEvents
    BY DEF HostTypeOK
  <1>2. /\ Len(log) \in Nat /\ DOMAIN log = 1 .. Len(log)
        /\ \A i \in DOMAIN log : log[i] \in 1 .. MaxEvents
    BY <1>1, LenProperties, ElementOfSeq
  <1>3. ASSUME \A i \in DOMAIN log' : \E n \in Nat : log'[i] = n /\ Past(n)
        PROVE  \A i \in DOMAIN log' : Past(log[i])'
    <2> SUFFICES ASSUME NEW i \in DOMAIN log', NEW n \in Nat, log'[i] = n, Past(n)
                 PROVE  Past(log[i])'
      BY <1>3
    <2>1. Past(n)'
      BY PastStays
    <2> QED
      BY <2>1 DEF Past
  <1>4. CASE UNCHANGED <<log, ever>>
    <2>1. \A i \in DOMAIN log' : \E n \in Nat : log'[i] = n /\ Past(n)
      BY <1>2, <1>4 DEF LogInv
    <2> QED
      BY <1>1, <1>3, <1>4, <2>1 DEF LogInv
  <1>5. CASE log' = <<>> /\ ever' = ever
    <2>1. <<>> \in Seq(1 .. MaxEvents) /\ DOMAIN <<>> = {}
      BY EmptySeq, LenProperties
    <2> QED
      BY <1>1, <1>5, <2>1 DEF LogInv
  <1>6. ASSUME NEW w \in threads, w.of \in Copy, ~OnRecord(w.of.event),
               log' = Append(log, w.of.event), ever' = ever \cup {w.of.event}
        PROVE  LogInv' /\ log' \in Seq(1 .. MaxEvents) /\ ever' \subseteq 1 .. MaxEvents
    <2>1. PICK e \in 1 .. MaxEvents :
            e = w.of.event /\ Past(e) /\ (\A i \in DOMAIN log : log[i] < e) /\ e >= Len(log) + 1
      BY <1>6, RecordedIsLater
    <2>2. /\ log' \in Seq(1 .. MaxEvents) /\ Len(log') = Len(log) + 1
          /\ \A i \in 1 .. Len(log) : log'[i] = log[i]
          /\ log'[Len(log) + 1] = e
      BY <1>1, <1>6, <2>1, AppendProperties
    <2>3. DOMAIN log' = 1 .. Len(log) + 1
      BY <2>2, LenProperties
    <2>4. \A i \in DOMAIN log' : \E n \in Nat : log'[i] = n /\ Past(n)
      BY <1>2, <2>1, <2>2, <2>3 DEF LogInv
    <2>5. \A i \in DOMAIN log' : i <= log'[i]
      BY <1>2, <2>1, <2>2, <2>3 DEF LogInv
    <2>6. \A i, j \in DOMAIN log' : i < j => log'[i] < log'[j]
      BY <1>2, <2>1, <2>2, <2>3 DEF LogInv
    <2> QED
      BY <1>1, <1>3, <1>6, <2>1, <2>2, <2>4, <2>5, <2>6 DEF LogInv
  <1> QED
    BY <1>4, <1>5, <1>6, LogSteps

\* The stream stays in order.
LEMMA StreamStep ==
  ASSUME HostTypeOK, SenderBegun, CopiesInLine, StreamInv, [HostNext]_hostVars
  PROVE  /\ StreamInv'
         /\ queue' \in Seq(1 .. MaxEvents) /\ Len(queue') <= QueueSize
         /\ shown' \in 0 .. MaxEvents
  <1> USE HostAssumption
  <1>1. queue \in Seq(1 .. MaxEvents) /\ Len(queue) <= QueueSize /\ shown \in 0 .. MaxEvents
    BY DEF HostTypeOK
  <1>2. /\ Len(queue) \in Nat /\ DOMAIN queue = 1 .. Len(queue)
        /\ \A i \in DOMAIN queue : queue[i] \in 1 .. MaxEvents
    BY <1>1, LenProperties, ElementOfSeq
  <1>3. ASSUME \A i \in DOMAIN queue' : \E n \in Nat : queue'[i] = n /\ Past(n),
               \E n \in Nat : shown' = n /\ Past(n)
        PROVE  Past(shown)' /\ \A i \in DOMAIN queue' : Past(queue[i])'
    <2>1. ASSUME NEW i \in DOMAIN queue', NEW n \in Nat, queue'[i] = n, Past(n)
          PROVE  Past(queue[i])'
      <3>1. Past(n)'
        BY <2>1, PastStays
      <3> QED
        BY <2>1, <3>1 DEF Past
    <2>2. ASSUME NEW n \in Nat, shown' = n, Past(n)
          PROVE  Past(shown)'
      <3>1. Past(n)'
        BY <2>2, PastStays
      <3> QED
        BY <2>2, <3>1 DEF Past
    <2> QED
      BY <1>3, <2>1, <2>2
  <1>4. Past(0)
    BY DEF Past, HostTypeOK, Copy
  <1>5. CASE UNCHANGED <<queue, shown>>
    <2>1. \A i \in DOMAIN queue' : \E n \in Nat : queue'[i] = n /\ Past(n)
      BY <1>2, <1>5 DEF StreamInv
    <2>2. \E n \in Nat : shown' = n /\ Past(n)
      BY <1>1, <1>5 DEF StreamInv
    <2> QED
      BY <1>1, <1>3, <1>5, <2>1, <2>2 DEF StreamInv
  <1>6. CASE queue' = <<>> /\ shown' = 0
    <2>1. <<>> \in Seq(1 .. MaxEvents) /\ DOMAIN <<>> = {} /\ Len(<<>>) = 0
      BY EmptySeq, LenProperties
    <2> QED
      BY <1>3, <1>4, <1>6, <2>1 DEF StreamInv
  <1>7. CASE queue' = queue /\ shown' = 0
    <2>1. \A i \in DOMAIN queue' : \E n \in Nat : queue'[i] = n /\ Past(n)
      BY <1>2, <1>7 DEF StreamInv
    <2>2. \A i \in DOMAIN queue' : shown' <= queue'[i]
      BY <1>2, <1>7
    <2> QED
      BY <1>1, <1>3, <1>4, <1>7, <2>1, <2>2 DEF StreamInv
  <1>8. CASE queue # <<>> /\ shown' = Head(queue) /\ queue' = Tail(queue)
    <2>1. /\ Len(queue) > 0 /\ 1 \in DOMAIN queue /\ shown' = queue[1]
          /\ queue' \in Seq(1 .. MaxEvents) /\ Len(queue') = Len(queue) - 1
          /\ \A i \in 1 .. Len(queue') : queue'[i] = queue[i + 1]
      BY <1>1, <1>2, <1>8, EmptySeq, HeadTailProperties
    <2>2. DOMAIN queue' = 1 .. Len(queue) - 1
      BY <2>1, LenProperties
    <2>3. \A i \in DOMAIN queue' : i + 1 \in DOMAIN queue /\ queue'[i] = queue[i + 1]
      BY <1>2, <2>1, <2>2
    <2>4. \A i \in DOMAIN queue' : \E n \in Nat : queue'[i] = n /\ Past(n)
      BY <1>2, <2>3 DEF StreamInv
    <2>5. \E n \in Nat : shown' = n /\ Past(n)
      BY <1>2, <2>1 DEF StreamInv
    <2>6. \A i \in DOMAIN queue' : shown' <= queue'[i]
      BY <2>1, <2>2, <2>3 DEF StreamInv
    <2>7. \A i, j \in DOMAIN queue' : i <= j => queue'[i] <= queue'[j]
      BY <2>2, <2>3 DEF StreamInv
    <2>8. Past(shown)' /\ \A i \in DOMAIN queue' : Past(queue[i])'
      BY <1>3, <2>4, <2>5
    <2>9. Len(queue') <= QueueSize /\ shown' \in 0 .. MaxEvents
      BY <1>1, <1>2, <2>1
    <2> QED
      BY <2>1, <2>6, <2>7, <2>8, <2>9 DEF StreamInv
  <1>9. ASSUME NEW w \in threads, w.of \in Copy, Len(queue) < QueueSize,
               queue' = Append(queue, w.of.event), shown' = shown
        PROVE  /\ StreamInv'
               /\ queue' \in Seq(1 .. MaxEvents) /\ Len(queue') <= QueueSize
               /\ shown' \in 0 .. MaxEvents
    <2>1. PICK e \in 1 .. MaxEvents : e = w.of.event /\ Past(e)
      BY <1>9 DEF Copy, CopiesInLine
    <2>2. shown <= e /\ \A i \in DOMAIN queue : queue[i] <= e
      BY <1>9, <2>1 DEF StreamInv, Past
    <2>3. /\ queue' \in Seq(1 .. MaxEvents) /\ Len(queue') = Len(queue) + 1
          /\ \A i \in 1 .. Len(queue) : queue'[i] = queue[i]
          /\ queue'[Len(queue) + 1] = e
      BY <1>1, <1>9, <2>1, AppendProperties
    <2>4. DOMAIN queue' = 1 .. Len(queue) + 1
      BY <2>3, LenProperties
    <2>5. \A i \in DOMAIN queue' : \E n \in Nat : queue'[i] = n /\ Past(n)
      BY <1>2, <2>1, <2>3, <2>4 DEF StreamInv
    <2>6. \E n \in Nat : shown' = n /\ Past(n)
      BY <1>1, <1>9 DEF StreamInv
    <2>7. \A i \in DOMAIN queue' : shown' <= queue'[i]
      BY <1>2, <1>9, <2>2, <2>3, <2>4 DEF StreamInv
    <2>8. \A i, j \in DOMAIN queue' : i <= j => queue'[i] <= queue'[j]
      BY <1>2, <2>1, <2>2, <2>3, <2>4 DEF StreamInv
    <2> QED
      BY <1>1, <1>2, <1>3, <1>9, <2>3, <2>5, <2>6, <2>7, <2>8 DEF StreamInv
  <1> QED
    BY <1>5, <1>6, <1>7, <1>8, <1>9, StreamSteps

\* What was recorded is never forgotten, and an answer tells of it.
LEMMA RecordStep ==
  ASSUME HostTypeOK, RecordInv, [HostNext]_hostVars
  PROVE  RecordInv'
  <1> USE HostAssumption
  <1>1. log \in Seq(1 .. MaxEvents) /\ threads \subseteq Threads
    BY DEF HostTypeOK, Threads
  <1>2. ever \subseteq ever'
    BY LogSteps
  <1>3. \A i \in DOMAIN log' : log'[i] \in ever'
    <2>1. CASE UNCHANGED <<log, ever>>
      BY <2>1 DEF RecordInv
    <2>2. CASE log' = <<>>
      BY <2>2, EmptySeq, LenProperties
    <2>3. ASSUME NEW w \in threads, w.of \in Copy,
                 log' = Append(log, w.of.event), ever' = ever \cup {w.of.event}
          PROVE  \A i \in DOMAIN log' : log'[i] \in ever'
      <3>1. w.of.event \in 1 .. MaxEvents
        BY <2>3 DEF Copy
      <3>2. /\ log' \in Seq(1 .. MaxEvents) /\ Len(log') = Len(log) + 1
            /\ \A i \in 1 .. Len(log) : log'[i] = log[i]
            /\ log'[Len(log) + 1] = w.of.event
        BY <1>1, <2>3, <3>1, AppendProperties
      <3>3. Len(log) \in Nat /\ DOMAIN log = 1 .. Len(log) /\ DOMAIN log' = 1 .. Len(log) + 1
        BY <1>1, <3>2, LenProperties
      <3> QED
        BY <2>3, <3>2, <3>3 DEF RecordInv
    <2> QED
      BY <2>1, <2>2, <2>3, LogSteps
  <1>4. ASSUME NEW v \in threads', v.of \in Copy, v.repeated \/ v.stage \in {"committed", "published"}
        PROVE  v.of.event \in ever'
    <2>1. CASE v \in threads
      BY <1>2, <1>4, <2>1 DEF RecordInv
    <2>2. CASE Enter /\ v \notin threads
      BY <1>4, <2>2 DEF Enter
    <2>3. ASSUME NEW w \in threads, v \notin threads,
                 Check(w) \/ Commit(w) \/ Fail(w) \/ Publish(w) \/ TaskWorks(w)
          PROVE  v.of.event \in ever'
      <3>1. w \in Threads
        BY <1>1
      <3>2. CASE Check(w)
        <4>1. v.of = w.of /\ v.stage = "checked" /\ v.repeated = OnRecord(w.of.event)
          BY <1>4, <2>3, <3>1, <3>2 DEF Check, Threads
        <4> QED
          BY <1>2, <1>4, <4>1 DEF OnRecord, Fingerprint, RecordInv
      <3>3. CASE Commit(w)
        <4>1. v.of = w.of /\ v.repeated = w.repeated /\ (v.repeated \/ w.of.event \in ever' \/ v.stage = "failed")
          BY <1>4, <2>3, <3>1, <3>3 DEF Commit, Proceeds, Threads
        <4> QED
          BY <1>2, <1>4, <4>1 DEF RecordInv
      <3>4. CASE Fail(w) \/ Publish(w)
        <4>1. /\ v.of = w.of /\ v.repeated = w.repeated
              /\ v.stage = "failed" \/ w.stage = "committed"
          BY <1>4, <2>3, <3>1, <3>4 DEF Fail, Publish, Proceeds, Threads
        <4> QED
          BY <1>2, <1>4, <4>1 DEF RecordInv
      <3>5. CASE TaskWorks(w)
        <4>1. v.of = w.of /\ w.of \in Tasks
          BY <1>4, <2>3, <3>1, <3>5 DEF TaskWorks, Proceeds, Threads
        <4> QED
          BY <1>4, <4>1 DEF Tasks, Task, Copy
      <3> QED
        BY <2>3, <3>2, <3>3, <3>4, <3>5
    <2> QED
      BY <1>4, <2>1, <2>2, <2>3, ThreadSteps
  <1>5. AnswerIsTrue'
    <2>1. CASE UNCHANGED sendVars
      BY <1>2, <2>1 DEF sendVars, RecordInv, AnswerIsTrue
    <2>2. CASE NextEvent
      BY <2>2 DEF NextEvent, AnswerIsTrue
    <2>3. CASE Post
      BY <1>2, <2>3 DEF Post, HostTypeOK, RecordInv, AnswerIsTrue
    <2>4. CASE PostTurnedAway
      BY <2>4 DEF PostTurnedAway, AnswerIsTrue
    <2>5. CASE PostFails \/ TimeOut
      BY <1>2, <2>5 DEF PostFails, TimeOut, NextAttempt, HostTypeOK, RecordInv, AnswerIsTrue
    <2>6. ASSUME NEW w \in threads, w.of \in Copy, w.stage \in {"published", "failed"},
                 Awaited(w.of), told' = AnswerOf(w), sender' = [sender EXCEPT !.does = "next"]
          PROVE  AnswerIsTrue'
      <3>1. sender'.event = w.of.event
        BY <2>6 DEF Awaited, HostTypeOK
      <3>2. told' = "DB_WRITE_FAILURE" \/ w.of.event \in ever
        BY <2>6 DEF AnswerOf, RecordInv
      <3> QED
        BY <1>2, <3>1, <3>2 DEF AnswerIsTrue
    <2> QED
      BY <2>1, <2>2, <2>3, <2>4, <2>5, <2>6, SenderSteps
  <1> QED
    BY <1>3, <1>4, <1>5 DEF RecordInv

\* Every variable keeps its type.
LEMMA TypeStep ==
  ASSUME HostInv, [HostNext]_hostVars
  PROVE  HostTypeOK'
  <1> USE HostAssumption
  <1> USE DEF HostInv
  <1>1. LimitTypeOK'
    BY LimitStep, LimitSteps DEF LimitInv, HostTypeOK
  <1>2. host' \in {"up", "stopping", "exiting", "down"}
    <2>1. ASSUME NEW w \in threads, Work(w) PROVE host' = host
      BY <2>1 DEF Work, Check, Commit, Fail, Publish, TaskWorks, Leave
    <2> QED
      BY <2>1 DEF HostTypeOK, HostNext, Works, Sends, Reads, TaskAsks, Enter, EnterGone,
         NextEvent, Post, PostTurnedAway, PostFails, TimeOut, Look, Turn, Ping, Subscribe,
         Unsubscribe, Stop, Cancel, Exit, Crash, Start, Tick, Gone, hostVars, gateVars
  <1>3. holder' \in Tasks \cup Copy \cup {None}
    <2>1. ASSUME NEW w \in threads, Work(w) PROVE holder' = holder \/ holder' = None
      BY <2>1 DEF Work, Check, Commit, Fail, Publish, TaskWorks, Leave
    <2>2. ASSUME Enter PROVE holder' \in Tasks \cup Copy
      BY <2>2, HeadOfQueue DEF Enter
    <2>3. holder' = holder \/ holder' = None \/ holder' \in Tasks \cup Copy
      BY <2>1, <2>2 DEF HostNext, Works, Sends, Reads, TaskAsks, EnterGone,
         NextEvent, Post, PostTurnedAway, PostFails, TimeOut, Look, Turn, Ping, Subscribe,
         Unsubscribe, Stop, Cancel, Exit, Crash, Start, Tick, Gone, hostVars, gateVars
    <2> QED
      BY <2>3 DEF HostTypeOK
  <1>4. reader' \in {"away", "looks", "turns", "waits"}
    <2>1. ASSUME NEW w \in threads, Work(w) PROVE reader' = reader \/ reader' = "looks"
      BY <2>1 DEF Work, Check, Commit, Fail, Publish, TaskWorks, Leave, streamVars
    <2> QED
      BY <2>1 DEF HostTypeOK, HostNext, Works, Sends, Reads, TaskAsks, Enter, EnterGone,
         NextEvent, Post, PostTurnedAway, PostFails, TimeOut, Look, Turn, Ping, Subscribe,
         Unsubscribe, Stop, Cancel, Exit, Crash, Start, Tick, Gone, hostVars, streamVars
  <1>5. waiting' \in Seq(Tasks \cup Copy) /\ threads' \subseteq Threads
    BY QueueStep, ThreadsComeFrom
  <1>6. log' \in Seq(1 .. MaxEvents) /\ ever' \subseteq 1 .. MaxEvents /\ Len(log') <= MaxEvents
    <2>1. log' \in Seq(1 .. MaxEvents) /\ ever' \subseteq 1 .. MaxEvents /\ LogInv'
      BY LogStep
    <2>2. /\ Len(log') \in Nat /\ DOMAIN log' = 1 .. Len(log')
          /\ \A i \in DOMAIN log' : log'[i] \in 1 .. MaxEvents
      BY <2>1, LenProperties, ElementOfSeq
    <2>3. \A i \in DOMAIN log' : i <= log'[i]
      BY <2>1 DEF LogInv
    <2>4. ASSUME Len(log') > 0 PROVE Len(log') <= MaxEvents
      <3>1. Len(log') \in DOMAIN log'
        BY <2>2, <2>4
      <3> QED
        BY <2>2, <2>3, <3>1
    <2> QED
      BY <2>1, <2>2, <2>4
  <1>7. queue' \in Seq(1 .. MaxEvents) /\ Len(queue') <= QueueSize /\ shown' \in 0 .. MaxEvents
    BY StreamStep
  <1>8. /\ sender' \in [event : 0 .. MaxEvents, attempt : 0 .. MaxAttempts,
                        does : {"next", "post", "wait"}]
        /\ told' \in Answers
    BY SenderStep
  <1> QED
    BY <1>1, <1>2, <1>3, <1>4, <1>5, <1>6, <1>7, <1>8 DEF HostTypeOK, Threads

-----------------------------------------------------------------------------
(* The theorems.                                                           *)

\* The invariant holds of a host that was just started.
LEMMA HostInvInit == HostInit => HostInv
  <1> SUFFICES ASSUME HostInit PROVE HostInv
    OBVIOUS
  <1> USE HostAssumption, RateLimitAssumption
  <1>1. \A S : <<>> \in Seq(S) /\ DOMAIN <<>> = {} /\ Len(<<>>) = 0
    BY EmptySeq, LenProperties
  <1>2. HostTypeOK
    BY <1>1 DEF HostInit, LimitInit, HostTypeOK, LimitTypeOK, Unowed, Answers
  <1>3. HonestyHolds /\ SenderBegun /\ GateInv
    BY DEF HostInit, LimitInit, HonestyHolds, SenderBegun, GateInv
  <1>4. Past(0)
    BY <1>1 DEF HostInit, Past
  <1>5. CopiesInLine /\ LogInv /\ StreamInv /\ RecordInv
    BY <1>1, <1>4 DEF HostInit, CopiesInLine, LogInv, StreamInv, RecordInv, AnswerIsTrue
  <1> QED
    BY <1>2, <1>3, <1>5 DEF HostInv

\* The inductive invariant.
THEOREM HostCorrect == HostSpec => []HostInv
  <1>1. HostInv /\ [HostNext]_hostVars => HostInv'
    <2> SUFFICES ASSUME HostInv, [HostNext]_hostVars PROVE HostInv'
      OBVIOUS
    <2> USE DEF HostInv
    <2>1. HostTypeOK'
      BY TypeStep
    <2>2. HonestyHolds'
      BY LimitStep, LimitSteps DEF LimitInv, HostTypeOK
    <2>3. SenderBegun'
      BY SenderStep
    <2>4. GateInv'
      BY GateStep
    <2>5. CopiesInLine'
      BY CopiesStep
    <2>6. LogInv'
      BY LogStep
    <2>7. StreamInv'
      BY StreamStep
    <2>8. RecordInv'
      BY RecordStep
    <2> QED
      BY <2>1, <2>2, <2>3, <2>4, <2>5, <2>6, <2>7, <2>8
  <1> QED
    BY <1>1, HostInvInit, PTL DEF HostSpec

\* Every variable of the host keeps its type: the window, the queues and the log
\* stay within their bounds.
THEOREM HostTypeCorrect == HostSpec => []HostTypeOK
  <1>1. HostInv => HostTypeOK
    BY DEF HostInv
  <1> QED
    BY <1>1, HostCorrect, PTL

\* No two threads write at a time, whenever the host is told to end and however
\* the tasks are cancelled.
THEOREM WritesAreOneAtATime == HostSpec => []OneWriter
  <1>1. HostInv => OneWriter
    <2> SUFFICES ASSUME HostInv PROVE Cardinality(threads) <= 1
      BY DEF OneWriter
    <2>1. CASE threads = {}
      BY <2>1, FS_EmptySet
    <2>2. ASSUME NEW w \in threads PROVE Cardinality(threads) <= 1
      <3>1. threads = {w}
        BY <2>2 DEF HostInv, GateInv
      <3>2. Cardinality({w}) = 1
        BY FS_Singleton
      <3> QED
        BY <3>1, <3>2
    <2> QED
      BY <2>1, <2>2
  <1> QED
    BY <1>1, HostCorrect, PTL

\* An event that the sender was told is accepted, or a duplicate, was recorded,
\* whatever was lost or crashed.
THEOREM AnswersAreTrue == HostSpec => []AnswerIsTrue
  <1>1. HostInv => AnswerIsTrue
    BY DEF HostInv, RecordInv
  <1> QED
    BY <1>1, HostCorrect, PTL

\* The reader of the stream is shown the events in order.
THEOREM StreamKeepsOrder == HostSpec => []StreamInOrder
  <1>1. HostInv => StreamInOrder
    <2> SUFFICES ASSUME HostInv PROVE StreamInOrder
      OBVIOUS
    <2>1. queue \in Seq(0 .. MaxEvents) /\ <<shown>> \in Seq(0 .. MaxEvents)
      <3>1. queue \in Seq(1 .. MaxEvents) /\ shown \in 0 .. MaxEvents
        BY DEF HostInv, HostTypeOK
      <3>2. 1 .. MaxEvents \subseteq 0 .. MaxEvents
        BY HostAssumption
      <3> QED
        <4>1. queue \in Seq(0 .. MaxEvents)
          BY <3>1, <3>2, SeqMonotonic
        <4>2. <<shown>> \in Seq(0 .. MaxEvents)
          BY <3>1
        <4> QED
          BY <4>1, <4>2
    <2> DEFINE seen == <<shown>> \o queue
    <2>2. /\ seen \in Seq(0 .. MaxEvents) /\ Len(seen) = 1 + Len(queue) /\ Len(queue) \in Nat
          /\ \A i \in 1 .. 1 + Len(queue) : seen[i] = IF i <= 1 THEN shown ELSE queue[i - 1]
      BY <2>1, ConcatProperties, LenProperties
    <2>3. DOMAIN seen = 1 .. 1 + Len(queue) /\ DOMAIN queue = 1 .. Len(queue)
      BY <2>1, <2>2, LenProperties
    <2> HIDE DEF seen
    <2>4. ASSUME NEW i \in DOMAIN seen, NEW j \in DOMAIN seen, i <= j
          PROVE  seen[i] <= seen[j]
      <3>1. CASE i = 1 /\ j = 1
        BY <3>1, <2>2 DEF HostInv, HostTypeOK
      <3>2. CASE i = 1 /\ j > 1
        <4>1. j - 1 \in DOMAIN queue /\ seen[i] = shown /\ seen[j] = queue[j - 1]
          BY <2>2, <2>3, <2>4, <3>2
        <4> QED
          BY <4>1 DEF HostInv, StreamInv
      <3>3. CASE i > 1
        <4>1. /\ i - 1 \in DOMAIN queue /\ seen[i] = queue[i - 1]
              /\ j - 1 \in DOMAIN queue /\ seen[j] = queue[j - 1]
              /\ i - 1 <= j - 1
          BY <2>2, <2>3, <2>4, <3>3
        <4> QED
          BY <4>1 DEF HostInv, StreamInv
      <3> QED
        BY <2>2, <2>3, <2>4, <3>1, <3>2, <3>3
    <2> QED
      BY <2>4 DEF StreamInOrder, seen
  <1> QED
    BY <1>1, HostCorrect, PTL

\* A client that waited as long as it was told is let in.
THEOREM RetryAfterHolds == HostSpec => RetryAfterIsHonest
  <1>1. HostInv /\ [HostNext]_hostVars => (told' = "TOO_MANY" /\ told # "TOO_MANY" => owed # 0)
    <2> SUFFICES ASSUME HostInv, [HostNext]_hostVars, told' = "TOO_MANY", told # "TOO_MANY"
                 PROVE  owed # 0
      OBVIOUS
    <2>1. CASE PostTurnedAway
      BY <2>1, TurnedAwayIsOwed DEF PostTurnedAway, HostInv, HostTypeOK, LimitInv
    <2>2. CASE UNCHANGED told \/ told' \in Answers \ {"TOO_MANY"}
      BY <2>2
    <2>3. CASE NextEvent
      BY <2>3, HostAssumption DEF NextEvent
    <2>4. \A w : AnswerOf(w) # "TOO_MANY"
      BY DEF AnswerOf
    <2> QED
      BY <2>1, <2>3, <2>4, SenderSteps DEF sendVars, Post, PostFails, TimeOut, NextAttempt
  <1> QED
    BY <1>1, HostCorrect, PTL DEF HostSpec, RetryAfterIsHonest

\* The host records each event at most once, and in order: it is an Intake.
THEOREM HostIsIntake == HostSpec => ImplementsIntake
  <1>1. HostInit => IntakeSpec!Init
    BY DEF HostInit, IntakeSpec!Init
  <1>2. HostInv /\ [HostNext]_hostVars => [IntakeSpec!Record \/ IntakeSpec!Forget]_log
    <2> SUFFICES ASSUME HostInv, [HostNext]_hostVars, log' # log
                 PROVE  IntakeSpec!Record \/ IntakeSpec!Forget
      OBVIOUS
    <2>1. CASE log' = <<>>
      BY <2>1 DEF IntakeSpec!Forget
    <2>2. ASSUME NEW w \in threads, w.of \in Copy, ~OnRecord(w.of.event),
                 log' = Append(log, w.of.event)
          PROVE  IntakeSpec!Record
      <3>1. w.of.event \in 1 .. MaxEvents /\ \A i \in DOMAIN log : log[i] < w.of.event
        BY <2>2, RecordedIsLater DEF HostInv
      <3>2. log # <<>> => Len(log) \in DOMAIN log
        BY EmptySeq, LenProperties DEF HostInv, HostTypeOK
      <3> QED
        BY <2>2, <3>1, <3>2 DEF IntakeSpec!Record
    <2> QED
      BY <2>1, <2>2, LogSteps
  <1> QED
    BY <1>1, <1>2, HostCorrect, PTL DEF HostSpec, ImplementsIntake, IntakeSpec!Spec
=============================================================================
