# DisplayFab Ops Lab: TLA+ models and proofs

This directory verifies the host of the display-factory training system (`backend/app`):
what it accepts from equipment, what it makes of it, and how it keeps lots, panels, work
orders and equipment consistent. Paths below are relative to `src/backend/app/`.

## 1. The system

Equipment (two simulators, or anything that can POST) reports to a FastAPI host. The host
keeps everything in one database; operators command it through a dashboard; two background
loops act on their own.

| Part | State it keeps | Operations | Correct when |
|---|---|---|---|
| Route rules (`domain/rules.py`) | constants | `allowed_next_steps`, `next_operation` | the check and the dispatcher agree on one route |
| Event intake (`validation.py`, `event_ingestion.py`) | lots, panels, process events, equipment | `HEARTBEAT`, `PROCESS` | no step skipped, nothing advances in a stopped lot, occupancy follows the cassette |
| Host commands (`commands.py`) | the same rows | hold and release a lot, scrap, start, stop, maintenance, recipe, acknowledge | every command leaves lot, panels, order and records in agreement |
| Work orders (`work_orders.py`) | work orders | create and release, close | closed exactly when nothing is left to do |
| Connection watch (`offline.py`, `downtime.py`, `alarm_service.py`, `main.py`) | `connection_status`, `last_seen_at`, alarms, downtime | sweep, contact | a loss is noticed, recorded once, and taken back |
| Line runner (`line_runner.py`, `dispatch.py`, `host_prep.py`) | none of its own | run an order | only does what equipment may do; says "done" only when it is |
| Seeding and reset (`seed.py`, `maintenance.py`) | all rows | seed, reset | the same start every time; a crash between their commits is made good by the next reset |
| Write gate (`main.py`) | one `asyncio.Lock`, threads | `serialize_writes`, `offline_loop`, `run_locked`, shutdown | one writer at a time, everyone gets a turn, the host can be stopped |
| Duplicate detection (`fingerprint.py`, `validation.py`) | a unique column of `process_events` | check, insert | recorded once; the answer is true |
| Rate limiter (`ratelimit.py`) | request times of each client, in memory | `allow`, `retry_after` | who waits as long as told is let in |
| Event bus and stream (`event_bus.py`, `api/ops.py`) | a bounded queue for each reader | subscribe, publish, read | messages arrive, in order |
| Scenarios and autopilot (`scenarios.py`, `demo.py`, `demo_pilot.py`) | timers and a rotation | play, beat, reset | scenarios end as their catalogue says; the line recovers |
| OEE (`oee.py`) | none; reads stamps and downtime records | report | no operating time is made up |
| Simulators (`src/simulator`, `src/csharp_simulator`) | a loop over the dispatcher's answers | `run_order`, `RunLine`, retrying `POST` | several do not stop each other |
| Other reports, adapters, dashboard | none | | see `PROJECT.json`, "components" |

**Interaction.** All writing requests, each sweep and each job of the autopilot take the
write lock (`main.py:104-110`, `48`, `demo_pilot.py:51`) and run one handler in a worker
thread. The handlers of events, commands and work orders commit once. So the grain of
interleaving is the handler, and a host that dies in the middle of one of them leaves the
database as it was before: for the production state a crash is a step that changes
nothing. What a crash does lose is the sweep's timer and the contact made while the host
is down; `EquipmentLink` has it. Handlers that commit several times (a run of an order,
the reset, seeding) are sequences of steps.

**What is hard.** The order in which equipment, operators, sweep and runner act is free.
Time stamps come from the senders, so the arrival order and the stamp order differ.
Several pieces of state say nearly the same thing and are written by different handlers:
a lot's status, its panels' statuses and its order; `current_step`, the latest stamp and
the set of events; the occupancy of equipment and `current_equipment_id`; an equipment's
status and its open downtime; its connection, its alarm and its downtime. A refused event
changes state all the same, because it proves contact. Validation happens before that
contact is recorded. `PROJECT.json`, "hazards", lists each at its line.

## 2. Modules

| Module | What it is |
|---|---|
| `Route` | the tables of `domain/rules.py` and the two functions on them |
| `GlassFlow` | abstract specification: what the host promises of each panel |
| `FabCore` | production state and every operation on it; implements `GlassFlow` |
| `Dispatch` | the dispatcher as functions of FabCore's state; extends `FabCore` |
| `LineRunner` | runs of an order inside the host; extends `Dispatch`, implements `FabCore` |
| `LineClient` | runs of an order by programs outside the host; extends `Dispatch` |
| `Demonstration` | scenarios, autopilot, visitors, crashes; extends `Dispatch` |
| `EquipmentLink` | connection, loss alarms, downtime, sweep, clock, crash and restart |
| `Intake` | abstract specification: what a sender of events is promised |
| `RateLimit` | the sliding window of one client |
| `HostRuntime` | gate, threads, sender, stream, life of the process; extends `RateLimit`, implements `Intake` |
| `Oee` | downtime records of a day and the availability computed from them |
| `FabCoreProofs` | theorems about `FabCore`: types and routes; lots, panels, orders and `GlassFlow` |
| `DispatchProofs` | theorems about `Dispatch`, and the facts about the line that runs need |
| `LineRunnerProofs`, `LineClientProofs` | theorems about runs, inside and outside the host |
| `DemonstrationProofs` | theorems about the demonstration: the host under it, and how scenarios end |
| `EquipmentLinkProofs`, `HostRuntimeProofs` | theorems about the connection watch; about gate, sender, rate limit and stream |
| `OeeProofs` | theorems about downtime records and the report's sums over them |
| `FabClaims`, `LinkClaims`, `RunnerClaims`, `OeeClaims` | statements of the documentation that the code does not keep |
| `MC...` | instances for TLC |

### FabCore

One action is one handler. An accepted `PROCESS` event is `AcceptProcess`: its guard
`Acceptable` and `RecipeReady` is the list of checks of `validate_event`, one operator per
check, and `Apply` is the rest of `ingest_event` with its calls: panel, lot, current step
and equipment of the lot, occupancy of all equipment, recipe and status of the equipment,
and the order. A refused event is `RejectProcess`; since an event can also be refused for
being stale, a duplicate or incomplete, equipment can send one in any state. An event with
`force_db_failure` is refused before contact is recorded and changes nothing here.

| Variable | Code |
|---|---|
| `lotStatus`, `lotStep`, `lotEquipment` | `Lot.status` (with `ABSENT` for no row), `current_step`, `current_equipment_id` |
| `panelStatus` | `Panel.status` |
| `history`, `lastStep` | the steps of the panel's `ProcessEvent` rows, and the step of the row with the latest stamp (`_last_step`) |
| `order` | `WorkOrder.status` of the lot's order |
| `eqStatus`, `eqLot`, `eqRecipe` | `Equipment.equipment_status`, `current_lot_id`, `current_recipe_id` |
| `lost` | `connection_status` is `OFFLINE` and `last_seen_at` is set |

Time stamps are reduced to what the handlers read of them: whether an accepted event is
older than the panel's latest one. A panel's events with stamps in any order are therefore
covered, without a clock. Temperature and pressure only raise alarms and are left out, as
are messages, ids' numbering, the audit tables and the adapter call, which returns at once.

`Init` and `Reset` have both outcomes of a seeding in two commits: the sample lots are there,
or the host died before their commit and they are not. Numbers are given out from the
beginning after a reset, so the lot of the next order has the id of an earlier one.

### EquipmentLink

The same events and commands seen from the connection side, where lots do not matter: an
accepted event needs a running equipment, and sets the status it reports. `Hear` is the
contact every event makes, refused or not; `RefuseEvent` distinguishes refusals that look at
the connection from those that come before. `Sweep` is one round of the offline detector,
`SweepFails` a round that raises, which the loop survives. `Tick` lets time pass for the
silence of every equipment and the detector's sleep. Open alarms are
counted, so that a second one would be seen. `Reset` is the demonstration's reset.

`FabCore` and `EquipmentLink` overlap in `eqStatus`/`status` and `lost`. They are not
composed into one state space: nothing in `EquipmentLink` reads lots, and what `FabCore`
reads of it (`lost`) it overapproximates, with a sweep that can find any set of equipment
silent at any moment.

### Dispatch, LineRunner, LineClient

`Dispatch` has no state. `NextStep` and `PanelDone` are `panel_dispatch`, `NextPanel` is
`lot_dispatch`, `PickEquipment` the scoring of `pick_equipment`, `RecipeFor` the recipe that
`prepare_line` selects on each equipment. `DispatchIsAcceptable` is checked with `FabCore` as
it is, in every order of events, not only in those a run produces.

`LineRunner`: `RunOrder` starts a run; `phase` says where it is. `PrepareWake`,
`PrepareStart` and `PrepareSelect` are the three commits of `prepare_equipment`; `Dispatch` asks
the dispatcher; `Send` and `SendRefused` are the event and its two outcomes; `Farewell` is the
final round of heartbeats. During a run nobody else acts, because it is one request under the
write lock. Between runs there are operators, the sweep, time and resets. `ahead` keeps how far
each panel's latest stamp lies in the future: event *i* of a run is stamped *i* seconds ahead,
and the next run starts behind that. The runner prepares a line of one product;
`DefaultRecipe` is what it selects on the rest.

`LineClient` is the same errand done from outside, by `run_order` of the Python simulator or
`RunLine` of the C# one: START for all equipment and SELECT_RECIPE for that of the product,
once, then ask (`Ask`, a read, not under the lock) and report (`Report`, `ReportRefused`). Every
request is a step of its own, so what was asked may be out of date when it is reported, and
`older`, for each program the others whose reports, made out and not sent yet, bear older stamps,
tells which report comes late. A
refusal ends the Python program; the C# one reads only the HTTP status and asks again. The beats
of all equipment are one step. Each program runs one order; `OutOfTurns` (the 80 turns) is
possible only after a refusal, since an order takes 50 events at most.

### Demonstration

`Script` is a scenario as data: the commands and events of `scenarios.py` in their order, each
one step of `ScenarioStep` under the lock (`played` is the scenario that holds it), each event
judged by FabCore's checks (`Verdict` names the first that fails). `PilotWakes`, `PilotResets`,
`PilotBeats` and `PilotPlays` are the loop of `demo_pilot.py`, with time counted in beats. `Visit`
is what anyone may do at the public address between scenarios: play, command, reset. `Exception`
and `Crash` come at any step. `clear` records whether the scenario found its equipment usable
when it began. The sweep is left out: beats come every 6 s, within the time-out of 10 s, and the
one loss is staged by a scenario (`DoCut`). Preparing the line is one step, as nothing can come
between its commits but a crash, after which the next scenario prepares again.

### HostRuntime, RateLimit, Intake

`waiting` and `holder` are the `asyncio.Lock` with its queue; `threads` the work under way in the
thread pool. A request goes through `Check`, `Commit` or `Fail`, `Publish` and `Leave`; the tasks
through `TaskWorks` and `Leave`. The sender is `PostWithRetryAsync` and its caller: `Post`,
`PostFails` (the request is lost), `TimeOut` (the answer is late or lost), `NextEvent`. `Leave`
opens the gate and answers, or the answer is lost. `Stop`, `Cancel` and `Exit` are the end of
`lifespan`: cancelled tasks open the gate while their threads go on, and the process waits for
these. `EnterGone` drops a request whose client has gone. The reader of the stream `Look`s, turns
to wait (`Turn`), and a message put by a thread in between does not wake it before the `Ping`
after 15 s. Assumed of the server and the runtime, which are not in the repository: a request
that comes after its sender's time-out was sent before the next one and stands before it in the
queue; on shutdown, requests under way and open streams are waited for before `lifespan` goes on.

`RateLimit` counts in half seconds, so that whole seconds round; `owed` is the client's view.

### Oee

The records grow as equipment stops and starts (`OpenDowntime`, `CloseDowntime`), and the earliest
stamp of a report moves with `AcceptPush`. Two history variables are kept without a look at the
records: `standing` follows the calls alone (an equipment stands for a reason from the call that
opens its downtime to the one that closes it), and `stood` adds, with every second that passes,
what stands then. `SecondsAreRecordedOnce` compares the records with `stood`, second by second:
closing another reason's record, or losing one, shows. The report (`DowntimeSeconds`,
`OperatingTime`, `LineOperatingTime`) is computed in every state and compared with `stood` as well.

## 3. Runs

All passing runs check for deadlock. Names are those of `PROJECT.json`.

| Run | Instance | Distinct states | Question |
|---|---|---|---|
| `FabFlow` | 1 LCD lot, 2 panels (symmetric), its recipe and an unknown one; hold, release, scrap, start, recipe; a silent loader | 304 thousand | Do panels, lot, order and dispatcher agree in every order of events? Does the host implement `GlassFlow`? |
| `FabOccupancy` | 2 LCD lots of 1 panel, one seeded, one ordered, on loader, coater and cell; all commands but those on alarms, a reported stop | 747 thousand | Who stands where; is a lot that waits untouched; is nothing displaced? |
| `Link` | 2 equipment, time-out 2 ticks, interval 1 tick, 1 crash | 175 thousand | Records of loss, stop and maintenance; is silence noticed? |
| `RunOrder` | OLED line, 1 order of 2 panels, tolerance of 4 s, both evaporators may be in maintenance, the loader may fall silent, scrapping, releasing and resets between runs | 736 thousand | Does a run do only what `FabCore` allows; is "done" true; do repeated runs get there? |
| `Clients` | 2 programs of either kind (symmetric), OLED line, orders of 2, 1 and 1 panels, the third with another recipe; 1 disturbance | 2.24 million | Do runs from outside stop each other; is "done" true; is the recipe kept apart? |
| `Demo` | the full line, 3 practice lots, 4 lots to order, a rotation of 7, reset every 3 beats, 2 upsets between resets | 546 thousand | Do scenarios end as announced; does the line recover? |
| `Host` | 2 events, 2 attempts each, 1 request a second, queue of 1 | 363 thousand | One writer, true answers, recorded once and in order, turns for all, delivery |
| `Oee` | 2 equipment (symmetric), 2 reasons, a day of 4 s, 3 records, planned time of 0 and 2 s | 1.65 million | Is the operating time that of the records, and not made up? |

`Clients` and `Oee` end (programs stop, the day is over), so deadlock is not checked there.

**Why the bounds are enough.** Lots interact only through the occupancy of an equipment, so
two lots meet every case of that; panels of a lot interact only through "all finished", so
two do. The recipe cases are right, wrong and known, wrong and unknown, omitted. LCD is the
shorter route with the same structure; the OLED line, with two equipment for one step, is
in `RunOrder`, `Clients` and `Demo`, and the theorems hold for any line. In `Link` the
time-out is longer than the interval, so that a sweep can pass before it and after it; two
equipment are marked by one sweep. In `RunOrder` the order needs 10 events and a run sends
5, so an order takes three runs and the stamps of one overlap the next. In `Clients` two
programs share an order or an equipment, with recipes that agree or not; a third would do
what one of the two does. In `Demo` a reset comes before the lots to order are used up, and
the rotation goes on over resets, so every scenario is reached after every kind of upset. In
`Host` the third of the program's three attempts repeats the second; an event, its copy and the
next event are in the queue together with both tasks. In `Oee` the day is longer than the
planned time, so that records are cut at both ends, and three records overlap in one equipment.
Named bounds: `MaxCrashes`, `MaxDisturbances`, `MaxUpsets` (between two resets), `MaxEvents`,
`MaxAttempts`, `MaxTime`, `MaxRows`; silence is counted up to `Timeout`, the events of a run up to
`Tolerance`, which is the program's own bound.

**Fairness.** `EquipmentLink`: time passes; a dead host is restarted; the sweep has strong
fairness, because its loop catches every error and tries again, and the lock serves waiters
in their order, so only a database that fails for ever keeps it from succeeding. Nothing is
assumed of equipment or operators. `LineRunner`: a run, once begun, goes on (it is one
request); and every order is run again and again, which is what the statement is about: it
says that re-running makes progress. It makes no promise when the lot is stopped, a panel
was found bad or equipment is in maintenance, all of which wait for an operator.
`Demonstration`: a scenario that was begun goes on, and the autopilot's loop runs; nothing of
visitors, and its liveness property is about a line they left alone (`calm`). `HostRuntime`: the
event loop runs what is ready (`Enter`, `Cancel`, `Reads`), threads end (`Works`), the process
exits when they have; nothing of senders, readers or operators. `LineClient` states none.

**Properties.** Each is commented in its module. `NoStepSkipped`, `LotAgreesWithPanels`,
`OrderClosesWithLastPanel`, `OneStationPerLot`, `WaitingLotIsUntouched` and `NoLotDisplaced`
relate rows that different handlers write. In `FabOccupancy` no equipment inspects, so no lot
completes there: that a complete lot stands nowhere (the last part of `OneStationPerLot`) is shown by
the theorem, and lots and panels agree in `FabFlow`, where lots complete. A lot whose panels are
scrapped counts as finished, as in the code; the documentation speaks of passed panels only.
`MaintenanceEndsIdle` is about beats that report `RUN`: one that reports `IDLE` does end maintenance,
its downtime record left open, in the code and in the model. `ImplementsGlassFlow` is refinement: the steps on
record are the steps passed, `COMPLETE`/`FAIL`/`SCRAP` the verdicts, `HOLD` the stop. It rules
out progress in a stopped lot, progress of a scrapped panel, a bad panel in a lot that is not
stopped by it, and a good panel scrapped. `RunsTheLine` is refinement of `FabCore` by
`LineRunner`, `ImplementsIntake` of `Intake` by `HostRuntime`. `OneWriter` holds although a
cancelled holder opens the gate with its thread at work: whoever else could enter has been
cancelled in the same step. `StopsUnlessWatched` says what the code does not give: a dashboard
that keeps its stream open keeps the host from ending. `OneOfThemFinishes` promises one finished
order, not two, and only for orders of one panel or runs of one order: a run of several panels
can be refused at a loader where another's cassette was left, and a second run arrives at an
inspection that the first one's last panel has set `IDLE`; its beats, which report `RUN`, do not
start it again. `NoOperatingTimeMadeUp` is an inequality where two reasons overlap, because the
records are added up; it is an equality where they do not.

**Statements of the documentation that fail** (runs `Claim...`; quoted in `PROJECT.json`,
"findings"):

- `ClaimOrderDone`: an order that is done need not have a complete lot, after scrapping.
- `ClaimRecovery`: the refused event of an `OFFLINE` equipment leaves it `ONLINE` with an open
  `COMMUNICATION_LOSS` alarm. (`StaleLossAlarmEnds` shows that it does not last for ever.)
- `ClaimRunToEnd`: an OLED order of seven panels or more outruns the tolerance for future
  stamps; the run breaks off, and `OrderGetsDone` shows that running it again helps.
- `ClaimOpening`: an event refused for its old stamp opens the line at that stamp.

## 4. Proofs

Each theorem holds for all values of the constants that satisfy the named assumptions of the
modules it is about. They say that the constants have their types, and beyond that only what
the code fixes:

- `FabAssumption`, `NoneIsNotAStep`, `LinkAssumption`, `RateLimitAssumption`, `OeeAssumption`: types; every
  recipe has a product, `None` is none of the things it stands beside (`NoneIsNotAStep` of `Route` among them).
- `DispatchAssumption`: finitely many panels (1 to 10 an order, `schemas.py:420`), each lot has
  one, slots tell the panels of a lot apart, the default recipe of a product is of that product,
  and every step of a route has an equipment (`seed.py` seeds them all).
- `RunnerAssumption`, `ClientAssumption`: the commands that runs send are commands, `RUN` is a
  status an event may report; in `LineClient` also that orders can be made, that there is a
  program, and that `None` is neither an outcome nor a product.
- `DemonstrationAssumption`: what `seed.py` and `demo_pilot.py` fix: the practice lots with their
  products, the three recipes (`A01` and `B01` are two), the equipment, each lot's recipe; an
  event may report `RUN`, as the scenarios' events do; an order that the demonstration makes is of
  one panel.
- `HostAssumption`: `None` is not a holder of the gate and not an answer; a sender makes an
  attempt at least, and the stream's queue holds a message at least.

Number of lots, panels, equipment, programs and events, the tolerance, the limits of the rate
limiter and the bounds of the runs are arbitrary.

`FabCoreProofs`, types and routes. `NextCases` splits `Next` into its operations with the
parameters of an accepted event spelled out; every proof has one step for each.

- `TypeCorrect`: `Spec => []TypeOK`; its step, `TypeStays`, is used by the modules below.
- `StepsInOrder`: `Spec => []NoStepSkipped`. `NoStepSkipped` is inductive with `TypeOK`: its
  second conjunct, that the last step by stamp is among those on record, is what makes the
  sequence check, which reads only that one, keep the first. A late event adds to the
  record and leaves the last step behind, which only allows less.
- `OneStation`: `Spec => []OneStationPerLot`. Also inductive with `TypeOK`, because the
  conjunct that ties the occupied equipment to `lotEquipment` makes it unique.
- `NotDisplaced`: `Spec => NoLotDisplaced`, from the busy check and what `Occupy` writes.

`FabCoreProofs`, lots, panels and orders. `LotCases` says of each operation what it does to lots,
panels and orders only, and `AcceptedEffect` what an accepted event does to each panel and lot.

- `LotsAgree`: `LotAgreesWithPanels` is inductive with `TypeOK`.
- `WaitingIsUntouched`: so is `WaitingLotIsUntouched`; its second conjunct is about the current
  step, not the status, which is what survives a hold and a release.
- `OrderCloses`: `OrderClosesWithLastPanel` alone is not inductive: a new order is released with
  whatever panels its lot has, so `OrderInv` adds `AbsentPanelsWait`, that the panels of a lot
  without a row wait. `RefreshCloses` is the lemma about `refresh_work_order_for_lot`.
- `FabIsGlassFlow`: `Spec => ImplementsGlassFlow`. An accepted event is an abstract advance of
  its panel (`EventAdvances`); hold, release and scrapping are the abstract ones or nothing;
  `AllowedIsReached` turns the check of the sequence into the abstract one by `NoStepSkipped`.
  The rest leaves the mapped variables alone (`Unseen`).

`DispatchProofs`: `DispatchAccepted`, that `DispatchIsAcceptable` holds of `FabCore`. It rests on
`NoStepSkipped`, on `FailedIsInspectable` (a failed panel's last step is one that the
inspection may follow, even when the report of the inspection came late; proved as an invariant
of its own), and on lemmas about the operators:
`NextOperationAllowed` (the dispatcher's next operation is one the check allows), `PickedFits`
(the lightest score is of equipment of the right step and product), `FirstPanel`,
`NextPanelOfLot`. `LineOfType`, `PlanFits`, `RouteEnds` and `DoneIsInspected` serve both kinds of
runs.

`LineRunnerProofs`: `RunnerInv` is inductive: types, `RunUnderWay` (what a phase has to do is
there to be done), `StampsAreRecorded` (a stamp ahead of the clock is that of an event on record,
so that an event stamped before it is late as `FabCore` understands it) and `NothingLeft` (in its farewell every
panel of the run's lot is done, scrapped or was found bad). From it:

- `RunnerTypeCorrect` (`RunnerTypeOK`), in particular the bound on stamps.
- `RunnerRunsTheLine`: `RunnerSpec => RunsTheLine`, that is `RunnerSpec => Spec`. Every step of a
  run is an accepted or refused event, a command or a round of heartbeats of `FabCore`, or leaves
  its variables alone (`RunnerStepsAreNext`). So every theorem about `Spec` holds of runs too.
- `DoneRunHolds`: `DoneRunLeftNothing`, from `NothingLeft`, `DoneIsInspected` and `StepsInOrder`.

`LineClientProofs`: `ClientInv` is inductive: `OrderInv`, `OrderedLotsExist`,
`InspectedIsFinished` (no panel is bad or stopped, since programs report passed inspections and the
lot's recipe, and one whose last step is its inspection is finished, so that the dispatcher's
"nothing left" means it), and `ProgramsOK`, which says of each program what it has learnt by its
stage: the order it runs exists, it has something to prepare or to report, what overtook its
report is on record, and its "done" was true. The line only goes on under the
others (`LineGoesOn`: orders do not reopen, records do not shrink), and this is why what a program
asked may be acted on later.

- `ClientTypeCorrect` (`ClientTypeOK`), `DoneIsDone` (`DoneMeansDone`), `OrdersAreObeyed`
  (`WorkedAsOrdered`).
- `OneIsDone` (`OneOfThemFinishes`), for any number of programs and orders. `ClientInv` says
  nothing of how runs get in each other's way; `PeaceInv` (`PeaceKept`) adds three things.
  - `LineIsSound`: `NoStepSkipped`, `OneStationPerLot`, `LotAgreesWithPanels` and
    `WaitingLotIsUntouched`, which hold here as in `FabCore`: each step is one of `Next`, or the
    beats of all equipment at once (`ClientStepsAreNext`).
  - `PlansOK`: a report made out is of the panel's next step (`Fresh`) or of one it has behind it
    (`Stale`). An overtaken one is stale, because reports of one panel are made out in the
    order of their steps: so one that is accepted late repeats a step and hides none (`ReportMoves`).
  - `Peace`: as long as the line is left alone (`LeftAlone`: the conditions of `OneOfThemFinishes`,
    and no order done yet), it is `Calm`: nothing is stopped, what a program has prepared stays
    so, each lot stands where its latest step was, and there is `Hope` for each: a program that goes
    on with it, or another lot that is further along the route (`Ahead`).

  The one way to lose a program is the refusal of its report. One of a step already done was not
  what there was hope in; one of the next step is only refused when another lot is at
  the equipment, and then that lot is ahead (`FreshIsTaken`, the place where runs of several
  panels would break the argument). When all have ended, each lot would be behind
  another, but one has come furthest (`NotAllBehind`).
- `LineStaysSound`: the host's invariants, `LineIsSound` and `OrderClosesWithLastPanel`, hold with any
  number of such programs.

`EquipmentLinkProofs`: `TypeCorrect`; `LossRecorded` (`LossIsOnRecord`: the second conjunct,
at most one alarm, and the equivalence with the downtime record are needed by the sweep,
which raises an alarm only when none is open); `StopsEnd` (`NoStopWhileRunning`);
`MaintenanceEnds` (`MaintenanceEndsIdle`).

`HostRuntimeProofs`: `HostInv` (theorem `HostCorrect`) is inductive; each part of it has a lemma.

- `GateInv`: there is one thread at most, it is the holder's, or the host is exiting, the gate is
  open and nobody waits. Gives `WritesAreOneAtATime` (`OneWriter`).
- `CopiesInLine`: the copies in the queue are in the order of their events, none is of an event
  not sent yet, and the one at work is of an event already in the past. `LogInv`: the log
  is in that order. Gives `HostIsIntake` (`ImplementsIntake`): `Commit` appends the number
  of a later event.
- `StreamInv`: so are the messages shown and queued. Gives `StreamKeepsOrder` (`StreamInOrder`).
- `RecordInv`: what a thread has found repeated, or has committed, was recorded. Gives
  `AnswersAreTrue` (`AnswerIsTrue`).
- `HonestyHolds`: when the client is owed nothing more, the window has room. Gives
  `RetryAfterHolds` (`RetryAfterIsHonest`); `LimitStep` is the lemma about the window.
- `HostTypeCorrect`: `HostTypeOK`.

`OeeProofs`: `OeeInv` (theorem `OeeCorrect`) adds to the types that records of one equipment and
reason follow each other (`RowsApart`: hence one is open at most), that they and the seconds stood
lie in the past, that an equipment stands for a reason exactly when a record of it is open
(`StandingIsOpen`), and that the seconds stood are the ones covered.

- `OeeTypeCorrect` (`OeeTypeOK`), `RecordsHold` (`SecondsAreRecordedOnce`).
- `RecordCountsItsSeconds`: `Seconds(row)`, the clipped difference of `oee.py`, is the number of
  seconds the record covers in the window.
- `DowntimeAddsUp` (`DowntimeIsTimeStood`) and `OperatingTimeIsReal` (`NoOperatingTimeMadeUp`): what
  the report adds up is what was stood. `AddsUp` says that a function gives the sum over each
  subset of a set, taking one element at a time, as `MapThenSumSet` does; `SumsExist` shows that
  there is one for every finite set, by induction on its size (the library's `WFMin` on a set of
  numbers, since an induction theorem with an operator as parameter is out of reach), and
  `SumStep` is the step of a sum. `SumOfSizes`: the sizes of sets that do not meet add
  up to the size of their union; `SumsCover`: in any case to no less. The records of one reason
  do not meet (`RowsApart`), those of different reasons may, which is why the operating time is an
  inequality.

`DemonstrationProofs`: `DemoInv` (theorem `DemoInvariant`) is inductive. Its parts:

- `HostInv`: the invariants of `FabCore`, and that a waiting panel has no event. A scenario's
  preparation frees, wakes and sets all equipment in one step, the autopilot's beat idles it, a
  cut loses it: none is a step of `FabCore`, so that its theorems do not apply as they are.
  `Tending` says what those three have in common, that they leave lots, panels and orders alone and put
  no lot on an equipment; `HostStays` has one case for it and one for each operation of `FabCore`.
- `Course`: where a scenario is. Before it has prepared the line it is the whole script;
  after that the equipment it needs is `Equipped` if it found the line clear; then, with `i` of its
  events told (`ToTell`), the panel is where the script has taken it and the equipment still ready
  (`ReportTrack`), or, for the run of an order, on its way with equipment for every step
  (`RunTrack`). When no event is left, it is `AsAnnounced`. The scripts are tables
  (`ReportTable` says of each event of each script what it is to the route: the next step
  (`GoodReport`), the wrong selection, or the last report that fails, stops or is refused).
- `TurnGoesOn` is the turn of a run: the equipment picked is usable because its score is the least
  (`PickedFits`): equipment that runs, in contact and free, weighs less than any that would be
  refused, and `LineReady` says there is such a one.
- `PilotInTime`: the autopilot's timers, for the types.

From it: `DemoTypeCorrect` (`DemoTypeOK`); `ScenariosEndAsAnnounced` (`EndsAsAnnounced`), for any
number of lots, panels, equipment and visits; `HostStaysSound`: the host's invariants hold under
all that the demonstration does.

The inductive invariants were model-checked on the instances of section 3 before they were
proved.

**Only model-checked:** the liveness properties (`SilenceIsNoticed`, `StaleLossAlarmEnds`, `OrderGetsDone`,
`CalmLineRecovers`, `SweepGetsItsTurn`, `StopsUnlessWatched`, `NewsArrives`): they rest on fairness,
which is outside the prover's reach. Every invariant of a passing run, and every property of one
that is not about what must happen some day, is a theorem.

No module uses `RECURSIVE`; the one induction is over the size of a finite set (`SumsExist`).

## 5. Not modelled

Temperature and pressure limits (alarms only); audit tables and state-change log (written, never
read back by a handler); the performance and quality parts of the OEE, KPIs, anomaly and
production reports (sums and queries over rows, with no history of their own); the replay of
recorded events (a client that sends what `FabCore` takes in any order); HTTP layer and schemas;
the OPC-UA and Modbus adapters (stubs); sensor values and the single fault events of the
simulators; dashboard, lessons and scripts. The claim of `ARCHITECTURE.md` that wrong conditions
stop production is not checked as a run: an event that names no recipe is compared with none.

## 6. Plan

Several lots of several panels at once as a gridlock of their own, with the ways out.
