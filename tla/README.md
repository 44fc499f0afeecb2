# A verification project for DTwin

DTwin is a digital twin of buildings: telemetry comes in from gateways, is
stored, drawn and alarmed on; people ask questions, run simulations and, within
a safety envelope, move setpoints.  This directory holds TLA+ models of its
protocols, the TLC configurations that check them on small instances, and
proofs checked by TLAPS.  Every definition is a translation of source code; the
lines are listed per definition in `PROJECT.json` under `map`.

## 1. The system

| Part | Code | State it keeps | Module |
|---|---|---|---|
| Control envelope | `apps/ingest/src/control/envelope.ts` | none (pure) | `Envelope`, `EnvelopeCheck` |
| Supervisory control | `control/service.ts`, `control/store.ts`, migration 017, control routes of `server.ts` | `control_commands`, `control_settings` | `SupervisoryControl`, `CommandLifecycle` |
| Alert engine | `rules/index.ts`, `conditions.ts`, `targets.ts`, `store.ts` | debounce per rule and sensor, in-flight set, `alerts` | `AlertEngine` |
| Notification outbox | `rules/notify.ts`, migrations 006 and 015 | `alert_notifications` | `NotificationOutbox` |
| Telemetry writer | `writer.ts`, `packages/db/src/queries/telemetry.ts` | buffer, flush, touched set | `TelemetryWriter` |
| Pipeline, quality gate, registry | `pipeline.ts`, `quality.ts`, `registry.ts` | maps of sensors, unknown ids | `IngestGate` |
| Fan-out, socket, page | `fanout.ts`, `server.ts`, `apps/web/lib/ws.ts`, `alerts.ts`, `live.ts` | subscriptions, frames, snapshot, readings held | `LiveView`, `LiveReadings` |
| Rate limiters | `packages/types/src/limiter.ts`, `apps/ingest/src/auth.ts` | token buckets | `RateLimiter` |
| Device simulator | `apps/ingest/src/simulator/` | override map, counters, faults | `DeviceFeed` |
| Database client | `packages/db/src/client.ts`, migration 007 | pool, transaction-local tenant | `DbPool` |
| Migration runner | `packages/db/src/migrate.ts` | `schema_migrations` | `Migrations` |
| Sign-in, keys, tickets | `packages/db/src/queries/tenancy.ts`, `auth.ts`, web routes | sessions, API keys | `Sessions` |
| Copilot graph | `apps/web/lib/copilot/*.ts` | turn state, run registry, approval ledger | `CopilotTurn` |
| Copilot tools, verifier | `lib/copilot/tools/`, `verify.ts`, `packages/db/src/queries/copilot.ts` | evidence records | `ToolTurn`, `ZoneEvidence`, `MeterEvidence`, `ZoneStory`, `AssetTree`, `AnswerCheck` |
| Copilot panel | `CopilotPanel.tsx`, `lib/copilot-panel/`, `layout.ts` | run on screen, countdown, picture | `CopilotPanel`, `LineReader`, `PanelClock`, `GraphLayout` |
| Copilot route | `app/api/copilot/route.ts`, `graph-cache.ts`, `checkpoints.ts` | graphs, locks, threads kept | `CopilotRoute` |
| Simulation worker | `apps/sim/app`, `tools/simulate.ts`, `sim-runner.ts` | `simulation_runs`, permits, process slot | `SimulationRuns` |

How they interact.  A gateway posts readings to the ingest server; the pipeline
resolves each against the registry, flags it, hands it to the writer, the
fan-out and the alert engine in one synchronous turn of the event loop.  The
alert engine writes an alert and its notification rows in one transaction and
pushes the alert to sockets.  An operator's request goes through the web server
to the ingest server, which judges it and queues a command row; a gateway
*pulls* commands, so the row is all the two sides share.  The copilot runs in
the web process: one graph per person, one lock per conversation, and every
command it proposes goes through an approval and then the same control route.
Ingest replicas share nothing but the database.

What is hard.  Every `await` lets other handlers, other replicas and the world
move; unique indexes and row states, not what a handler read earlier, have to
carry correctness.  Gateways, processes and workers die holding leases.
Deadlines, leases and lifetimes run against one another and against network
delays.  Frames and snapshots of the same alert travel on two paths.
`PROJECT.json` lists the hazards one by one, with the line where each bites and
the properties about it.

## 2. How the project is laid out

* One module per component, with its state, `Init`, an action per operation,
  handler or step, and its properties.  A step is what the code does between two
  awaits (or, in the database, one transaction); what was read before an await
  is kept in a variable of the handler and may be stale when it is used.
* `MC*` modules put components side by side for TLC.  In a behaviour one
  component moves and the others stay as they began (`mode` or `part` is chosen
  at the start): they share no state, so interleaving them would only multiply
  states, and one run can then give each component the instance it needs.  Where
  one component is checked on several instances (`MCAlerts`, `MCControl`,
  `MCCopilot`, `MCSimulationRuns`), the others are `INSTANCE ... WITH` other
  constants over the same variables.
* A property of a run that names several things (`TurnIsSound`, `LiveIsSound`,
  ...) is the conjunction of the properties defined just before it, each with
  its own comment.
* `*_proofs` modules hold the theorems.
* `CommandLifecycle` is the abstract specification of the command rows;
  `SupervisoryControl` implements it (`ImplementsLifecycle`), checked by TLC and
  proved.

## 3. The modules

### Control: Envelope, EnvelopeCheck, SupervisoryControl, CommandLifecycle

`evaluate(request, settings, role, zone, now)` is `envelope.ts`'s function: the
first failing check names the refusal.  Temperatures are integers in units of
0.05 K, so `SETPOINT_EPSILON_K` is 1; times are ticks.  `EnvelopeCheck` judges a
request when issued and again as a gateway's claim would, with the claim's
exemptions from the rate limit and from its own presence in the zone.  What it
promises is stated without the code's order: `Problems` lists all that is wrong
with a request, and `Group` the step of the documented order each belongs to.

| State of SupervisoryControl | In the code |
|---|---|
| `cmd` | rows of `control_commands` |
| `settings` | the `control_settings` row |
| `role`, `baseline`, `equipment`, `feedback` | the tables `loadZoneContext` and `memberRole` read |
| `op` | the local variables of each person's request handler |
| `poll` | the local variables of each gateway's `claimForGateway` call |
| `held`, `written` | what a gateway was handed, and what it has put on the equipment |

`IssueStart`, `IssueSettings`, `IssueZone`, `IssueJudge` and `insertCommand` are
`issueCommand`: settings and zone context are read by two transactions in
either order, the envelope judges what was read, the insert meets the one-live
index and the window check.  `expireStale`, `PollSettings`, `claimCommands`,
`PollZone`, `PollJudge` and `releaseCommand` are `claimForGateway`.  Gateways
write, report, die or lose an answer; profiles, equipment, sensors, memberships
and the switch change at any moment.

### Alerts: AlertEngine, NotificationOutbox

| State | In the code |
|---|---|
| `alerts`, `sinceResolved` | rows of `alerts`, and the age of the newest `resolved_at` |
| `targets`, `targetState` | `#targets`/`#bySensor` and `#targetState` of each replica |
| `job` | `#inFlight` with the `#open` or `#close` that holds it |
| `reads` | answers of `loadRules` not yet acted on by `refresh` |
| `unheard` | history: live alerts whose opening reached no entry |
| `row`, `alert`, `pass` | `alert_notifications`, the alerts they belong to, and one `retryPending` or `deliverForAlert` |
| `own` | history: what is left of the lease each pass claimed under |

`EvaluateBreach` and `EvaluateClear` are `#evaluateTarget`.  A transaction is
three actions, the ask, the commit and the answer; between them it may roll
back or lose its answer.  `refresh` re-expands the targets in one turn of the
event loop; two timers call it, so reads overlap.  Ids of resolved alerts that
no engine refers to may be used again, so that few ids stand for any number of
alerts over time.  In the outbox `Claim` takes at most `Batch` rows under one
lease; `Send` ends with an answer or a timeout within `MaxSend`; the outcome is
written afterwards, `markFailed` only where the row is not delivered.  A write
may fail and a pass may die between any two steps.

### Ingest: TelemetryWriter, IngestGate, RateLimiter

`TelemetryWriter`: readings are numbered in order of acceptance; `enqueue`
buffers, sheds the oldest beyond the cap and starts a flush when the buffer is
full; a flush writes one transaction per tenant (`insertReadings`), marks the
sensors seen, or fails half-way and puts the batch back in front.  `stop`,
`Stopped` and `Exit` are `stop()` and the shutdown handler that calls it.

`IngestGate`: a batch of one reading through the checks of `pipeline.ts` and
`quality.ts`, resolved against the registry's maps while `load` fills new ones
with a query per tenant; unknown ids, early loads and the timer that re-expands
the rules.  `RateLimiter`: the keyed token bucket with its bounded table, spent
by `take()` before the work or, for key lookups, asked before and charged after.

### The live page: LiveView, LiveReadings

`LiveView` follows alerts: a connection is a pair of queues, the page fetches a
ticket, connects, authenticates, subscribes and requests snapshots; the hub
counts connections, refuses frames over its backlog by closing the socket, and
the page merges snapshot and events (`reconcileAlerts`).  `LiveReadings`
follows telemetry: batching in the hub, what is in frame, what the page keeps
and what it calls stale.

### Tenancy: Sessions, DbPool, Migrations

`Sessions`: sign-in statement by statement (read the account, hash with no
connection held, read account and memberships again, insert the session, which
only its foreign key still checks), switching (the request resolves the session,
the `UPDATE` comes later and checks the membership alone), tickets, rotation and
revocation of keys, while an administrator changes account, membership and
tenant between any two of these.  `DbPool`: a
pool whose connections go from caller to caller; `withTenant` sets the tenant
for one transaction, `resolveApiKey` leaves a statement queued.  `Migrations`:
files in one transaction with their record, or statement by statement; runs
crash anywhere and are started again.

### Copilot: CopilotTurn, CopilotPanel, CopilotRoute

| State of CopilotTurn | In the code |
|---|---|
| `node` | the node a run is at, or how the thread rests |
| `req` | the request's channels (`state.ts`) |
| `work` | the specialists of the running wave, or the controller |
| `reg` | the registry's entry (`registry.ts`) |
| `plan`, `ledger`, `decision` | `pendingPlan`, the approval ledger, the decision |
| `hist` | history: calls, approvals, commands issued |

What a model answers is a choice of everything its schema lets through.  Asking
and being answered are two actions, Stop and the deadline fall between any two,
runs fail outside their nodes, plans are superseded, expire and are decided
twice.  `CopilotPanel` is the browser's reducers with posting, streaming,
polling and catching up against a route that may lose any answer.
`CopilotRoute` is the route with its cache of graphs, its checkpoints and its
locks.

### What the copilot reads and says

`ToolTurn` (tool calls of parallel tasks on one ledger), `ZoneEvidence`,
`MeterEvidence`, `ZoneStory`, `AssetTree` (what each tool computes from rows
that go on arriving) and `AnswerCheck` (the verifier, over every small draft).
`LineReader`, `PanelClock`, `GraphLayout` are the panel's pure parts, each
checked against a definition that does not look like the code.  `LineReader`'s
characters are a letter, `\r` and `\n`; it remembers where the stream
was cut only to state the one case where the cut matters.

### Simulations: SimulationRuns, DeviceFeed

`SimulationRuns`: admission, background task, cancel and reaper of the worker;
the scenario tool with the process-wide slot it takes; a person's panel.  A call
may be served after its caller gave up.  A restarted worker reaps with one
transaction per tenant and may break off between two, and so may another worker
that starts.  `DeviceFeed`: the simulator's command
poll without an overlap guard, the four faults an operator can inject, and a
meter that resumes its counter from what was stored.

## 4. What the runs check

| Run | Instance | Shows |
|---|---|---|
| `control` | two operators walking one zone; or two gateways on one queue with faulty equipment; or the envelope over both sides of every limit | one live command, one override, one holder, nothing expired was written, nothing outside the envelope, the interval kept, the lifecycle implemented; what `evaluate` accepts breaks no limit, the duration's included, and its refusal names a problem that is there, of the first group that has one |
| `control_settles` | switch, membership and profile change; one fault; fair | every command settles; nothing is handed out once the switch is off and earlier calls have drained |
| `copilot` | a rich request; two requests with failing runs; the panel with lost connections; the panel when a GET may fail; fair | budget, authority, issue as approved, in time and not past a Stop the registry still keeps, no silent ending, own thread only, every run and every screen settles |
| `alerts` | two replicas; one engine with changing rules, crashes and lost answers; one that does not restart; two passes with a long and with a short lease; fair | one live alert, no ghosts but those section 6 names, the cooldown, a row held twice only past a lease, one sender under a covering lease, delivered is true and final, everything settles |
| `ingest` | two tenants, a cap smaller than the readings; two tenants with one id; a table of one bucket; one page; fair | nothing vanishes and the oldest are shed; rows are their sender's own; budgets hold; what the page was told stays shown; each part recovers |
| `simulation` | three deployments of the worker, the feed's commands and its meter; fair | permits and slot are never leaked or taken, completed means whole, calls and runs end, the setpoint follows the override, stored meter readings go down only where a fault falsified one |
| `services` | sign-in, migrations, pool, line reader, countdown, route, readings, layout | each part's safety properties (see their comments) |
| `evidence` | zone, meter, story, tree, tool turn, drafts | figures agree across tools, the past is told whole, records keep their order and budget, what the verifier passes was checked |

Four runs end in a violation, each a disagreement between the code and one of
its own comments, quoted in `PROJECT.json` under `findings`:

* `control_lease`: a gateway that dies with a claimed command leaves it
  dispatched for ever, and its zone blocked.
* `copilot_stop`: the registry's sweep can drop the entry of a request whose
  commands are going out, so that Stop finds nothing to mark.
* `writer_exit`: readings buffered while the last flush runs are lost.
* `simulation_cancel`: a cancelled run's row is set back to running or
  completed.

### Bounds

Every bound is a constant.  Two actors are enough for each race, because each
property relates a row to one or two holders.  `MaxTime`, `MaxClock`,
`Cooldown`, `Lease`, `MaxLatency` and the like are small numbers of ticks,
chosen so that each deadline can fall before, at and after each step.
`MaxFaults` is one or two: one failure may hit the recovery from another.
In `raises` both faults may be lost answers, of an opening and of its closing.
Of the tickets signed in `Sessions` the run
follows one (`OneTicket`): none bears on another.
`GraphLayout` has four nodes at most, so TLC never widens a full rank.
Rows, alerts and commands are at least one more than may be live.
In `AlertEngine` and `NotificationOutbox` time is kept as remaining time, so the
clock needs no bound.  Symmetry is used only in `control`, which has no
liveness.  One alert target and one alert row suffice in `alerts`: targets
share no state, and the theorems are about any number.  Deadlock is checked in
`alerts`; in the others a judged request, an answered question, an ended process
or the end of time is an end.

### Fairness

Weak fairness throughout, never on people or faults.  Timers keep firing
(`Tick`, polls, sweeps, refreshes, flushes), because `setInterval` does; a
handler that has begun goes on, because its awaits end in an answer or an error;
a dead process is started again by its supervisor.  A model call may never be
answered, so only its abort is fair (the deadline's timer, `registry.ts` `call`).
The outbox's fast path is not fair: that it may be lost is the case in question.
The page's steps are fair where the browser drives them (reconnect, refetch,
poll); a stream that stays silent is not.

## 5. What is proved

The proofs hold for every value of the constants that satisfies the named
assumptions of the modules, which TLC evaluates in the runs too
(`ControlAssumption`, `EnvelopeCheckAssumption`, `EngineAssumption`,
`OutboxAssumption`, `SessionsAssumption`, `PoolAssumption`,
`CopilotAssumption`, `AnswerAssumption`, `PanelAssumption`, `WriterAssumption`,
`LimiterAssumption`, `GateAssumption`, `MigrationsAssumption`,
`RouteAssumption`, `LiveAssumption`, `ReadingsAssumption`, `ToolAssumption`,
`ClockAssumption`, `RunsAssumption`, `TimeoutsNest`, `FeedAssumption`,
`StoryAssumption`).  They
say that limits and lifetimes are natural numbers, that settings and decisions
have the shape the schema lets through, that special values are told apart from
ordinary ones, and that the worker's timeouts nest as the code's constants do.

`SupervisoryControl_proofs` (any zones, people, gateways, commands, settings
and failures)

* `TypeCorrect`, `OneOverrideInForce`.  The inductive invariant is `TypeOK`,
  `RequestedInThePast` and `OneActiveOverride` together: the value a request is
  judged against contains the temperature of *the* active override and the time
  of *the latest* command, both chosen from sets of rows, and these are of their
  types only if the override is unique and the times lie in the past.
* `CommandsSound`: one live command per zone, one holder per command, nothing
  expired or queued was written.  `HolderInv`: what a gateway works on was
  claimed by it and by nobody else, and its row is no longer one a claim could
  take; a command waits for its re-check or has passed it, never both; only one
  that has passed is written.
* `LifecycleImplemented`: every step is a step of `CommandLifecycle` or leaves
  its rows alone, so the abstract promise holds of the code's rows.
* `VerdictsRight` (any request, any settings row the schema accepts, any zone
  context): what is accepted is within every limit, the maximum duration
  included, and the zone could be commanded; a refusal names a problem that is
  there, and nothing of an earlier group is wrong (authority, capability,
  interlocks, value, rate); the re-check refuses nothing accepted in the same
  world.
* `LimitsKept`: no series of commands walks a zone out of its envelope or beats
  the interval, *while nobody changes the limits or the design (`Steady`) and
  requests come one at a time (`OneAsks`)*.  `LimitsInv`: every row is within
  the envelope and what a request in flight has read is still true.  Both
  hypotheses restrict the environment and are the ones under which the run
  checks the property; see "other behaviours".
* `SwitchHolds`: once the switch is off and the calls that began before have
  drained, no gateway gets hold of a command while it stays off.

`AlertEngine_proofs` (any replicas, targets, delays and faults)

* `TypeCorrect`, from `TypeInv`, which adds that the entry of a target names the
  alert a close is resolving (`CloseKnows`) and that only a running engine has
  transactions under way (`JobsRun`).
* `AtMostOneLiveAlert`: the live alerts of a target become fewer, or become one
  where there was none (`LiveStep`).
* `GhostFree`, whatever the rules become and whatever answer is lost: an alert
  no engine knows is one whose opening reached no entry (`unheard`).
  To carry it over restarts `AllKnown` says that any other live alert is named
  by an entry, is the answer of an open, or that some engine has yet to adopt;
  `JobsInOrder` that an open finds no alert in its entry and an answered close
  has resolved its own.
* `CooldownIsKept`, for one engine that does not restart, under rules that do
  not change.  `CoolInv`: whatever the entry forgot, the time of the last
  resolution it knows is that of the table, up to a transaction under way.  TLC
  breaks it when any one of the three hypotheses is dropped.

`NotificationOutbox_proofs` (any alerts, destinations, passes, batch)

* `OutboxTypeCorrect`, `DeliveredIsTrue`, `DeliveredStays`.
* `LeaseKeepsOneSender`, for any lease, batch and timeout: two passes hold one
  row only once one of them has outlasted the lease it claimed under.
  `LeaseInv`: a row is leased for at least as long as what is left of the lease
  of each pass that holds it.  With the defaults (a 60 s lease, fifty sends of
  5 or 10 s) a batch can outlast its lease, so no more than this can be
  promised; that a covering lease gives one sender, and bounds the sends, is
  model-checked (mode `lease`).

`Ingest_proofs` (any callers, budgets and caps; any sensors, tenants, batches and
failing transactions; any readings and reloads)

* `LimiterSound`: grants stay within one burst and the rate, and failed lookups
  are rationed.  `LimiterInv` keeps an account of each bucket: what was granted
  and what is left is at most the burst and the refill up to its last moment;
  a bucket that is gone was full, so what was granted is paid for by the rate
  alone (`Owes`).  Failures are counted together with those still to come of an
  exhausted caller, whose lookups overlap (`Pending`).
* `WriterSound`: nothing accepted vanishes, the oldest is shed first.
  `WriterInv`: what is in memory is in order, the batch before the buffer, and
  everything shed is older than both, except that with a full buffer a batch
  that comes back is shed itself (`InOrder`); a reading of the batch is stored,
  or its tenant's transaction is still to come (`BatchAccounted`); what waits has
  a sensor to mark (`SomethingTouched`, without which a flush could come to its
  marking with no transaction left to end it).  `FlushWritesNewest`: of several
  readings of one key in a batch the newest is stored, and what was stored is
  left alone.
* `GateSound`: rows are their sender's own, every reading is written or reported,
  the limits hold.  `GateInv` adds that a load under way keeps to the sensor
  limit too, and that the sets counted are finite.

`Tenancy_proofs` (any tenants, attempts, rotations; any connections, callers)

* `AdmittedEntitled`: a ticket is honoured less than its life after the last
  entitlement.  `TicketsInv`: a ticket
  expires within its life of the user's last entitlement, whatever happens after
  it was signed.
* `CredentialsSound`: a session names a tenant its user is a member of.  A
  sign-in opens one only where the user was entitled at some moment since the
  password was found right, a switch moves one only to an active tenant that has
  the user as a member then.  No more is true: an account deactivated between
  the second read and the `INSERT` still gets its row, which `resolveSession`
  then refuses to honour.  A device name has one live key at most and loses it
  only by revocation.  `SessionInv` dates the entitlement each sign-in has seen.
* `ScopesKept`: a statement runs under its own caller's tenant and a read-only
  caller writes nothing.  `PoolInv` says what may be queued on a connection and
  which settings it may still carry at each step of its caller, and that a
  connection nobody scopes carries none.

`CopilotTurn_proofs` (any limits, planner, viewers, failures, other threads; any
draft; any conversation on the page; any overrides and alerts of a zone)

* `TurnSound`: all of `TurnIsSound`.  Three inductive invariants:
  `RequestInv` (at each node, what the channels, the specialists and the
  findings must look like for the rest of the graph to work: for instance a
  request whose controller is pending may command, its scope is what the first
  decision allowed, and a draft counted has left an answer or a notice),
  `SpendInv` (the registry counts what the request has spent) and `PlanInv`
  (a plan that has been granted is remembered by the ledger for as long as it
  may still be approved, which is why an approval repeated after a failed run
  cannot issue it again).
* `IssuedOnTime`: a plan starts to be issued less than a grant's lifetime after
  it expires.
* `TimelyIssue`: once the registry has taken a Stop, no command goes out for as
  long as the registry has to keep the request, deadline and plan TTL from its
  start, whatever other threads of the process begin.  `StopInv`: until then the
  entry is there and marked, since a sweep leaves it.  After that it may be
  swept, and the run `copilot_stop` shows the Stop that finds nothing.
* `AnswerSays`: of any draft over any evidence, what passes the verifier cites
  records of the kinds its derivations need and leaves no figure, place or
  asset unsaid (`DerivationsMeanSomething`, `NothingUnsaid`).  `PassedEach` is
  the lemma it rests on: a draft without violations has none in any segment,
  so what holds of an accepted answer can be read off one segment at a time.
* `PanelSound`: the panel shows its own thread only, lights exactly the
  specialists at work once all that was written is folded, and a refused
  request leaves the run that was on screen.  `PanelInv` has three parts.  What
  the page holds agrees with the server's record of the thread: the turn on
  screen, the run, every event of the stream not yet folded and every GET
  landing later is of this request or of an earlier one, and of this request
  knows no task the server does not (`TurnOk`, `RunOk`, `EventOk`).  A request
  that came to a plan dispatched nothing and will not (`Planned`): this is why
  a decision, which keeps the tasks of the run it answers, never lights one.
  And folding all that is queued gives the lit set (`OpenLit`), which each
  event appended preserves.  The fold is the library's `FoldLeft`; it is taken
  apart by a bounded induction over the length of the list (`FoldExists`,
  `FoldUnique`, `ApplyKeeps`, `ApplyAppend`).
* `StoryTold`: the past of a zone is told as it was.  The override in force is
  never stored, and rows are superseded, expire and are cancelled after the
  instants a timeline is later asked about.  `StoryInv` says of every past
  instant that the rows, as they are *now*, still tell what was in force then
  (`Remembered`): they do because an apply of a past instant can no longer
  appear and none is ever lost (`PastStays`), and because what is in force is
  always the latest apply (`Superseding`).  `ReadsOff` then says that any part
  of the events that keeps the latest apply reads the same, and a timeline cut
  to its limit keeps it if it keeps any apply, since fewer events stand before
  it.  Two reports in one instant are left out, as in the run: the list does
  not tell their order.

`Services_proofs` (any chain of files; any people and threads; any alerts,
subscriptions, sensors; any tasks and calls; any clocks)

* `MigrationsTrue`: what `schema_migrations` says of a file is what the file has
  done, and no statement takes effect twice unless a run broke inside a file
  outside a transaction.  `FileInv` says it of each file with the statement a
  run is at.
* `RouteSound`: one run on a person's thread at a time, a plan checked in time
  and in date can be decided, the locks are the requests under way.  `RtInv`:
  one graph held per person; a run is `Accounted` for by a lock and a turn under
  way; a plan offered is `Kept` by a checkpoint that eviction, which takes
  several in a row, leaves alone (`EvictKeeps`, by bounded induction).
* `LiveSound`: what the page was last told of an alert is what its list shows.
  `LvInv`: a frame under way is true of its alert, and rows read after an event
  agree with it.
* `ReadingsCurrent`: a silent meter is out of the total, a stopped zone is grey,
  a late frame never takes a point back.  `RdInv`: nothing waiting, under way or
  held is newer than what the sensor last measured.
* `RecordsKept`: records are numbered as asked for, the ledger counts them all
  and keeps its bound, reads keep their budget.  `ToolInv`: a task's numbers end
  at its counter, the turn in hand comes after all records, and the last read
  that may run has all others before it.
* `CardTells`: past the margin a glowing plan can be decided and an expired one
  cannot.  `ClockInv` bounds what is left of the difference of the clocks after
  each response.

`SimulationRuns_proofs` (any requests, runs, permits and failures)

* `WorkerSound`: a permit is held exactly while a task runs, a completed run is
  whole, a waiting call's slot is its own, evidence has every run.  `WorkerInv`
  ties the permits to the live tasks and each task to its row; `CallsInv` says
  that a slot is as old as the wait of the call that holds it and so younger
  than the lease, which needs `TimeoutsNest`.
* `MeterKept`: the stored readings of the simulated meter never go down across
  crashes and restarts, except from a reading that a drift, a spike or a late
  seed falsified, until the counter's own value is stored again.  `FeedInv`:
  while nothing is distorted, stored <= unsaved <= last reported <= counter.

Only model-checked, and why:

* every liveness property (fairness and ENABLED are beyond the prover);
* what computes whole texts, trees or series: `CutsDoNotMatter` of the line
  reader, `ReadAsVerified` of the verifier, `LayoutIsClear` and
  `ReadingsAgree` of the evidence.  They speak of the results of folds over
  folds, where the bounded induction that serves `ApplyEvents` would have to be
  repeated for each operator and its reference;
* `AlertsAreSound` and `FeedIsTrue` as a run states them: they join, over the
  instances of one run, properties that are proved one by one above with ones
  that are temporal (`FeedFollowsOverrides`).

## 6. Other behaviours to know of

Each is what the code does; the properties are stated so that they do not deny
it.

Control
* A duration no longer than `commandTtlS` passes envelope and dry run, and the
  insert then meets `control_commands_window_ck` (`types/src/control.ts:79`: "a
  dry run is a real answer rather than an optimistic one").
* A switch thrown between the settings read and the claim does not stop that
  claim (`types/src/control.ts:39`); `KillSwitchHolds` speaks of later calls.
* A dispatched command can be cancelled after the gateway wrote it.
* A step is measured from the override in force at the re-check; if that lapses
  before the gateway writes, the equipment moves by more than `max_step_k`.
* Two people who read a zone together may both be accepted if the first command
  settles in between: the interval is checked with one person.

Alerts
* A target removed while its open is under way, or the answer of an open lost
  after its commit (`index.ts:326`), leaves an alert nobody resolves before a
  restart adopts it (`unheard`).  The answer of a close lost after its commit
  (`index.ts:362`) leaves the entry naming a resolved alert, and a breach is
  then not raised again (`index.ts:284`) until the condition clears once more or
  the process restarts.  `NoGhosts`, `ResolvesWhenClear` and
  `RaisesWhenBreaching` except exactly these.
* Alerts whose rule was disabled or narrowed, or whose sensor left, are kept but
  never evaluated (`index.ts:229`).  A restart forgets the cooldown.
* `claimed_at` is set once for rows that are sent one by one; when the sends
  together outlast the lease, another pass sends the rows still waiting.
* A row whose alert resolves before it is claimed is never sent
  (`notify.ts:400`).  The order of rows across alerts is proved about but not
  exercised by TLC, which has one alert.

Ingest and live page
* The value and its correction flushed in different batches keep the first
  (`telemetry.ts:51`); within one fan-out batch an older reading can replace a
  newer one.
* Every completed load forgets the unknown ids (`registry.ts:222`), so one bad
  id asks for a load after every load, against the comment at `pipeline.ts:135`.
* `exhausted()` ignores the overflow bucket.
* The first snapshot is requested when the ticket is accepted, before the
  subscription is handled (`ws.ts:106`; compare `fanout.ts:203`): an alert in
  between is in neither until the five-minute refresh.  A snapshot is assumed to
  arrive within one such period.
* The page ignores `subscribe.denied`; while disconnected, readings do not go
  stale; a late `onclose` of the old socket clears `listeningSince`.

Copilot
* One GET answered with an error status ends the panel's polling
  (`CopilotPanel.tsx:154`); a stale GET landing after a whole later run replaces
  the newer turn.
* A line of exactly the maximal length that ends in `\r\n` is dropped when the
  two arrive apart, or when the stream ends between them (`wire.ts:45`);
  `CutsDoNotMatter` excepts that line and no other.  A plan whose last dry run outlasts the deadline can be swept while
  in date (`registry.ts:425`).  Checkpoint eviction can forget a turn just
  finished when every other thread is busy.
* `tools/index.ts:213` says that `report_finding` does not spend the task's
  budget; `callsRun` (243) counts it.  Readings may lie 60 s ahead and windows
  300 s, so coverage can exceed 100 %.  A command applied after its own
  `effective_until` shows the lapse before its apply.  The rules in scope of a
  zone omit those scoped to a sensor of its serving equipment.

Simulator, sessions, keys
* A meter registered after the start is seeded by a constant; a drift or a spike
  stored before a restart stays in the counter, and a drift that is cleared, or
  that is negative, makes the stored readings fall.
* A sign-in can insert a session for a tenant suspended, or an account
  deactivated, since its second read; a switch checks neither the expiry nor the
  account.  `resolveSession` checks both on each later request.
* Revoking a key beside a rotation may revoke nothing.
* The reaper visits active tenants only (`repository.py:271`): the runs of a
  suspended tenant stay as a crash left them.  A run cancelled while queued
  counts as ended, although `mark_running` may revive its row
  (`simulation_cancel`).

## 7. What is not modelled

`PROJECT.json` gives the reason for each part.  In short: numbers (thermal
model, generation of readings, comfort scores), cryptography, rendering,
formatting and logging have no protocol to check.  The database is taken as the
code uses it: a transaction is atomic, a unique index decides a race, an answer
may be lost after a commit.  The Date headers and polls of `CopilotPanel` have
no upper limit (`POLL_LIMIT` is left out).  A ticket is resolved and signed in
one step, and the demo mode without a user has no session to model.  The rule
engine's own refresh timer is not in `IngestGate`: it would mend later what
`PointsGetRules` asks of the registry's load.

## 8. Left to do

What is left to prove is listed at the end of section 5.  The next in order of
use would be `CutsDoNotMatter` (the reader's state after any chunks is that
after their concatenation) and `ReadAsVerified`.
