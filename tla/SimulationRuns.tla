-------------------------- MODULE SimulationRuns --------------------------
(* What-if runs, end to end: the worker's admission, background task, cancel   *)
(* and reaper (apps/sim), the copilot's scenario tool with the process slot it *)
(* takes, and a person's ScenarioPanel, which polls the same worker.  A call   *)
(* to the worker may be served after its caller gave up on it.  A tick stands  *)
(* for five seconds or so; only the order of the three timeouts matters.       *)
EXTENDS Integers, FiniteSets, TLC

CONSTANTS
  Tools,              \* copilot requests
  Calling,            \* those that make a simulate_scenarios call
  People,             \* {"panel"} when somebody uses the ScenarioPanel, or {}
  Specs,              \* runs a call makes: the baseline, then its scenarios
  Intervals,          \* intervals of a run
  MaxConcurrentRuns,  \* settings.max_concurrent_runs
  RequestTimeout,     \* SIM_REQUEST_TIMEOUT_MS
  RunDeadline,        \* simRunDeadlineS
  SlotLease,          \* COPILOT_SLOT_LEASE_MS
  MaxPolls,           \* the panel's polls
  MaxRuns, MaxFaults  \* bounds of the model, not of the code

ASSUME TimeoutsNest == RequestTimeout < SlotLease /\ RunDeadline < SlotLease

\* "panel" is a person, never a request; a call has at least its baseline to run
ASSUME RunsAssumption ==
  /\ People \subseteq {"panel"} /\ "panel" \notin Tools
  /\ Specs \in Nat \ {0} /\ Intervals \in Nat /\ MaxConcurrentRuns \in Nat
  /\ RequestTimeout \in Nat /\ RunDeadline \in Nat /\ SlotLease \in Nat
  /\ MaxRuns \in Nat

Runs == 1..MaxRuns
Callers == Tools \cup People
Terminal == {"completed", "failed", "cancelled"}
None == 0

VARIABLES
  row,      \* simulation_runs and simulation_results: status and intervals stored
  task,     \* the background task of each run: its stage and intervals done
  worker,   \* the process: up, permits of _slots held, _cancelled, cancels between row and flag
  inbox,    \* requests the worker has not served yet, their callers still waiting or not
  tool,     \* each copilot call
  slot,     \* the web process's slot for copilot runs
  panel,    \* the ScenarioPanel
  pushed,   \* the last event of each run that reached the browser
  faults

vars == <<row, task, worker, inbox, tool, slot, panel, pushed, faults>>

NoTask == [stage |-> "none", done |-> 0]
NoSlot == [held |-> FALSE, run |-> None, age |-> 0, by |-> "nobody"]
NewTool == [pc |-> "begin", left |-> Specs, ran |-> 0, run |-> None, age |-> 0, wait |-> 0, got |-> {}]
Created == {r \in Runs : row[r].status # "none"}
Live(r) == task[r].stage # "none"

Fault == faults < MaxFaults /\ faults' = faults + 1
Waiting(c) == IF c = "panel" THEN panel.pc = "starting" ELSE tool[c].pc = "starting"
To(c, t, pc) == tool' = [tool EXCEPT ![c] = [t EXCEPT !.pc = pc, !.wait = 0]]

\* fail: the call is refused, and what earlier runs returned is dropped
Refuse(c) == To(c, [tool[c] EXCEPT !.got = {}], "done")

AnyFreeSlot(run) == NoSlot

\* freeSlotFor, of a run id or of none yet
freeSlotFor(run) == IF slot.held /\ slot.run = run THEN NoSlot ELSE slot

----------------------------------------------------------------------------
(* The worker: requests.  A served call and its caller's reaction are one step; *)
(* an answer nobody waits for any more is dropped.                              *)

\* start and the panel's run, after the answer
Accepted(c, r) ==
  IF ~ Waiting(c) THEN UNCHANGED <<tool, slot, panel>>
  ELSE IF c = "panel" THEN panel' = [panel EXCEPT !.pc = "waiting", !.run = r] /\ UNCHANGED <<tool, slot>>
  ELSE /\ slot' = IF slot.held /\ slot.run = None THEN [slot EXCEPT !.run = r] ELSE slot
       /\ To(c, [tool[c] EXCEPT !.run = r, !.age = 0], "reading")
       /\ UNCHANGED panel

Refused(c) ==
  IF ~ Waiting(c) THEN UNCHANGED <<tool, slot, panel>>
  ELSE IF c = "panel" THEN panel' = [panel EXCEPT !.pc = "error"] /\ UNCHANGED <<tool, slot>>
  ELSE slot' = freeSlotFor(None) /\ Refuse(c) /\ UNCHANGED panel

\* _slots.acquire(blocking=False)
Admits(n) == n < MaxConcurrentRuns

\* create_run, and the task add_task schedules
create_run(r) ==
  /\ row' = [row EXCEPT ![r].status = "queued"]
  /\ task' = [task EXCEPT ![r].stage = "queued"]

\* simulate: admission before the row exists; the permit is given back when
\* the row cannot be written
simulate(c) ==
  /\ worker.up /\ <<"simulate", c>> \in inbox
  /\ inbox' = inbox \ {<<"simulate", c>>}
  /\ \/ ~ Admits(worker.permits) /\ Refused(c) /\ UNCHANGED <<row, task, worker, faults>>
     \/ Admits(worker.permits) /\ Fault /\ Refused(c) /\ UNCHANGED <<row, task, worker>>
     \/ \E r \in Runs \ Created :
        /\ \A q \in Runs \ Created : r <= q
        /\ Admits(worker.permits)
        /\ create_run(r) /\ worker' = [worker EXCEPT !.permits = @ + 1]
        /\ Accepted(c, r) /\ UNCHANGED faults
  /\ UNCHANGED pushed

\* cancel: 200, 404 and 409 free the slot
cancelled(c) ==
  IF tool[c].pc = "cancelling" THEN slot' = freeSlotFor(tool[c].run) /\ Refuse(c)
  ELSE UNCHANGED <<slot, tool>>

\* cancel_run: the row first, the in-process flag second
mark_cancelled(c, r) ==
  /\ worker.up /\ <<"cancel", c, r>> \in inbox
  /\ inbox' = inbox \ {<<"cancel", c, r>>}
  /\ IF row[r].status \in {"queued", "running"}
     THEN /\ row' = [row EXCEPT ![r].status = "cancelled"]
          /\ worker' = [worker EXCEPT !.flagging = @ \cup {<<c, r>>}]
          /\ UNCHANGED <<slot, tool>>
     ELSE cancelled(c) /\ UNCHANGED <<row, worker>>
  /\ UNCHANGED <<task, panel, pushed, faults>>

flag_cancelled(c, r) ==
  /\ <<c, r>> \in worker.flagging
  /\ worker' = [worker EXCEPT !.flagging = @ \ {<<c, r>>}, !.cancelled = @ \cup {r}]
  /\ cancelled(c)
  /\ UNCHANGED <<row, task, inbox, panel, pushed, faults>>

----------------------------------------------------------------------------
(* The worker: the background task. *)

Stage(r, s) == [task EXCEPT ![r].stage = s]

\* every status write of _execute is unconditional: mark_running, mark_completed, mark_failed
Mark(r, s) == [row EXCEPT ![r].status = s]

\* mark_running, or the exception that ends in mark_failed
begin_task(r) ==
  /\ task[r].stage = "queued"
  /\ \/ row' = Mark(r, "running") /\ task' = Stage(r, "engine") /\ UNCHANGED faults
     \/ Fault /\ task' = Stage(r, "failing") /\ UNCHANGED row
  /\ UNCHANGED <<worker, inbox, tool, slot, panel, pushed>>

\* engine.run, one interval: the rows may be flushed, and at a progress step
\* (always at the last interval) the cancellation is noticed
engine_step(r) ==
  /\ task[r].stage = "engine" /\ task[r].done < Intervals
  /\ LET i == task[r].done + 1
     IN \/ /\ \E flush \in BOOLEAN : row' = IF flush THEN [row EXCEPT ![r].stored = i] ELSE row
           /\ \E reports \in {TRUE, i = Intervals} :
                task' = [task EXCEPT ![r] =
                  [stage |-> IF reports /\ r \in worker.cancelled THEN "unwinding" ELSE "engine", done |-> i]]
           /\ UNCHANGED faults
        \/ Fault /\ task' = Stage(r, "failing") /\ UNCHANGED row
  /\ UNCHANGED <<worker, inbox, tool, slot, panel, pushed>>

\* the last write_results of engine.run
last_write(r) ==
  /\ task[r].stage = "engine" /\ task[r].done = Intervals
  /\ row' = [row EXCEPT ![r].stored = Intervals] /\ task' = Stage(r, "written")
  /\ UNCHANGED <<worker, inbox, tool, slot, panel, pushed, faults>>

\* mark_completed
complete_task(r) ==
  /\ task[r].stage = "written"
  /\ row' = Mark(r, "completed") /\ task' = Stage(r, "summing")
  /\ UNCHANGED <<worker, inbox, tool, slot, panel, pushed, faults>>

\* the finally of _execute
Release(r) ==
  /\ task' = [task EXCEPT ![r] = NoTask]
  /\ worker' = [worker EXCEPT !.cancelled = @ \ {r}, !.permits = @ - 1]

\* notify._post: best effort, a refused or unreachable ingest changes nothing
broadcast(r, event) == pushed' \in {pushed, [pushed EXCEPT ![r] = event]}

\* the summary and its broadcast; RunCancelled broadcasts a failure.
\* An exception while the summary is built fails the completed run.
end_task(r) ==
  /\ \/ /\ task[r].stage = "summing" /\ Release(r)
        /\ broadcast(r, "completed")
        /\ UNCHANGED <<row, faults>>
     \/ /\ task[r].stage = "summing" /\ Fault /\ task' = Stage(r, "failing")
        /\ UNCHANGED <<row, worker, pushed>>
     \/ /\ task[r].stage = "unwinding" /\ Release(r)
        /\ broadcast(r, "failed")
        /\ UNCHANGED <<row, faults>>
     \/ /\ task[r].stage = "failing" /\ row' = Mark(r, "failed") /\ Release(r)
        /\ broadcast(r, "failed")
        /\ UNCHANGED faults
     \/ /\ task[r].stage = "failing" /\ Fault /\ Release(r)
        /\ UNCHANGED <<row, pushed>>
  /\ UNCHANGED <<inbox, tool, slot, panel>>

----------------------------------------------------------------------------
(* The worker: its process. *)

Crash ==
  /\ worker.up /\ Fault
  /\ worker' = [up |-> FALSE, permits |-> 0, cancelled |-> {}, flagging |-> {}]
  /\ task' = [r \in Runs |-> NoTask]
  /\ inbox' = {}
  /\ UNCHANGED <<row, tool, slot, panel, pushed>>

\* reap_orphaned_runs: the queued and running rows of S, whoever runs them
Reaped(S) == [r \in Runs |-> IF r \in S /\ row[r].status \in {"queued", "running"}
                             THEN [row[r] EXCEPT !.status = "failed"] ELSE row[r]]

\* lifespan: a worker that cannot reap starts all the same.  Each tenant's runs
\* are a transaction of their own: an error leaves those of the tenants after it.
Restart ==
  /\ ~ worker.up
  /\ worker' = [worker EXCEPT !.up = TRUE]
  /\ \/ row' = Reaped(Runs) /\ UNCHANGED faults
     \/ Fault /\ \E S \in SUBSET Runs : row' = Reaped(S)
  /\ UNCHANGED <<task, inbox, tool, slot, panel, pushed>>

\* a second worker process starts against the same database
AnotherStarts ==
  /\ Fault /\ \E S \in SUBSET Runs : row' = Reaped(S)
  /\ UNCHANGED <<task, worker, inbox, tool, slot, panel, pushed>>

----------------------------------------------------------------------------
(* The copilot's scenario runner. *)

slotTaken == slot.held /\ slot.age < SlotLease

\* beginSimRun (a stopped request starts nothing), takeSlot and the POST
start(c) ==
  /\ tool[c].pc = "begin"
  /\ \/ Refuse(c) /\ UNCHANGED <<slot, inbox>>
     \/ /\ ~ slotTaken
        /\ slot' = [held |-> TRUE, run |-> None, age |-> 0, by |-> c]
        /\ To(c, [tool[c] EXCEPT !.left = @ - 1, !.ran = @ + 1], "starting")
        /\ inbox' = inbox \cup {<<"simulate", c>>}
  /\ UNCHANGED <<row, task, worker, panel, pushed, faults>>

Cancel(c) ==
  /\ To(c, tool[c], "cancelling")
  /\ inbox' = inbox \cup {<<"cancel", c, tool[c].run>>}

NoDeadline(t, stopped) == stopped

\* ctx.run.interrupted, and the run's own deadline
giveUp(t, stopped) == stopped \/ t.age >= RunDeadline

\* getRun, and runOne after it: a run this call cannot finish is cancelled first
poll(c) ==
  /\ tool[c].pc = "reading" /\ worker.up
  /\ LET t == tool[c]
         status == row[t.run].status
     IN \/ /\ status \in Terminal
           /\ slot' = freeSlotFor(t.run)
           /\ IF status = "completed" THEN To(c, t, "fetching") ELSE Refuse(c)
           /\ UNCHANGED inbox
        \/ /\ status \in {"queued", "running"}
           /\ \E stopped \in BOOLEAN :
                IF giveUp(t, stopped) THEN Cancel(c) ELSE To(c, t, "reading") /\ UNCHANGED inbox
           /\ UNCHANGED slot
  /\ UNCHANGED <<row, task, worker, panel, pushed, faults>>

\* completeRows: exactly one row per zone and interval
completeRows(n) == n = Intervals

\* getResults and completeRows, then the next run of the call, or the evidence
fetch(c) ==
  /\ tool[c].pc = "fetching"
  /\ LET t == tool[c]
         u == [t EXCEPT !.got = @ \cup {t.run}]
     IN \/ worker.up /\ completeRows(row[t.run].stored)
           /\ To(c, [u EXCEPT !.run = None], IF t.left = 0 THEN "done" ELSE "begin")
        \/ ~ (worker.up /\ completeRows(row[t.run].stored)) /\ Refuse(c)
  /\ UNCHANGED <<row, task, worker, inbox, slot, panel, pushed, faults>>

\* a call the worker did not answer in time, or could not be reached for; a lost
\* cancel leaves the slot to its lease
TimedOut(c) ==
  /\ tool[c].wait = RequestTimeout \/ ~ worker.up
  /\ \/ tool[c].pc = "starting" /\ slot' = freeSlotFor(None) /\ Refuse(c) /\ UNCHANGED inbox
     \/ tool[c].pc = "reading" /\ Cancel(c) /\ UNCHANGED slot
     \/ tool[c].pc = "cancelling" /\ Refuse(c) /\ UNCHANGED <<slot, inbox>>
  /\ UNCHANGED <<row, task, worker, panel, pushed, faults>>

----------------------------------------------------------------------------
(* A person's ScenarioPanel, behind /api/simulate. *)

panel_run ==
  /\ People # {} /\ panel.pc = "idle"
  /\ panel' = [panel EXCEPT !.pc = "starting"]
  /\ inbox' = inbox \cup {<<"simulate", "panel">>}
  /\ UNCHANGED <<row, task, worker, tool, slot, pushed, faults>>

\* GET /api/simulate: the run, or its summary once it is completed (get_summary
\* answers only then)
answer(r) == IF row[r].status = "completed" THEN "building" ELSE row[r].status

\* the worker is gone, a push or a poll finds the run over, or one more poll
panel_next ==
  /\ LET Over(s) == panel' = [panel EXCEPT !.pc = s]
     IN \/ panel.pc \in {"starting", "waiting"} /\ ~ worker.up /\ Over("error")
        \/ panel.pc = "waiting" /\ pushed[panel.run] = "completed" /\ Over("shown")
        \/ panel.pc = "waiting" /\ pushed[panel.run] = "failed" /\ Over("error")
        \/ /\ panel.pc = "waiting" /\ pushed[panel.run] = "none" /\ worker.up
           /\ CASE answer(panel.run) = "building" -> Over("shown")
                [] answer(panel.run) = "failed" -> Over("error")
                [] OTHER -> panel' = [panel EXCEPT !.polls = @ + 1,
                                        !.pc = IF panel.polls + 1 = MaxPolls THEN "error" ELSE "waiting"]
  /\ UNCHANGED <<row, task, worker, inbox, tool, slot, pushed, faults>>

----------------------------------------------------------------------------
\* no call in flight outlives its timeout
MayTick == \A c \in Tools : tool[c].wait < RequestTimeout

AtMost(n, cap) == IF n < cap THEN n + 1 ELSE n

Tick ==
  /\ MayTick
  /\ slot' = IF slot.held THEN [slot EXCEPT !.age = AtMost(@, SlotLease)] ELSE slot
  /\ tool' = [c \in Tools |->
       [tool[c] EXCEPT !.wait = IF tool[c].pc \in {"starting", "reading", "cancelling"} THEN @ + 1 ELSE @,
                       !.age = IF tool[c].pc \in {"reading", "cancelling"} THEN AtMost(@, RunDeadline) ELSE @]]
  /\ <<slot', tool'>> # <<slot, tool>>
  /\ UNCHANGED <<row, task, worker, inbox, panel, pushed, faults>>

Init ==
  /\ row = [r \in Runs |-> [status |-> "none", stored |-> 0]]
  /\ task = [r \in Runs |-> NoTask]
  /\ worker = [up |-> TRUE, permits |-> 0, cancelled |-> {}, flagging |-> {}]
  /\ inbox = {}
  /\ tool = [c \in Tools |-> IF c \in Calling THEN NewTool ELSE [NewTool EXCEPT !.pc = "done"]]
  /\ slot = NoSlot
  /\ panel = [pc |-> "idle", run |-> None, polls |-> 0]
  /\ pushed = [r \in Runs |-> "none"]
  /\ faults = 0

TaskStep(r) == begin_task(r) \/ engine_step(r) \/ last_write(r) \/ complete_task(r) \/ end_task(r)
Serve ==
  \/ \E c \in Callers : simulate(c)
  \/ \E c \in Tools, r \in Runs : mark_cancelled(c, r) \/ flag_cancelled(c, r)
ToolStep(c) == start(c) \/ poll(c) \/ fetch(c) \/ TimedOut(c)

Next ==
  \/ \E r \in Runs : TaskStep(r)
  \/ Serve
  \/ \E c \in Tools : ToolStep(c)
  \/ panel_run \/ panel_next
  \/ Crash \/ Restart \/ AnotherStarts \/ Tick

\* the worker's threads run, a dead worker is restarted, time passes, and the
\* web process and the browser run what is ready; nobody must start or stop anything
Fairness ==
  /\ \A r \in Runs : WF_vars(TaskStep(r))
  /\ WF_vars(Restart) /\ WF_vars(Tick) /\ WF_vars(panel_next) /\ WF_vars(Serve)
  /\ \A c \in Tools : WF_vars(ToolStep(c))

Spec == Init /\ [][Next]_vars /\ Fairness

----------------------------------------------------------------------------
(* Properties. *)

\* Every value stays in its domain, whatever calls are lost or late.
TypeOK ==
  /\ row \in [Runs -> [status : {"none", "queued", "running"} \cup Terminal, stored : 0..Intervals]]
  /\ task \in [Runs -> [stage : {"none", "queued", "engine", "written", "summing", "unwinding", "failing"},
                        done : 0..Intervals]]
  /\ worker.permits \in 0..MaxConcurrentRuns
  /\ slot.age \in 0..SlotLease /\ slot.run \in 0..MaxRuns
  /\ \A c \in Tools : tool[c].left \in Nat /\ tool[c].run \in 0..MaxRuns
                      /\ tool[c].wait \in 0..RequestTimeout /\ tool[c].age \in 0..RunDeadline

\* A permit of the worker is held exactly while a background task of this process
\* runs: a refused, failed, cancelled or orphaned run never keeps one, so admission
\* (simulate, and the finally of _execute) cannot wedge.
PermitsAreTasks == worker.permits = Cardinality({r \in Runs : Live(r)})

\* A run whose row says completed has every interval stored (the last write_results
\* of engine.run comes before mark_completed), and so has whatever the panel shows.
CompletedIsWhole ==
  /\ \A r \in Runs : row[r].status = "completed" => row[r].stored = Intervals
  /\ panel.pc = "shown" => row[panel.run].stored = Intervals

\* While a tool waits for the worker's answer to POST /simulate the process slot is
\* its own and unnamed, so the answer names, and a failure frees, nobody else's slot.
SlotIsCallers ==
  \A c \in Tools : tool[c].pc = "starting" => slot.held /\ slot.by = c /\ slot.run = None

\* A call that ends with evidence has every run it began, the baseline included, each
\* whole: a stop, a deadline, a lost call or a failed run in the middle of the
\* sequence leaves no comparison behind (execute's fail, completeRows).
EvidenceIsWhole ==
  \A c \in Tools : tool[c].pc = "done" /\ tool[c].got # {} =>
    /\ tool[c].left = 0 /\ Cardinality(tool[c].got) = tool[c].ran
    /\ \A r \in tool[c].got : row[r].stored = Intervals

\* What holds of runs, permits and the copilot's slot whatever is lost, late,
\* cancelled or restarted (main.py, simulate.ts).
WorkerIsSound ==
  TypeOK /\ PermitsAreTasks /\ CompletedIsWhole /\ SlotIsCallers /\ EvidenceIsWhole

\* Every simulate_scenarios call ends, though its run may be stuck at running for
\* ever (cancelled while queued) or its worker may be gone: runOne's deadline.
ToolEnds == \A c \in Tools : tool[c].pc = "starting" ~> (tool[c].pc \in {"begin", "done"})

\* A queued run of an active tenant (the reaper passes over the others, repository.py)
\* reaches an end, by its task, a cancel or, across a restart, the reaper,
\* unless a second failure hits the very write that would have recorded the first
\* (mark_failed of _execute, or the reaper, which lifespan lets fail).
RunsEnd == \A r \in Runs : row[r].status = "queued" ~> (row[r].status \in Terminal \/ faults >= 2)

\* Neither a call nor a run hangs (simulate.ts, runOne; main.py, _execute and
\* lifespan).
CallsAndRunsEnd == ToolEnds /\ RunsEnd

\* main.py:174 says of a cancelled run that mark_cancelled "already ran, so the row is
\* correct whether or not the loop noticed in time": a cancelled row stays cancelled.
CancelledStays ==
  [][\A r \in Runs : row[r].status = "cancelled" => row'[r].status = "cancelled"]_vars
=============================================================================
