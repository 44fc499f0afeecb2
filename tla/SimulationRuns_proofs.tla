----------------------- MODULE SimulationRuns_proofs -----------------------
(***************************************************************************)
(* The what-if worker and its callers: permits, rows and the copilot's slot*)
(* stay right whatever calls are late, cancelled or lost and whatever dies *)
(* (WorkerIsSound), for any number of requests, runs, permits and failures.*)
(* And the meter of the device simulator, whose stored readings no crash   *)
(* or restart sets back (MeterNeverRewinds).                               *)
(***************************************************************************)
EXTENDS SimulationRuns, DeviceFeed, FiniteSetTheorems, TLAPS

Stages == {"none", "queued", "engine", "written", "summing", "unwinding", "failing"}
Statuses == {"none", "queued", "running"} \cup Terminal
ToolPcs == {"begin", "starting", "reading", "fetching", "cancelling", "done"}
PanelPcs == {"idle", "starting", "waiting", "shown", "error"}

ToolType == [pc : ToolPcs, left : Nat, ran : Nat, run : 0..MaxRuns,
             age : 0..RunDeadline, wait : 0..RequestTimeout, got : SUBSET Runs]

RunTypes ==
  /\ row \in [Runs -> [status : Statuses, stored : 0..Intervals]]
  /\ task \in [Runs -> [stage : Stages, done : 0..Intervals]]
  /\ worker \in [up : BOOLEAN, permits : 0..MaxConcurrentRuns,
                 cancelled : SUBSET Runs, flagging : SUBSET (Tools \X Runs)]
  /\ pushed \in [Runs -> {"none", "completed", "failed"}]

CallTypes ==
  /\ tool \in [Tools -> ToolType]
  /\ slot \in [held : BOOLEAN, run : 0..MaxRuns, age : 0..SlotLease, by : Tools \cup {"nobody"}]
  /\ panel \in [pc : PanelPcs, run : 0..MaxRuns, polls : Nat]

(* Every interval of the run is stored and no task writes any more.        *)
Whole(r) ==
  /\ row[r].status # "none" /\ row[r].stored = Intervals
  /\ task[r].stage \notin {"queued", "engine"}

(* What the row, the task and the broadcast say of a run fits together.    *)
RunInv(r) ==
  /\ Live(r) => row[r].status # "none"
  /\ row[r].status = "completed" => Whole(r)
  /\ task[r].stage \in {"written", "summing"} => Whole(r)
  /\ pushed[r] = "completed" => Whole(r)

WorkerInv == RunTypes /\ PermitsAreTasks /\ \A r \in Runs : RunInv(r)

(* Where a call is: a request of its own out, or a run of its own in hand  *)
(* that is not among those it has.                                         *)
Underway(pc) == pc \in {"starting", "reading", "fetching", "cancelling"}

ToolInv(c) ==
  /\ tool[c].pc = "begin" => tool[c].left # 0 /\ tool[c].ran = Cardinality(tool[c].got)
  /\ Underway(tool[c].pc) => tool[c].ran = Cardinality(tool[c].got) + 1
  /\ tool[c].pc \in {"reading", "fetching", "cancelling"} =>
       tool[c].run \in Created /\ tool[c].run \notin tool[c].got
  /\ tool[c].pc = "fetching" => Whole(tool[c].run)
  /\ tool[c].pc = "done" /\ tool[c].got # {} =>
       tool[c].left = 0 /\ tool[c].ran = Cardinality(tool[c].got)
  /\ \A r \in tool[c].got : Whole(r)

(* The slot of a call that waits for its answer is younger than the lease, *)
(* because it is as old as the call's own wait.                            *)
SlotInv(c) ==
  tool[c].pc = "starting" =>
    slot.held /\ slot.by = c /\ slot.run = None /\ slot.age <= tool[c].wait

PanelInv ==
  /\ panel.pc = "waiting" => panel.run \in Created
  /\ panel.pc = "shown" => panel.run \in Created /\ Whole(panel.run)

CallsInv == CallTypes /\ PanelInv /\ \A c \in Tools : ToolInv(c) /\ SlotInv(c)

SimInv == WorkerInv /\ CallsInv

-----------------------------------------------------------------------------
(* No step takes a whole run apart or forgets a row.                       *)
RunsStay ==
  /\ \A q \in Runs : Whole(q) => Whole(q)'
  /\ \A q \in Runs : row[q].status # "none" => row'[q].status # "none"

LEMMA FewRuns == IsFiniteSet(Runs) /\ \A S \in SUBSET Runs : IsFiniteSet(S) /\ Cardinality(S) \in Nat
<1>1. IsFiniteSet(1..MaxRuns)
  BY RunsAssumption, FS_Interval
<1> QED BY <1>1, FS_Subset, FS_CardinalityType DEF Runs

(* A step that touches one run, and takes or gives back a permit with it.  *)
LEMMA OneRun ==
  ASSUME WorkerInv, RunTypes', NEW r \in Runs,
         \A q \in Runs \ {r} : row'[q] = row[q] /\ task'[q] = task[q] /\ pushed'[q] = pushed[q],
         RunInv(r)', Whole(r) => Whole(r)', row[r].status # "none" => row'[r].status # "none",
         \/ worker'.permits = worker.permits /\ (Live(r) <=> Live(r)')
         \/ worker'.permits = worker.permits + 1 /\ ~Live(r) /\ Live(r)'
         \/ worker'.permits = worker.permits - 1 /\ Live(r) /\ ~Live(r)'
  PROVE  WorkerInv' /\ RunsStay
<1> DEFINE L == {q \in Runs : Live(q)}
           M == {q \in Runs : Live(q)'}
<1>1. \A q \in Runs \ {r} : RunInv(q)' /\ (Live(q) <=> Live(q)') /\ (Whole(q) => Whole(q)')
  BY DEF WorkerInv, RunInv, Whole, Live
<1>2. worker.permits = Cardinality(L) /\ worker.permits \in Nat /\ IsFiniteSet(L) /\ IsFiniteSet(M)
  BY FewRuns DEF WorkerInv, PermitsAreTasks
<1>3. worker'.permits = Cardinality(M)
  <2>1. CASE worker'.permits = worker.permits /\ (Live(r) <=> Live(r)')
    <3>1. L = M
      BY <1>1, <2>1
    <3> QED BY <3>1, <2>1, <1>2
  <2>2. CASE worker'.permits = worker.permits + 1 /\ ~Live(r) /\ Live(r)'
    <3>1. M = L \cup {r} /\ r \notin L
      BY <1>1, <2>2
    <3> HIDE DEF L, M
    <3> QED BY <3>1, <2>2, <1>2, FS_AddElement
  <2>3. CASE worker'.permits = worker.permits - 1 /\ Live(r) /\ ~Live(r)'
    <3>1. M = L \ {r} /\ r \in L
      BY <1>1, <2>3
    <3> HIDE DEF L, M
    <3> QED BY <3>1, <2>3, <1>2, FS_RemoveElement
  <2> QED BY <2>1, <2>2, <2>3
<1>4. PermitsAreTasks'
  BY <1>3 DEF PermitsAreTasks
<1> QED BY <1>1, <1>4 DEF WorkerInv, RunsStay

LEMMA RunUnchanged ==
  ASSUME WorkerInv, UNCHANGED <<row, task, pushed>>, worker'.permits = worker.permits,
         worker' \in [up : BOOLEAN, permits : 0..MaxConcurrentRuns,
                      cancelled : SUBSET Runs, flagging : SUBSET (Tools \X Runs)]
  PROVE  WorkerInv' /\ RunsStay
BY DEF WorkerInv, RunsStay, RunTypes, PermitsAreTasks, RunInv, Whole, Live

LEMMA MarkType ==
  ASSUME RunTypes, NEW r \in Runs, NEW s \in Statuses
  PROVE  Mark(r, s) \in [Runs -> [status : Statuses, stored : 0..Intervals]]
BY DEF RunTypes, Mark

(* The background task of a run (main.py, _execute).                       *)
LEMMA TaskStepKeeps ==
  ASSUME WorkerInv, NEW r \in Runs, TaskStep(r)
  PROVE  WorkerInv' /\ RunsStay
<1>1. RunTypes /\ RunInv(r)
  BY DEF WorkerInv
<1>2. CASE begin_task(r)
  <2>2. task[r].stage = "queued" /\ row[r].status # "completed" /\ pushed[r] # "completed" /\ ~Whole(r)
    BY <1>1, <1>2 DEF begin_task, RunInv, Whole
  <2>3. RunTypes'
    <3>1. row' \in [Runs -> [status : Statuses, stored : 0..Intervals]]
      <4>1. "running" \in Statuses
        BY DEF Statuses
      <4>2. row' = Mark(r, "running") \/ row' = row
        BY <1>2 DEF begin_task
      <4>3. Mark(r, "running") \in [Runs -> [status : Statuses, stored : 0..Intervals]]
        BY <4>1, <1>1, MarkType
      <4> QED BY <4>2, <4>3, <1>1 DEF RunTypes
    <3>2. task' \in [Runs -> [stage : Stages, done : 0..Intervals]]
      <4>1. Stage(r, "engine") \in [Runs -> [stage : Stages, done : 0..Intervals]]
        BY <1>1 DEF RunTypes, Stage, Stages
      <4>2. Stage(r, "failing") \in [Runs -> [stage : Stages, done : 0..Intervals]]
        BY <1>1 DEF RunTypes, Stage, Stages
      <4>3. task' = Stage(r, "engine") \/ task' = Stage(r, "failing")
        BY <1>2 DEF begin_task
      <4> QED BY <4>1, <4>2, <4>3
    <3> QED BY <3>1, <3>2, <1>1, <1>2 DEF begin_task, RunTypes
  <2>4. /\ row'[r].status # "none" /\ row'[r].status # "completed" /\ pushed'[r] = pushed[r]
        /\ task'[r].stage \in {"engine", "failing"}
    BY <1>1, <1>2, <2>2 DEF begin_task, RunTypes, Mark, Stage, Fault, RunInv, Live
  <2>1. RunTypes' /\ RunInv(r)' /\ (Whole(r) => Whole(r)')
    BY <2>2, <2>3, <2>4 DEF RunInv, Whole
  <2> QED BY <2>1, <1>1, <1>2, OneRun
        DEF begin_task, Mark, Stage, Fault, RunTypes, Live
<1>3. CASE engine_step(r)
  <2>1. RunTypes' /\ RunInv(r)' /\ (Whole(r) => Whole(r)')
    BY <1>1, <1>3, RunsAssumption
      DEF engine_step, RunTypes, RunInv, Whole, Live, Mark, Stage, Fault, Statuses, Stages, Terminal
  <2> QED BY <2>1, <1>1, <1>3, OneRun
        DEF engine_step, Mark, Stage, Fault, RunTypes, Live
<1>4. CASE last_write(r)
  <2>1. RunTypes' /\ RunInv(r)' /\ (Whole(r) => Whole(r)')
    BY <1>1, <1>4, RunsAssumption
      DEF last_write, RunTypes, RunInv, Whole, Live, Mark, Stage, Fault, Statuses, Stages, Terminal
  <2> QED BY <2>1, <1>1, <1>4, OneRun
        DEF last_write, Mark, Stage, Fault, RunTypes, Live
<1>5. CASE complete_task(r)
  <2>1. RunTypes' /\ RunInv(r)' /\ (Whole(r) => Whole(r)')
    BY <1>1, <1>5
      DEF complete_task, RunTypes, RunInv, Whole, Live, Mark, Stage, Fault, Statuses, Stages, Terminal
  <2> QED BY <2>1, <1>1, <1>5, OneRun
        DEF complete_task, Mark, Stage, Fault, RunTypes, Live
<1>6. CASE end_task(r)
  <2>1. CASE task[r].stage = "summing" /\ Fault /\ task' = Stage(r, "failing") /\ UNCHANGED <<row, worker, pushed>>
    <3>1. RunTypes' /\ RunInv(r)' /\ (Whole(r) => Whole(r)')
      BY <1>1, <2>1 DEF RunTypes, RunInv, Whole, Live, Stage, Statuses, Stages
    <3> QED BY <3>1, <1>1, <2>1, OneRun DEF Stage, RunTypes, Live
  <2>2. ASSUME task[r].stage \in {"summing", "unwinding", "failing"}, Release(r),
               row' = row \/ (row' = Mark(r, "failed") /\ task[r].stage = "failing"),
               pushed' \in {pushed, [pushed EXCEPT ![r] = "failed"]}
                 \/ (task[r].stage = "summing" /\ broadcast(r, "completed"))
        PROVE  WorkerInv' /\ RunsStay
    <3>1. worker.permits - 1 \in 0..MaxConcurrentRuns
      <4>1. PICK L \in SUBSET Runs : L = {q \in Runs : Live(q)}
        OBVIOUS
      <4>2. L # {} /\ IsFiniteSet(L) /\ worker.permits = Cardinality(L)
        BY <4>1, <2>2, FewRuns DEF Live, WorkerInv, PermitsAreTasks
      <4>3. Cardinality(L) # 0
        BY <4>2, FS_EmptySet
      <4>4. worker.permits \in 0..MaxConcurrentRuns
        BY <1>1 DEF RunTypes
      <4> QED BY <4>2, <4>3, <4>4, RunsAssumption
    <3>2. RunTypes' /\ worker'.permits = worker.permits - 1
      <4>1. row' \in [Runs -> [status : Statuses, stored : 0..Intervals]]
        BY <1>1, <2>2 DEF RunTypes, Mark, Statuses, Terminal
      <4>2. task' \in [Runs -> [stage : Stages, done : 0..Intervals]]
        <5>1. NoTask \in [stage : Stages, done : 0..Intervals]
          BY RunsAssumption DEF NoTask, Stages
        <5> QED BY <5>1, <1>1, <2>2 DEF RunTypes, Release
      <4>3. /\ worker' \in [up : BOOLEAN, permits : 0..MaxConcurrentRuns,
                            cancelled : SUBSET Runs, flagging : SUBSET (Tools \X Runs)]
            /\ worker'.permits = worker.permits - 1
        BY <1>1, <2>2, <3>1 DEF RunTypes, Release
      <4>4. pushed' \in [Runs -> {"none", "completed", "failed"}]
        BY <1>1, <2>2 DEF RunTypes, broadcast
      <4> QED BY <4>1, <4>2, <4>3, <4>4 DEF RunTypes
    <3>3. RunInv(r)' /\ (Whole(r) => Whole(r)')
      BY <1>1, <2>2 DEF RunTypes, RunInv, Whole, Live, Release, NoTask, Mark, broadcast
    <3>4. Live(r) /\ ~Live(r)' /\ (row[r].status # "none" => row'[r].status # "none")
      BY <1>1, <2>2 DEF Live, Release, NoTask, Mark, RunTypes
    <3>5. \A q \in Runs \ {r} : row'[q] = row[q] /\ task'[q] = task[q] /\ pushed'[q] = pushed[q]
      BY <1>1, <2>2 DEF Release, NoTask, Mark, RunTypes, broadcast
    <3> QED BY <3>2, <3>3, <3>4, <3>5, OneRun
  <2> QED BY <1>6, <2>1, <2>2 DEF end_task, broadcast
<1> QED BY <1>2, <1>3, <1>4, <1>5, <1>6 DEF TaskStep

(* The requests served, and the process itself (main.py, simulate, cancel, *)
(* lifespan).                                                              *)
LEMMA CancelKeeps ==
  ASSUME WorkerInv, NEW c \in Tools, NEW r \in Runs, mark_cancelled(c, r) \/ flag_cancelled(c, r)
  PROVE  WorkerInv' /\ RunsStay
<1>1. RunTypes /\ RunInv(r)
  BY DEF WorkerInv
<1>2. CASE row' = row /\ task' = task /\ pushed' = pushed /\ worker'.permits = worker.permits
           /\ worker' \in [up : BOOLEAN, permits : 0..MaxConcurrentRuns,
                           cancelled : SUBSET Runs, flagging : SUBSET (Tools \X Runs)]
  BY <1>2, RunUnchanged
<1>3. CASE flag_cancelled(c, r)
  <2>1. worker' \in [up : BOOLEAN, permits : 0..MaxConcurrentRuns,
                     cancelled : SUBSET Runs, flagging : SUBSET (Tools \X Runs)]
        /\ worker'.permits = worker.permits
    BY <1>1, <1>3 DEF flag_cancelled, RunTypes
  <2> QED BY <2>1, <1>2, <1>3 DEF flag_cancelled
<1>4. CASE mark_cancelled(c, r) /\ row[r].status \notin {"queued", "running"}
  BY <1>1, <1>4, <1>2 DEF mark_cancelled, RunTypes
<1>5. CASE mark_cancelled(c, r) /\ row[r].status \in {"queued", "running"}
  <2>1. row' = Mark(r, "cancelled") /\ UNCHANGED <<task, pushed>>
        /\ worker' = [worker EXCEPT !.flagging = @ \cup {<<c, r>>}]
    BY <1>5 DEF mark_cancelled, Mark
  <2>2. row' \in [Runs -> [status : Statuses, stored : 0..Intervals]]
    BY <2>1, <1>1, MarkType DEF Statuses, Terminal
  <2>3. worker' \in [up : BOOLEAN, permits : 0..MaxConcurrentRuns,
                     cancelled : SUBSET Runs, flagging : SUBSET (Tools \X Runs)]
        /\ worker'.permits = worker.permits
    BY <2>1, <1>1 DEF RunTypes
  <2>4. RunTypes' /\ RunInv(r)' /\ (Whole(r) => Whole(r)')
    BY <2>1, <2>2, <2>3, <1>1, <1>5 DEF RunTypes, RunInv, Whole, Live, Mark
  <2>5. row'[r].status # "none" /\ (Live(r) <=> Live(r)')
        /\ \A q \in Runs \ {r} : row'[q] = row[q] /\ task'[q] = task[q] /\ pushed'[q] = pushed[q]
    BY <2>1, <1>1 DEF Mark, RunTypes, Live
  <2> QED BY <2>3, <2>4, <2>5, OneRun
<1> QED BY <1>3, <1>4, <1>5

LEMMA SimulateKeeps ==
  ASSUME WorkerInv, NEW c \in Callers, simulate(c)
  PROVE  WorkerInv' /\ RunsStay
<1>1. RunTypes
  BY DEF WorkerInv
<1>2. CASE UNCHANGED <<row, task, worker, pushed>>
  BY <1>1, <1>2, RunUnchanged DEF RunTypes
<1>3. ASSUME NEW r \in Runs \ Created, worker.permits < MaxConcurrentRuns, create_run(r),
             worker' = [worker EXCEPT !.permits = @ + 1], pushed' = pushed
      PROVE  WorkerInv' /\ RunsStay
  <2>1. RunInv(r) /\ row[r].status = "none" /\ ~Live(r)
    BY <1>3 DEF WorkerInv, RunInv, Created
  <2>2. row' = Mark(r, "queued") /\ task' = Stage(r, "queued")
    BY <1>3 DEF create_run, Mark, Stage
  <2>3. row' \in [Runs -> [status : Statuses, stored : 0..Intervals]]
    BY <2>2, <1>1, MarkType DEF Statuses
  <2>4. task' \in [Runs -> [stage : Stages, done : 0..Intervals]]
    BY <2>2, <1>1 DEF RunTypes, Stage, Stages
  <2>5. worker' \in [up : BOOLEAN, permits : 0..MaxConcurrentRuns,
                     cancelled : SUBSET Runs, flagging : SUBSET (Tools \X Runs)]
        /\ worker'.permits = worker.permits + 1
    <3>1. worker.permits + 1 \in 0..MaxConcurrentRuns
      BY <1>1, <1>3, RunsAssumption DEF RunTypes
    <3> QED BY <3>1, <1>1, <1>3 DEF RunTypes
  <2>6. RunTypes' /\ row'[r].status = "queued" /\ task'[r].stage = "queued"
    BY <2>2, <2>3, <2>4, <2>5, <1>1, <1>3 DEF RunTypes, Mark, Stage
  <2>7. ~Whole(r) /\ pushed[r] # "completed"
    BY <2>1 DEF RunInv, Whole
  <2>8. RunInv(r)' /\ Live(r)'
    BY <2>6, <2>7, <1>3 DEF RunInv, Live
  <2>9. \A q \in Runs \ {r} : row'[q] = row[q] /\ task'[q] = task[q] /\ pushed'[q] = pushed[q]
    BY <2>2, <1>1, <1>3 DEF Mark, Stage, RunTypes
  <2> QED BY <2>1, <2>5, <2>6, <2>7, <2>8, <2>9, OneRun
<1> QED BY <1>2, <1>3 DEF simulate, Admits

(* Whoever reaps: queued and running rows become failed, no run is whole   *)
(* for another reason than before (main.py, reap_orphaned_runs).           *)
LEMMA ReapKeeps ==
  ASSUME WorkerInv, NEW S \in SUBSET Runs, row' = Reaped(S), UNCHANGED <<task, pushed>>, worker'.permits = worker.permits,
         worker' \in [up : BOOLEAN, permits : 0..MaxConcurrentRuns,
                      cancelled : SUBSET Runs, flagging : SUBSET (Tools \X Runs)]
  PROVE  WorkerInv' /\ RunsStay
<1>1. RunTypes /\ \A q \in Runs : RunInv(q)
  BY DEF WorkerInv
<1>2. \A q \in Runs : /\ row'[q] \in [status : Statuses, stored : 0..Intervals]
                      /\ row'[q].stored = row[q].stored
                      /\ row'[q].status = row[q].status
                           \/ (row[q].status \in {"queued", "running"} /\ row'[q].status = "failed")
  <2> SUFFICES ASSUME NEW q \in Runs
               PROVE  /\ row'[q] \in [status : Statuses, stored : 0..Intervals]
                      /\ row'[q].stored = row[q].stored
                      /\ row'[q].status = row[q].status
                           \/ (row[q].status \in {"queued", "running"} /\ row'[q].status = "failed")
    OBVIOUS
  <2>1. row'[q] = IF q \in S /\ row[q].status \in {"queued", "running"} THEN [row[q] EXCEPT !.status = "failed"] ELSE row[q]
    BY DEF Reaped
  <2>2. row[q] \in [status : Statuses, stored : 0..Intervals] /\ "failed" \in Statuses
    BY <1>1 DEF RunTypes, Statuses, Terminal
  <2>3. CASE q \in S /\ row[q].status \in {"queued", "running"}
    <3>1. row'[q] = [row[q] EXCEPT !.status = "failed"]
      BY <2>1, <2>3
    <3>2. PICK x \in [status : Statuses, stored : 0..Intervals] : x = row[q]
      BY <2>2
    <3>3. /\ [x EXCEPT !.status = "failed"] \in [status : Statuses, stored : 0..Intervals]
          /\ [x EXCEPT !.status = "failed"].stored = x.stored
          /\ [x EXCEPT !.status = "failed"].status = "failed"
      BY <2>2
    <3>4. row'[q] = [x EXCEPT !.status = "failed"]
      BY <3>1, <3>2, Zenon
    <3> QED BY <3>2, <3>3, <3>4, <2>3
  <2>4. CASE ~ (q \in S /\ row[q].status \in {"queued", "running"})
    BY <2>1, <2>2, <2>4
  <2> QED BY <2>3, <2>4
<1>3. RunTypes'
  <2>1. row' \in [Runs -> [status : Statuses, stored : 0..Intervals]]
    BY <1>2 DEF Reaped
  <2> QED BY <2>1, <1>1 DEF RunTypes
<1>4. \A q \in Runs : RunInv(q)' /\ (Whole(q) => Whole(q)')
  BY <1>1, <1>2 DEF RunInv, Whole, Live
<1>5. PermitsAreTasks'
  BY DEF WorkerInv, PermitsAreTasks, Live
<1> QED BY <1>2, <1>3, <1>4, <1>5 DEF WorkerInv, RunsStay

LEMMA ProcessKeeps ==
  ASSUME WorkerInv, Crash \/ Restart \/ AnotherStarts
  PROVE  WorkerInv' /\ RunsStay
<1>1. RunTypes /\ \A q \in Runs : RunInv(q)
  BY DEF WorkerInv
<1>2. CASE Restart
  <2>1. worker' \in [up : BOOLEAN, permits : 0..MaxConcurrentRuns,
                     cancelled : SUBSET Runs, flagging : SUBSET (Tools \X Runs)]
        /\ worker'.permits = worker.permits /\ UNCHANGED <<task, pushed>>
    BY <1>1, <1>2 DEF Restart, RunTypes
  <2> QED BY <2>1, <1>2, ReapKeeps, RunUnchanged DEF Restart
<1>3. CASE AnotherStarts
  BY <1>1, <1>3, ReapKeeps DEF AnotherStarts, RunTypes
<1>4. CASE Crash
  <2>1. /\ row' = row /\ pushed' = pushed /\ worker'.permits = 0
        /\ worker' \in [up : BOOLEAN, permits : 0..MaxConcurrentRuns,
                        cancelled : SUBSET Runs, flagging : SUBSET (Tools \X Runs)]
    BY <1>4, RunsAssumption DEF Crash
  <2>2. task' \in [Runs -> [stage : Stages, done : 0..Intervals]] /\ \A q \in Runs : task'[q].stage = "none"
    BY <1>4, RunsAssumption DEF Crash, NoTask, Stages
  <2>3. {q \in Runs : Live(q)'} = {}
    BY <2>2 DEF Live
  <2>4. PermitsAreTasks'
    BY <2>1, <2>3, FS_EmptySet DEF PermitsAreTasks
  <2>5. \A q \in Runs : RunInv(q)' /\ (Whole(q) => Whole(q)')
    BY <1>1, <2>1, <2>2 DEF RunInv, Whole, Live
  <2> QED BY <1>1, <2>1, <2>2, <2>4, <2>5 DEF WorkerInv, RunTypes, RunsStay
<1> QED BY <1>2, <1>3, <1>4

LEMMA WorkerStep == WorkerInv /\ [Next]_vars => WorkerInv' /\ RunsStay
<1> SUFFICES ASSUME WorkerInv, [Next]_vars PROVE WorkerInv' /\ RunsStay
  OBVIOUS
<1>1. CASE \E r \in Runs : TaskStep(r)
  BY <1>1, TaskStepKeeps
<1>2. CASE Serve
  BY <1>2, SimulateKeeps, CancelKeeps DEF Serve
<1>3. CASE Crash \/ Restart \/ AnotherStarts
  BY <1>3, ProcessKeeps
<1>4. CASE UNCHANGED <<row, task, worker, pushed>>
  BY <1>4, RunUnchanged DEF WorkerInv, RunTypes
<1>5. (\E c \in Tools : ToolStep(c)) \/ panel_run \/ panel_next \/ Tick \/ UNCHANGED vars
        => UNCHANGED <<row, task, worker, pushed>>
  BY DEF ToolStep, start, poll, fetch, TimedOut, panel_run, panel_next, Tick, vars
<1> QED BY <1>1, <1>2, <1>3, <1>4, <1>5 DEF Next

-----------------------------------------------------------------------------
(* The callers.  What a call holds of its runs stays true whatever the     *)
(* worker does, because no run is taken apart.                             *)
LEMMA CallStays ==
  ASSUME CallsInv, RunsStay, RunTypes', NEW c \in Tools, tool'[c] = tool[c]
  PROVE  ToolInv(c)'
<1>1. tool[c] \in ToolType /\ ToolInv(c)
  BY DEF CallsInv, CallTypes
<1>2. \A r \in Runs : (Whole(r) => Whole(r)') /\ (r \in Created => r \in Created')
  BY DEF RunsStay, Created
<1>3. tool[c].got \subseteq Runs /\ Created \subseteq Runs
  BY <1>1 DEF ToolType, Created
<1> QED BY <1>1, <1>2, <1>3 DEF ToolInv

LEMMA PanelStays ==
  ASSUME CallsInv, RunsStay, panel' = panel
  PROVE  PanelInv'
<1>1. \A r \in Runs : (Whole(r) => Whole(r)') /\ (r \in Created => r \in Created')
  BY DEF RunsStay, Created
<1> QED BY <1>1 DEF CallsInv, PanelInv, Created

(* Only one call waits for its answer, and nothing else frees its slot.    *)
LEMMA SlotStays ==
  ASSUME CallsInv, NEW c \in Tools, tool'[c] = tool[c],
         \/ slot' = slot
         \/ \E r \in 1..MaxRuns : slot' = freeSlotFor(r)
         \/ \E d \in Tools \ {c} : tool[d].pc = "starting"
  PROVE  SlotInv(c)'
<1>1. SlotInv(c) /\ \A d \in Tools : SlotInv(d)
  BY DEF CallsInv
<1>2. CASE slot' = slot
  BY <1>1, <1>2 DEF SlotInv
<1>3. ASSUME NEW r \in 1..MaxRuns, slot' = freeSlotFor(r), slot.run = None
      PROVE  slot' = slot
  BY <1>3, RunsAssumption DEF freeSlotFor, None
<1>4. CASE tool[c].pc # "starting"
  BY <1>4 DEF SlotInv
<1>5. ASSUME NEW d \in Tools \ {c}, tool[d].pc = "starting", tool[c].pc = "starting"
      PROVE  FALSE
  BY <1>1, <1>5 DEF SlotInv
<1>6. CASE tool[c].pc = "starting" /\ \E r \in 1..MaxRuns : slot' = freeSlotFor(r)
  BY <1>1, <1>2, <1>3, <1>6 DEF SlotInv
<1> QED BY <1>2, <1>4, <1>5, <1>6

LEMMA OneCall ==
  ASSUME CallsInv, RunsStay, RunTypes', NEW c \in Tools, CallTypes', PanelInv',
         \A d \in Tools \ {c} : tool'[d] = tool[d] /\ SlotInv(d)',
         ToolInv(c)', SlotInv(c)'
  PROVE  CallsInv'
<1>1. \A d \in Tools \ {c} : ToolInv(d)'
  BY CallStays
<1> QED BY <1>1 DEF CallsInv

SlotType == [held : BOOLEAN, run : 0..MaxRuns, age : 0..SlotLease, by : Tools \cup {"nobody"}]

(* To, field by field.                                                     *)
LEMMA ToFields ==
  ASSUME tool \in [Tools -> ToolType], NEW c \in Tools, NEW t \in ToolType, NEW pc \in ToolPcs, To(c, t, pc)
  PROVE  /\ tool' \in [Tools -> ToolType]
         /\ \A d \in Tools \ {c} : tool'[d] = tool[d]
         /\ tool'[c].pc = pc /\ tool'[c].wait = 0 /\ tool'[c].left = t.left /\ tool'[c].ran = t.ran
         /\ tool'[c].run = t.run /\ tool'[c].age = t.age /\ tool'[c].got = t.got
<1>1. [t EXCEPT !.pc = pc, !.wait = 0] \in ToolType
  <2>1. /\ t.left \in Nat /\ t.ran \in Nat /\ t.run \in 0..MaxRuns /\ t.age \in 0..RunDeadline
        /\ t.got \in SUBSET Runs /\ 0 \in 0..RequestTimeout
    BY RunsAssumption DEF ToolType
  <2>2. t = [pc |-> t.pc, left |-> t.left, ran |-> t.ran, run |-> t.run, age |-> t.age, wait |-> t.wait, got |-> t.got]
    BY DEF ToolType
  <2>3. [t EXCEPT !.pc = pc, !.wait = 0] =
          [pc |-> pc, left |-> t.left, ran |-> t.ran, run |-> t.run, age |-> t.age, wait |-> 0, got |-> t.got]
    <3>1. PICK u : u = [pc |-> pc, left |-> t.left, ran |-> t.ran, run |-> t.run, age |-> t.age, wait |-> t.wait, got |-> t.got]
      OBVIOUS
    <3>2. u = [t EXCEPT !.pc = pc]
      BY <2>2, <3>1
    <3>3. [t EXCEPT !.pc = pc, !.wait = 0] = [u EXCEPT !.wait = 0]
      BY <3>2
    <3>4. [u EXCEPT !.wait = 0] =
            [pc |-> pc, left |-> t.left, ran |-> t.ran, run |-> t.run, age |-> t.age, wait |-> 0, got |-> t.got]
      BY <3>1
    <3> QED BY <3>3, <3>4
  <2> QED BY <2>1, <2>3 DEF ToolType
<1> QED BY <1>1 DEF To, ToolType

LEMMA FreedType ==
  ASSUME slot \in SlotType, NEW r \in 0..MaxRuns
  PROVE  freeSlotFor(r) \in SlotType
BY RunsAssumption DEF freeSlotFor, NoSlot, SlotType, None

(* A call that is refused keeps nothing, and takes no other's slot along.  *)
LEMMA Refusing ==
  ASSUME CallsInv, RunsStay, RunTypes', NEW c \in Tools, Refuse(c), panel' = panel,
         \/ slot' = slot
         \/ \E r \in 1..MaxRuns : slot' = freeSlotFor(r)
         \/ tool[c].pc = "starting" /\ slot' = freeSlotFor(None)
  PROVE  CallsInv'
<1>1. tool \in [Tools -> ToolType] /\ slot \in SlotType /\ tool[c] \in ToolType
  BY DEF CallsInv, CallTypes, SlotType
<1>2. PICK t \in ToolType : t = [tool[c] EXCEPT !.got = {}] /\ t.got = {}
  <2>1. PICK u \in ToolType : u = tool[c]
    BY <1>1
  <2>2. u = [pc |-> u.pc, left |-> u.left, ran |-> u.ran, run |-> u.run, age |-> u.age, wait |-> u.wait, got |-> u.got]
    BY DEF ToolType
  <2>3. [u EXCEPT !.got = {}] =
          [pc |-> u.pc, left |-> u.left, ran |-> u.ran, run |-> u.run, age |-> u.age, wait |-> u.wait, got |-> {}]
    BY <2>2
  <2>4. [u EXCEPT !.got = {}] \in ToolType /\ [u EXCEPT !.got = {}].got = {}
    BY <2>3 DEF ToolType
  <2> QED BY <2>1, <2>4
<1>3. To(c, t, "done") /\ "done" \in ToolPcs
  BY <1>2 DEF Refuse, ToolPcs
<1>4. /\ tool' \in [Tools -> ToolType] /\ tool'[c].pc = "done" /\ tool'[c].got = {}
      /\ \A d \in Tools \ {c} : tool'[d] = tool[d]
  BY <1>1, <1>2, <1>3, ToFields
<1>5. slot' \in SlotType
  <2>1. 0 \in 0..MaxRuns /\ 1..MaxRuns \subseteq 0..MaxRuns
    BY RunsAssumption
  <2> QED BY <1>1, <2>1, FreedType DEF None
<1>6. \A d \in Tools \ {c} : SlotInv(d)'
  <2> SUFFICES ASSUME NEW d \in Tools \ {c} PROVE SlotInv(d)'
    OBVIOUS
  <2> QED BY <1>4, SlotStays
<1>7. CallTypes'
  BY <1>4, <1>5 DEF CallTypes, CallsInv, SlotType
<1>8. ToolInv(c)' /\ SlotInv(c)'
  BY <1>4 DEF ToolInv, SlotInv, Underway
<1> QED BY <1>4, <1>6, <1>7, <1>8, PanelStays, OneCall

LEMMA GotStays ==
  ASSUME CallsInv, RunsStay, RunTypes', NEW c \in Tools
  PROVE  /\ tool[c] \in ToolType /\ tool \in [Tools -> ToolType] /\ slot \in SlotType
         /\ \A r \in tool[c].got : r \in Runs /\ Whole(r)'
         /\ Created \subseteq Created' /\ Created \subseteq Runs
<1>1. tool[c] \in ToolType /\ ToolInv(c)
  BY DEF CallsInv, CallTypes
<1>2. tool[c].got \subseteq Runs
  BY <1>1 DEF ToolType
<1> QED BY <1>1, <1>2 DEF CallsInv, CallTypes, SlotType, ToolInv, RunsStay, Created

(* A call that goes on with the run it has.                                *)
LEMMA Holding ==
  ASSUME CallsInv, RunsStay, RunTypes', NEW c \in Tools,
         tool[c].pc \in {"reading", "fetching", "cancelling"},
         NEW pc \in {"reading", "fetching", "cancelling"}, To(c, tool[c], pc),
         pc = "fetching" => Whole(tool[c].run), panel' = panel,
         slot' = slot \/ slot' = freeSlotFor(tool[c].run)
  PROVE  CallsInv'
<1>1. /\ tool[c] \in ToolType /\ tool \in [Tools -> ToolType] /\ slot \in SlotType
      /\ \A r \in tool[c].got : Whole(r)'
      /\ Created \subseteq Created' /\ Created \subseteq Runs
  BY GotStays
<1>2. tool[c].run \in Created /\ tool[c].run \notin tool[c].got /\ tool[c].ran = Cardinality(tool[c].got) + 1
  BY DEF CallsInv, ToolInv, Underway
<1>3. /\ tool' \in [Tools -> ToolType] /\ \A d \in Tools \ {c} : tool'[d] = tool[d]
      /\ tool'[c].pc = pc /\ tool'[c].ran = tool[c].ran
      /\ tool'[c].run = tool[c].run /\ tool'[c].got = tool[c].got
  <2>1. pc \in ToolPcs
    BY DEF ToolPcs
  <2> QED BY <2>1, <1>1, ToFields
<1>4. PICK k \in 1..MaxRuns : k = tool[c].run /\ k \in Runs /\ k \in 0..MaxRuns
  <2>1. tool[c].run \in Runs
    BY <1>1, <1>2
  <2> QED BY <2>1, RunsAssumption DEF Runs
<1>5. CallTypes'
  BY <1>1, <1>3, <1>4, FreedType DEF CallTypes, CallsInv, SlotType
<1>6. \A d \in Tools \ {c} : SlotInv(d)'
  <2> SUFFICES ASSUME NEW d \in Tools \ {c} PROVE SlotInv(d)'
    OBVIOUS
  <2>1. slot' = slot \/ slot' = freeSlotFor(k)
    BY <1>4
  <2> QED BY <2>1, <1>3, SlotStays
<1>7. ToolInv(c)'
  <2>1. pc = "fetching" => Whole(k)'
    BY <1>4 DEF RunsStay
  <2>2. k \in Created' /\ k \notin tool'[c].got /\ \A r \in tool'[c].got : Whole(r)'
    BY <1>1, <1>2, <1>3, <1>4
  <2>3. tool'[c].run = k /\ tool'[c].ran = Cardinality(tool'[c].got) + 1
    BY <1>2, <1>3, <1>4
  <2> QED BY <2>1, <2>2, <2>3, <1>3 DEF ToolInv, Underway, Whole
<1>8. SlotInv(c)'
  BY <1>3 DEF SlotInv
<1> QED BY <1>3, <1>5, <1>6, <1>7, <1>8, PanelStays, OneCall

LEMMA StartKeeps ==
  ASSUME CallsInv, RunsStay, RunTypes', NEW c \in Tools, start(c)
  PROVE  CallsInv'
<1>1. /\ tool[c] \in ToolType /\ tool \in [Tools -> ToolType] /\ slot \in SlotType
      /\ \A r \in tool[c].got : r \in Runs /\ Whole(r)'
  BY GotStays
<1>2. CASE Refuse(c) /\ slot' = slot
  BY <1>2, Refusing DEF start
<1>3. CASE /\ ~slotTaken /\ slot' = [held |-> TRUE, run |-> None, age |-> 0, by |-> c]
           /\ To(c, [tool[c] EXCEPT !.left = @ - 1, !.ran = @ + 1], "starting")
  <2>1. tool[c].pc = "begin" /\ tool[c].left # 0 /\ tool[c].ran = Cardinality(tool[c].got)
    BY DEF start, CallsInv, ToolInv
  <2>2. PICK t \in ToolType : /\ t = [tool[c] EXCEPT !.left = @ - 1, !.ran = @ + 1]
                              /\ t.ran = tool[c].ran + 1 /\ t.got = tool[c].got
    <3>1. PICK u \in ToolType : u = tool[c]
      BY <1>1
    <3>2. PICK v : v = [pc |-> u.pc, left |-> u.left - 1, ran |-> u.ran, run |-> u.run, age |-> u.age,
                        wait |-> u.wait, got |-> u.got]
      OBVIOUS
    <3>3. u.left - 1 \in Nat /\ u.ran + 1 \in Nat
      BY <3>1, <2>1 DEF ToolType
    <3>4. u = [pc |-> u.pc, left |-> u.left, ran |-> u.ran, run |-> u.run, age |-> u.age, wait |-> u.wait, got |-> u.got]
      BY DEF ToolType
    <3>5. v = [u EXCEPT !.left = @ - 1]
      BY <3>2, <3>4
    <3>6. [u EXCEPT !.left = @ - 1, !.ran = @ + 1] = [v EXCEPT !.ran = @ + 1]
      BY <3>5
    <3>7. [v EXCEPT !.ran = @ + 1] = [pc |-> u.pc, left |-> u.left - 1, ran |-> u.ran + 1, run |-> u.run,
                                      age |-> u.age, wait |-> u.wait, got |-> u.got]
      BY <3>2
    <3> QED BY <3>1, <3>3, <3>6, <3>7 DEF ToolType
  <2>3. /\ tool' \in [Tools -> ToolType] /\ \A d \in Tools \ {c} : tool'[d] = tool[d]
        /\ tool'[c].pc = "starting" /\ tool'[c].wait = 0
        /\ tool'[c].ran = tool[c].ran + 1 /\ tool'[c].got = tool[c].got
    <3>1. "starting" \in ToolPcs /\ To(c, t, "starting")
      BY <1>3, <2>2 DEF ToolPcs
    <3> QED BY <3>1, <1>1, <2>2, ToFields
  <2>4. \A d \in Tools : tool[d].pc # "starting"
    <3> SUFFICES ASSUME NEW d \in Tools, tool[d].pc = "starting" PROVE FALSE
      OBVIOUS
    <3>1. slot.held /\ slot.age <= tool[d].wait /\ tool[d].wait \in 0..RequestTimeout /\ slot.age \in 0..SlotLease
      BY DEF CallsInv, CallTypes, ToolType, SlotInv
    <3> QED BY <3>1, <1>3, TimeoutsNest, RunsAssumption DEF slotTaken
  <2>5. \A d \in Tools \ {c} : SlotInv(d)'
    BY <2>3, <2>4 DEF SlotInv
  <2>6. CallTypes' /\ SlotInv(c)'
    BY <1>3, <2>3, RunsAssumption DEF CallTypes, CallsInv, SlotInv, start, None
  <2>7. ToolInv(c)'
    <3>1. \A r \in tool'[c].got : Whole(r)'
      BY <1>1, <2>3
    <3> QED BY <3>1, <2>1, <2>3 DEF ToolInv, Underway
  <2>8. panel' = panel
    BY DEF start
  <2> QED BY <2>3, <2>5, <2>6, <2>7, <2>8, PanelStays, OneCall
<1> QED BY <1>2, <1>3 DEF start

LEMMA PollKeeps ==
  ASSUME WorkerInv, CallsInv, RunsStay, RunTypes', NEW c \in Tools, poll(c)
  PROVE  CallsInv'
<1>1. tool[c].pc = "reading" /\ panel' = panel /\ tool[c].run \in Created
  BY DEF poll, CallsInv, ToolInv
<1>2. tool[c].run \in 1..MaxRuns /\ tool[c].run \in Runs
  BY <1>1 DEF Created, Runs
<1>3. CASE Refuse(c) /\ slot' = freeSlotFor(tool[c].run)
  BY <1>1, <1>2, <1>3, Refusing
<1>4. CASE row[tool[c].run].status = "completed" /\ To(c, tool[c], "fetching") /\ slot' = freeSlotFor(tool[c].run)
  <2>1. Whole(tool[c].run)
    BY <1>2, <1>4 DEF WorkerInv, RunInv
  <2> QED BY <2>1, <1>1, <1>4, Holding
<1>5. CASE Cancel(c) /\ slot' = slot
  BY <1>1, <1>5, Holding DEF Cancel
<1>6. CASE To(c, tool[c], "reading") /\ slot' = slot
  BY <1>1, <1>6, Holding
<1> QED BY <1>3, <1>4, <1>5, <1>6 DEF poll

LEMMA TimedOutKeeps ==
  ASSUME CallsInv, RunsStay, RunTypes', NEW c \in Tools, TimedOut(c)
  PROVE  CallsInv'
<1>1. panel' = panel
  BY DEF TimedOut
<1>2. CASE tool[c].pc = "starting" /\ slot' = freeSlotFor(None) /\ Refuse(c)
  BY <1>1, <1>2, Refusing
<1>3. CASE tool[c].pc = "reading" /\ Cancel(c) /\ slot' = slot
  BY <1>1, <1>3, Holding DEF Cancel
<1>4. CASE tool[c].pc = "cancelling" /\ Refuse(c) /\ slot' = slot
  BY <1>1, <1>4, Refusing
<1> QED BY <1>2, <1>3, <1>4 DEF TimedOut

LEMMA FetchKeeps ==
  ASSUME CallsInv, RunsStay, RunTypes', NEW c \in Tools, fetch(c)
  PROVE  CallsInv'
<1>1. /\ tool[c] \in ToolType /\ tool \in [Tools -> ToolType]
      /\ \A r \in tool[c].got : r \in Runs /\ Whole(r)'
      /\ Created \subseteq Runs
  BY GotStays
<1>2. CASE Refuse(c)
  BY <1>2, Refusing DEF fetch
<1>3. CASE To(c, [[tool[c] EXCEPT !.got = @ \cup {tool[c].run}] EXCEPT !.run = None],
              IF tool[c].left = 0 THEN "done" ELSE "begin")
  <2>1. PICK k \in Runs : k = tool[c].run
    BY <1>1 DEF fetch, CallsInv, ToolInv
  <2>2. k \notin tool[c].got /\ tool[c].ran = Cardinality(tool[c].got) + 1 /\ Whole(k)'
    <3>1. Whole(k)
      BY <2>1 DEF fetch, CallsInv, ToolInv
    <3> QED BY <3>1, <2>1 DEF fetch, CallsInv, ToolInv, Underway, RunsStay
  <2>3. PICK G : G = tool[c].got \cup {k}
    OBVIOUS
  <2>4. G \in SUBSET Runs /\ G # {} /\ tool[c].ran = Cardinality(G) /\ \A r \in G : Whole(r)'
    <3>1. tool[c].got \in SUBSET Runs
      BY <1>1
    <3>2. IsFiniteSet(tool[c].got)
      BY <3>1, FewRuns
    <3>3. Cardinality(tool[c].got \cup {k}) = Cardinality(tool[c].got) + 1
      BY <3>2, <2>2, FS_AddElement
    <3> QED BY <3>1, <3>3, <1>1, <2>2, <2>3
  <2>5. PICK t \in ToolType : /\ t = [[tool[c] EXCEPT !.got = @ \cup {tool[c].run}] EXCEPT !.run = None]
                              /\ t.ran = tool[c].ran /\ t.got = G /\ t.left = tool[c].left
    <3>1. PICK u \in ToolType : u = tool[c]
      BY <1>1
    <3>2. PICK v : v = [pc |-> u.pc, left |-> u.left, ran |-> u.ran, run |-> u.run, age |-> u.age,
                        wait |-> u.wait, got |-> G]
      OBVIOUS
    <3>3. u = [pc |-> u.pc, left |-> u.left, ran |-> u.ran, run |-> u.run, age |-> u.age, wait |-> u.wait, got |-> u.got]
      BY DEF ToolType
    <3>4. u.run = k /\ u.got \cup {k} = G
      BY <2>1, <2>3, <3>1
    <3>5. v = [u EXCEPT !.got = @ \cup {u.run}]
      BY <3>2, <3>3, <3>4
    <3>6. [[u EXCEPT !.got = @ \cup {u.run}] EXCEPT !.run = None] = [v EXCEPT !.run = None]
      BY <3>5
    <3>7. [v EXCEPT !.run = None] = [pc |-> u.pc, left |-> u.left, ran |-> u.ran, run |-> None,
                                     age |-> u.age, wait |-> u.wait, got |-> G]
      BY <3>2
    <3>8. None \in 0..MaxRuns
      BY RunsAssumption DEF None
    <3> QED BY <3>1, <3>6, <3>7, <3>8, <2>4 DEF ToolType
  <2>6. PICK pc \in {"done", "begin"} : pc = (IF tool[c].left = 0 THEN "done" ELSE "begin")
    OBVIOUS
  <2>7. /\ tool' \in [Tools -> ToolType] /\ \A d \in Tools \ {c} : tool'[d] = tool[d]
        /\ tool'[c].pc = pc /\ tool'[c].left = tool[c].left
        /\ tool'[c].ran = tool[c].ran /\ tool'[c].got = G
    <3>1. pc \in ToolPcs /\ To(c, t, pc)
      BY <1>3, <2>5, <2>6 DEF ToolPcs
    <3> QED BY <3>1, <1>1, <2>5, ToFields
  <2>8. slot' = slot /\ panel' = panel
    BY DEF fetch
  <2>9. CallTypes' /\ SlotInv(c)'
    BY <2>6, <2>7, <2>8 DEF CallTypes, CallsInv, SlotInv
  <2>10. \A d \in Tools \ {c} : SlotInv(d)'
    BY <2>7, <2>8, SlotStays
  <2>11. ToolInv(c)'
    BY <2>4, <2>6, <2>7 DEF ToolInv, Underway
  <2> QED BY <2>7, <2>8, <2>9, <2>10, <2>11, PanelStays, OneCall
<1> QED BY <1>2, <1>3 DEF fetch

(* What the callers see when nothing of theirs moves.                      *)
LEMMA CallersStay ==
  ASSUME CallsInv, RunsStay, RunTypes', UNCHANGED <<tool, slot>>, panel' = panel \/ (PanelInv' /\ CallTypes')
  PROVE  CallsInv'
<1>1. \A c \in Tools : ToolInv(c)'
  BY CallStays
<1>2. \A c \in Tools : SlotInv(c)'
  BY DEF CallsInv, SlotInv
<1>3. CallTypes'
  BY DEF CallTypes, CallsInv
<1> QED BY <1>1, <1>2, <1>3, PanelStays DEF CallsInv

LEMMA CancelledKeeps ==
  ASSUME CallsInv, RunsStay, RunTypes', NEW c \in Tools, cancelled(c), panel' = panel
  PROVE  CallsInv'
<1>1. CASE tool[c].pc = "cancelling"
  <2>1. PICK k \in 1..MaxRuns : k = tool[c].run
    BY <1>1 DEF CallsInv, ToolInv, Created, Runs
  <2> QED BY <2>1, <1>1, Refusing DEF cancelled
<1>2. CASE tool[c].pc # "cancelling"
  BY <1>2, CallersStay DEF cancelled
<1> QED BY <1>1, <1>2

LEMMA AnsweredKeeps ==
  ASSUME CallsInv, RunsStay, RunTypes', NEW c \in Callers,
         \/ Refused(c)
         \/ \E r \in Created' \ Created : Accepted(c, r)
  PROVE  CallsInv'
<1>0. c \in Tools <=> c # "panel"
  BY RunsAssumption DEF Callers
<1>1. CASE UNCHANGED <<tool, slot, panel>>
  BY <1>1, CallersStay
<1>2. CASE c = "panel" /\ Refused(c)
  <2>1. panel \in [pc : PanelPcs, run : 0..MaxRuns, polls : Nat]
    BY DEF CallsInv, CallTypes
  <2>2. CASE Waiting(c)
    <3>1. UNCHANGED <<tool, slot>> /\ panel' = [panel EXCEPT !.pc = "error"]
      BY <1>2, <2>2 DEF Refused
    <3>2. PanelInv' /\ CallTypes'
      BY <2>1, <3>1 DEF PanelInv, CallTypes, CallsInv, PanelPcs
    <3> QED BY <3>1, <3>2, CallersStay
  <2> QED BY <2>2, <1>1, <1>2 DEF Refused
<1>3. CASE c # "panel" /\ Refused(c)
  <2>1. CASE Waiting(c)
    BY <1>0, <1>3, <2>1, Refusing DEF Refused, Waiting
  <2> QED BY <2>1, <1>1, <1>3 DEF Refused
<1>4. ASSUME NEW r \in Created' \ Created, Accepted(c, r), Waiting(c), c = "panel"
      PROVE  CallsInv'
  <2>1. panel \in [pc : PanelPcs, run : 0..MaxRuns, polls : Nat] /\ r \in 0..MaxRuns
    <3>1. r \in Runs
      BY <1>4 DEF Created
    <3> QED BY <3>1, RunsAssumption DEF CallsInv, CallTypes, Runs
  <2>2. UNCHANGED <<tool, slot>> /\ panel' = [panel EXCEPT !.pc = "waiting", !.run = r]
    BY <1>4 DEF Accepted
  <2>3. panel' \in [pc : PanelPcs, run : 0..MaxRuns, polls : Nat] /\ panel'.pc = "waiting" /\ panel'.run = r
    BY <2>1, <2>2 DEF PanelPcs
  <2>4. PanelInv' /\ CallTypes'
    BY <1>4, <2>2, <2>3 DEF PanelInv, CallTypes, CallsInv
  <2> QED BY <2>2, <2>4, CallersStay
<1>5. ASSUME NEW r \in Created' \ Created, Accepted(c, r), Waiting(c), c # "panel"
      PROVE  CallsInv'
  <2>1. /\ c \in Tools /\ tool[c].pc = "starting" /\ slot.held /\ slot.by = c /\ slot.run = None
        /\ tool[c].ran = Cardinality(tool[c].got) + 1
    BY <1>0, <1>5 DEF Waiting, CallsInv, SlotInv, ToolInv, Underway
  <2>2. /\ tool[c] \in ToolType /\ tool \in [Tools -> ToolType] /\ slot \in SlotType
        /\ \A q \in tool[c].got : q \in Runs /\ Whole(q)'
    BY <2>1, GotStays
  <2>3. slot' = [slot EXCEPT !.run = r] /\ panel' = panel /\ To(c, [tool[c] EXCEPT !.run = r, !.age = 0], "reading")
    BY <1>5, <2>1 DEF Accepted
  <2>4. r \in 0..MaxRuns /\ r \in Runs
    <3>1. r \in Runs
      BY <1>5 DEF Created
    <3> QED BY <3>1, RunsAssumption DEF Runs
  <2>5. PICK t \in ToolType : /\ t = [tool[c] EXCEPT !.run = r, !.age = 0]
                              /\ t.ran = tool[c].ran /\ t.got = tool[c].got /\ t.run = r
    <3>1. PICK u \in ToolType : u = tool[c]
      BY <2>2
    <3>2. PICK v : v = [pc |-> u.pc, left |-> u.left, ran |-> u.ran, run |-> r, age |-> u.age,
                        wait |-> u.wait, got |-> u.got]
      OBVIOUS
    <3>3. u = [pc |-> u.pc, left |-> u.left, ran |-> u.ran, run |-> u.run, age |-> u.age, wait |-> u.wait, got |-> u.got]
      BY DEF ToolType
    <3>4. v = [u EXCEPT !.run = r]
      BY <3>2, <3>3
    <3>5. [u EXCEPT !.run = r, !.age = 0] = [v EXCEPT !.age = 0]
      BY <3>4
    <3>6. [v EXCEPT !.age = 0] = [pc |-> u.pc, left |-> u.left, ran |-> u.ran, run |-> r,
                                  age |-> 0, wait |-> u.wait, got |-> u.got]
      BY <3>2
    <3>7. 0 \in 0..RunDeadline
      BY RunsAssumption
    <3> QED BY <3>1, <3>5, <3>6, <3>7, <2>4 DEF ToolType
  <2>6. /\ tool' \in [Tools -> ToolType] /\ \A d \in Tools \ {c} : tool'[d] = tool[d]
        /\ tool'[c].pc = "reading" /\ tool'[c].run = r
        /\ tool'[c].ran = tool[c].ran /\ tool'[c].got = tool[c].got
    <3>1. "reading" \in ToolPcs /\ To(c, t, "reading")
      BY <2>3, <2>5 DEF ToolPcs
    <3>2. /\ tool' \in [Tools -> ToolType] /\ \A d \in Tools \ {c} : tool'[d] = tool[d]
          /\ tool'[c].pc = "reading" /\ tool'[c].run = t.run
          /\ tool'[c].ran = t.ran /\ tool'[c].got = t.got
      BY <3>1, <2>1, <2>2, ToFields
    <3> QED BY <3>2, <2>5
  <2>7. slot' \in SlotType
    BY <2>2, <2>3, <2>4 DEF SlotType
  <2>8. CallTypes' /\ SlotInv(c)'
    BY <2>3, <2>6, <2>7 DEF CallTypes, CallsInv, SlotInv, SlotType
  <2>9. \A d \in Tools \ {c} : SlotInv(d)'
    <3> SUFFICES ASSUME NEW d \in Tools \ {c} PROVE SlotInv(d)'
      OBVIOUS
    <3>1. tool'[d] = tool[d] /\ c \in Tools \ {d} /\ tool[c].pc = "starting"
      BY <2>1, <2>6
    <3> QED BY <3>1, SlotStays
  <2>10. r \notin tool[c].got
    <3>1. \A q \in tool[c].got : Whole(q)
      BY <2>1 DEF CallsInv, ToolInv
    <3> QED BY <3>1, <2>4, <1>5 DEF Whole, Created
  <2>11. ToolInv(c)'
    BY <1>5, <2>1, <2>2, <2>6, <2>10 DEF ToolInv, Underway
  <2> QED BY <2>1, <2>3, <2>6, <2>8, <2>9, <2>11, PanelStays, OneCall
<1> QED BY <1>1, <1>2, <1>3, <1>4, <1>5 DEF Accepted

LEMMA PanelKeeps ==
  ASSUME WorkerInv, CallsInv, RunsStay, RunTypes', panel_run \/ panel_next
  PROVE  CallsInv'
<1>1. panel \in [pc : PanelPcs, run : 0..MaxRuns, polls : Nat] /\ UNCHANGED <<tool, slot, row, task>>
  BY DEF CallsInv, CallTypes, panel_run, panel_next
<1>2. ASSUME NEW pc \in {"starting", "error"}, panel' = [panel EXCEPT !.pc = pc]
      PROVE  PanelInv' /\ CallTypes'
  BY <1>1, <1>2 DEF PanelInv, CallTypes, CallsInv, PanelPcs
<1>3. ASSUME panel.pc = "waiting", panel' = [panel EXCEPT !.pc = "shown"],
             pushed[panel.run] = "completed" \/ row[panel.run].status = "completed"
      PROVE  PanelInv' /\ CallTypes'
  <2>1. PICK k \in Runs : k = panel.run /\ k \in Created
    BY <1>3 DEF CallsInv, PanelInv, Created
  <2>2. Whole(k)
    BY <1>3, <2>1 DEF WorkerInv, RunInv
  <2>3. panel'.pc = "shown" /\ panel'.run = k /\ panel' \in [pc : PanelPcs, run : 0..MaxRuns, polls : Nat]
    BY <1>1, <1>3, <2>1 DEF PanelPcs
  <2>4. Whole(k)' /\ k \in Created'
    BY <1>1, <2>1, <2>2 DEF Whole, Created
  <2> QED BY <1>1, <2>3, <2>4 DEF PanelInv, CallTypes, CallsInv, Whole
<1>4. ASSUME NEW pc \in {"waiting", "error"}, panel.pc = "waiting",
             panel' = [panel EXCEPT !.polls = @ + 1, !.pc = pc]
      PROVE  PanelInv' /\ CallTypes'
  <2>1. panel' \in [pc : PanelPcs, run : 0..MaxRuns, polls : Nat] /\ panel'.pc = pc /\ panel'.run = panel.run
    <3>1. PICK u \in [pc : PanelPcs, run : 0..MaxRuns, polls : Nat] : u = panel
      BY <1>1
    <3>2. u = [pc |-> u.pc, run |-> u.run, polls |-> u.polls]
      OBVIOUS
    <3>3. PICK n \in Nat : n = u.polls + 1
      OBVIOUS
    <3>4. PICK v : v = [pc |-> u.pc, run |-> u.run, polls |-> n]
      OBVIOUS
    <3>5. v = [u EXCEPT !.polls = n]
      BY <3>2, <3>4
    <3>6. panel' = [u EXCEPT !.polls = n, !.pc = pc]
      BY <3>1, <3>3, <1>4
    <3>7. panel' = [v EXCEPT !.pc = pc]
      BY <3>5, <3>6
    <3>8. panel' = [pc |-> pc, run |-> u.run, polls |-> n]
      BY <3>4, <3>7
    <3> QED BY <3>1, <3>8 DEF PanelPcs
  <2> QED BY <1>1, <1>4, <2>1 DEF PanelInv, CallTypes, CallsInv, Created
<1>5. PanelInv' /\ CallTypes'
  <2>1. CASE panel_run
    BY <2>1, <1>2 DEF panel_run
  <2>2. CASE panel_next /\ panel' = [panel EXCEPT !.pc = "error"]
    BY <2>2, <1>2
  <2>3. CASE panel_next /\ panel' = [panel EXCEPT !.pc = "shown"] /\ panel.pc = "waiting"
              /\ (pushed[panel.run] = "completed" \/ row[panel.run].status = "completed")
    BY <2>3, <1>3
  <2>4. CASE panel.pc = "waiting" /\ panel' = [panel EXCEPT !.polls = @ + 1,
                                         !.pc = IF panel.polls + 1 = MaxPolls THEN "error" ELSE "waiting"]
    <3>1. PICK pc \in {"waiting", "error"} : pc = IF panel.polls + 1 = MaxPolls THEN "error" ELSE "waiting"
      OBVIOUS
    <3>2. panel' = [panel EXCEPT !.polls = @ + 1, !.pc = pc]
      BY <2>4, <3>1
    <3> QED BY <2>4, <3>2, <1>4
  <2>5. panel.pc = "waiting" /\ answer(panel.run) = "building" => row[panel.run].status = "completed"
    <3>1. panel.pc = "waiting" => panel.run \in Runs
      BY DEF CallsInv, PanelInv, Created
    <3>2. \A r \in Runs : row[r].status # "building"
      <4>1. row \in [Runs -> [status : Statuses, stored : 0..Intervals]]
        BY DEF WorkerInv, RunTypes
      <4>2. "building" \notin Statuses
        BY DEF Statuses, Terminal
      <4> QED BY <4>1, <4>2
    <3> QED BY <3>1, <3>2 DEF answer
  <2> QED BY <2>1, <2>2, <2>3, <2>4, <2>5 DEF panel_next
<1> QED BY <1>1, <1>5, CallersStay

LEMMA TickKeeps ==
  ASSUME CallsInv, RunsStay, RunTypes', Tick
  PROVE  CallsInv'
<1>1. tool \in [Tools -> ToolType] /\ slot \in SlotType /\ panel' = panel /\ UNCHANGED <<row, task>>
  BY DEF Tick, CallsInv, CallTypes, SlotType
<1>2. /\ slot' \in SlotType /\ slot'.held = slot.held /\ slot'.run = slot.run /\ slot'.by = slot.by
      /\ slot'.age \in {slot.age, slot.age + 1}
  <2>1. slot.held => AtMost(slot.age, SlotLease) \in 0..SlotLease /\ AtMost(slot.age, SlotLease) \in {slot.age, slot.age + 1}
    BY <1>1, RunsAssumption DEF AtMost, SlotType
  <2>2. slot' = IF slot.held THEN [slot EXCEPT !.age = AtMost(slot.age, SlotLease)] ELSE slot
    BY DEF Tick
  <2>3. CASE slot.held
    <3>1. PICK a : a = AtMost(slot.age, SlotLease)
      OBVIOUS
    <3>2. slot' = [slot EXCEPT !.age = a]
      BY <2>2, <2>3, <3>1
    <3> QED BY <3>1, <3>2, <2>1, <2>3, <1>1 DEF SlotType
  <2>4. CASE ~slot.held
    BY <2>2, <2>4, <1>1
  <2> QED BY <2>3, <2>4
<1>3. ASSUME NEW c \in Tools
      PROVE  /\ tool'[c] \in ToolType /\ tool'[c].pc = tool[c].pc /\ tool'[c].left = tool[c].left
             /\ tool'[c].ran = tool[c].ran /\ tool'[c].run = tool[c].run /\ tool'[c].got = tool[c].got
             /\ tool[c].pc = "starting" => tool'[c].wait = tool[c].wait + 1
  <2>1. PICK u \in ToolType : u = tool[c]
    BY <1>1
  <2>2. PICK w : w = IF u.pc \in {"starting", "reading", "cancelling"} THEN u.wait + 1 ELSE u.wait
    OBVIOUS
  <2>3. PICK a : a = IF u.pc \in {"reading", "cancelling"} THEN AtMost(u.age, RunDeadline) ELSE u.age
    OBVIOUS
  <2>4. w \in 0..RequestTimeout /\ a \in 0..RunDeadline
    <3>1. u.wait < RequestTimeout /\ u.wait \in 0..RequestTimeout /\ u.age \in 0..RunDeadline
      BY <2>1 DEF Tick, MayTick, ToolType
    <3> QED BY <3>1, <2>2, <2>3, RunsAssumption DEF AtMost
  <2>5. tool'[c] = [tool[c] EXCEPT
                      !.wait = IF tool[c].pc \in {"starting", "reading", "cancelling"} THEN @ + 1 ELSE @,
                      !.age = IF tool[c].pc \in {"reading", "cancelling"} THEN AtMost(@, RunDeadline) ELSE @]
    BY DEF Tick
  <2>6. u = [pc |-> u.pc, left |-> u.left, ran |-> u.ran, run |-> u.run, age |-> u.age, wait |-> u.wait, got |-> u.got]
    BY DEF ToolType
  <2>7. PICK v : v = [pc |-> u.pc, left |-> u.left, ran |-> u.ran, run |-> u.run, age |-> u.age, wait |-> w, got |-> u.got]
    OBVIOUS
  <2>8. v = [u EXCEPT !.wait = w]
    BY <2>6, <2>7
  <2>9. tool'[c] = [v EXCEPT !.age = a]
    <3>1. tool'[c] = [u EXCEPT !.wait = w, !.age = a]
      BY <2>1, <2>2, <2>3, <2>5
    <3> QED BY <3>1, <2>8
  <2>10. tool'[c] = [pc |-> u.pc, left |-> u.left, ran |-> u.ran, run |-> u.run, age |-> a, wait |-> w, got |-> u.got]
    BY <2>7, <2>9
  <2> QED BY <2>1, <2>2, <2>4, <2>10 DEF ToolType
<1>4. tool' \in [Tools -> ToolType]
  <2>1. DOMAIN tool' = Tools /\ tool' = [c \in Tools |-> tool'[c]]
    BY DEF Tick
  <2> QED BY <2>1, <1>3
<1>5. CallTypes'
  BY <1>1, <1>2, <1>4 DEF CallTypes, CallsInv, SlotType
<1>6. ASSUME NEW c \in Tools PROVE ToolInv(c)' /\ SlotInv(c)'
  <2>1. ToolInv(c) /\ SlotInv(c)
    BY DEF CallsInv
  <2>2. ToolInv(c)'
    BY <2>1, <1>1, <1>3 DEF ToolInv, Underway, Created, Whole
  <2>3. SlotInv(c)'
    <3>1. tool[c].wait \in Nat /\ slot.age \in Nat
      BY <1>1, RunsAssumption DEF ToolType, SlotType
    <3> QED BY <2>1, <3>1, <1>2, <1>3 DEF SlotInv
  <2> QED BY <2>2, <2>3
<1> QED BY <1>1, <1>5, <1>6, PanelStays DEF CallsInv

LEMMA CallStep == SimInv /\ [Next]_vars => CallsInv'
<1> SUFFICES ASSUME SimInv, [Next]_vars PROVE CallsInv'
  OBVIOUS
<1>1. WorkerInv /\ CallsInv /\ RunsStay /\ RunTypes'
  BY WorkerStep DEF SimInv, WorkerInv
<1>2. CASE UNCHANGED <<tool, slot, panel>>
  BY <1>1, <1>2, CallersStay
<1>3. ASSUME NEW c \in Callers, simulate(c) PROVE CallsInv'
  <2>1. CASE Refused(c)
    BY <1>1, <2>1, AnsweredKeeps
  <2>2. ASSUME NEW r \in Runs \ Created, create_run(r), Accepted(c, r) PROVE CallsInv'
    <3>1. r \in Created' \ Created
      BY <1>1, <2>2 DEF create_run, Created, WorkerInv, RunTypes
    <3> QED BY <3>1, <2>2, <1>1, AnsweredKeeps
  <2> QED BY <1>3, <2>1, <2>2 DEF simulate
<1>4. ASSUME NEW c \in Tools, NEW r \in Runs, mark_cancelled(c, r) \/ flag_cancelled(c, r) PROVE CallsInv'
  BY <1>1, <1>2, <1>4, CancelledKeeps DEF mark_cancelled, flag_cancelled
<1>5. CASE Serve
  BY <1>3, <1>4, <1>5 DEF Serve
<1>6. ASSUME NEW c \in Tools, ToolStep(c) PROVE CallsInv'
  BY <1>1, <1>6, StartKeeps, PollKeeps, FetchKeeps, TimedOutKeeps DEF ToolStep
<1>7. CASE panel_run \/ panel_next
  BY <1>1, <1>7, PanelKeeps
<1>8. CASE Tick
  BY <1>1, <1>8, TickKeeps
<1>9. (\E r \in Runs : TaskStep(r)) \/ Crash \/ Restart \/ AnotherStarts \/ UNCHANGED vars
        => UNCHANGED <<tool, slot, panel>>
  BY DEF TaskStep, begin_task, engine_step, last_write, complete_task, end_task, Crash, Restart, AnotherStarts, vars
<1> QED BY <1>2, <1>5, <1>6, <1>7, <1>8, <1>9 DEF Next

LEMMA SimInit == Init => SimInv
<1> SUFFICES ASSUME Init PROVE SimInv
  OBVIOUS
<1>1. /\ row = [r \in Runs |-> [status |-> "none", stored |-> 0]] /\ task = [r \in Runs |-> NoTask]
      /\ worker = [up |-> TRUE, permits |-> 0, cancelled |-> {}, flagging |-> {}]
      /\ pushed = [r \in Runs |-> "none"]
  BY DEF Init
<1>2. RunTypes
  BY <1>1, RunsAssumption DEF RunTypes, NoTask, Statuses, Stages
<1>3. \A r \in Runs : RunInv(r) /\ ~Live(r)
  BY <1>1 DEF RunInv, Live, NoTask
<1>4. PermitsAreTasks
  <2>1. {r \in Runs : Live(r)} = {}
    BY <1>3
  <2> QED BY <1>1, <2>1, FS_EmptySet DEF PermitsAreTasks
<1>5. NewTool \in ToolType /\ [NewTool EXCEPT !.pc = "done"] \in ToolType
  BY RunsAssumption DEF NewTool, ToolType, ToolPcs, None
<1>6. CallTypes
  BY <1>5, RunsAssumption DEF Init, CallTypes, NoSlot, None, PanelPcs
<1>7. ASSUME NEW c \in Tools PROVE ToolInv(c) /\ SlotInv(c)
  <2>1. tool[c].got = {} /\ tool[c].pc \in {"begin", "done"} /\ tool[c].left = Specs /\ tool[c].ran = 0
    BY DEF Init, NewTool
  <2>2. Cardinality({}) = 0
    BY FS_EmptySet
  <2> QED BY <2>1, <2>2, RunsAssumption DEF ToolInv, SlotInv, Underway
<1>8. PanelInv
  BY DEF Init, PanelInv
<1> QED BY <1>2, <1>3, <1>4, <1>6, <1>7, <1>8 DEF SimInv, WorkerInv, CallsInv

LEMMA SimSound == SimInv => WorkerIsSound
<1> SUFFICES ASSUME SimInv PROVE WorkerIsSound
  OBVIOUS
<1>1. RunTypes /\ CallTypes
  BY DEF SimInv, WorkerInv, CallsInv
<1>2. TypeOK
  BY <1>1 DEF TypeOK, RunTypes, CallTypes, ToolType, Statuses, Stages
<1>3. CompletedIsWhole
  BY DEF CompletedIsWhole, SimInv, WorkerInv, CallsInv, RunInv, PanelInv, Whole
<1>4. SlotIsCallers
  BY DEF SlotIsCallers, SimInv, CallsInv, SlotInv
<1>5. EvidenceIsWhole
  <2> SUFFICES ASSUME NEW c \in Tools, tool[c].pc = "done", tool[c].got # {}
               PROVE  /\ tool[c].left = 0 /\ Cardinality(tool[c].got) = tool[c].ran
                      /\ \A r \in tool[c].got : row[r].stored = Intervals
    BY DEF EvidenceIsWhole
  <2>1. ToolInv(c)
    BY DEF SimInv, CallsInv
  <2> QED BY <2>1 DEF ToolInv, Whole
<1> QED BY <1>2, <1>3, <1>4, <1>5 DEF WorkerIsSound, SimInv, WorkerInv

(* Whatever is lost, late, cancelled, crashed or reaped: a permit is held  *)
(* exactly while a task runs, a completed run is whole, the slot a waiting *)
(* call holds is its own, and a call that ends with evidence has every run *)
(* it began (main.py, simulate and _execute; simulate.ts, execute).        *)
THEOREM WorkerSound == Spec => []WorkerIsSound
<1>1. SimInv /\ [Next]_vars => SimInv'
  BY WorkerStep, CallStep DEF SimInv
<1> QED BY <1>1, SimInit, SimSound, PTL DEF Spec

-----------------------------------------------------------------------------
(* The meter of the simulator.  What is stored, on its way to be stored,   *)
(* last reported and counted are each no less than the one before, as long *)
(* as nothing falsified them since the counter's own value was stored;     *)
(* what is on its way was the last reported; a process that reported counts, and one  *)
(* that is down has nothing in memory.                                     *)
Amounts == Nat \cup {Nothing}
UpTo(a, b) == a # Nothing /\ b # Nothing => a <= b
FeedTypes ==
    /\ counter \in Amounts /\ unsaved \in Amounts /\ saved \in Amounts
    /\ lastValue["meter"] \in Amounts
    /\ injected \in [Points -> FaultKinds \cup {"none"}]
    /\ registered \in BOOLEAN /\ distorted \in BOOLEAN
FeedInv ==
    /\ FeedTypes
    /\ unsaved # Nothing => unsaved = lastValue["meter"]
    /\ lastValue["meter"] # Nothing => counter # Nothing
    /\ proc = "down" => counter = Nothing
    /\ ~distorted => /\ UpTo(saved, unsaved) /\ UpTo(saved, lastValue["meter"]) /\ UpTo(saved, counter)
                     /\ UpTo(unsaved, lastValue["meter"]) /\ UpTo(lastValue["meter"], counter)

LEMMA TickKeepsMeter ==
    ASSUME FeedInv, NEW due \in SUBSET Points, FeedTick(due)
    PROVE  FeedInv' /\ (saved' = saved)
PROOF
<1> DEFINE out == Emitting(due)
<1> PICK size \in Sizes :
      /\ proc = "up" /\ UNCHANGED <<saved, injected, registered, proc>>
      /\ "meter" \in out => ApplyFault("meter", Generate("meter"), size) >= 0
      /\ lastValue'["meter"] = IF "meter" \in out THEN ApplyFault("meter", Generate("meter"), size) ELSE lastValue["meter"]
      /\ counter' = IF "meter" \in out THEN Generate("meter")
                    ELSE IF registered /\ "meter" \in due THEN Total ELSE counter
      /\ unsaved' = IF "meter" \in out THEN lastValue'["meter"] ELSE unsaved
      /\ distorted' = (distorted \/ ("meter" \in out /\ injected["meter"] \in Falsifying)
                                 \/ (registered /\ "meter" \in due /\ counter = Nothing /\ saved # Nothing))
  BY DEF FeedTick, Points
<1> DEFINE value == ApplyFault("meter", Generate("meter"), size)
<1>1. Total \in Nat /\ (counter # Nothing => Total = counter) /\ Generate("meter") \in Nat /\ Total <= Generate("meter")
  BY FeedAssumption DEF FeedInv, FeedTypes, Amounts, Nothing, Total, Generate
<1>2. /\ saved' = saved /\ injected' = injected /\ registered' = registered /\ proc' = proc /\ proc = "up"
      /\ lastValue'["meter"] = IF "meter" \in out THEN value ELSE lastValue["meter"]
      /\ counter' = IF "meter" \in out THEN Generate("meter")
                    ELSE IF registered /\ "meter" \in due THEN Total ELSE counter
      /\ unsaved' = IF "meter" \in out THEN lastValue'["meter"] ELSE unsaved
      /\ distorted' = (distorted \/ ("meter" \in out /\ injected["meter"] \in Falsifying)
                                 \/ (registered /\ "meter" \in due /\ counter = Nothing /\ saved # Nothing))
  OBVIOUS
<1>3. "meter" \in out => value \in Nat
  <2>1. size \in Int
    BY FeedAssumption
  <2>2. value \in Int
    BY <1>1, <2>1 DEF ApplyFault, FeedInv, FeedTypes, Amounts, Nothing
  <2> QED BY <2>2
<1>4. injected["meter"] \notin Falsifying =>
         value = IF injected["meter"] = "flatline" /\ lastValue["meter"] # Nothing
                 THEN lastValue["meter"] ELSE Generate("meter")
  BY DEF ApplyFault, FeedInv, FeedTypes, Points, Falsifying
<1>5. "meter" \in out => registered /\ "meter" \in due
  BY DEF Emitting
<1> HIDE DEF out, value
<1>6. CASE "meter" \in out
  <2>1. counter' = Generate("meter") /\ unsaved' = value /\ lastValue'["meter"] = value
    BY <1>2, <1>6
  <2>2. ~distorted' => injected["meter"] \notin Falsifying /\ ~distorted /\ (counter # Nothing \/ saved = Nothing)
    BY <1>2, <1>5, <1>6
  <2>3. FeedTypes'
    <3>1. distorted' \in BOOLEAN
      BY <1>2
    <3> QED BY <1>1, <1>2, <1>3, <1>6, <2>1, <3>1 DEF FeedTypes, FeedInv, Amounts
  <2>4. value # Nothing /\ Generate("meter") # Nothing
    BY <1>1, <1>3, <1>6 DEF Nothing
  <2>5. ASSUME ~distorted' PROVE UpTo(saved, value) /\ UpTo(saved, Generate("meter")) /\ UpTo(value, Generate("meter"))
    <3>1. UpTo(saved, lastValue["meter"]) /\ UpTo(saved, counter) /\ UpTo(lastValue["meter"], counter)
          /\ (lastValue["meter"] # Nothing => counter # Nothing)
      BY <2>2, <2>5 DEF FeedInv
    <3>2. saved \in Amounts /\ lastValue["meter"] \in Amounts /\ counter \in Amounts
      BY DEF FeedInv, FeedTypes
    <3>3. UpTo(saved, Generate("meter")) /\ UpTo(lastValue["meter"], Generate("meter"))
      BY <3>1, <3>2, <1>1, <2>2, <2>5 DEF UpTo, Amounts, Nothing
    <3>4. value = lastValue["meter"] \/ value = Generate("meter")
      BY <1>4, <2>2, <2>5
    <3>5. UpTo(Generate("meter"), Generate("meter"))
      BY <1>1 DEF UpTo
    <3> QED BY <3>1, <3>3, <3>4, <3>5
  <2>6. UpTo(value, value)
    BY <1>3, <1>6 DEF UpTo
  <2> QED BY <1>2, <2>1, <2>3, <2>4, <2>5, <2>6 DEF FeedInv
<1>7. CASE "meter" \notin out
  <2>1. unsaved' = unsaved /\ lastValue'["meter"] = lastValue["meter"]
        /\ (counter' = counter \/ (counter' = Total /\ registered /\ "meter" \in due))
    BY <1>2, <1>7
  <2>2. counter' \in Amounts /\ (counter # Nothing => counter' = counter)
    BY <2>1, <1>1 DEF FeedInv, FeedTypes, Amounts
  <2>3. FeedTypes'
    <3>1. distorted' \in BOOLEAN
      BY <1>2
    <3> QED BY <1>2, <2>1, <2>2, <3>1 DEF FeedTypes, FeedInv
  <2>4. ~distorted' => ~distorted /\ (counter' = counter \/ (counter # Nothing \/ saved = Nothing))
    BY <1>2, <2>1
  <2>5. ASSUME ~distorted' PROVE UpTo(saved, counter') /\ UpTo(lastValue["meter"], counter')
    BY <2>2, <2>4, <2>5 DEF FeedInv, UpTo
  <2> QED BY <1>2, <2>1, <2>2, <2>3, <2>4, <2>5 DEF FeedInv
<1> QED BY <1>2, <1>6, <1>7

LEMMA FeedStep ==
    ASSUME FeedInv, [FeedNext]_feedvars
    PROVE  FeedInv' /\ (saved' # saved /\ saved # Nothing /\ ~distorted => saved' >= saved)
PROOF
<1>1. CASE UNCHANGED feedvars
  BY <1>1 DEF feedvars, FeedInv, FeedTypes, UpTo
<1>2. CASE Start
  <2>1. counter' \in Amounts /\ UpTo(saved, counter') /\ counter = Nothing /\ proc' = "starting"
    BY <1>2, FeedAssumption DEF Start, ResumeCounters, FeedInv, FeedTypes, Amounts, UpTo, Nothing
  <2>2. UNCHANGED <<lastValue, injected, registered, unsaved, saved, distorted>>
    BY <1>2 DEF Start
  <2>3. lastValue["meter"] = Nothing /\ unsaved = Nothing
    BY <2>1 DEF FeedInv
  <2>4. FeedTypes'
    BY <2>1, <2>2 DEF FeedInv, FeedTypes
  <2> QED BY <2>1, <2>2, <2>3, <2>4 DEF FeedInv, UpTo
<1>3. CASE ProcessDies
  <2>1. /\ proc' = "down" /\ counter' = Nothing /\ unsaved' = Nothing /\ lastValue'["meter"] = Nothing
        /\ injected' = NoFaults /\ UNCHANGED <<registered, saved, distorted>>
    BY <1>3 DEF ProcessDies, Points
  <2>2. FeedTypes'
    BY <2>1 DEF FeedInv, FeedTypes, NoFaults, Amounts
  <2> QED BY <2>1, <2>2 DEF FeedInv, UpTo
<1>4. CASE FeedFlush
  <2>1. /\ unsaved # Nothing /\ saved' = unsaved /\ unsaved' = Nothing
        /\ UNCHANGED <<proc, counter, lastValue, injected, registered>>
        /\ distorted' \in BOOLEAN /\ (~distorted' => ~distorted \/ unsaved = counter)
    BY <1>4 DEF FeedFlush, FeedInv, FeedTypes
  <2>2. FeedTypes'
    BY <2>1 DEF FeedInv, FeedTypes, Amounts
  <2>3. saved # Nothing /\ ~distorted => saved' >= saved
    BY <2>1 DEF FeedInv, FeedTypes, UpTo, Amounts, Nothing
  <2>4. ASSUME ~distorted' PROVE UpTo(unsaved, counter) /\ UpTo(unsaved, lastValue["meter"]) /\ UpTo(lastValue["meter"], counter)
    <3>1. CASE ~distorted
      BY <2>1, <3>1 DEF FeedInv, FeedTypes, UpTo, Amounts, Nothing
    <3>2. CASE distorted
      <4>1. unsaved = counter /\ unsaved = lastValue["meter"] /\ unsaved \in Nat
        BY <2>1, <2>4, <3>2 DEF FeedInv, FeedTypes, Amounts
      <4> QED BY <4>1 DEF UpTo
    <3> QED BY <3>1, <3>2 DEF FeedInv, FeedTypes
  <2> QED BY <2>1, <2>2, <2>3, <2>4 DEF FeedInv, UpTo
<1>5. ASSUME NEW due \in SUBSET Points, FeedTick(due) PROVE FeedInv' /\ saved' = saved
  BY <1>5, TickKeepsMeter
<1>6. ASSUME UNCHANGED <<counter, lastValue, unsaved, saved, distorted>>, proc' # "down" \/ proc' = proc,
             injected' \in [Points -> FaultKinds \cup {"none"}], registered' \in BOOLEAN
      PROVE  FeedInv' /\ saved' = saved
  BY <1>6 DEF FeedInv, FeedTypes, UpTo
<1>7. CASE PollTimer \/ QueueCommand \/ RegistryChanges
           \/ (\E i \in PollSlots : PollStep(i) \/ PollFails(i))
           \/ (\E s \in Points : ClearFault(s) \/ \E k \in FaultKinds : InjectFault(s, k))
           \/ (\E c \in 1..MaxCommands : CommandMoves(c))
  <2>1. UNCHANGED <<counter, lastValue, unsaved, saved, distorted>>
    BY <1>7 DEF PollTimer, QueueCommand, RegistryChanges, PollStep, ClaimForGateway, ReportResult, ActiveOverrides,
                SetOverrides, PollFails, ClearFault, InjectFault, CommandMoves
  <2>2. proc' = "up" \/ proc' = proc
    BY <1>7 DEF PollTimer, QueueCommand, RegistryChanges, PollStep, ClaimForGateway, ReportResult, ActiveOverrides,
                SetOverrides, PollFails, ClearFault, InjectFault, CommandMoves
  <2>3. registered' \in BOOLEAN
    BY <1>7 DEF PollTimer, QueueCommand, RegistryChanges, PollStep, ClaimForGateway, ReportResult, ActiveOverrides,
                SetOverrides, PollFails, ClearFault, InjectFault, CommandMoves, FeedInv, FeedTypes
  <2>4. injected' \in [Points -> FaultKinds \cup {"none"}]
    <3>1. CASE injected' = injected
      BY <3>1 DEF FeedInv, FeedTypes
    <3>2. ASSUME NEW s \in Points, NEW k \in FaultKinds \cup {"none"},
                 injected' = [injected EXCEPT ![s] = k]
          PROVE  injected' \in [Points -> FaultKinds \cup {"none"}]
      BY <3>2 DEF FeedInv, FeedTypes
    <3> QED BY <1>7, <3>1, <3>2 DEF PollTimer, QueueCommand, RegistryChanges, PollStep, ClaimForGateway, ReportResult,
                ActiveOverrides, SetOverrides, PollFails, ClearFault, InjectFault, CommandMoves
  <2> QED BY <1>6, <2>1, <2>2, <2>3, <2>4
<1> QED BY <1>1, <1>2, <1>3, <1>4, <1>5, <1>7 DEF FeedNext

(* The stored readings of the simulated meter never go down, through any   *)
(* crashes that lose readings and restarts that resume the counter, except *)
(* from a drift or a spike on the meter, or from the seeding of a counter  *)
(* whose meter came into the registry late, until the counter's own value  *)
(* is stored again (simulator/index.ts).                                   *)
THEOREM MeterKept == FeedSpec => MeterNeverRewinds
PROOF
<1>1. FeedInit => FeedInv
  BY DEF FeedInit, FeedInv, FeedTypes, Amounts, NoFaults, Points, UpTo
<1>2. FeedInv /\ [FeedNext]_feedvars => FeedInv' /\ [saved' # saved /\ saved # Nothing /\ ~distorted => saved' >= saved]_feedvars
  BY FeedStep
<1> QED BY <1>1, <1>2, PTL DEF FeedSpec, MeterNeverRewinds
=============================================================================
