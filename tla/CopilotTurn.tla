---------------------------- MODULE CopilotTurn ----------------------------
(* One conversation thread of the copilot: the graph a message runs through    *)
(* (intake, orient, planner, parallel specialists, join, compose, verify,      *)
(* control, plan_check, confirm, apply, finish), the registry that bounds what *)
(* it may spend, the ledger that holds an approval, and the session that runs  *)
(* a message or a decision under the thread's lock.  A step of the model is    *)
(* what the code does between two awaits.  Time is counted in ticks.           *)
EXTENDS Integers, FiniteSets

CONSTANTS
  Decisions,            \* planner decisions the model may return
  Viewers,              \* values of mayCommand the route passes on
  SimAvailable,         \* whether a scenario runner is configured
  Failures,             \* whether a run may fail outside its nodes
  MaxWaves, MaxTasksPerWave, MaxTasksPerRequest, MaxSimulateTasks,
  MaxConcurrency, MaxPlannerRepairs, MaxModelCalls, MaxSpecialistTurns,
  MaxEvidence, MaxDrafts, DeadlineS, PlanTtlS, GrantTtlS,
  Commands,             \* how many commands a plan holds
  MaxRequests, MaxClock \* bounds of the model, not of the code

\* The limits are natural numbers (limits.ts); a decision has the shape its
\* schema lets through.
ASSUME CopilotAssumption ==
  /\ Viewers \subseteq BOOLEAN
  /\ {MaxWaves, MaxTasksPerWave, MaxTasksPerRequest, MaxModelCalls, MaxSpecialistTurns,
      MaxEvidence, DeadlineS, PlanTtlS, GrantTtlS, Commands, MaxClock} \subseteq Nat
  /\ MaxDrafts \in Nat \ {0}
  /\ \A d \in Decisions :
       /\ d.next \in {"dispatch", "control", "compose", "finish"} /\ d.tasks \in Nat
       /\ {d.control, d.known, d.talks, d.allowControl, d.allowSimulation} \subseteq BOOLEAN

VARIABLES
  node,    \* where the run is, or where the thread rests
  clock,
  seq,     \* requests so far
  inbox,   \* mayCommand of the message waiting for intake
  req,     \* the request's channels
  reg,     \* the registry's entry for the thread
  work,    \* the specialists of the running wave, or the controller
  plan,    \* pendingPlan
  ledger,  \* the approval ledger
  decision,
  hist     \* what the outside saw: calls made, plans approved, commands issued

vars == <<node, clock, seq, inbox, req, reg, work, plan, ledger, decision, hist>>

K == 0                       \* the controller's task id; the others are 1, 2, ...
NoEntry == [open |-> FALSE, startedAt |-> 0, calls |-> 0, stop |-> FALSE, evidence |-> 0]
NoPlan == [id |-> 0, expires |-> 0]
NoGrant == [id |-> 0, at |-> 0]
NoScope == [set |-> FALSE, allowControl |-> FALSE, allowSimulation |-> FALSE]
Resting == {"idle", "paused", "dead"}
Running == ~ (node \in Resting)

----------------------------------------------------------------------------
(* The registry. *)

interrupted ==
  IF ~reg.open \/ reg.stop THEN "stopped"
  ELSE IF clock >= reg.startedAt + DeadlineS THEN "deadline" ELSE "none"

refusal ==
  IF interrupted # "none" THEN interrupted
  ELSE IF reg.calls >= MaxModelCalls THEN "budget" ELSE "none"

\* registry.call up to its first await: the check and the increment together
Spend ==
  /\ reg' = [reg EXCEPT !.calls = @ + 1]
  /\ hist' = [hist EXCEPT !.calls = @ + 1]

\* The reply of a call in flight: Stop aborts it at once, the deadline's timer
\* races the reply.
OnlyStopAborts == interrupted = "stopped"

Aborted == interrupted # "none"
Answered == interrupted # "stopped"

sweptAt == reg.startedAt + DeadlineS + PlanTtlS

----------------------------------------------------------------------------
(* The request's channels. *)

FreshRequest(may, said) ==
  [may |-> may, sim |-> FALSE, scope |-> NoScope, first |-> NoScope, attempt |-> 0,
   waves |-> 0, tasks |-> 0, sims |-> 0, findings |-> <<>>, controlTask |-> "none",
   mode |-> "propose", proposal |-> "none", answer |-> "none", violations |-> FALSE,
   drafts |-> 0, message |-> FALSE, outcomes |-> FALSE, notices |-> said]

\* mergeRecord: one more finding or outcome under its own key
Merge(f, t, s) == [x \in DOMAIN f \cup {t} |-> IF x = t THEN s ELSE f[x]]

hasFindings(r) == DOMAIN r.findings # {}
Onward(r) == IF hasFindings(r) THEN "compose" ELSE "finish"
Notify(r, n) == [r EXCEPT !.notices = @ \cup n]
mayControl(r) == r.scope.allowControl /\ r.may

\* scopeChannel: the first write wins
WriteScope(r, s) == IF r.scope.set THEN r ELSE [r EXCEPT !.scope = s]

NewWork(ids) == [t \in ids |-> [phase |-> "queued", turns |-> 0, evidence |-> 0, draft |-> "none"]]

\* afterPlanner and the edges out of planner: r are the channels after planner's write
Route(r, next, ids) ==
  LET to == IF next = "dispatch" /\ ids # {} THEN "wave"
            ELSE IF next = "control" /\ ~hasFindings(r) /\ r.controlTask = "pending" /\ mayControl(r)
                 THEN "control"
            ELSE IF next \in {"compose", "finish"} THEN next
            ELSE Onward(r)
  IN /\ node' = to
     /\ req' = r
     /\ work' = IF to = "wave" THEN NewWork(ids) ELSE IF to = "control" THEN NewWork({K}) ELSE <<>>

MoveOn(n) == Route(Notify(req, n), Onward(req), {})

----------------------------------------------------------------------------
(* session.ts, and the nodes that open a request. *)

Message(may) ==
  /\ ~Running
  /\ seq < MaxRequests /\ clock + DeadlineS < MaxClock
  /\ node' = "intake" /\ inbox' = may /\ seq' = seq + 1
  /\ UNCHANGED <<clock, req, reg, work, plan, ledger, decision, hist>>

intake ==
  /\ node = "intake"
  /\ ledger' = [ledger EXCEPT !.grant = NoGrant]
  /\ reg' = [NoEntry EXCEPT !.open = TRUE, !.startedAt = clock]
  /\ req' = FreshRequest(inbox, IF plan = NoPlan THEN {} ELSE {"plan_superseded"})
  /\ plan' = NoPlan /\ decision' = "none" /\ work' = <<>>
  /\ hist' = [hist EXCEPT !.calls = 0]
  /\ node' = "orient"
  /\ UNCHANGED <<clock, seq, inbox>>

\* Both reads settle.  The directory is needed; an envelope that cannot be read
\* only adds its own notice, which is left out.
orient ==
  /\ node = "orient"
  /\ \/ req' = Notify(req, {"context_unavailable"}) /\ node' = "finish"
     \/ req' = [req EXCEPT !.sim = SimAvailable] /\ node' = "planner"
  /\ UNCHANGED <<clock, seq, inbox, reg, work, plan, ledger, decision, hist>>

----------------------------------------------------------------------------
(* planner *)

\* What validatePlan refuses.  d.known: every zone and evidence id exists;
\* d.talks: the message and the intent belong to next = finish.
validatePlan(d, r, scope) ==
  /\ IF d.next = "dispatch" THEN d.tasks \in 1..MaxTasksPerWave ELSE d.tasks = 0
  /\ r.tasks + d.tasks <= MaxTasksPerRequest
  /\ d.sims > 0 => /\ r.sim /\ scope.allowSimulation
                   /\ r.sims + d.sims <= MaxSimulateTasks
  /\ d.known
  /\ d.control /\ scope.allowControl /\ r.may => r.controlTask = "none"
  /\ d.next = "control" => d.control \/ r.controlTask # "none"
  /\ (d.next = "finish") = d.talks

\* accept: the channels a valid decision writes, and where it goes
accept(r, d, clean) ==
  LET r1 == WriteScope(r, r.first)
      drop == d.control /\ ~mayControl(r1)
      r2 == IF d.control /\ ~drop
            THEN [r1 EXCEPT !.controlTask = "pending", !.mode = d.mode] ELSE r1
      next == IF drop /\ d.next = "control" /\ r.controlTask = "none" THEN Onward(r) ELSE d.next
      said == (IF drop THEN {"control_not_permitted"} ELSE {})
              \cup (IF d.talks /\ ~clean THEN {"message_unverified"} ELSE {})
      ids == IF next = "dispatch" THEN r.tasks + 1 .. r.tasks + d.tasks ELSE {}
      r3 == [Notify(r2, said) EXCEPT !.message = d.talks /\ clean,
               !.tasks = @ + Cardinality(ids), !.sims = @ + d.sims,
               !.waves = IF next = "dispatch" THEN @ + 1 ELSE @, !.attempt = 0]
  IN Route(r3, next, ids)

\* the operator's words go to the controller, unless the first decision said no
FallbackControls(r) ==
  /\ r.may /\ r.waves = 0 /\ ~hasFindings(r) /\ r.controlTask = "none"
  /\ IF r.scope.set THEN r.scope.allowControl ELSE r.first.set => r.first.allowControl

fallback(r) ==
  IF FallbackControls(r)
  THEN Route([WriteScope(r, [set |-> TRUE, allowControl |-> TRUE, allowSimulation |-> FALSE])
                EXCEPT !.controlTask = "pending", !.mode = "propose"], "control", {})
  ELSE Route(Notify(r, {"planner_unavailable"}), Onward(r), {})

OutOfWaves == req.waves >= MaxWaves /\ req.attempt = 0

PlannerAsks ==
  /\ node = "planner"
  /\ IF OutOfWaves
     THEN MoveOn({"wave_limit"}) /\ UNCHANGED <<reg, hist>>
     ELSE IF refusal # "none"
     THEN MoveOn({refusal}) /\ UNCHANGED <<reg, hist>>
     ELSE Spend /\ node' = "planner_asked" /\ UNCHANGED <<req, work>>
  /\ UNCHANGED <<clock, seq, inbox, plan, ledger, decision>>

\* an unparseable or refused decision: one more call, then the fallback
Repair(r) ==
  IF r.attempt < MaxPlannerRepairs
  THEN /\ req' = [r EXCEPT !.attempt = @ + 1]
       /\ node' = "planner" /\ work' = <<>>
  ELSE fallback([r EXCEPT !.attempt = 0])

PlannerReply ==
  /\ node = "planner_asked"
  /\ \/ Aborted /\ MoveOn({interrupted})
     \/ Answered /\ fallback(req)                                        \* API error
     \/ Answered /\ Route(Notify(req, {"model_refused"}), "finish", {})  \* refusal
     \/ Answered /\ Repair(req)                                          \* not a decision
     \/ /\ Answered
        /\ \E d \in Decisions, clean \in BOOLEAN :
             LET r == IF req.scope.set \/ req.first.set THEN req
                      ELSE [req EXCEPT !.first = [set |-> TRUE, allowControl |-> d.allowControl,
                                                  allowSimulation |-> d.allowSimulation]]
                 scope == IF r.scope.set THEN r.scope ELSE r.first
             IN IF validatePlan(d, r, scope) THEN accept(r, d, clean) ELSE Repair(r)
  /\ UNCHANGED <<clock, seq, inbox, reg, plan, ledger, decision, hist>>

----------------------------------------------------------------------------
(* specialists: the agent and tools loop of one task *)

Started == {t \in DOMAIN work : ~ (work[t].phase \in {"queued", "done"})}

\* finish of the subgraph: the finding (complete, partial and failed are one
\* "ended" here, only "refused" is told apart), and for the controller its proposal
Report(t, status, withdrawn, r) ==
  LET r1 == [r EXCEPT !.findings = Merge(@, t, status)]
  IN IF t # K THEN r1
     ELSE [r1 EXCEPT !.controlTask = "done",
             !.proposal = IF r.mode = "propose" /\ ~withdrawn THEN work[t].draft ELSE "none"]

EndTask(t, status, withdrawn) ==
  /\ req' = Report(t, status, withdrawn, req)
  /\ work' = [work EXCEPT ![t].phase = "done"]

AgentAsks(t) ==
  /\ node \in {"wave", "control"} /\ t \in DOMAIN work
  /\ \/ work[t].phase = "queued" /\ Cardinality(Started) < MaxConcurrency
     \/ work[t].phase = "agent"
  /\ IF work[t].turns >= MaxSpecialistTurns
     THEN EndTask(t, "ended", FALSE) /\ UNCHANGED <<reg, hist>>
     ELSE IF refusal # "none"
     THEN EndTask(t, "ended", refusal # "budget") /\ UNCHANGED <<reg, hist>>
     ELSE Spend /\ work' = [work EXCEPT ![t].phase = "asked"] /\ UNCHANGED req
  /\ UNCHANGED <<node, clock, seq, inbox, plan, ledger, decision>>

AgentReply(t) ==
  /\ t \in DOMAIN work /\ work[t].phase = "asked"
  /\ \/ Aborted /\ EndTask(t, "ended", TRUE)
     \/ Answered /\ EndTask(t, "ended", FALSE)      \* API error, cut off, or no tool call
     \/ Answered /\ EndTask(t, "refused", TRUE)
     \/ /\ Answered
        /\ work' = [work EXCEPT ![t].turns = @ + 1,
                      ![t].phase = IF Aborted THEN "late_tools" ELSE "tools"]
        /\ UNCHANGED req
  /\ UNCHANGED <<node, clock, seq, inbox, reg, plan, ledger, decision, hist>>

\* the evidence ids the registry gives out, none once the request has its share
Claimed(reads) == IF reg.open /\ reg.evidence < MaxEvidence THEN reads ELSE 0

Supplied(t, n, draft) ==
  [work EXCEPT ![t].evidence = @ + n, ![t].draft = IF draft = "none" THEN @ ELSE draft]

\* runSpecialistTools: past Stop or the deadline only report_finding runs
Tools(t) ==
  /\ t \in DOMAIN work /\ work[t].phase \in {"tools", "late_tools"}
  /\ \E reports \in BOOLEAN, reads \in 0..1, draft \in {"none", "good", "bad"} :
       LET n == Claimed(reads)
           w == Supplied(t, n, draft)
       IN /\ work[t].phase = "late_tools" => reads = 0 /\ draft = "none"
          /\ draft # "none" => t = K /\ req.mode = "propose"
          /\ reg' = [reg EXCEPT !.evidence = @ + n]
          /\ IF reports \/ ~reg.open \/ reg.evidence + n >= MaxEvidence
             THEN /\ work' = [w EXCEPT ![t].phase = "done"]
                  /\ req' = [Report(t, "ended", FALSE, req)
                               EXCEPT !.proposal = IF t = K /\ req.mode = "propose" THEN w[t].draft ELSE @]
             ELSE /\ work' = [w EXCEPT ![t].phase = "agent"]
                  /\ UNCHANGED req
  /\ UNCHANGED <<node, clock, seq, inbox, plan, ledger, decision, hist>>

FirstOver == \E t \in DOMAIN work : work[t].phase = "done"

\* join is deferred: it runs once every task of the wave has ended
WaveOver == \A t \in DOMAIN work : work[t].phase = "done"

join ==
  /\ node = "wave" /\ WaveOver
  /\ node' = "planner" /\ work' = <<>>
  /\ UNCHANGED <<clock, seq, inbox, req, reg, plan, ledger, decision, hist>>

afterControl ==
  /\ node = "control" /\ WaveOver
  /\ node' = IF req.proposal # "none" THEN "plan_check" ELSE "compose"
  /\ work' = <<>>
  /\ UNCHANGED <<clock, seq, inbox, req, reg, plan, ledger, decision, hist>>

----------------------------------------------------------------------------
(* compose and verify *)

Said == IF \E t \in DOMAIN req.findings : req.findings[t] = "refused" THEN {"model_refused"} ELSE {}

unavailable(n) ==
  [Notify(req, Said \cup n \cup {"compose_unavailable"}) EXCEPT !.answer = "none", !.drafts = @ + 1]

ComposeAsks ==
  /\ node = "compose"
  /\ IF req.drafts >= MaxDrafts
     THEN node' = "verify" /\ req' = Notify(req, Said) /\ UNCHANGED <<reg, hist>>
     ELSE IF refusal # "none"
     THEN node' = "verify" /\ req' = unavailable({refusal}) /\ UNCHANGED <<reg, hist>>
     ELSE Spend /\ node' = "compose_asked" /\ UNCHANGED req
  /\ UNCHANGED <<clock, seq, inbox, work, plan, ledger, decision>>

ComposeReply ==
  /\ node = "compose_asked" /\ node' = "verify"
  /\ \/ Aborted /\ req' = unavailable({interrupted})
     \/ Answered /\ req' = unavailable({})
     \/ /\ Answered
        /\ \E a \in {"good", "bad"} :
             req' = [Notify(req, Said) EXCEPT !.answer = a, !.drafts = @ + 1]
  /\ UNCHANGED <<clock, seq, inbox, reg, work, plan, ledger, decision, hist>>

afterVerify(r) ==
  IF r.violations /\ r.drafts < MaxDrafts THEN "compose"
  ELSE IF r.controlTask = "pending" /\ mayControl(r) THEN "control" ELSE "finish"

verify ==
  LET bad == req.answer = "bad"
      r == [req EXCEPT !.violations = bad,
              !.notices = @ \cup (IF bad /\ req.drafts >= MaxDrafts THEN {"verify_failed"} ELSE {})]
  IN /\ node = "verify"
     /\ req' = r /\ node' = afterVerify(r)
     /\ work' = IF node' = "control" THEN NewWork({K}) ELSE <<>>
     /\ UNCHANGED <<clock, seq, inbox, reg, plan, ledger, decision, hist>>

----------------------------------------------------------------------------
(* plan_check, confirm, apply *)

PlanRefused(n) == node' = "finish" /\ req' = Notify(req, {n})

PlanCheckStarts ==
  /\ node = "plan_check"
  /\ IF interrupted # "none" THEN PlanRefused(interrupted)
     ELSE IF ~mayControl(req) THEN PlanRefused("control_not_permitted")
     ELSE IF req.proposal = "bad" THEN PlanRefused("plan_refused")
     ELSE node' = "dry_run" /\ UNCHANGED req
  /\ UNCHANGED <<clock, seq, inbox, reg, work, plan, ledger, decision, hist>>

\* the dry runs come back: Stop and the deadline are read again before the
\* plan is given an id and shown
DryRunsReturn ==
  /\ node = "dry_run"
  /\ \/ PlanRefused("control_unavailable") /\ UNCHANGED <<plan, hist>>
     \/ PlanRefused("plan_refused") /\ UNCHANGED <<plan, hist>>
     \/ interrupted # "none" /\ PlanRefused(interrupted) /\ UNCHANGED <<plan, hist>>
     \/ /\ interrupted = "none"
        /\ plan' = [id |-> hist.plans + 1, expires |-> clock + PlanTtlS]
        /\ hist' = [hist EXCEPT !.plans = @ + 1]
        /\ node' = "paused" /\ UNCHANGED req
  /\ UNCHANGED <<clock, seq, inbox, reg, work, ledger, decision>>

AnyPlanWillDo(p) == node = "paused" /\ clock < plan.expires

\* The decision names the plan on screen, and the plan has not expired
pendingDecision(p) == node = "paused" /\ plan.id = p /\ clock < plan.expires

Decide(p, d) ==
  /\ pendingDecision(p)
  /\ decision' = d /\ node' = "confirm"
  /\ reg' = [reg EXCEPT !.stop = FALSE]
  /\ hist' = [hist EXCEPT !.approved = IF d = "approved" THEN @ \cup {p} ELSE @]
  /\ UNCHANGED <<clock, seq, inbox, req, work, plan, ledger>>

\* ledger.grant: grants past their TTL are swept, a plan is granted once
Grantable(p) == ~ \E g \in ledger.granted : g.id = p /\ clock - g.at < PlanTtlS

\* confirm reads the clock again: time passed since pendingDecision
Expired == clock >= plan.expires

Granting == decision = "approved" /\ ~Expired /\ Grantable(plan.id)

confirm ==
  /\ node = "confirm"
  /\ decision' = IF Expired THEN "expired"
                 ELSE IF decision = "approved" /\ ~Granting THEN "stale" ELSE decision
  /\ ledger' = IF Granting
               THEN [grant |-> [id |-> plan.id, at |-> clock],
                     granted |-> {g \in ledger.granted : clock - g.at < PlanTtlS}
                                 \cup {[id |-> plan.id, at |-> clock]}]
               ELSE ledger
  /\ node' = IF Granting THEN "apply" ELSE "declined"
  /\ UNCHANGED <<clock, seq, inbox, req, reg, work, plan, hist>>

declined ==
  /\ node = "declined" /\ node' = "finish"
  /\ req' = Notify(req, {CASE decision = "expired" -> "plan_expired"
                           [] decision = "declined" -> "plan_declined"
                           [] OTHER -> "plan_stale"})
  /\ plan' = NoPlan /\ decision' = "none"
  /\ UNCHANGED <<clock, seq, inbox, reg, work, ledger, hist>>

\* ledger.take: delete on read, and only a fresh grant of the plan in state
ApplyTakes ==
  /\ node = "apply"
  /\ ledger' = [ledger EXCEPT !.grant = NoGrant]
  /\ IF ledger.grant # NoGrant /\ clock - ledger.grant.at < GrantTtlS /\ ledger.grant.id = plan.id
     THEN /\ node' = "issuing"
          /\ hist' = [hist EXCEPT !.left = Commands, !.stopped = 0]
          /\ UNCHANGED <<req, plan, decision>>
     ELSE /\ node' = "finish" /\ req' = Notify(req, {"apply_refused"})
          /\ plan' = NoPlan /\ decision' = "none" /\ UNCHANGED hist
  /\ UNCHANGED <<clock, seq, inbox, reg, work>>

Issued(p) == IF p \in DOMAIN hist.issued THEN hist.issued[p] ELSE 0

ReadOnce == reg.open /\ reg.stop /\ hist.left = Commands

\* Stop is read before every command; what it keeps back is listed, not issued
StopRead == reg.open /\ reg.stop

IssueNext ==
  /\ node = "issuing"
  /\ IF StopRead \/ hist.left = 0
     THEN /\ node' = "finish" /\ plan' = NoPlan /\ decision' = "none"
          /\ req' = [Notify(req, IF hist.left > 0 THEN {"stopped"} ELSE {}) EXCEPT !.outcomes = TRUE]
          /\ UNCHANGED hist
     ELSE /\ node' = "issue_wait"
          /\ hist' = [hist EXCEPT !.issued = Merge(@, plan.id, Issued(plan.id) + 1), !.left = @ - 1]
          /\ UNCHANGED <<req, plan, decision>>
  /\ UNCHANGED <<clock, seq, inbox, reg, work, ledger>>

\* accepted, refused or unreachable: the outcome is listed and the next one follows
IssueReturns ==
  /\ node = "issue_wait" /\ node' = "issuing"
  /\ UNCHANGED <<clock, seq, inbox, req, reg, work, plan, ledger, decision, hist>>

finish ==
  /\ node = "finish" /\ node' = "idle"
  /\ reg' = NoEntry
  /\ UNCHANGED <<clock, seq, inbox, req, work, plan, ledger, decision, hist>>

----------------------------------------------------------------------------
(* What happens around the run. *)

\* The operator's Stop: no lock.  hist.stopped: until when the registry has to
\* keep a Stop it took while the commands of an approved plan were going out.
Stop ==
  /\ reg.open /\ ~reg.stop
  /\ reg' = [reg EXCEPT !.stop = TRUE]
  /\ hist' = [hist EXCEPT !.stopped = IF node \in {"issuing", "issue_wait"} THEN sweptAt ELSE @]
  /\ UNCHANGED <<node, clock, seq, inbox, req, work, plan, ledger, decision>>

\* A run fails outside its nodes: runTurn abandons the request.  A decision's
\* run that fails before its checkpoint is written leaves the plan on screen.
RunFails ==
  /\ Failures /\ Running /\ node # "intake"
  /\ \/ node' = "dead"
     \/ node' = "paused" /\ node \in {"confirm", "apply", "issuing", "issue_wait"}
  /\ reg' = NoEntry
  /\ ledger' = [ledger EXCEPT !.grant = NoGrant]
  /\ work' = <<>> /\ decision' = "none"
  /\ UNCHANGED <<clock, seq, inbox, req, plan, hist>>

\* What the turn shows: only what was verified, and the notices of this request
turnFromState ==
  (IF req.answer # "none" /\ ~req.violations THEN {"answer"} ELSE {})
  \cup (IF req.message THEN {"message"} ELSE {})
  \cup (IF req.outcomes THEN {"outcomes"} ELSE {})
  \cup (req.notices \ {"plan_superseded"})

\* begin of another thread sweeps entries that have outlived deadline and TTL,
\* wherever their runs are
SweptByAnother ==
  /\ reg.open /\ clock >= sweptAt
  /\ reg' = NoEntry
  /\ UNCHANGED <<node, clock, seq, inbox, req, work, plan, ledger, decision, hist>>

\* intake follows the message at once: no timer, no I/O between them
Tick ==
  /\ clock < MaxClock /\ node # "intake" /\ clock' = clock + 1
  /\ UNCHANGED <<node, seq, inbox, req, reg, work, plan, ledger, decision, hist>>

Init ==
  /\ node = "idle" /\ clock = 0 /\ seq = 0 /\ inbox = FALSE
  /\ req = FreshRequest(FALSE, {}) /\ reg = NoEntry /\ work = <<>>
  /\ plan = NoPlan /\ ledger = [grant |-> NoGrant, granted |-> {}] /\ decision = "none"
  /\ hist = [calls |-> 0, plans |-> 0, approved |-> {}, issued |-> <<>>, left |-> 0, stopped |-> 0]

RunStep ==
  \/ intake \/ orient \/ PlannerAsks \/ PlannerReply
  \/ \E t \in DOMAIN work : AgentAsks(t) \/ AgentReply(t) \/ Tools(t)
  \/ join \/ afterControl
  \/ ComposeAsks \/ ComposeReply \/ verify
  \/ PlanCheckStarts \/ DryRunsReturn \/ confirm \/ declined
  \/ ApplyTakes \/ IssueNext \/ IssueReturns \/ finish

Next ==
  \/ RunStep
  \/ \E may \in Viewers : Message(may)
  \/ \E p \in 1..hist.plans, d \in {"approved", "declined"} : Decide(p, d)
  \/ Stop \/ RunFails \/ SweptByAnother \/ Tick

\* Steps that wait for nothing but this process or a service with its own timeout
LocalStep ==
  \/ intake \/ orient \/ PlannerAsks
  \/ \E t \in DOMAIN work : AgentAsks(t) \/ Tools(t)
  \/ join \/ afterControl \/ ComposeAsks \/ verify
  \/ PlanCheckStarts \/ DryRunsReturn \/ confirm \/ declined
  \/ ApplyTakes \/ IssueNext \/ IssueReturns \/ finish

\* A model call may never be answered; its deadline timer is what must fire.
Fairness ==
  /\ WF_vars(LocalStep) /\ WF_vars(Tick)
  /\ WF_vars(Aborted /\ PlannerReply) /\ WF_vars(Aborted /\ ComposeReply)
  /\ \A t \in 0..MaxTasksPerRequest : WF_vars(Aborted /\ AgentReply(t))

Spec == Init /\ [][Next]_vars /\ Fairness

----------------------------------------------------------------------------
(* Properties *)

\* Type invariant of the thread, its registry entry, its workers and its plan.
TypeOK ==
  /\ clock \in 0..MaxClock /\ seq \in Nat
  /\ req.drafts \in 0..MaxDrafts /\ req.waves \in 0..MaxWaves
  /\ req.tasks \in 0..MaxTasksPerRequest
  /\ reg.evidence \in 0..MaxEvidence
  /\ DOMAIN work \subseteq 0..req.tasks
  /\ \A t \in DOMAIN work : work[t].turns \in 0..MaxSpecialistTurns
  /\ decision \in {"none", "approved", "declined", "expired", "stale"}

\* The calls a request makes never exceed its budget, however the specialists
\* of a wave interleave (registry.call checks and counts before its await).
BudgetHolds == hist.calls <= MaxModelCalls

\* Every task of a finished wave has its finding when the planner, compose or
\* the controller reads them (join is deferred until the wave is over).
EveryTaskReported ==
  node \in {"planner", "planner_asked", "compose", "control", "finish"}
    => 1..req.tasks \subseteq DOMAIN req.findings

\* The controller runs, and a plan is shown or issued, only for someone who may
\* command and never against the flags of the planner's first decision,
\* whatever later decisions, repairs and the fallback write.
ControlWasAllowed ==
  node \in {"control", "plan_check", "dry_run", "paused", "confirm", "apply", "issuing", "issue_wait"}
    => req.may /\ (req.first.set => req.first.allowControl)

\* A command goes out only for a plan the operator approved by name, and each
\* of its commands at most once, over repeated approvals and failed runs.
IssuedAsApproved ==
  \A p \in DOMAIN hist.issued : p \in hist.approved /\ hist.issued[p] <= Commands

\* An answered request says something: a verified answer, a checked message,
\* the outcome of its commands, or a notice that tells why there is none.
NeverSilent == node = "idle" /\ seq > 0 => turnFromState # {}

\* What holds of a thread at every step of its graph, whatever is stopped, refused,
\* lost or repeated: its types, the request's budget, an outcome for every task,
\* authority for every control task, issue as approved, and no ending without words
\* (graph.ts, workers.ts, apply.ts).
TurnIsSound ==
  /\ TypeOK /\ BudgetHolds /\ EveryTaskReported
  /\ ControlWasAllowed /\ IssuedAsApproved /\ NeverSilent

\* A plan starts to be issued at most a grant's lifetime after it expires: the
\* decision, the confirmation and the take each read the clock again.
IssuedInTime ==
  [][node = "apply" /\ node' = "issuing" => clock < plan.expires + GrantTtlS - 1]_vars

\* Once the registry has taken a Stop while commands go out, no further command
\* of the plan is issued for as long as the registry keeps the request: deadline
\* and plan TTL from its start, whoever else begins one (apply.ts, registry.ts).
StopKeepsRestBack ==
  [][clock < hist.stopped => hist'.issued = hist.issued]_vars

\* Commands go out only in time, and none after a Stop the registry still has to
\* keep (apply.ts).
IssueIsTimely == IssuedInTime /\ StopKeepsRestBack

\* Every run of the graph ends: with an answer, a plan on screen or a failure,
\* and the thread's lock is released.
TurnEnds == Running ~> ~Running

\* While the commands of an approved plan go out the registry has an entry for
\* Stop to mark: session.ts promises that a Stop pressed from the decision on
\* is honoured by apply between commands.
StopIsHeard == node \in {"issuing", "issue_wait"} => reg.open
=============================================================================
