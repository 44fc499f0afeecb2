------------------------- MODULE CopilotTurn_proofs -------------------------
(***************************************************************************)
(* What a thread of the copilot keeps at every step of its graph, for any  *)
(* limits, any planner and any number of requests.  Three inductive        *)
(* invariants that lean on each other as little as the code's parts do:    *)
(*   RequestInv  the request's channels and its specialists (graph.ts);    *)
(*   SpendInv    the registry's entry (registry.ts);                       *)
(*   PlanInv     the plan on screen, its approval and its commands         *)
(*               (ledger.ts, confirm.ts, apply.ts).                        *)
(* What the verifier lets through of whatever draft, over whatever         *)
(* evidence (verify.ts): DraftInv.  And what the panel holds and lights    *)
(* of the thread it is in, whatever is lost on the way (run.ts,            *)
(* CopilotPanel.tsx): PanelInv, over a fold of the event list.  Last, what *)
(* the copilot reads back of a zone's past from rows that went on changing *)
(* (queries/copilot.ts): StoryInv.                                         *)
(***************************************************************************)
EXTENDS CopilotTurn, CopilotPanel, AnswerCheck, ZoneStory, FiniteSetTheorems, SequenceTheorems, WellFoundedInduction, TLAPS

LEMMA Limits ==
    /\ {MaxWaves, MaxTasksPerWave, MaxTasksPerRequest, MaxModelCalls, MaxSpecialistTurns,
        MaxEvidence, PlanTtlS, GrantTtlS, Commands, MaxClock, MaxDrafts} \subseteq Nat
    /\ MaxDrafts > 0
BY CopilotAssumption

LEMMA Merging ==
    ASSUME NEW f, NEW t, NEW s
    PROVE  /\ DOMAIN Merge(f, t, s) = DOMAIN f \cup {t}
           /\ Merge(f, t, s)[t] = s
           /\ \A u \in DOMAIN f : u # t => Merge(f, t, s)[u] = f[u]
BY DEF Merge

-----------------------------------------------------------------------------
(* The request.                                                            *)
Channels == {"may", "sim", "scope", "first", "attempt", "waves", "tasks", "sims", "findings",
             "controlTask", "mode", "proposal", "answer", "violations", "drafts", "message",
             "outcomes", "notices"}
Scope == [set : BOOLEAN, allowControl : BOOLEAN, allowSimulation : BOOLEAN]
ControlNodes == {"control", "plan_check", "dry_run", "paused", "confirm", "apply", "issuing",
                 "issue_wait"}

Shaped(r) ==
    /\ DOMAIN r = Channels
    /\ r.may \in BOOLEAN /\ r.violations \in BOOLEAN
    /\ r.message \in BOOLEAN /\ r.outcomes \in BOOLEAN
    /\ r.scope \in Scope /\ r.first \in Scope
    /\ r.attempt \in Nat /\ r.waves \in 0..MaxWaves /\ r.tasks \in 0..MaxTasksPerRequest
    /\ r.drafts \in 0..MaxDrafts /\ r.controlTask \in {"none", "pending", "done"}

(* Whatever its place in the graph, a request that has a control task may  *)
(* command, its scope is what its first decision allowed, and one that was *)
(* drafted has an answer or says that there is none.                       *)
Coherent(r) ==
    /\ r.scope.set \/ ~r.scope.allowControl
    /\ r.scope.set /\ r.first.set => (r.scope.allowControl <=> r.first.allowControl)
    /\ r.controlTask # "none" => mayControl(r)
    /\ r.attempt > 0 => r.waves < MaxWaves
    /\ r.drafts > 0 => r.answer # "none" \/ "compose_unavailable" \in r.notices

Heard(r) ==
    \/ r.answer # "none" /\ ~r.violations
    \/ r.message \/ r.outcomes
    \/ \E n \in r.notices : n # "plan_superseded"

Staffed(w, r) ==
    /\ DOMAIN w \subseteq 0..r.tasks
    /\ \A t \in DOMAIN w : /\ DOMAIN w[t] = {"phase", "turns", "evidence", "draft"}
                           /\ w[t].turns \in 0..MaxSpecialistTurns
                           /\ w[t].phase = "asked" => w[t].turns < MaxSpecialistTurns

Reported(n, r, w) ==
    /\ n \notin {"wave", "dead", "intake"} => 1..r.tasks \subseteq DOMAIN r.findings
    /\ n = "wave" => \A t \in 1..r.tasks : \/ t \in DOMAIN r.findings
                                           \/ t \in DOMAIN w /\ w[t].phase # "done"

Placed(n, r, w) ==
    /\ n \in ControlNodes => mayControl(r)
    /\ n = "wave" => K \notin DOMAIN w
    /\ n \notin {"wave", "control"} => DOMAIN w = {}
    /\ n \in {"orient", "planner", "planner_asked", "wave"} => r.controlTask # "done"
    /\ n = "planner_asked" => r.waves < MaxWaves
    /\ n = "compose_asked" => r.drafts < MaxDrafts
    /\ n = "verify" => r.drafts > 0
    /\ n = "finish" => Heard(r)

Holds(n, r, w) ==
    Shaped(r) /\ Coherent(r) /\ Staffed(w, r) /\ Reported(n, r, w) /\ Placed(n, r, w)

RequestInv ==
    /\ seq \in Nat /\ inbox \in BOOLEAN
    /\ Holds(node, req, work)
    /\ node = "idle" /\ seq > 0 => Heard(req)

LEMMA RequestInit == Init => RequestInv
PROOF
<1> SUFFICES ASSUME Init PROVE RequestInv
  OBVIOUS
<1>1. DOMAIN work = {} /\ node = "idle" /\ seq = 0
  BY DEF Init
<1>2. Shaped(req) /\ Coherent(req) /\ req.tasks = 0
  BY Limits DEF Init, FreshRequest, Shaped, Channels, Scope, NoScope, Coherent, mayControl
<1>3. 1..0 = {}
  OBVIOUS
<1>4. Staffed(work, req) /\ Reported(node, req, work) /\ Placed(node, req, work)
  BY <1>1, <1>2, <1>3 DEF Staffed, Reported, Placed, ControlNodes
<1>5. seq \in Nat /\ inbox \in BOOLEAN
  BY DEF Init
<1> QED BY <1>1, <1>2, <1>4, <1>5 DEF RequestInv, Holds

(* A notice is one more.                                                   *)
LEMMA Notifying ==
    ASSUME NEW r, Shaped(r), Coherent(r), NEW n
    PROVE  /\ Shaped(Notify(r, n)) /\ Coherent(Notify(r, n))
           /\ \A f \in Channels \ {"notices"} : Notify(r, n)[f] = r[f]
           /\ Notify(r, n).notices = r.notices \cup n
           /\ mayControl(Notify(r, n)) <=> mayControl(r)
PROOF
<1>1. /\ DOMAIN Notify(r, n) = Channels
      /\ \A f \in Channels \ {"notices"} : Notify(r, n)[f] = r[f]
      /\ Notify(r, n).notices = r.notices \cup n
  BY DEF Notify, Shaped, Channels
<1>2. /\ Notify(r, n).may = r.may /\ Notify(r, n).violations = r.violations
      /\ Notify(r, n).message = r.message /\ Notify(r, n).outcomes = r.outcomes
      /\ Notify(r, n).scope = r.scope /\ Notify(r, n).first = r.first
      /\ Notify(r, n).attempt = r.attempt /\ Notify(r, n).waves = r.waves
      /\ Notify(r, n).tasks = r.tasks /\ Notify(r, n).drafts = r.drafts
      /\ Notify(r, n).controlTask = r.controlTask /\ Notify(r, n).answer = r.answer
  BY <1>1 DEF Channels
<1> QED BY <1>1, <1>2 DEF Shaped, Coherent, mayControl

(* Where a decision leads: a wave with its tasks, the controller if it may *)
(* command, or the end, which has something to say.                        *)
LEMMA Routing ==
    ASSUME NEW r, Shaped(r), Coherent(r), NEW next, NEW ids \in SUBSET (1..r.tasks),
           r.controlTask # "done",
           \A t \in 1..r.tasks : t \in DOMAIN r.findings \/ t \in ids,
           ids # {} => next = "dispatch",
           \/ Heard(r) \/ next = "compose" \/ ids # {}
           \/ next # "finish" /\ hasFindings(r)
           \/ next = "control" /\ r.controlTask = "pending",
           Route(r, next, ids)
    PROVE  Holds(node', req', work') /\ node' # "idle"
PROOF
<1>1. \/ node' = "wave" /\ ids # {}
      \/ node' = "control" /\ mayControl(r) /\ ids = {}
      \/ node' = "compose" /\ ids = {}
      \/ node' = "finish" /\ ids = {} /\ Heard(r)
  <2>1. CASE ids # {}
    BY <2>1 DEF Route
  <2>2. CASE ids = {} /\ hasFindings(r) /\ next # "finish"
    BY <2>2 DEF Route, Onward
  <2>3. CASE ids = {} /\ ~hasFindings(r) /\ next = "control" /\ r.controlTask = "pending"
    BY <2>3 DEF Route, Coherent
  <2>4. CASE ids = {} /\ (Heard(r) \/ next = "compose")
    BY <2>4 DEF Route, Onward
  <2> QED BY <2>1, <2>2, <2>3, <2>4
<1>2. req' = r /\ work' = IF node' = "wave" THEN NewWork(ids)
                          ELSE IF node' = "control" THEN NewWork({K}) ELSE <<>>
  BY DEF Route
<1>3. ASSUME NEW S PROVE /\ DOMAIN NewWork(S) = S
                         /\ \A t \in S : /\ DOMAIN NewWork(S)[t] = {"phase", "turns", "evidence", "draft"}
                                         /\ NewWork(S)[t].turns = 0 /\ NewWork(S)[t].phase = "queued"
  BY DEF NewWork
<1>4. r.tasks \in Nat /\ K \notin 1..r.tasks /\ K \in 0..r.tasks /\ 1..r.tasks \subseteq 0..r.tasks
  BY Limits DEF Shaped, K
<1>5. 0 \in 0..MaxSpecialistTurns /\ DOMAIN <<>> = {}
  BY Limits
<1>9. ASSUME NEW S \in SUBSET (0..r.tasks), work' = NewWork(S) PROVE Staffed(work', r)
  <2>1. DOMAIN work' = S
    BY <1>3, <1>9
  <2>2. ASSUME NEW t \in S
        PROVE  /\ DOMAIN work'[t] = {"phase", "turns", "evidence", "draft"}
               /\ work'[t].turns = 0 /\ work'[t].phase = "queued"
    BY <1>3, <1>9
  <2> QED BY <1>5, <2>1, <2>2 DEF Staffed
<1>6. CASE node' = "wave"
  <2>1. req' = r /\ DOMAIN work' = ids /\ work' = NewWork(ids) /\ ids \subseteq 0..r.tasks
    BY <1>2, <1>3, <1>4, <1>6
  <2>2. Staffed(work', r)
    BY <1>9, <2>1
  <2>3. Reported(node', r, work')
    BY <1>3, <1>6, <2>1 DEF Reported
  <2>4. Placed(node', r, work')
    BY <1>4, <1>6, <2>1 DEF Placed, ControlNodes
  <2> QED BY <1>6, <2>1, <2>2, <2>3, <2>4 DEF Holds
<1>7. CASE node' = "control"
  <2>1. req' = r /\ work' = NewWork({K}) /\ {K} \subseteq 0..r.tasks /\ mayControl(r) /\ ids = {}
    BY <1>1, <1>2, <1>4, <1>7
  <2>2. Staffed(work', r)
    BY <1>9, <2>1
  <2>3. Reported(node', r, work')
    BY <1>7, <2>1 DEF Reported
  <2>4. Placed(node', r, work')
    BY <1>7, <2>1 DEF Placed
  <2> QED BY <1>7, <2>1, <2>2, <2>3, <2>4 DEF Holds
<1>8. CASE node' \in {"compose", "finish"}
  BY <1>1, <1>2, <1>4, <1>5, <1>8
     DEF Holds, Staffed, Reported, Placed, ControlNodes
<1> QED BY <1>1, <1>6, <1>7, <1>8

(* The planner gives up on this wave: it says why and the request goes on  *)
(* to compose or ends.                                                     *)
LEMMA MovingOn ==
    ASSUME RequestInv, node \in {"planner", "planner_asked"}, NEW n,
           n \notin {"none", "plan_superseded"}, MoveOn({n})
    PROVE  Holds(node', req', work') /\ node' # "idle"
PROOF
<1> DEFINE r == Notify(req, {n})
<1>1. /\ Shaped(req) /\ Coherent(req) /\ req.controlTask # "done"
      /\ 1..req.tasks \subseteq DOMAIN req.findings
  BY DEF RequestInv, Holds, Placed, Reported
<1>2. Shaped(r) /\ Coherent(r) /\ r.notices = req.notices \cup {n}
      /\ r.controlTask = req.controlTask /\ r.tasks = req.tasks /\ r.findings = req.findings
  BY <1>1, Notifying DEF Channels
<1>3. Heard(r)
  BY <1>2 DEF Heard
<1>4. Route(r, Onward(req), {})
  BY DEF MoveOn
<1> HIDE DEF r
<1> QED BY <1>1, <1>2, <1>3, <1>4, Routing

LEMMA Interruption ==
    /\ interrupted \in {"stopped", "deadline", "none"}
    /\ refusal \in {"stopped", "deadline", "none", "budget"}
BY DEF interrupted, refusal

(* Without a usable decision the operator's words go to the controller, or *)
(* the planner says that it is unavailable.                                *)
LEMMA FallingBack ==
    ASSUME NEW r, Shaped(r), Coherent(r), r.controlTask # "done",
           1..r.tasks \subseteq DOMAIN r.findings, fallback(r)
    PROVE  Holds(node', req', work') /\ node' # "idle"
PROOF
<1>1. CASE FallbackControls(r)
  <2> DEFINE s == [set |-> TRUE, allowControl |-> TRUE, allowSimulation |-> FALSE]
             w == WriteScope(r, s)
             c == [w EXCEPT !.controlTask = "pending", !.mode = "propose"]
  <2>1. r.may /\ r.controlTask = "none" /\ ~hasFindings(r)
        /\ IF r.scope.set THEN r.scope.allowControl ELSE r.first.set => r.first.allowControl
    BY <1>1 DEF FallbackControls
  <2>2. s \in Scope
    BY DEF Scope
  <2>3. /\ DOMAIN w = Channels /\ w.scope = IF r.scope.set THEN r.scope ELSE s
        /\ \A f \in Channels \ {"scope"} : w[f] = r[f]
    BY DEF WriteScope, Shaped, Channels
  <2> HIDE DEF w, s
  <2>4. /\ DOMAIN c = Channels /\ c.scope = w.scope /\ c.controlTask = "pending"
        /\ \A f \in Channels \ {"scope", "controlTask", "mode"} : c[f] = r[f]
    BY <2>3 DEF Channels
  <2>5. /\ c.may = r.may /\ c.violations = r.violations /\ c.message = r.message
        /\ c.outcomes = r.outcomes /\ c.first = r.first /\ c.attempt = r.attempt
        /\ c.waves = r.waves /\ c.tasks = r.tasks /\ c.drafts = r.drafts
        /\ c.answer = r.answer /\ c.notices = r.notices /\ c.findings = r.findings
    BY <2>4 DEF Channels
  <2> HIDE DEF c
  <2>6. c.scope.set = TRUE /\ c.scope.allowControl = TRUE /\ c.scope \in Scope
    BY <2>1, <2>2, <2>3, <2>4 DEF s, Shaped, Scope
  <2>7. Shaped(c)
    BY <2>4, <2>5, <2>6 DEF Shaped
  <2>8. Coherent(c)
    BY <2>1, <2>4, <2>5, <2>6 DEF Coherent, Shaped, Scope, mayControl
  <2>9. Route(c, "control", {})
    BY <1>1 DEF fallback, c, w, s
  <2> QED BY <2>4, <2>5, <2>7, <2>8, <2>9, Routing
<1>2. CASE ~FallbackControls(r)
  <2> DEFINE c == Notify(r, {"planner_unavailable"})
  <2>1. /\ Shaped(c) /\ Coherent(c) /\ c.notices = r.notices \cup {"planner_unavailable"}
        /\ c.controlTask = r.controlTask /\ c.tasks = r.tasks /\ c.findings = r.findings
    BY Notifying DEF Channels
  <2>2. Route(c, Onward(r), {})
    BY <1>2 DEF fallback
  <2> HIDE DEF c
  <2>3. Heard(c)
    BY <2>1 DEF Heard
  <2> QED BY <2>1, <2>2, <2>3, Routing
<1> QED BY <1>1, <1>2

LEMMA Repairing ==
    ASSUME NEW r, Shaped(r), Coherent(r), r.controlTask # "done", r.waves < MaxWaves,
           1..r.tasks \subseteq DOMAIN r.findings, Repair(r)
    PROVE  Holds(node', req', work') /\ node' # "idle"
PROOF
<1>1. ASSUME NEW n \in Nat
      PROVE  LET c == [r EXCEPT !.attempt = n]
             IN  /\ Shaped(c) /\ Coherent(c) /\ c.controlTask = r.controlTask
                 /\ c.tasks = r.tasks /\ c.findings = r.findings /\ c.waves = r.waves
  BY DEF Shaped, Coherent, Channels, mayControl
<1>2. CASE r.attempt < MaxPlannerRepairs
  <2>1. r.attempt + 1 \in Nat
    BY DEF Shaped
  <2>2. req' = [r EXCEPT !.attempt = r.attempt + 1] /\ node' = "planner" /\ work' = <<>>
    BY <1>2 DEF Repair
  <2>3. DOMAIN work' = {}
    BY <2>2
  <2>4. /\ Shaped(req') /\ Coherent(req') /\ req'.controlTask = r.controlTask
        /\ req'.tasks = r.tasks /\ req'.findings = r.findings
    BY <1>1, <2>1, <2>2
  <2> QED BY <2>2, <2>3, <2>4 DEF Holds, Staffed, Reported, Placed, ControlNodes
<1>3. CASE ~(r.attempt < MaxPlannerRepairs)
  <2>1. fallback([r EXCEPT !.attempt = 0])
    BY <1>3 DEF Repair
  <2> QED BY <1>1, <2>1, FallingBack
<1> QED BY <1>2, <1>3

(* A decision that was checked: its control task only for someone who may  *)
(* command, its tasks within the request's number, its words told or       *)
(* replaced by a notice.                                                   *)
LEMMA Accepting ==
    ASSUME NEW r, Shaped(r), Coherent(r), r.controlTask # "done", r.waves < MaxWaves,
           1..r.tasks \subseteq DOMAIN r.findings,
           NEW d \in Decisions, NEW clean \in BOOLEAN,
           r.scope.set \/ r.first.set, NEW scope, validatePlan(d, r, scope), accept(r, d, clean)
    PROVE  Holds(node', req', work') /\ node' # "idle"
PROOF
<1> DEFINE r1 == WriteScope(r, r.first)
           drop == d.control /\ ~mayControl(r1)
           r2 == IF d.control /\ ~drop
                 THEN [r1 EXCEPT !.controlTask = "pending", !.mode = d.mode] ELSE r1
           next == IF drop /\ d.next = "control" /\ r.controlTask = "none" THEN Onward(r) ELSE d.next
           said == (IF drop THEN {"control_not_permitted"} ELSE {})
                   \cup (IF d.talks /\ ~clean THEN {"message_unverified"} ELSE {})
           ids == IF next = "dispatch" THEN r.tasks + 1 .. r.tasks + d.tasks ELSE {}
           r3 == [Notify(r2, said) EXCEPT !.message = d.talks /\ clean,
                    !.tasks = @ + Cardinality(ids), !.sims = @ + d.sims,
                    !.waves = IF next = "dispatch" THEN @ + 1 ELSE @, !.attempt = 0]
<1>1. /\ d.next \in {"dispatch", "control", "compose", "finish"} /\ d.tasks \in Nat
      /\ d.control \in BOOLEAN /\ d.talks \in BOOLEAN
      /\ r.tasks + d.tasks <= MaxTasksPerRequest
      /\ d.next = "dispatch" => d.tasks > 0
      /\ d.next = "control" => d.control \/ r.controlTask # "none"
      /\ d.next = "finish" => d.talks
  BY CopilotAssumption DEF validatePlan
<1>2. /\ Shaped(r1) /\ Coherent(r1) /\ r1.scope.set = TRUE
      /\ \A f \in Channels \ {"scope"} : r1[f] = r[f]
  <2>1. /\ DOMAIN r1 = Channels /\ r1.scope = IF r.scope.set THEN r.scope ELSE r.first
        /\ \A f \in Channels \ {"scope"} : r1[f] = r[f]
    BY DEF WriteScope, Shaped, Channels
  <2> HIDE DEF r1
  <2>2. /\ r1.may = r.may /\ r1.violations = r.violations /\ r1.message = r.message
        /\ r1.outcomes = r.outcomes /\ r1.first = r.first /\ r1.attempt = r.attempt
        /\ r1.waves = r.waves /\ r1.tasks = r.tasks /\ r1.drafts = r.drafts
        /\ r1.answer = r.answer /\ r1.notices = r.notices /\ r1.controlTask = r.controlTask
    BY <2>1 DEF Channels
  <2>3. Shaped(r1) /\ r1.scope.set = TRUE
    BY <2>1, <2>2 DEF Shaped, Scope
  <2>4. Coherent(r1)
    BY <2>1, <2>2 DEF Coherent, Shaped, Scope, mayControl
  <2> QED BY <2>1, <2>3, <2>4
<1> HIDE DEF r1
<1>3. /\ Shaped(r2) /\ Coherent(r2)
      /\ \A f \in Channels \ {"scope", "controlTask", "mode"} : r2[f] = r[f]
      /\ r2.controlTask = IF d.control /\ ~drop THEN "pending" ELSE r.controlTask
  <2>1. CASE d.control /\ ~drop
    <3> DEFINE c == [r1 EXCEPT !.controlTask = "pending", !.mode = d.mode]
    <3>1. /\ DOMAIN c = Channels /\ c.controlTask = "pending"
          /\ \A f \in Channels \ {"controlTask", "mode"} : c[f] = r1[f]
      BY <1>2 DEF Shaped, Channels
    <3> HIDE DEF c
    <3>2. /\ c.may = r1.may /\ c.violations = r1.violations /\ c.message = r1.message
          /\ c.outcomes = r1.outcomes /\ c.first = r1.first /\ c.attempt = r1.attempt
          /\ c.waves = r1.waves /\ c.tasks = r1.tasks /\ c.drafts = r1.drafts
          /\ c.answer = r1.answer /\ c.notices = r1.notices /\ c.scope = r1.scope
      BY <3>1 DEF Channels
    <3>3. Shaped(c) /\ Coherent(c)
      BY <1>2, <2>1, <3>1, <3>2 DEF Shaped, Coherent, mayControl
    <3>4. r2 = c
      BY <2>1 DEF c
    <3> QED BY <1>2, <2>1, <3>1, <3>3, <3>4
  <2>2. CASE ~(d.control /\ ~drop)
    BY <1>2, <2>2 DEF Channels
  <2> QED BY <2>1, <2>2
<1>4. /\ ids \in SUBSET (1..r.tasks + Cardinality(ids))
      /\ r.tasks + Cardinality(ids) \in 0..MaxTasksPerRequest
      /\ \A t \in 1..(r.tasks + Cardinality(ids)) : t \in 1..r.tasks \/ t \in ids
      /\ next = "dispatch" <=> ids # {}
      /\ next = "dispatch" => d.next = "dispatch"
  <2>1. r.tasks \in Nat /\ r.tasks <= MaxTasksPerRequest /\ MaxTasksPerRequest \in Nat
    BY Limits DEF Shaped
  <2>2. next = "dispatch" <=> d.next = "dispatch"
    BY DEF Onward
  <2>3. CASE next = "dispatch"
    <3>1. ids = r.tasks + 1 .. r.tasks + d.tasks
      BY <2>3
    <3>2. Cardinality(ids) = d.tasks
      <4>1. PICK a, b : a = r.tasks + 1 /\ b = r.tasks + d.tasks
        OBVIOUS
      <4>2. a \in Int /\ b \in Int /\ ~(a > b) /\ b - a + 1 = d.tasks
        BY <1>1, <2>1, <2>2, <2>3, <4>1
      <4>3. Cardinality(a..b) = b - a + 1
        BY <4>2, FS_Interval
      <4> QED BY <3>1, <4>1, <4>2, <4>3
    <3> HIDE DEF ids, next
    <3>3. r.tasks + 1 \in ids
      BY <1>1, <2>1, <2>2, <2>3, <3>1
    <3> QED BY <1>1, <2>1, <2>2, <2>3, <3>1, <3>2, <3>3
  <2>4. CASE next # "dispatch"
    <3>1. ids = {} /\ Cardinality({}) = 0
      BY <2>4, FS_EmptySet
    <3> HIDE DEF ids, next
    <3> QED BY <2>1, <2>4, <3>1
  <2> QED BY <2>3, <2>4
<1> DEFINE rn == Notify(r2, said)
<1>5. /\ Shaped(rn) /\ Coherent(rn) /\ rn.notices = r.notices \cup said
      /\ \A f \in Channels \ {"scope", "controlTask", "mode", "notices"} : rn[f] = r[f]
      /\ rn.controlTask = r2.controlTask
  <2>1. r2.notices = r.notices
    BY <1>3 DEF Channels
  <2> HIDE DEF r2, said
  <2>2. /\ Shaped(rn) /\ Coherent(rn) /\ rn.notices = r2.notices \cup said
        /\ \A f \in Channels \ {"notices"} : rn[f] = r2[f]
    BY <1>3, Notifying
  <2> QED BY <1>3, <2>1, <2>2 DEF Channels
<1> HIDE DEF rn
<1>6. /\ DOMAIN r3 = Channels
      /\ \A f \in Channels \ {"message", "tasks", "sims", "waves", "attempt"} : r3[f] = rn[f]
      /\ r3.message = (d.talks /\ clean) /\ r3.tasks = r.tasks + Cardinality(ids)
      /\ r3.waves = IF next = "dispatch" THEN r.waves + 1 ELSE r.waves
      /\ r3.attempt = 0
  <2>1. r3 = [rn EXCEPT !.message = d.talks /\ clean,
                    !.tasks = @ + Cardinality(ids), !.sims = @ + d.sims,
                    !.waves = IF next = "dispatch" THEN @ + 1 ELSE @, !.attempt = 0]
    BY DEF rn
  <2> HIDE DEF r3, ids, next
  <2>2. DOMAIN rn = Channels /\ rn.tasks = r.tasks /\ rn.waves = r.waves
    BY <1>5 DEF Shaped, Channels
  <2> QED BY <2>1, <2>2 DEF Channels
<1>7. accept(r, d, clean) = Route(r3, next, ids)
  BY DEF accept, r1
<1> HIDE DEF r3
<1>8. /\ r3.may = rn.may /\ r3.violations = rn.violations /\ r3.outcomes = rn.outcomes
      /\ r3.scope = rn.scope /\ r3.first = rn.first /\ r3.drafts = rn.drafts
      /\ r3.controlTask = rn.controlTask /\ r3.answer = rn.answer
      /\ r3.notices = rn.notices /\ r3.findings = rn.findings
  BY <1>6 DEF Channels
<1>9. Shaped(r3)
  <2>1. r.waves \in Nat /\ r.waves + 1 \in 0..MaxWaves /\ r.waves \in 0..MaxWaves
    BY Limits DEF Shaped
  <2> HIDE DEF ids, next
  <2> QED BY <1>1, <1>4, <1>5, <1>6, <1>8, <2>1 DEF Shaped
<1>10. Coherent(r3)
  BY <1>5, <1>6, <1>8 DEF Coherent, mayControl
<1>11. /\ r3.controlTask = (IF d.control /\ ~drop THEN "pending" ELSE r.controlTask)
       /\ r3.findings = r.findings /\ r3.tasks = r.tasks + Cardinality(ids)
       /\ r3.notices = r.notices \cup said
  BY <1>3, <1>5, <1>6, <1>8 DEF Channels
<1>12. \/ Heard(r3) \/ next = "compose" \/ ids # {}
       \/ next # "finish" /\ hasFindings(r3)
       \/ next = "control" /\ r3.controlTask = "pending"
  <2>1. CASE drop
    <3>1. "control_not_permitted" \in said
      BY <2>1
    <3> QED BY <1>11, <3>1 DEF Heard
  <2>2. CASE ~drop /\ d.next = "finish"
    <3>1. CASE clean
      BY <1>1, <1>6, <2>2, <3>1 DEF Heard
    <3>2. CASE ~clean
      <4>1. "message_unverified" \in said
        BY <1>1, <2>2, <3>2
      <4> QED BY <1>11, <4>1 DEF Heard
    <3> QED BY <3>1, <3>2
  <2>3. CASE ~drop /\ d.next = "control"
    <3>1. next = "control"
      BY <2>3
    <3>2. r3.controlTask = "pending"
      BY <1>1, <1>11, <2>3 DEF Shaped
    <3> QED BY <3>1, <3>2
  <2>4. CASE ~drop /\ d.next \in {"dispatch", "compose"}
    <3>1. next = d.next
      BY <2>4
    <3> QED BY <1>4, <2>4, <3>1
  <2> QED BY <1>1, <2>1, <2>2, <2>3, <2>4
<1>13. r3.controlTask # "done"
  BY <1>11
<1>14. \A t \in 1..r3.tasks : t \in DOMAIN r3.findings \/ t \in ids
  BY <1>4, <1>11
<1>15. ids \in SUBSET (1..r3.tasks) /\ (ids # {} => next = "dispatch")
  BY <1>4, <1>11
<1> HIDE DEF ids, next
<1> QED BY <1>7, <1>9, <1>10, <1>12, <1>13, <1>14, <1>15, Routing

LEMMA PlannerSteps ==
    ASSUME RequestInv, PlannerAsks \/ PlannerReply
    PROVE  Holds(node', req', work') /\ node' # "idle"
PROOF
<1>1. node \in {"planner", "planner_asked"}
  BY DEF PlannerAsks, PlannerReply
<1>2. /\ Shaped(req) /\ Coherent(req) /\ req.controlTask # "done" /\ DOMAIN work = {}
      /\ 1..req.tasks \subseteq DOMAIN req.findings
      /\ node = "planner_asked" => req.waves < MaxWaves
  BY <1>1 DEF RequestInv, Holds, Placed, Reported
<1>3. CASE PlannerAsks
  <2>1. CASE OutOfWaves
    BY <1>1, <1>3, <2>1, MovingOn DEF PlannerAsks
  <2>2. CASE ~OutOfWaves /\ refusal # "none"
    <3>1. MoveOn({refusal})
      BY <1>3, <2>2 DEF PlannerAsks
    <3>2. refusal \notin {"none", "plan_superseded"}
      BY <2>2, Interruption
    <3> QED BY <1>1, <3>1, <3>2, MovingOn
  <2>3. CASE ~OutOfWaves /\ refusal = "none"
    <3>1. node' = "planner_asked" /\ UNCHANGED <<req, work>>
      BY <1>3, <2>3 DEF PlannerAsks
    <3>2. req.waves < MaxWaves
      BY <1>2, <2>3, Limits DEF OutOfWaves, Coherent, Shaped
    <3> QED BY <1>2, <3>1, <3>2 DEF Holds, Staffed, Reported, Placed, ControlNodes
  <2> QED BY <2>1, <2>2, <2>3
<1>4. CASE PlannerReply
  <2>1. CASE Aborted /\ MoveOn({interrupted})
    <3>1. interrupted \notin {"none", "plan_superseded"}
      BY <2>1, Interruption DEF Aborted
    <3> QED BY <1>1, <2>1, <3>1, MovingOn
  <2>2. CASE fallback(req)
    BY <1>2, <2>2, FallingBack
  <2>3. CASE Route(Notify(req, {"model_refused"}), "finish", {})
    <3> DEFINE r == Notify(req, {"model_refused"})
    <3>1. Shaped(r) /\ Coherent(r) /\ r.notices = req.notices \cup {"model_refused"}
          /\ r.controlTask = req.controlTask /\ r.tasks = req.tasks /\ r.findings = req.findings
      BY <1>2, Notifying DEF Channels
    <3>2. Route(r, "finish", {})
      BY <2>3
    <3> HIDE DEF r
    <3>3. Heard(r)
      BY <3>1 DEF Heard
    <3> QED BY <1>2, <3>1, <3>2, <3>3, Routing
  <2>4. CASE Repair(req)
    BY <1>2, <1>4, <2>4, Repairing DEF PlannerReply
  <2>5. ASSUME NEW d \in Decisions, NEW clean \in BOOLEAN,
               LET r == IF req.scope.set \/ req.first.set THEN req
                        ELSE [req EXCEPT !.first = [set |-> TRUE, allowControl |-> d.allowControl,
                                                    allowSimulation |-> d.allowSimulation]]
                   scope == IF r.scope.set THEN r.scope ELSE r.first
               IN IF validatePlan(d, r, scope) THEN accept(r, d, clean) ELSE Repair(r)
        PROVE  Holds(node', req', work') /\ node' # "idle"
    <3> DEFINE f == [set |-> TRUE, allowControl |-> d.allowControl,
                     allowSimulation |-> d.allowSimulation]
               c == [req EXCEPT !.first = f]
               r == IF req.scope.set \/ req.first.set THEN req ELSE c
    <3>1. f \in Scope /\ f.set = TRUE
      BY CopilotAssumption DEF Scope
    <3>2. /\ DOMAIN c = Channels /\ c.first = f
          /\ \A x \in Channels \ {"first"} : c[x] = req[x]
      BY <1>2 DEF Shaped, Channels
    <3> HIDE DEF f
    <3>3. r.scope.set \/ r.first.set
      BY <3>1, <3>2
    <3>4. CASE req.scope.set \/ req.first.set
      <4>1. r = req
        BY <3>4
      <4> HIDE DEF r, c
      <4>2. IF validatePlan(d, r, IF r.scope.set THEN r.scope ELSE r.first)
            THEN accept(r, d, clean) ELSE Repair(r)
        BY <2>5, <3>4, <4>1
      <4> QED BY <1>2, <1>4, <3>3, <4>1, <4>2, Accepting, Repairing DEF PlannerReply
    <3>5. CASE ~(req.scope.set \/ req.first.set)
      <4>1. r = c
        BY <3>5
      <4>2. IF validatePlan(d, r, IF r.scope.set THEN r.scope ELSE r.first)
            THEN accept(r, d, clean) ELSE Repair(r)
        BY <2>5, <3>5 DEF f
      <4> HIDE DEF r, c
      <4>3. /\ c.may = req.may /\ c.violations = req.violations /\ c.message = req.message
            /\ c.outcomes = req.outcomes /\ c.attempt = req.attempt
            /\ c.waves = req.waves /\ c.tasks = req.tasks /\ c.drafts = req.drafts
            /\ c.answer = req.answer /\ c.notices = req.notices /\ c.findings = req.findings
            /\ c.scope = req.scope /\ c.controlTask = req.controlTask
        BY <3>2 DEF Channels
      <4>4. Shaped(c) /\ Coherent(c)
        BY <1>2, <3>1, <3>2, <3>5, <4>3 DEF Shaped, Coherent, mayControl
      <4>5. r.controlTask # "done" /\ r.waves < MaxWaves /\ 1..r.tasks \subseteq DOMAIN r.findings
        BY <1>2, <1>4, <4>1, <4>3 DEF PlannerReply
      <4> QED BY <3>3, <4>1, <4>2, <4>4, <4>5, Accepting, Repairing
    <3> QED BY <3>4, <3>5
  <2> QED BY <1>4, <2>1, <2>2, <2>3, <2>4, <2>5 DEF PlannerReply
<1> QED BY <1>3, <1>4

(* One specialist's step: of the others nothing changes.                   *)
TaskFields == {"phase", "turns", "evidence", "draft"}

Working(t, w) ==
    /\ DOMAIN w = DOMAIN work /\ \A u \in DOMAIN work : u # t => w[u] = work[u]
    /\ DOMAIN w[t] = TaskFields /\ w[t].turns \in 0..MaxSpecialistTurns
    /\ w[t].phase = "asked" => w[t].turns < MaxSpecialistTurns

Filed(t, r) ==
    /\ DOMAIN r = Channels
    /\ \E s : r.findings = Merge(req.findings, t, s)
    /\ r.controlTask = IF t = K THEN "done" ELSE req.controlTask
    /\ \A f \in Channels \ {"findings", "controlTask", "proposal"} : r[f] = req[f]

LEMMA TaskAt ==
    ASSUME RequestInv, NEW t \in DOMAIN work
    PROVE  /\ node \in {"wave", "control"} /\ (t = K => node = "control")
           /\ DOMAIN work[t] = TaskFields /\ work[t].turns \in 0..MaxSpecialistTurns
           /\ work[t].phase = "asked" => work[t].turns < MaxSpecialistTurns
           /\ Shaped(req) /\ Coherent(req)
BY DEF RequestInv, Holds, Placed, Staffed, TaskFields

LEMMA TaskGoesOn ==
    ASSUME RequestInv, NEW t \in DOMAIN work, NEW w, Working(t, w), w[t].phase # "done"
    PROVE  Holds(node, req, w)
PROOF
<1>1. Holds(node, req, work)
  BY DEF RequestInv
<1>2. Staffed(w, req)
  BY <1>1 DEF Holds, Staffed, Working, TaskFields
<1>3. Reported(node, req, w)
  BY <1>1 DEF Holds, Reported, Working
<1>4. Placed(node, req, w)
  BY <1>1 DEF Holds, Placed, Working
<1> QED BY <1>1, <1>2, <1>3, <1>4 DEF Holds

LEMMA TaskIsOver ==
    ASSUME RequestInv, NEW t \in DOMAIN work, NEW w, Working(t, w), w[t].phase = "done",
           NEW r, Filed(t, r)
    PROVE  Holds(node, r, w)
PROOF
<1>1. Shaped(req) /\ Coherent(req) /\ Staffed(work, req) /\ Reported(node, req, work)
      /\ Placed(node, req, work) /\ node \in {"wave", "control"} /\ (t = K => node = "control")
  BY TaskAt DEF RequestInv, Holds
<1>2. /\ r.may = req.may /\ r.violations = req.violations /\ r.message = req.message
      /\ r.outcomes = req.outcomes /\ r.first = req.first /\ r.attempt = req.attempt
      /\ r.waves = req.waves /\ r.tasks = req.tasks /\ r.drafts = req.drafts
      /\ r.answer = req.answer /\ r.notices = req.notices /\ r.scope = req.scope
  BY DEF Filed, Channels
<1>3. DOMAIN r.findings = DOMAIN req.findings \cup {t}
  <2>1. PICK s : r.findings = Merge(req.findings, t, s)
    BY DEF Filed
  <2>2. DOMAIN Merge(req.findings, t, s) = DOMAIN req.findings \cup {t}
    BY Merging
  <2> QED BY <2>1, <2>2
<1>4. mayControl(r) <=> mayControl(req)
  BY <1>2 DEF mayControl
<1>5. t = K => mayControl(req)
  BY <1>1 DEF Placed, ControlNodes
<1>6. Shaped(r)
  BY <1>1, <1>2 DEF Shaped, Filed
<1>7. Coherent(r)
  BY <1>1, <1>2, <1>4, <1>5 DEF Coherent, Filed
<1>8. Staffed(w, r)
  BY <1>1, <1>2 DEF Staffed, Working, TaskFields
<1>9. Reported(node, r, w)
  BY <1>1, <1>2, <1>3 DEF Reported, Working
<1>10. Placed(node, r, w)
  BY <1>1, <1>2, <1>4 DEF Placed, Working, Filed
<1> QED BY <1>6, <1>7, <1>8, <1>9, <1>10 DEF Holds

LEMMA Reporting ==
    ASSUME RequestInv, NEW t \in DOMAIN work, NEW status, NEW withdrawn
    PROVE  /\ Filed(t, Report(t, status, withdrawn, req))
           /\ \A p : Filed(t, [Report(t, status, withdrawn, req) EXCEPT !.proposal = p])
PROOF
<1> DEFINE r1 == [req EXCEPT !.findings = Merge(req.findings, t, status)]
           r == Report(t, status, withdrawn, req)
<1>1. DOMAIN req = Channels
  BY TaskAt DEF Shaped
<1>2. /\ DOMAIN r1 = Channels /\ r1.findings = Merge(req.findings, t, status)
      /\ \A f \in Channels \ {"findings"} : r1[f] = req[f]
  BY <1>1 DEF Channels
<1> HIDE DEF r1
<1>3. \/ t # K /\ r = r1
      \/ t = K /\ \E p : r = [r1 EXCEPT !.controlTask = "done", !.proposal = p]
  BY DEF Report, r1
<1>4. Filed(t, r)
  BY <1>2, <1>3 DEF Filed, Channels
<1> HIDE DEF r
<1>5. \A p : Filed(t, [r EXCEPT !.proposal = p])
  BY <1>4 DEF Filed, Channels
<1> QED BY <1>4, <1>5 DEF r

LEMMA AgentSteps ==
    ASSUME RequestInv, NEW t \in DOMAIN work, AgentAsks(t) \/ AgentReply(t)
    PROVE  Holds(node', req', work') /\ node' # "idle"
PROOF
<1>1. /\ node \in {"wave", "control"} /\ node' = node
      /\ DOMAIN work[t] = TaskFields /\ work[t].turns \in 0..MaxSpecialistTurns
      /\ work[t].phase = "asked" => work[t].turns < MaxSpecialistTurns
  BY TaskAt DEF AgentAsks, AgentReply
<1>2. ASSUME NEW status, NEW withdrawn, EndTask(t, status, withdrawn)
      PROVE  Holds(node', req', work') /\ node' # "idle"
  <2>1. Working(t, work') /\ work'[t].phase = "done"
    BY <1>1, <1>2 DEF EndTask, Working, TaskFields
  <2>2. Filed(t, req')
    BY <1>2, Reporting DEF EndTask
  <2> QED BY <1>1, <2>1, <2>2, TaskIsOver
<1>3. CASE AgentAsks(t)
  <2>1. CASE work[t].turns < MaxSpecialistTurns /\ UNCHANGED req
             /\ work' = [work EXCEPT ![t].phase = "asked"]
    <3>1. Working(t, work') /\ work'[t].phase # "done"
      BY <1>1, <2>1 DEF Working, TaskFields
    <3> QED BY <1>1, <2>1, <3>1, TaskGoesOn
  <2>2. ~(work[t].turns >= MaxSpecialistTurns) => work[t].turns < MaxSpecialistTurns
    BY <1>1, Limits
  <2> QED BY <1>2, <1>3, <2>1, <2>2 DEF AgentAsks
<1>4. CASE AgentReply(t)
  <2>1. CASE UNCHANGED req /\ work[t].phase = "asked"
             /\ \E p \in {"late_tools", "tools"} :
                  work' = [work EXCEPT ![t].turns = @ + 1, ![t].phase = p]
    <3>1. PICK p \in {"late_tools", "tools"} :
            work' = [work EXCEPT ![t].turns = @ + 1, ![t].phase = p]
      BY <2>1
    <3>2. work[t].turns + 1 \in 0..MaxSpecialistTurns
      BY <1>1, <2>1, Limits
    <3>3. /\ DOMAIN work' = DOMAIN work /\ \A u \in DOMAIN work : u # t => work'[u] = work[u]
          /\ DOMAIN work'[t] = TaskFields /\ work'[t].turns = work[t].turns + 1
          /\ work'[t].phase = p
      BY <1>1, <3>1 DEF TaskFields
    <3>4. Working(t, work') /\ work'[t].phase # "done"
      BY <3>2, <3>3 DEF Working
    <3> QED BY <1>1, <2>1, <3>4, TaskGoesOn
  <2> QED BY <1>2, <1>4, <2>1 DEF AgentReply
<1> QED BY <1>3, <1>4

LEMMA ToolSteps ==
    ASSUME RequestInv, NEW t \in DOMAIN work, Tools(t)
    PROVE  Holds(node', req', work') /\ node' # "idle"
PROOF
<1>1. /\ node \in {"wave", "control"} /\ node' = node
      /\ DOMAIN work[t] = TaskFields /\ work[t].turns \in 0..MaxSpecialistTurns
  BY TaskAt DEF Tools
<1>2. PICK reports \in BOOLEAN, reads \in 0..1, draft \in {"none", "good", "bad"} :
        LET n == Claimed(reads)
            w == Supplied(t, n, draft)
        IN  IF reports \/ ~reg.open \/ reg.evidence + n >= MaxEvidence
            THEN /\ work' = [w EXCEPT ![t].phase = "done"]
                 /\ req' = [Report(t, "ended", FALSE, req)
                              EXCEPT !.proposal = IF t = K /\ req.mode = "propose" THEN w[t].draft ELSE @]
            ELSE /\ work' = [w EXCEPT ![t].phase = "agent"]
                 /\ UNCHANGED req
  BY DEF Tools
<1> DEFINE w == Supplied(t, Claimed(reads), draft)
<1>3. /\ DOMAIN w = DOMAIN work /\ \A u \in DOMAIN work : u # t => w[u] = work[u]
      /\ DOMAIN w[t] = TaskFields /\ w[t].turns = work[t].turns
  BY <1>1 DEF TaskFields, Supplied
<1>4. \/ /\ work' = [w EXCEPT ![t].phase = "done"]
         /\ \E p : req' = [Report(t, "ended", FALSE, req) EXCEPT !.proposal = p]
      \/ work' = [w EXCEPT ![t].phase = "agent"] /\ UNCHANGED req
  BY <1>2
<1> HIDE DEF w
<1>5. CASE /\ work' = [w EXCEPT ![t].phase = "done"]
           /\ \E p : req' = [Report(t, "ended", FALSE, req) EXCEPT !.proposal = p]
  <2>1. Working(t, work') /\ work'[t].phase = "done"
    BY <1>1, <1>3, <1>5 DEF Working, TaskFields
  <2>2. PICK p : req' = [Report(t, "ended", FALSE, req) EXCEPT !.proposal = p]
    BY <1>5
  <2>3. Filed(t, req')
    BY <2>2, Reporting
  <2> QED BY <1>1, <2>1, <2>3, TaskIsOver
<1>6. CASE work' = [w EXCEPT ![t].phase = "agent"] /\ UNCHANGED req
  <2>1. Working(t, work') /\ work'[t].phase # "done"
    BY <1>1, <1>3, <1>6 DEF Working, TaskFields
  <2> QED BY <1>1, <1>6, <2>1, TaskGoesOn
<1> QED BY <1>4, <1>5, <1>6

(* From join on the graph is a line of nodes without specialists, but for  *)
(* the controller's.                                                       *)
LEMMA Elsewhere ==
    ASSUME RequestInv, node \notin {"wave", "dead", "intake"}, DOMAIN work' = {},
           node' \notin {"wave", "control", "orient", "planner", "planner_asked"},
           Shaped(req'), Coherent(req'), req'.tasks = req.tasks, req'.findings = req.findings,
           node' \in ControlNodes => mayControl(req'),
           node' = "compose_asked" => req'.drafts < MaxDrafts,
           node' = "verify" => req'.drafts > 0,
           node' = "finish" => Heard(req')
    PROVE  Holds(node', req', work')
PROOF
<1>1. 1..req.tasks \subseteq DOMAIN req.findings
  BY DEF RequestInv, Holds, Reported
<1>2. Staffed(work', req') /\ Reported(node', req', work')
  BY <1>1 DEF Staffed, Reported
<1> QED BY <1>2 DEF Holds, Placed

LEMMA JoinSteps ==
    ASSUME RequestInv, join \/ afterControl
    PROVE  Holds(node', req', work') /\ node' # "idle"
PROOF
<1>1. Holds(node, req, work) /\ DOMAIN <<>> = {}
  BY DEF RequestInv
<1>2. CASE join
  <2>1. node = "wave" /\ node' = "planner" /\ work' = <<>> /\ UNCHANGED req /\ WaveOver
    BY <1>2 DEF join
  <2>2. 1..req.tasks \subseteq DOMAIN req.findings
    BY <1>1, <2>1 DEF Holds, Reported, WaveOver
  <2> QED BY <1>1, <2>1, <2>2 DEF Holds, Staffed, Reported, Placed, ControlNodes
<1>3. CASE afterControl
  <2>1. node = "control" /\ node' \in {"plan_check", "compose"} /\ work' = <<>> /\ UNCHANGED req
    BY <1>3 DEF afterControl
  <2>2. mayControl(req)
    BY <1>1, <2>1 DEF Holds, Placed, ControlNodes
  <2> QED BY <1>1, <2>1, <2>2, Elsewhere DEF Holds
<1> QED BY <1>2, <1>3

(* What compose writes: a draft of an answer, or that there is none.       *)
LEMMA Drafting ==
    ASSUME Shaped(req), Coherent(req), req.drafts < MaxDrafts, NEW a, NEW n,
           a # "none" \/ "compose_unavailable" \in n
    PROVE  LET r == [Notify(req, n) EXCEPT !.answer = a, !.drafts = @ + 1]
           IN  /\ Shaped(r) /\ Coherent(r) /\ r.drafts > 0
               /\ r.tasks = req.tasks /\ r.findings = req.findings
PROOF
<1> DEFINE m == Notify(req, n)
           r == [m EXCEPT !.answer = a, !.drafts = @ + 1]
<1>1. /\ Shaped(m) /\ Coherent(m) /\ m.notices = req.notices \cup n /\ m.drafts = req.drafts
      /\ m.tasks = req.tasks /\ m.findings = req.findings
  BY Notifying DEF Channels
<1> HIDE DEF m
<1>2. /\ DOMAIN r = Channels /\ r.answer = a /\ r.drafts = req.drafts + 1
      /\ \A f \in Channels \ {"answer", "drafts"} : r[f] = m[f]
  BY <1>1 DEF Shaped, Channels
<1>3. req.drafts + 1 \in 0..MaxDrafts /\ req.drafts + 1 > 0
  BY Limits DEF Shaped
<1> HIDE DEF r
<1>4. /\ r.may = m.may /\ r.violations = m.violations /\ r.message = m.message
      /\ r.outcomes = m.outcomes /\ r.first = m.first /\ r.attempt = m.attempt
      /\ r.waves = m.waves /\ r.tasks = m.tasks /\ r.findings = m.findings
      /\ r.notices = m.notices /\ r.scope = m.scope /\ r.controlTask = m.controlTask
  BY <1>2 DEF Channels
<1>5. Shaped(r)
  BY <1>1, <1>2, <1>3, <1>4 DEF Shaped
<1>6. Coherent(r)
  BY <1>1, <1>2, <1>4 DEF Coherent, mayControl
<1> QED BY <1>1, <1>2, <1>3, <1>4, <1>5, <1>6 DEF r, m

LEMMA ComposeSteps ==
    ASSUME RequestInv, ComposeAsks \/ ComposeReply
    PROVE  Holds(node', req', work') /\ node' # "idle"
PROOF
<1>1. /\ Shaped(req) /\ Coherent(req) /\ node \in {"compose", "compose_asked"}
      /\ DOMAIN work = {} /\ UNCHANGED work
      /\ node = "compose_asked" => req.drafts < MaxDrafts
  BY DEF RequestInv, Holds, Placed, ComposeAsks, ComposeReply
<1>2. ASSUME NEW n, req.drafts < MaxDrafts, node' = "verify", req' = unavailable(n)
      PROVE  Holds(node', req', work')
  <2>1. "compose_unavailable" \in Said \cup n \cup {"compose_unavailable"}
    OBVIOUS
  <2>2. /\ Shaped(req') /\ Coherent(req') /\ req'.drafts > 0
        /\ req'.tasks = req.tasks /\ req'.findings = req.findings
    BY <1>1, <1>2, <2>1, Drafting DEF unavailable
  <2> QED BY <1>1, <1>2, <2>2, Elsewhere DEF ControlNodes
<1>3. CASE ComposeAsks
  <2>1. CASE req.drafts >= MaxDrafts
    <3>1. node' = "verify" /\ req' = Notify(req, Said)
      BY <1>3, <2>1 DEF ComposeAsks
    <3>2. /\ Shaped(req') /\ Coherent(req') /\ req'.drafts = req.drafts
          /\ req'.tasks = req.tasks /\ req'.findings = req.findings
      BY <1>1, <3>1, Notifying DEF Channels
    <3>3. req.drafts > 0
      BY <1>1, <2>1, Limits DEF Shaped
    <3> QED BY <1>1, <3>1, <3>2, <3>3, Elsewhere DEF ControlNodes
  <2>2. CASE req.drafts < MaxDrafts /\ refusal # "none"
    <3>1. node' = "verify" /\ req' = unavailable({refusal})
      BY <1>1, <1>3, <2>2, Limits DEF ComposeAsks, Shaped
    <3> QED BY <1>2, <2>2, <3>1
  <2>3. CASE req.drafts < MaxDrafts /\ refusal = "none"
    <3>1. node' = "compose_asked" /\ UNCHANGED req
      BY <1>1, <1>3, <2>3, Limits DEF ComposeAsks, Shaped
    <3> QED BY <1>1, <2>3, <3>1, Elsewhere DEF ControlNodes
  <2>4. req.drafts >= MaxDrafts \/ req.drafts < MaxDrafts
    BY <1>1, Limits DEF Shaped
  <2> QED BY <1>3, <2>1, <2>2, <2>3, <2>4 DEF ComposeAsks
<1>4. CASE ComposeReply
  <2>1. node' = "verify" /\ req.drafts < MaxDrafts
    BY <1>1, <1>4 DEF ComposeReply
  <2>2. ASSUME NEW a \in {"good", "bad"},
               req' = [Notify(req, Said) EXCEPT !.answer = a, !.drafts = @ + 1]
        PROVE  Holds(node', req', work')
    <3>1. /\ Shaped(req') /\ Coherent(req') /\ req'.drafts > 0
          /\ req'.tasks = req.tasks /\ req'.findings = req.findings
      BY <1>1, <2>1, <2>2, Drafting
    <3> QED BY <1>1, <2>1, <3>1, Elsewhere DEF ControlNodes
  <2> QED BY <1>2, <1>4, <2>1, <2>2 DEF ComposeReply
<1> QED BY <1>3, <1>4

LEMMA VerifyStep ==
    ASSUME RequestInv, verify
    PROVE  Holds(node', req', work') /\ node' # "idle"
PROOF
<1> DEFINE bad == req.answer = "bad"
           said == IF bad /\ req.drafts >= MaxDrafts THEN {"verify_failed"} ELSE {}
<1>1. /\ Shaped(req) /\ Coherent(req) /\ node = "verify" /\ DOMAIN work = {}
      /\ req.drafts > 0 /\ 1..req.tasks \subseteq DOMAIN req.findings
  BY DEF RequestInv, Holds, Placed, Reported, verify
<1>2. /\ req' = [req EXCEPT !.violations = bad, !.notices = @ \cup said]
      /\ node' = afterVerify(req')
      /\ work' = IF node' = "control" THEN NewWork({K}) ELSE <<>>
  BY DEF verify
<1>3. bad \in BOOLEAN
  OBVIOUS
<1> HIDE DEF bad, said
<1>4. /\ DOMAIN req' = Channels /\ req'.violations = bad /\ req'.notices = req.notices \cup said
      /\ \A f \in Channels \ {"violations", "notices"} : req'[f] = req[f]
  BY <1>1, <1>2 DEF Shaped, Channels
<1>5. /\ req'.may = req.may /\ req'.message = req.message /\ req'.outcomes = req.outcomes
      /\ req'.scope = req.scope /\ req'.first = req.first /\ req'.attempt = req.attempt
      /\ req'.waves = req.waves /\ req'.tasks = req.tasks /\ req'.drafts = req.drafts
      /\ req'.controlTask = req.controlTask /\ req'.answer = req.answer
      /\ req'.findings = req.findings
  BY <1>4 DEF Channels
<1>6. Shaped(req') /\ Coherent(req')
  BY <1>1, <1>3, <1>4, <1>5 DEF Shaped, Coherent, mayControl
<1>7. DOMAIN <<>> = {}
  OBVIOUS
<1>8. CASE node' = "control"
  <2>1. mayControl(req') /\ work' = NewWork({K})
    BY <1>2, <1>8 DEF afterVerify
  <2>2. DOMAIN work' = {K}
        /\ \A t \in DOMAIN work' : /\ DOMAIN work'[t] = {"phase", "turns", "evidence", "draft"}
                                   /\ work'[t].turns = 0 /\ work'[t].phase = "queued"
    BY <2>1 DEF NewWork
  <2>3. K \in 0..req'.tasks /\ 0 \in 0..MaxSpecialistTurns
    BY <1>1, <1>5, Limits DEF Shaped, K
  <2>4. Staffed(work', req')
    BY <2>2, <2>3 DEF Staffed
  <2>5. Reported(node', req', work') /\ Placed(node', req', work')
    BY <1>1, <1>5, <1>8, <2>1 DEF Reported, Placed
  <2> QED BY <1>6, <1>8, <2>4, <2>5 DEF Holds
<1>9. CASE node' = "compose"
  BY <1>1, <1>2, <1>5, <1>6, <1>7, <1>9, Elsewhere DEF ControlNodes
<1>10. CASE node' = "finish"
  <2>1. Heard(req')
    <3>1. CASE ~bad
      <4>1. req.answer # "none" => req'.answer # "none" /\ ~req'.violations
        BY <1>4, <1>5, <3>1
      <4>2. req.answer = "none" => "compose_unavailable" \in req'.notices
        BY <1>1, <1>4 DEF Coherent
      <4> QED BY <4>1, <4>2 DEF Heard
    <3>2. CASE bad
      <4>1. req'.drafts >= MaxDrafts
        BY <1>1, <1>2, <1>4, <1>5, <1>10, <3>2, Limits DEF afterVerify, Shaped
      <4>2. "verify_failed" \in req'.notices
        BY <1>4, <1>5, <3>2, <4>1 DEF said
      <4> QED BY <4>2 DEF Heard
    <3> QED BY <3>1, <3>2
  <2> QED BY <1>1, <1>2, <1>5, <1>6, <1>7, <1>10, <2>1, Elsewhere DEF ControlNodes
<1>11. node' \in {"compose", "control", "finish"}
  BY <1>2 DEF afterVerify
<1> QED BY <1>8, <1>9, <1>10, <1>11

(* The rest of the way: nodes that only add what there is to say.          *)
Telling(n) == node' = "finish" /\ work' = work /\ req' = Notify(req, {n}) /\ n # "plan_superseded"

LEMMA TellingEnds ==
    ASSUME RequestInv, NEW n, Telling(n), node \notin {"wave", "control", "dead", "intake"}
    PROVE  Holds(node', req', work')
PROOF
<1>1. Shaped(req) /\ Coherent(req) /\ DOMAIN work = {}
  BY DEF RequestInv, Holds, Placed
<1>2. /\ Shaped(req') /\ Coherent(req') /\ req'.notices = req.notices \cup {n}
      /\ req'.tasks = req.tasks /\ req'.findings = req.findings
  BY <1>1, Notifying DEF Telling, Channels
<1>3. Heard(req')
  BY <1>2 DEF Heard, Telling
<1> QED BY <1>1, <1>2, <1>3, Elsewhere DEF Telling, ControlNodes

LEMMA OpeningSteps ==
    ASSUME RequestInv, intake \/ orient
    PROVE  Holds(node', req', work') /\ node' # "idle"
PROOF
<1>0. inbox \in BOOLEAN /\ Holds(node, req, work) /\ DOMAIN <<>> = {}
  BY DEF RequestInv
<1>1. CASE intake
  <2>1. node' = "orient" /\ work' = <<>> /\ \E s : req' = FreshRequest(inbox, s)
    BY <1>1 DEF intake
  <2>2. PICK s : req' = FreshRequest(inbox, s)
    BY <2>1
  <2>3. Shaped(req') /\ Coherent(req') /\ req'.tasks = 0 /\ req'.controlTask = "none"
    BY <1>0, <2>2, Limits DEF FreshRequest, Shaped, Channels, Scope, NoScope, Coherent, mayControl
  <2>4. 1..0 = {}
    OBVIOUS
  <2>5. Staffed(work', req') /\ Reported(node', req', work') /\ Placed(node', req', work')
    BY <1>0, <2>1, <2>3, <2>4 DEF Staffed, Reported, Placed, ControlNodes
  <2> QED BY <2>1, <2>3, <2>5 DEF Holds
<1>2. CASE orient
  <2>1. CASE req' = Notify(req, {"context_unavailable"}) /\ node' = "finish"
    <3>1. Telling("context_unavailable") /\ node = "orient"
      BY <1>2, <2>1 DEF Telling, orient
    <3> QED BY <2>1, <3>1, TellingEnds
  <2>2. CASE req' = [req EXCEPT !.sim = SimAvailable] /\ node' = "planner"
    <3>1. Shaped(req) /\ Coherent(req) /\ DOMAIN work = {} /\ UNCHANGED work
          /\ req.controlTask # "done" /\ 1..req.tasks \subseteq DOMAIN req.findings
      BY <1>0, <1>2 DEF orient, Holds, Placed, Reported
    <3>2. DOMAIN req' = Channels /\ \A f \in Channels \ {"sim"} : req'[f] = req[f]
      BY <2>2, <3>1 DEF Shaped, Channels
    <3>3. /\ req'.may = req.may /\ req'.violations = req.violations /\ req'.message = req.message
          /\ req'.outcomes = req.outcomes /\ req'.scope = req.scope /\ req'.first = req.first
          /\ req'.attempt = req.attempt /\ req'.waves = req.waves /\ req'.tasks = req.tasks
          /\ req'.drafts = req.drafts /\ req'.controlTask = req.controlTask
          /\ req'.answer = req.answer /\ req'.notices = req.notices /\ req'.findings = req.findings
      BY <3>2 DEF Channels
    <3>4. Shaped(req') /\ Coherent(req')
      BY <3>1, <3>2, <3>3 DEF Shaped, Coherent, mayControl
    <3> QED BY <2>2, <3>1, <3>3, <3>4 DEF Holds, Staffed, Reported, Placed, ControlNodes
  <2> QED BY <1>2, <2>1, <2>2 DEF orient
<1> QED BY <1>1, <1>2

LEMMA PlanSteps ==
    ASSUME RequestInv,
           PlanCheckStarts \/ DryRunsReturn \/ confirm \/ declined \/ ApplyTakes \/ IssueReturns
    PROVE  Holds(node', req', work') /\ node' # "idle"
PROOF
<1>1. /\ Shaped(req) /\ Coherent(req) /\ UNCHANGED work
      /\ node \in {"plan_check", "dry_run", "confirm", "declined", "apply", "issue_wait"}
      /\ DOMAIN work = {} /\ (node # "declined" => mayControl(req))
  BY DEF RequestInv, Holds, Placed, ControlNodes, PlanCheckStarts, DryRunsReturn, confirm,
         declined, ApplyTakes, IssueReturns
<1>2. CASE \E n : Telling(n)
  <2>1. PICK n : Telling(n)
    BY <1>2
  <2> QED BY <1>1, <2>1, TellingEnds DEF Telling
<1>3. ASSUME NEW n, n # "plan_superseded", PlanRefused(n) PROVE \E m : Telling(m)
  BY <1>1, <1>3 DEF PlanRefused, Telling
<1>4. CASE /\ UNCHANGED req
           /\ \/ node' = "declined"
              \/ mayControl(req) /\ node' \in ControlNodes \ {"control"}
  BY <1>1, <1>4, Elsewhere DEF ControlNodes
<1>5. CASE PlanCheckStarts
  <2>1. (node' = "dry_run" /\ UNCHANGED req) \/ \E n : n # "plan_superseded" /\ PlanRefused(n)
    BY <1>5, Interruption DEF PlanCheckStarts
  <2> QED BY <1>1, <1>2, <1>3, <1>4, <1>5, <2>1 DEF PlanCheckStarts, ControlNodes
<1>6. CASE DryRunsReturn
  <2>1. (node' = "paused" /\ UNCHANGED req) \/ \E n : n # "plan_superseded" /\ PlanRefused(n)
    BY <1>6, Interruption DEF DryRunsReturn
  <2> QED BY <1>1, <1>2, <1>3, <1>4, <1>6, <2>1 DEF DryRunsReturn, ControlNodes
<1>7. CASE confirm
  <2>1. node' \in {"apply", "declined"} /\ UNCHANGED req /\ node = "confirm"
    BY <1>7 DEF confirm
  <2> QED BY <1>1, <1>4, <2>1 DEF ControlNodes
<1>8. CASE declined
  <2>1. \E n : Telling(n)
    BY <1>1, <1>8 DEF declined, Telling
  <2> QED BY <1>2, <2>1
<1>9. CASE ApplyTakes
  <2>1. (node' = "issuing" /\ UNCHANGED req) \/ Telling("apply_refused")
    BY <1>1, <1>9 DEF ApplyTakes, Telling
  <2> QED BY <1>1, <1>2, <1>4, <1>9, <2>1 DEF ApplyTakes, ControlNodes
<1>10. CASE IssueReturns
  BY <1>1, <1>4, <1>10 DEF IssueReturns, ControlNodes
<1> QED BY <1>5, <1>6, <1>7, <1>8, <1>9, <1>10

LEMMA IssueStep ==
    ASSUME RequestInv, IssueNext
    PROVE  Holds(node', req', work') /\ node' # "idle"
PROOF
<1>1. /\ Shaped(req) /\ Coherent(req) /\ UNCHANGED work /\ node = "issuing"
      /\ DOMAIN work = {} /\ mayControl(req)
  BY DEF RequestInv, Holds, Placed, ControlNodes, IssueNext
<1>2. CASE node' = "issue_wait" /\ UNCHANGED req
  BY <1>1, <1>2, Elsewhere DEF ControlNodes
<1>3. ASSUME NEW n, node' = "finish", req' = [Notify(req, n) EXCEPT !.outcomes = TRUE]
      PROVE  Holds(node', req', work')
  <2> DEFINE m == Notify(req, n)
  <2>1. Shaped(m) /\ Coherent(m) /\ m.tasks = req.tasks /\ m.findings = req.findings
    BY <1>1, Notifying DEF Channels
  <2> HIDE DEF m
  <2>2. req' = [m EXCEPT !.outcomes = TRUE]
    BY <1>3 DEF m
  <2>3. /\ DOMAIN req' = Channels /\ req'.outcomes = TRUE
        /\ \A f \in Channels \ {"outcomes"} : req'[f] = m[f]
    BY <2>1, <2>2 DEF Shaped, Channels
  <2>4. /\ req'.may = m.may /\ req'.violations = m.violations /\ req'.message = m.message
        /\ req'.scope = m.scope /\ req'.first = m.first
        /\ req'.attempt = m.attempt /\ req'.waves = m.waves /\ req'.tasks = m.tasks
        /\ req'.drafts = m.drafts /\ req'.controlTask = m.controlTask
        /\ req'.answer = m.answer /\ req'.notices = m.notices /\ req'.findings = m.findings
    BY <2>3 DEF Channels
  <2>5. Shaped(req') /\ Coherent(req') /\ Heard(req')
    BY <2>1, <2>3, <2>4 DEF Shaped, Coherent, Heard, mayControl
  <2> QED BY <1>1, <1>3, <2>1, <2>4, <2>5, Elsewhere DEF ControlNodes
<1>4. \/ node' = "issue_wait" /\ UNCHANGED req
      \/ node' = "finish" /\ \E n : req' = [Notify(req, n) EXCEPT !.outcomes = TRUE]
  BY DEF IssueNext
<1> QED BY <1>2, <1>3, <1>4

(* What happens around the run.                                            *)
LEMMA AroundSteps ==
    ASSUME RequestInv,
           \/ \E may \in Viewers : Message(may)
           \/ \E p \in 1..hist.plans, d \in {"approved", "declined"} : Decide(p, d)
           \/ finish \/ Stop \/ RunFails \/ SweptByAnother \/ Tick \/ UNCHANGED vars
    PROVE  RequestInv'
PROOF
<1>0. Holds(node, req, work) /\ seq \in Nat /\ inbox \in BOOLEAN /\ DOMAIN <<>> = {}
  BY DEF RequestInv
<1>1. ASSUME NEW may \in Viewers, Message(may) PROVE RequestInv'
  <2>1. /\ node' = "intake" /\ UNCHANGED <<req, work>> /\ seq' \in Nat /\ inbox' \in BOOLEAN
        /\ node \in Resting
    BY <1>0, <1>1, CopilotAssumption DEF Message, Running
  <2>2. DOMAIN work = {}
    BY <1>0, <2>1 DEF Holds, Placed, Resting
  <2>3. Holds(node', req', work')
    BY <1>0, <2>1, <2>2 DEF Holds, Staffed, Reported, Placed, ControlNodes
  <2> QED BY <2>1, <2>3 DEF RequestInv
<1>2. ASSUME NEW p, NEW d, Decide(p, d) PROVE RequestInv'
  <2>1. node = "paused" /\ node' = "confirm" /\ UNCHANGED <<req, work, seq, inbox>>
    BY <1>2 DEF Decide, pendingDecision
  <2>2. Holds(node', req', work')
    BY <1>0, <2>1 DEF Holds, Staffed, Reported, Placed, ControlNodes
  <2> QED BY <1>0, <2>1, <2>2 DEF RequestInv
<1>3. CASE finish
  <2>1. node = "finish" /\ node' = "idle" /\ UNCHANGED <<req, work, seq, inbox>>
    BY <1>3 DEF finish
  <2>2. Holds(node', req', work') /\ Heard(req')
    BY <1>0, <2>1 DEF Holds, Staffed, Reported, Placed, ControlNodes
  <2> QED BY <1>0, <2>1, <2>2 DEF RequestInv
<1>4. CASE RunFails
  <2>1. /\ work' = <<>> /\ UNCHANGED <<req, seq, inbox>>
        /\ \/ node' = "dead"
           \/ node' = "paused" /\ node \in {"confirm", "apply", "issuing", "issue_wait"}
    BY <1>4 DEF RunFails
  <2>2. Holds(node', req', work')
    BY <1>0, <2>1 DEF Holds, Staffed, Reported, Placed, ControlNodes
  <2> QED BY <1>0, <2>1, <2>2 DEF RequestInv
<1>5. CASE UNCHANGED <<node, seq, inbox, req, work>>
  BY <1>5 DEF RequestInv, Holds, Shaped, Coherent, mayControl, Staffed, Reported, Placed, Heard
<1>6. Stop \/ SweptByAnother \/ Tick \/ UNCHANGED vars => UNCHANGED <<node, seq, inbox, req, work>>
  BY DEF Stop, SweptByAnother, Tick, vars
<1> QED BY <1>1, <1>2, <1>3, <1>4, <1>5, <1>6

LEMMA RequestStep == RequestInv /\ [Next]_vars => RequestInv'
PROOF
<1> SUFFICES ASSUME RequestInv, [Next]_vars PROVE RequestInv'
  OBVIOUS
<1>1. CASE RunStep /\ ~finish
  <2>1. Holds(node', req', work') /\ node' # "idle"
    BY <1>1, OpeningSteps, PlannerSteps, AgentSteps, ToolSteps, JoinSteps, ComposeSteps,
       VerifyStep, PlanSteps, IssueStep DEF RunStep
  <2>2. UNCHANGED <<seq, inbox>>
    BY <1>1 DEF RunStep, intake, orient, PlannerAsks, PlannerReply, AgentAsks, AgentReply, Tools,
       join, afterControl, ComposeAsks, ComposeReply, verify, PlanCheckStarts, DryRunsReturn,
       confirm, declined, ApplyTakes, IssueNext, IssueReturns
  <2> QED BY <2>1, <2>2 DEF RequestInv
<1> QED BY <1>1, AroundSteps DEF Next

-----------------------------------------------------------------------------
(* The registry's entry: what a request has spent, while it is open.       *)
Record == {"calls", "plans", "approved", "issued", "left", "stopped"}

SpendInv ==
    /\ DOMAIN reg = {"open", "startedAt", "calls", "stop", "evidence"} /\ DOMAIN hist = Record
    /\ reg.open \in BOOLEAN /\ reg.stop \in BOOLEAN
    /\ reg.calls \in Nat /\ reg.evidence \in 0..MaxEvidence
    /\ hist.calls \in 0..MaxModelCalls
    /\ reg.open => reg.calls = hist.calls

LEMMA SpendInit == Init => SpendInv
BY Limits DEF Init, SpendInv, NoEntry, Record

LEMMA Spending ==
    ASSUME SpendInv, refusal = "none", Spend
    PROVE  SpendInv'
PROOF
<1>1. reg.open /\ reg.calls < MaxModelCalls
  BY Limits DEF refusal, interrupted, SpendInv
<1>2. /\ DOMAIN reg' = DOMAIN reg /\ reg'.calls = reg.calls + 1
      /\ reg'.open = reg.open /\ reg'.stop = reg.stop /\ reg'.evidence = reg.evidence
      /\ DOMAIN hist' = Record /\ hist'.calls = hist.calls + 1
  BY DEF Spend, SpendInv, Record
<1> QED BY <1>1, <1>2, Limits DEF SpendInv

LEMMA SpendStep == SpendInv /\ [Next]_vars => SpendInv'
PROOF
<1> SUFFICES ASSUME SpendInv, [Next]_vars PROVE SpendInv'
  OBVIOUS
<1> DEFINE Told == /\ DOMAIN hist' = Record /\ hist'.calls = hist.calls
<1>1. CASE UNCHANGED reg /\ Told
  BY <1>1 DEF SpendInv
<1>2. CASE reg' = NoEntry /\ Told
  BY <1>2, Limits DEF SpendInv, NoEntry
<1>3. UNCHANGED hist => Told
  BY DEF SpendInv
<1>4. ASSUME NEW b \in BOOLEAN, reg' = [reg EXCEPT !.stop = b], Told PROVE SpendInv'
  BY <1>4 DEF SpendInv
<1>5. CASE intake
  <2>1. /\ reg' = [NoEntry EXCEPT !.open = TRUE, !.startedAt = clock]
        /\ hist' = [hist EXCEPT !.calls = 0]
    BY <1>5 DEF intake
  <2>2. /\ DOMAIN reg' = {"open", "startedAt", "calls", "stop", "evidence"} /\ reg'.open = TRUE
        /\ reg'.calls = 0 /\ reg'.stop = FALSE /\ reg'.evidence = 0
    BY <2>1 DEF NoEntry
  <2>3. DOMAIN hist' = Record /\ hist'.calls = 0
    BY <2>1 DEF SpendInv, Record
  <2>4. 0 \in Nat /\ 0 \in 0..MaxEvidence /\ 0 \in 0..MaxModelCalls
    BY Limits
  <2>5. reg'.open \in BOOLEAN /\ reg'.stop \in BOOLEAN
    BY <2>2
  <2> QED BY <2>2, <2>3, <2>4, <2>5 DEF SpendInv
<1>6. CASE PlannerAsks
  BY <1>1, <1>3, <1>6, Spending DEF PlannerAsks
<1>7. ASSUME NEW t \in DOMAIN work, AgentAsks(t) \/ AgentReply(t) PROVE SpendInv'
  BY <1>1, <1>3, <1>7, Spending DEF AgentAsks, AgentReply
<1>8. CASE ComposeAsks
  BY <1>1, <1>3, <1>8, Spending DEF ComposeAsks
<1>9. ASSUME NEW t \in DOMAIN work, Tools(t) PROVE SpendInv'
  <2>1. PICK reads \in 0..1 : reg' = [reg EXCEPT !.evidence = @ + Claimed(reads)]
    BY <1>9 DEF Tools
  <2>2. reg.evidence + Claimed(reads) \in 0..MaxEvidence
    BY Limits DEF Claimed, SpendInv
  <2>3. DOMAIN reg' = DOMAIN reg /\ reg'.evidence = reg.evidence + Claimed(reads)
        /\ reg'.open = reg.open /\ reg'.stop = reg.stop /\ reg'.calls = reg.calls
    BY <2>1 DEF SpendInv
  <2> QED BY <1>9, <2>2, <2>3 DEF Tools, SpendInv
<1>10. CASE orient \/ PlannerReply \/ join \/ afterControl \/ ComposeReply \/ verify
            \/ PlanCheckStarts \/ confirm \/ declined \/ IssueReturns
  <2>1. UNCHANGED <<reg, hist>>
    BY <1>10 DEF orient, PlannerReply, join, afterControl, ComposeReply, verify, PlanCheckStarts,
       confirm, declined, IssueReturns
  <2> QED BY <1>1, <1>3, <2>1
<1>11. CASE DryRunsReturn \/ ApplyTakes \/ IssueNext
  <2>1. UNCHANGED reg /\ Told
    BY <1>11 DEF DryRunsReturn, ApplyTakes, IssueNext, SpendInv, Record
  <2> QED BY <1>1, <2>1
<1>12. CASE finish \/ RunFails \/ SweptByAnother
  BY <1>2, <1>3, <1>12 DEF finish, RunFails, SweptByAnother
<1>13. ASSUME NEW p, NEW d, Decide(p, d) PROVE SpendInv'
  <2>1. reg' = [reg EXCEPT !.stop = FALSE] /\ Told
    BY <1>13 DEF Decide, SpendInv, Record
  <2> QED BY <1>4, <2>1
<1>14. CASE Stop
  <2>1. reg' = [reg EXCEPT !.stop = TRUE] /\ Told
    BY <1>14 DEF Stop, SpendInv, Record
  <2> QED BY <1>4, <2>1
<1>15. CASE (\E may \in Viewers : Message(may)) \/ Tick \/ UNCHANGED vars
  BY <1>1, <1>3, <1>15 DEF Message, Tick, vars
<1> QED BY <1>5, <1>6, <1>7, <1>8, <1>9, <1>10, <1>11, <1>12, <1>13, <1>14, <1>15
        DEF Next, RunStep

-----------------------------------------------------------------------------
(* The plan on screen.  One that has been granted can be granted again     *)
(* only when it has expired: the ledger remembers a grant as long as the   *)
(* plan may still be approved.                                             *)
Granted == \/ clock >= plan.expires
           \/ \E g \in ledger.granted : g.id = plan.id /\ plan.expires <= g.at + PlanTtlS

OnScreen == {"paused", "confirm", "apply", "issuing", "issue_wait"}

LedgerTyped ==
    /\ clock \in 0..MaxClock /\ DOMAIN hist = Record
    /\ plan \in [id : Nat, expires : Nat] /\ plan.expires <= clock + PlanTtlS
    /\ ledger \in [grant : [id : Nat, at : Nat], granted : SUBSET [id : Nat, at : Nat]]
    /\ decision \in {"none", "approved", "declined", "expired", "stale"}
    /\ hist.plans \in Nat /\ hist.left \in Nat

PlanInv ==
    /\ LedgerTyped
    /\ plan.id \in {0, hist.plans}
    /\ node \in OnScreen => plan.id # 0
    /\ \A p \in DOMAIN hist.issued : /\ p \in 1..hist.plans /\ p \in hist.approved
                                     /\ hist.issued[p] \in 0..Commands
    /\ plan.id \in DOMAIN hist.issued => Granted
    /\ node = "confirm" /\ decision = "approved" => plan.id \in hist.approved
    /\ node \in {"apply", "issuing", "issue_wait"} => plan.id \in hist.approved /\ Granted
    /\ node = "apply" => plan.id \notin DOMAIN hist.issued /\ ledger.grant.at < plan.expires
    /\ node \in {"issuing", "issue_wait"} => Issued(plan.id) + hist.left <= Commands

LEMMA PlanInit == Init => PlanInv
PROOF
<1> SUFFICES ASSUME Init PROVE PlanInv
  OBVIOUS
<1>1. hist.plans = 0 /\ hist.left = 0 /\ hist.issued = <<>> /\ DOMAIN hist = Record
  BY DEF Init, Record
<1>2. DOMAIN <<>> = {} /\ 0 \in 0..MaxClock
  BY Limits
<1>3. LedgerTyped /\ plan.id = 0
  BY <1>1, <1>2, Limits DEF Init, LedgerTyped, NoPlan, NoGrant
<1> QED BY <1>1, <1>2, <1>3 DEF Init, PlanInv, OnScreen

(* Most of the graph never touches the plan.                               *)
SameRecord == /\ DOMAIN hist' = Record
              /\ hist'.plans = hist.plans /\ hist'.left = hist.left
              /\ hist'.issued = hist.issued /\ hist'.approved = hist.approved

LEMMA PlanUntouched ==
    ASSUME PlanInv, UNCHANGED <<clock, plan, ledger, decision>>, SameRecord,
           node' \in OnScreen => node' = node
    PROVE  PlanInv'
BY DEF PlanInv, LedgerTyped, OnScreen, Granted, Issued, SameRecord

LEMMA PlanLeft ==
    ASSUME PlanInv, UNCHANGED clock, SameRecord, node' \notin OnScreen,
           ledger' \in [grant : [id : Nat, at : Nat], granted : {ledger.granted}],
           decision' \in {"none", "approved", "declined", "expired", "stale"},
           plan' \in {plan, NoPlan}
    PROVE  PlanInv'
PROOF
<1>1. LedgerTyped'
  BY Limits DEF PlanInv, LedgerTyped, NoPlan, SameRecord
<1>2. CASE plan' = plan
  BY <1>1, <1>2 DEF PlanInv, OnScreen, Granted, SameRecord
<1>3. CASE plan' = NoPlan
  <2>1. plan'.id = 0
    BY <1>3 DEF NoPlan
  <2>2. plan'.id \notin DOMAIN hist'.issued
    BY <2>1 DEF PlanInv, SameRecord
  <2> QED BY <1>1, <2>1, <2>2 DEF PlanInv, OnScreen, SameRecord
<1> QED BY <1>2, <1>3

(* The dry runs give the plan an id and a time to live.                    *)
LEMMA Minting ==
    ASSUME PlanInv, UNCHANGED <<clock, ledger, decision>>,
           plan' = [id |-> hist.plans + 1, expires |-> clock + PlanTtlS],
           hist' = [hist EXCEPT !.plans = @ + 1], node' = "paused"
    PROVE  PlanInv'
PROOF
<1>1. /\ DOMAIN hist' = Record /\ hist'.plans = hist.plans + 1 /\ hist'.left = hist.left
      /\ hist'.issued = hist.issued /\ hist'.approved = hist.approved
  BY DEF PlanInv, LedgerTyped, Record
<1>2. plan'.id = hist.plans + 1 /\ plan'.expires = clock + PlanTtlS
  OBVIOUS
<1>3. hist.plans \in Nat /\ clock \in Nat
  BY Limits DEF PlanInv, LedgerTyped
<1>4. LedgerTyped'
  BY <1>1, <1>2, <1>3, Limits DEF PlanInv, LedgerTyped
<1>5. \A p \in DOMAIN hist.issued : p \in 1..(hist.plans + 1)
  BY <1>3 DEF PlanInv
<1>6. plan'.id \notin DOMAIN hist'.issued /\ plan'.id # 0
  BY <1>1, <1>2, <1>3 DEF PlanInv
<1> QED BY <1>1, <1>2, <1>4, <1>5, <1>6 DEF PlanInv, OnScreen

LEMMA Deciding ==
    ASSUME PlanInv, NEW p, NEW d \in {"approved", "declined"}, Decide(p, d)
    PROVE  PlanInv'
PROOF
<1>1. /\ node = "paused" /\ plan.id = p /\ node' = "confirm" /\ decision' = d
      /\ UNCHANGED <<clock, plan, ledger>>
      /\ hist' = [hist EXCEPT !.approved = IF d = "approved" THEN @ \cup {p} ELSE @]
  BY DEF Decide, pendingDecision
<1>2. /\ DOMAIN hist' = Record /\ hist'.plans = hist.plans /\ hist'.left = hist.left
      /\ hist'.issued = hist.issued /\ hist.approved \subseteq hist'.approved
      /\ d = "approved" => p \in hist'.approved
  BY <1>1 DEF PlanInv, LedgerTyped, Record
<1>3. LedgerTyped'
  BY <1>1, <1>2 DEF PlanInv, LedgerTyped
<1>4. \A q \in DOMAIN hist'.issued : /\ q \in 1..hist'.plans /\ q \in hist'.approved
                                     /\ hist'.issued[q] \in 0..Commands
  BY <1>2 DEF PlanInv
<1>5. plan'.id \in DOMAIN hist'.issued => Granted'
  BY <1>1, <1>2 DEF PlanInv, Granted
<1> QED BY <1>1, <1>2, <1>3, <1>4, <1>5 DEF PlanInv, OnScreen

LEMMA Confirming ==
    ASSUME PlanInv, confirm
    PROVE  PlanInv'
PROOF
<1>1. node = "confirm" /\ UNCHANGED <<clock, plan, hist>> /\ LedgerTyped
  BY DEF confirm, PlanInv
<1>2. CASE ~Granting
  <2>1. node' = "declined" /\ UNCHANGED ledger
    BY <1>2 DEF confirm
  <2>2. decision' \in {"expired", "stale", decision}
    BY DEF confirm
  <2>3. LedgerTyped'
    BY <1>1, <2>1, <2>2 DEF LedgerTyped
  <2> QED BY <1>1, <2>1, <2>3 DEF PlanInv, OnScreen, Granted
<1>3. CASE Granting
  <2> DEFINE g == [id |-> plan.id, at |-> clock]
             kept == {h \in ledger.granted : clock - h.at < PlanTtlS}
  <2>1. /\ node' = "apply" /\ ledger' = [grant |-> g, granted |-> kept \cup {g}]
        /\ decision = "approved" /\ decision' = decision
        /\ clock < plan.expires /\ Grantable(plan.id)
    <3>1. node' = "apply" /\ ledger' = [grant |-> g, granted |-> kept \cup {g}]
      BY <1>3 DEF confirm
    <3>2. decision = "approved" /\ ~(clock >= plan.expires) /\ Grantable(plan.id)
      BY <1>3 DEF Granting, Expired
    <3>3. decision' = decision
      BY <1>3, <3>2 DEF confirm, Expired
    <3> QED BY <1>1, <3>1, <3>2, <3>3, Limits DEF LedgerTyped
  <2>2. g \in [id : Nat, at : Nat] /\ g.id = plan.id /\ g.at = clock /\ kept \subseteq ledger.granted
    BY <1>1, Limits DEF LedgerTyped
  <2>3. LedgerTyped'
    BY <1>1, <2>1, <2>2 DEF LedgerTyped
  <2>4. Granted'
    <3>1. g \in ledger'.granted /\ plan.expires <= g.at + PlanTtlS
      BY <1>1, <2>1, <2>2 DEF LedgerTyped
    <3> QED BY <1>1, <2>2, <3>1 DEF Granted
  <2>5. plan.id \notin DOMAIN hist.issued
    <3>1. SUFFICES ASSUME Granted PROVE FALSE
      BY DEF PlanInv
    <3>2. PICK h \in ledger.granted : h.id = plan.id /\ plan.expires <= h.at + PlanTtlS
      BY <1>1, <2>1, <3>1, Limits DEF Granted, LedgerTyped
    <3>3. h.at \in Nat /\ clock \in Nat /\ plan.expires \in Nat /\ PlanTtlS \in Nat
      BY <1>1, Limits DEF LedgerTyped
    <3>4. clock - h.at < PlanTtlS
      BY <2>1, <3>2, <3>3
    <3> QED BY <2>1, <3>2, <3>4 DEF Grantable
  <2>6. ledger'.grant.at < plan.expires /\ plan.id \in hist.approved /\ plan.id # 0
    BY <1>1, <2>1, <2>2 DEF PlanInv, OnScreen
  <2> HIDE DEF g, kept
  <2> QED BY <1>1, <2>1, <2>3, <2>4, <2>5, <2>6 DEF PlanInv, OnScreen
<1> QED BY <1>2, <1>3

LEMMA Taking ==
    ASSUME PlanInv, ApplyTakes
    PROVE  PlanInv' /\ (node' = "issuing" => clock < plan.expires + GrantTtlS - 1)
PROOF
<1>1. /\ node = "apply" /\ UNCHANGED clock /\ LedgerTyped
      /\ ledger' = [ledger EXCEPT !.grant = NoGrant]
  BY DEF ApplyTakes, PlanInv
<1>2. ledger' \in [grant : [id : Nat, at : Nat], granted : {ledger.granted}]
      /\ ledger'.granted = ledger.granted
  BY <1>1 DEF LedgerTyped, NoGrant
<1>3. CASE node' = "issuing"
  <2>1. /\ clock - ledger.grant.at < GrantTtlS /\ ledger.grant.at < plan.expires
        /\ hist' = [hist EXCEPT !.left = Commands, !.stopped = 0] /\ UNCHANGED <<plan, decision>>
    BY <1>1, <1>3 DEF ApplyTakes, PlanInv
  <2>2. clock \in Nat /\ ledger.grant.at \in Nat /\ plan.expires \in Nat /\ GrantTtlS \in Nat
    BY <1>1, Limits DEF LedgerTyped
  <2>3. clock < plan.expires + GrantTtlS - 1
    BY <2>1, <2>2
  <2>4. /\ DOMAIN hist' = Record /\ hist'.plans = hist.plans /\ hist'.left = Commands
        /\ hist'.issued = hist.issued /\ hist'.approved = hist.approved
    BY <1>1, <2>1 DEF LedgerTyped, Record
  <2>5. LedgerTyped'
    BY <1>1, <1>2, <2>1, <2>4, Limits DEF LedgerTyped
  <2>6. Issued(plan.id)' = 0
    BY <1>1, <2>1, <2>4 DEF PlanInv, Issued
  <2>7. Granted' /\ plan.id # 0 /\ plan.id \in hist.approved
    BY <1>1, <1>2, <2>1 DEF PlanInv, Granted, OnScreen
  <2>8. Commands \in Nat /\ plan' = plan
    BY <2>1, Limits
  <2> QED BY <1>3, <2>3, <2>4, <2>5, <2>6, <2>7, <2>8 DEF PlanInv, OnScreen
<1>4. CASE node' = "finish"
  <2>1. /\ plan' = NoPlan /\ decision' = "none" /\ UNCHANGED hist
    BY <1>1, <1>4 DEF ApplyTakes
  <2>2. SameRecord
    BY <1>1, <2>1 DEF SameRecord, LedgerTyped
  <2> QED BY <1>1, <1>2, <1>4, <2>1, <2>2, PlanLeft DEF OnScreen
<1> QED BY <1>3, <1>4 DEF ApplyTakes

LEMMA Issuing ==
    ASSUME PlanInv, IssueNext
    PROVE  PlanInv'
PROOF
<1>1. node = "issuing" /\ UNCHANGED <<clock, ledger>> /\ LedgerTyped
  BY DEF IssueNext, PlanInv
<1>2. CASE node' = "finish"
  <2>1. /\ plan' = NoPlan /\ decision' = "none" /\ UNCHANGED hist
    BY <1>2 DEF IssueNext
  <2>2. SameRecord /\ ledger' \in [grant : [id : Nat, at : Nat], granted : {ledger.granted}]
    BY <1>1, <2>1 DEF SameRecord, LedgerTyped
  <2> QED BY <1>1, <1>2, <2>1, <2>2, PlanLeft DEF OnScreen
<1>3. CASE node' = "issue_wait"
  <2>1. /\ hist' = [hist EXCEPT !.issued = Merge(hist.issued, plan.id, Issued(plan.id) + 1),
                                !.left = hist.left - 1]
        /\ UNCHANGED <<plan, decision>> /\ hist.left # 0
    BY <1>3 DEF IssueNext
  <2>2. /\ DOMAIN hist' = Record /\ hist'.plans = hist.plans /\ hist'.left = hist.left - 1
        /\ hist'.issued = Merge(hist.issued, plan.id, Issued(plan.id) + 1)
        /\ hist'.approved = hist.approved
    BY <1>1, <2>1 DEF LedgerTyped, Record
  <2>3. LedgerTyped'
    BY <1>1, <2>1, <2>2 DEF LedgerTyped
  <2>4. /\ DOMAIN hist'.issued = DOMAIN hist.issued \cup {plan.id}
        /\ hist'.issued[plan.id] = Issued(plan.id) + 1
        /\ \A u \in DOMAIN hist.issued : u # plan.id => hist'.issued[u] = hist.issued[u]
    <3>1. PICK f, q, x : f = hist.issued /\ q = plan.id /\ x = Issued(plan.id) + 1
      OBVIOUS
    <3>2. hist'.issued = Merge(f, q, x)
      BY <2>2, <3>1
    <3>3. /\ DOMAIN Merge(f, q, x) = DOMAIN f \cup {q} /\ Merge(f, q, x)[q] = x
          /\ \A u \in DOMAIN f : u # q => Merge(f, q, x)[u] = f[u]
      BY DEF Merge
    <3> QED BY <3>1, <3>2, <3>3
  <2>5. Issued(plan.id) \in Nat /\ Issued(plan.id) + hist.left <= Commands
    BY <1>1, Limits DEF PlanInv, Issued
  <2>6. Issued(plan.id) + 1 \in 0..Commands /\ Issued(plan.id) + 1 + (hist.left - 1) <= Commands
    BY <1>1, <2>1, <2>5, Limits DEF LedgerTyped
  <2>7. plan.id \in 1..hist.plans /\ plan.id \in hist.approved /\ plan.id # 0 /\ Granted
    BY <1>1 DEF PlanInv, OnScreen, LedgerTyped
  <2>8. Granted' /\ Issued(plan.id)' = Issued(plan.id) + 1
    BY <1>1, <2>1, <2>4, <2>7 DEF Granted, Issued
  <2>9. \A p \in DOMAIN hist'.issued : /\ p \in 1..hist'.plans /\ p \in hist'.approved
                                       /\ hist'.issued[p] \in 0..Commands
    BY <2>2, <2>4, <2>6, <2>7 DEF PlanInv
  <2>10. plan' = plan /\ plan.id \in {0, hist.plans}
    BY <2>1 DEF PlanInv
  <2> QED BY <1>1, <1>3, <2>2, <2>3, <2>6, <2>7, <2>8, <2>9, <2>10 DEF PlanInv, OnScreen
<1> QED BY <1>2, <1>3 DEF IssueNext

LEMMA Failing ==
    ASSUME PlanInv, RunFails
    PROVE  PlanInv'
PROOF
<1>1. /\ UNCHANGED <<clock, plan, hist>> /\ decision' = "none" /\ LedgerTyped
      /\ ledger' = [ledger EXCEPT !.grant = NoGrant]
      /\ \/ node' = "dead"
         \/ node' = "paused" /\ node \in {"confirm", "apply", "issuing", "issue_wait"}
  BY DEF RunFails, PlanInv
<1>2. ledger' \in [grant : [id : Nat, at : Nat], granted : {ledger.granted}]
      /\ ledger'.granted = ledger.granted
  BY <1>1 DEF LedgerTyped, NoGrant
<1>3. CASE node' = "dead"
  <2>1. SameRecord
    BY <1>1 DEF SameRecord, LedgerTyped
  <2> QED BY <1>1, <1>2, <1>3, <2>1, PlanLeft DEF OnScreen
<1>4. CASE node' = "paused" /\ node \in OnScreen
  <2>1. LedgerTyped'
    BY <1>1, <1>2 DEF LedgerTyped
  <2>2. Granted => Granted'
    BY <1>1, <1>2 DEF Granted
  <2> QED BY <1>1, <1>4, <2>1, <2>2 DEF PlanInv, OnScreen
<1> QED BY <1>1, <1>3, <1>4 DEF OnScreen

LEMMA Ticking ==
    ASSUME PlanInv, Tick
    PROVE  PlanInv'
PROOF
<1>1. /\ UNCHANGED <<node, plan, ledger, decision, hist>> /\ clock' = clock + 1 /\ clock < MaxClock
      /\ LedgerTyped
  BY DEF Tick, PlanInv
<1>2. LedgerTyped'
  BY <1>1, Limits DEF LedgerTyped
<1>3. Granted => Granted'
  BY <1>1, Limits DEF Granted, LedgerTyped
<1> QED BY <1>1, <1>2, <1>3 DEF PlanInv, OnScreen, Issued

LEMMA PlanStep == PlanInv /\ [Next]_vars => PlanInv'
PROOF
<1> SUFFICES ASSUME PlanInv, [Next]_vars PROVE PlanInv'
  OBVIOUS
<1>1. /\ UNCHANGED hist => SameRecord
      /\ Spend => SameRecord
      /\ UNCHANGED ledger => ledger' \in [grant : [id : Nat, at : Nat], granted : {ledger.granted}]
      /\ decision \in {"none", "approved", "declined", "expired", "stale"}
  BY DEF PlanInv, LedgerTyped, SameRecord, Spend, Record
<1>2. CASE UNCHANGED <<clock, ledger, decision>> /\ SameRecord /\ node' \notin OnScreen
           /\ plan' \in {plan, NoPlan}
  BY <1>1, <1>2, PlanLeft
<1>3. CASE UNCHANGED <<clock, plan, ledger, decision>> /\ SameRecord /\ node' = node
  BY <1>3, PlanUntouched
<1>4. CASE intake
  <2>1. /\ UNCHANGED clock /\ plan' = NoPlan /\ decision' = "none" /\ node' = "orient"
        /\ ledger' = [ledger EXCEPT !.grant = NoGrant] /\ hist' = [hist EXCEPT !.calls = 0]
    BY <1>4 DEF intake
  <2>2. SameRecord /\ ledger' \in [grant : [id : Nat, at : Nat], granted : {ledger.granted}]
    BY <2>1 DEF PlanInv, LedgerTyped, SameRecord, Record, NoGrant
  <2> QED BY <2>1, <2>2, PlanLeft DEF OnScreen
<1>5. CASE PlannerAsks \/ PlannerReply
  <2>1. UNCHANGED <<clock, plan, ledger, decision>> /\ SameRecord
    BY <1>1, <1>5 DEF PlannerAsks, PlannerReply
  <2>2. node' \notin OnScreen
    <3>1. ASSUME NEW r, NEW next, NEW ids, Route(r, next, ids) PROVE node' \notin OnScreen
      BY <3>1 DEF Route, Onward, OnScreen
    <3>2. ASSUME NEW n, MoveOn(n) PROVE node' \notin OnScreen
      BY <3>1, <3>2 DEF MoveOn
    <3>3. ASSUME NEW r, fallback(r) PROVE node' \notin OnScreen
      BY <3>1, <3>3 DEF fallback
    <3>4. ASSUME NEW r, Repair(r) PROVE node' \notin OnScreen
      BY <3>3, <3>4 DEF Repair, OnScreen
    <3>5. ASSUME NEW r, NEW d, NEW clean, accept(r, d, clean) PROVE node' \notin OnScreen
      BY <3>1, <3>5 DEF accept
    <3>6. CASE PlannerAsks
      BY <3>2, <3>6 DEF PlannerAsks, OnScreen
    <3>7. CASE PlannerReply
      BY <3>1, <3>2, <3>3, <3>4, <3>5, <3>7 DEF PlannerReply
    <3> QED BY <1>5, <3>6, <3>7
  <2> QED BY <1>2, <2>1, <2>2
<1>6. CASE orient \/ join \/ ComposeAsks \/ ComposeReply \/ verify \/ afterControl \/ finish
  <2>1. UNCHANGED <<clock, plan, ledger, decision>> /\ SameRecord
    BY <1>1, <1>6 DEF orient, join, ComposeAsks, ComposeReply, verify, afterControl, finish
  <2>2. node' \notin OnScreen
    BY <1>6 DEF orient, join, ComposeAsks, ComposeReply, verify, afterVerify, afterControl, finish,
                OnScreen
  <2> QED BY <1>2, <2>1, <2>2
<1>7. ASSUME NEW t \in DOMAIN work, AgentAsks(t) \/ AgentReply(t) \/ Tools(t) PROVE PlanInv'
  <2>1. UNCHANGED <<clock, plan, ledger, decision>> /\ SameRecord /\ node' = node
    BY <1>1, <1>7 DEF AgentAsks, AgentReply, Tools
  <2> QED BY <1>3, <2>1
<1>8. CASE PlanCheckStarts
  BY <1>1, <1>2, <1>8 DEF PlanCheckStarts, PlanRefused, OnScreen
<1>9. CASE DryRunsReturn
  <2>1. CASE node' = "paused"
    BY <1>9, <2>1, Minting DEF DryRunsReturn, PlanRefused
  <2>2. CASE node' # "paused"
    BY <1>1, <1>2, <1>9, <2>2 DEF DryRunsReturn, PlanRefused, OnScreen
  <2> QED BY <2>1, <2>2
<1>10. CASE declined
  <2>1. /\ UNCHANGED <<clock, ledger, hist>> /\ node' = "finish" /\ plan' = NoPlan
        /\ decision' = "none"
    BY <1>10 DEF declined
  <2> QED BY <1>1, <2>1, PlanLeft DEF OnScreen
<1>11. CASE IssueReturns
  <2>1. node = "issue_wait" /\ node' = "issuing" /\ UNCHANGED <<clock, plan, ledger, decision, hist>>
    BY <1>11 DEF IssueReturns
  <2> QED BY <2>1 DEF PlanInv, LedgerTyped, OnScreen, Granted, Issued
<1>12. CASE Stop
  <2>1. UNCHANGED <<clock, plan, ledger, decision>> /\ node' = node
        /\ \E b : hist' = [hist EXCEPT !.stopped = b]
    BY <1>12 DEF Stop
  <2>2. SameRecord
    BY <2>1 DEF PlanInv, LedgerTyped, SameRecord, Record
  <2> QED BY <1>3, <2>1, <2>2
<1>13. CASE (\E may \in Viewers : Message(may)) \/ SweptByAnother \/ UNCHANGED vars
  BY <1>1, <1>2, <1>3, <1>13 DEF Message, SweptByAnother, vars, OnScreen
<1> QED BY <1>4, <1>5, <1>6, <1>7, <1>8, <1>9, <1>10, <1>11, <1>12, <1>13, Confirming, Deciding,
           Taking, Issuing, Failing, Ticking DEF Next, RunStep

-----------------------------------------------------------------------------
(* What the three invariants say of a thread.                              *)
LEMMA HeardIsShown ==
    ASSUME Heard(req) PROVE turnFromState # {}
PROOF
<1>1. CASE req.answer # "none" /\ ~req.violations
  BY <1>1 DEF turnFromState
<1>2. CASE req.message \/ req.outcomes
  BY <1>2 DEF turnFromState
<1>3. CASE \E n \in req.notices : n # "plan_superseded"
  BY <1>3 DEF turnFromState
<1> QED BY <1>1, <1>2, <1>3 DEF Heard

LEMMA TurnInv == RequestInv /\ SpendInv /\ PlanInv => TurnIsSound
PROOF
<1> SUFFICES ASSUME RequestInv, SpendInv, PlanInv PROVE TurnIsSound
  OBVIOUS
<1>1. TypeOK
  BY DEF TypeOK, RequestInv, Holds, Shaped, Staffed, SpendInv, PlanInv, LedgerTyped
<1>2. BudgetHolds
  BY Limits DEF BudgetHolds, SpendInv
<1>3. EveryTaskReported
  BY DEF EveryTaskReported, RequestInv, Holds, Reported
<1>4. ControlWasAllowed
  BY DEF ControlWasAllowed, RequestInv, Holds, Placed, ControlNodes, Coherent, mayControl
<1>5. IssuedAsApproved
  BY Limits DEF IssuedAsApproved, PlanInv
<1>6. NeverSilent
  BY HeardIsShown DEF NeverSilent, RequestInv
<1> QED BY <1>1, <1>2, <1>3, <1>4, <1>5, <1>6 DEF TurnIsSound

(* Whatever is stopped, refused, lost, repeated or left without an answer, *)
(* a thread keeps its types, the request's budget of model calls, an       *)
(* outcome for every task it dispatched, authority and the planner's first *)
(* word for every control step, each command of an approved plan issued at *)
(* most once, and no ending without words (graph.ts, specialist.ts,        *)
(* registry.ts, ledger.ts, apply.ts).                                      *)
THEOREM TurnSound == Spec => []TurnIsSound
PROOF
<1>1. Init => RequestInv /\ SpendInv /\ PlanInv
  BY RequestInit, SpendInit, PlanInit
<1>2. RequestInv /\ SpendInv /\ PlanInv /\ [Next]_vars => (RequestInv /\ SpendInv /\ PlanInv)'
  BY RequestStep, SpendStep, PlanStep
<1> QED BY <1>1, <1>2, TurnInv, PTL DEF Spec

-----------------------------------------------------------------------------
(* Only apply begins to issue, and only the commands of a plan being       *)
(* issued are issued.                                                      *)
IssueNodes == {"issuing", "issue_wait"}

LEMMA OnlyApplyIssues ==
    ASSUME Next, ~ApplyTakes, ~IssueNext, ~IssueReturns
    PROVE  /\ node' \in IssueNodes => node' = node
           /\ hist'.issued = hist.issued \/ DOMAIN hist # Record
           /\ hist'.stopped = hist.stopped \/ Stop \/ DOMAIN hist # Record
PROOF
<1>1. UNCHANGED hist => /\ hist'.issued = hist.issued /\ hist'.stopped = hist.stopped
  OBVIOUS
<1>2. Spend /\ DOMAIN hist = Record => hist'.issued = hist.issued /\ hist'.stopped = hist.stopped
  BY DEF Spend, Record
<1>3. CASE intake
  BY <1>3 DEF intake, IssueNodes, Record
<1>4. CASE PlannerAsks \/ PlannerReply
  <2>1. UNCHANGED hist \/ Spend
    BY <1>4 DEF PlannerAsks, PlannerReply
  <2>2. node' \notin IssueNodes
    <3>1. ASSUME NEW r, NEW next, NEW ids, Route(r, next, ids) PROVE node' \notin IssueNodes
      BY <3>1 DEF Route, Onward, IssueNodes
    <3>2. ASSUME NEW n, MoveOn(n) PROVE node' \notin IssueNodes
      BY <3>1, <3>2 DEF MoveOn
    <3>3. ASSUME NEW r, fallback(r) PROVE node' \notin IssueNodes
      BY <3>1, <3>3 DEF fallback
    <3>4. ASSUME NEW r, Repair(r) PROVE node' \notin IssueNodes
      BY <3>3, <3>4 DEF Repair, IssueNodes
    <3>5. ASSUME NEW r, NEW d, NEW clean, accept(r, d, clean) PROVE node' \notin IssueNodes
      BY <3>1, <3>5 DEF accept
    <3>6. CASE PlannerAsks
      BY <3>2, <3>6 DEF PlannerAsks, IssueNodes
    <3>7. CASE PlannerReply
      BY <3>1, <3>2, <3>3, <3>4, <3>5, <3>7 DEF PlannerReply
    <3> QED BY <1>4, <3>6, <3>7
  <2> QED BY <1>1, <1>2, <2>1, <2>2
<1>5. CASE orient \/ join \/ ComposeAsks \/ ComposeReply \/ verify \/ afterControl \/ finish
           \/ PlanCheckStarts \/ confirm \/ declined
  <2>1. UNCHANGED hist \/ Spend
    BY <1>5 DEF orient, join, ComposeAsks, ComposeReply, verify, afterControl, finish,
       PlanCheckStarts, confirm, declined
  <2>2. node' \notin IssueNodes
    BY <1>5 DEF orient, join, ComposeAsks, ComposeReply, verify, afterVerify, afterControl, finish,
       PlanCheckStarts, PlanRefused, confirm, declined, IssueNodes
  <2> QED BY <1>1, <1>2, <2>1, <2>2
<1>6. ASSUME NEW t \in DOMAIN work, AgentAsks(t) \/ AgentReply(t) \/ Tools(t)
      PROVE  node' = node /\ (UNCHANGED hist \/ Spend)
  BY <1>6 DEF AgentAsks, AgentReply, Tools
<1>7. CASE DryRunsReturn
  <2>1. node' \notin IssueNodes
    BY <1>7 DEF DryRunsReturn, PlanRefused, IssueNodes
  <2>2. UNCHANGED hist \/ hist' = [hist EXCEPT !.plans = @ + 1]
    BY <1>7 DEF DryRunsReturn
  <2>3. DOMAIN hist = Record => hist'.issued = hist.issued /\ hist'.stopped = hist.stopped
    BY <2>2 DEF Record
  <2> QED BY <2>1, <2>3
<1>8. ASSUME NEW p, NEW d, Decide(p, d)
      PROVE  /\ node' \notin IssueNodes
             /\ DOMAIN hist = Record => hist'.issued = hist.issued /\ hist'.stopped = hist.stopped
  BY <1>8 DEF Decide, IssueNodes, Record
<1>9. CASE Stop
  <2>1. node' = node /\ \E b : hist' = [hist EXCEPT !.stopped = b]
    BY <1>9 DEF Stop
  <2>2. DOMAIN hist = Record => hist'.issued = hist.issued
    BY <2>1 DEF Record
  <2> QED BY <1>9, <2>1, <2>2
<1>10. CASE RunFails
  BY <1>10 DEF RunFails, IssueNodes
<1>11. ASSUME NEW may, Message(may) PROVE node' \notin IssueNodes /\ UNCHANGED hist
  BY <1>11 DEF Message, IssueNodes
<1>12. CASE SweptByAnother \/ Tick
  BY <1>12 DEF SweptByAnother, Tick
<1> QED BY <1>1, <1>2, <1>3, <1>4, <1>5, <1>6, <1>7, <1>8, <1>9, <1>10, <1>11, <1>12
        DEF Next, RunStep

(* A plan starts to be issued less than a grant's lifetime after its own:  *)
(* pendingDecision, confirm and the ledger's take each read the clock      *)
(* again, and a grant is taken once (confirm.ts, ledger.ts, apply.ts).     *)
THEOREM IssuedOnTime == Spec => IssuedInTime
PROOF
<1> DEFINE Timely == node = "apply" /\ node' = "issuing" => clock < plan.expires + GrantTtlS - 1
<1>1. PlanInv /\ [Next]_vars => [Timely]_vars
  <2> SUFFICES ASSUME PlanInv, Next, node = "apply", node' = "issuing"
               PROVE  clock < plan.expires + GrantTtlS - 1
    OBVIOUS
  <2>1. ~IssueNext /\ ~IssueReturns
    BY DEF IssueNext, IssueReturns
  <2> QED BY <2>1, OnlyApplyIssues, Taking DEF IssueNodes
<1>2. PlanInv /\ [Next]_vars => PlanInv'
  BY PlanStep
<1> QED BY <1>1, <1>2, PlanInit, PTL DEF Spec, IssuedInTime

(* While commands go out, a Stop the registry still has to keep is marked  *)
(* there: the entry is only swept once deadline and plan TTL are over, and *)
(* nothing ends a request that issues (registry.ts).                       *)
StopInv ==
    /\ DOMAIN hist = Record /\ DOMAIN reg = DOMAIN NoEntry
    /\ clock \in Nat /\ hist.stopped \in Nat /\ reg.startedAt \in Nat
    /\ node \in IssueNodes /\ clock < hist.stopped
         => reg.open /\ reg.stop /\ sweptAt = hist.stopped

LEMMA StopInit == Init => StopInv
BY DEF Init, StopInv, IssueNodes, Record, NoEntry

(* What a step does to the times of an entry and of a Stop.                *)
LEMMA TimesStep ==
    ASSUME SpendInv, StopInv, Next
    PROVE  /\ clock' = clock \/ (Tick /\ clock' = clock + 1)
           /\ reg'.startedAt \in {reg.startedAt, clock, 0}
           /\ hist'.stopped \in {hist.stopped, 0, sweptAt}
PROOF
<1> USE DEF StopInv, Record, NoEntry
<1>1. Spend => reg'.startedAt = reg.startedAt /\ hist'.stopped = hist.stopped
  BY DEF Spend
<1>2. UNCHANGED <<reg, hist>> => reg'.startedAt = reg.startedAt /\ hist'.stopped = hist.stopped
  OBVIOUS
<1>3. CASE intake
  BY <1>3 DEF intake
<1>4. CASE PlannerAsks \/ ComposeAsks \/ \E t \in DOMAIN work : AgentAsks(t)
  <2>1. UNCHANGED clock /\ (Spend \/ UNCHANGED <<reg, hist>>)
    BY <1>4 DEF PlannerAsks, ComposeAsks, AgentAsks
  <2> QED BY <1>1, <1>2, <2>1
<1>5. CASE orient \/ PlannerReply \/ join \/ afterControl \/ ComposeReply \/ verify
           \/ PlanCheckStarts \/ confirm \/ declined \/ IssueReturns
           \/ \E t \in DOMAIN work : AgentReply(t)
  <2>1. UNCHANGED <<clock, reg, hist>>
    BY <1>5 DEF orient, PlannerReply, join, afterControl, ComposeReply, verify,
       PlanCheckStarts, confirm, declined, IssueReturns, AgentReply
  <2> QED BY <1>2, <2>1
<1>6. CASE \E t \in DOMAIN work : Tools(t)
  BY <1>6 DEF Tools
<1>7. CASE DryRunsReturn
  BY <1>7 DEF DryRunsReturn
<1>8. CASE ApplyTakes \/ IssueNext
  BY <1>8 DEF ApplyTakes, IssueNext
<1>9. CASE finish \/ RunFails \/ SweptByAnother \/ \E may \in Viewers : Message(may)
  BY <1>9 DEF finish, RunFails, SweptByAnother, Message
<1>10. CASE Stop
  BY <1>10 DEF Stop
<1>11. ASSUME NEW p, NEW d, Decide(p, d)
       PROVE  UNCHANGED clock /\ reg'.startedAt = reg.startedAt /\ hist'.stopped = hist.stopped
  BY <1>11 DEF Decide
<1>12. CASE Tick
  BY <1>12 DEF Tick
<1> QED BY <1>3, <1>4, <1>5, <1>6, <1>7, <1>8, <1>9, <1>10, <1>11, <1>12 DEF Next, RunStep

LEMMA StopStep ==
    ASSUME SpendInv, SpendInv', StopInv, [Next]_vars
    PROVE  StopInv'
PROOF
<1>1. DOMAIN hist' = Record /\ DOMAIN reg' = DOMAIN NoEntry /\ DOMAIN reg = DOMAIN NoEntry
  BY DEF SpendInv, NoEntry
<1>0. clock' \in Nat /\ hist'.stopped \in Nat /\ reg'.startedAt \in Nat
  <2>1. CASE Next
    <3>1. clock \in Nat /\ hist.stopped \in Nat /\ sweptAt \in Nat /\ reg.startedAt \in Nat
      BY CopilotAssumption DEF StopInv, sweptAt
    <3> QED BY <2>1, <3>1, TimesStep
  <2>2. CASE UNCHANGED vars
    BY <2>2 DEF vars, StopInv
  <2> QED BY <2>1, <2>2
<1>2. CASE UNCHANGED vars
  BY <1>2 DEF StopInv, vars, sweptAt
<1>3. CASE ApplyTakes
  <2>1. node' = "finish" \/ hist' = [hist EXCEPT !.left = Commands, !.stopped = 0]
    BY <1>3 DEF ApplyTakes
  <2>2. node' = "finish" \/ hist'.stopped = 0
    BY <2>1 DEF StopInv, Record
  <2>3. ~ (node' \in IssueNodes /\ clock' < hist'.stopped)
    BY <1>0, <2>2 DEF IssueNodes
  <2> QED BY <1>0, <1>1, <2>3 DEF StopInv
<1>4. CASE IssueNext
  <2>1. node = "issuing" /\ UNCHANGED <<clock, reg>> /\ DOMAIN hist = Record
    BY <1>4 DEF IssueNext, StopInv
  <2>2. node' = "finish" \/ \E f, n : hist' = [hist EXCEPT !.issued = f, !.left = n]
    BY <1>4 DEF IssueNext
  <2>3. node' = "finish" \/ hist'.stopped = hist.stopped
    BY <2>1, <2>2 DEF Record
  <2> QED BY <1>0, <1>1, <2>1, <2>3 DEF StopInv, IssueNodes, sweptAt
<1>5. CASE IssueReturns
  BY <1>5 DEF IssueReturns, StopInv, IssueNodes, sweptAt
<1>6. CASE Stop
  <2>1. reg.open /\ reg' = [reg EXCEPT !.stop = TRUE] /\ UNCHANGED <<node, clock>>
        /\ hist' = [hist EXCEPT !.stopped = IF node \in {"issuing", "issue_wait"} THEN sweptAt ELSE @]
    BY <1>6 DEF Stop
  <2>2. reg'.open /\ reg'.stop /\ reg'.startedAt = reg.startedAt
    BY <1>1, <2>1 DEF NoEntry
  <2>3. node \in IssueNodes => hist'.stopped = sweptAt
    BY <2>1 DEF StopInv, Record, IssueNodes
  <2> QED BY <1>0, <1>1, <2>1, <2>2, <2>3 DEF StopInv, sweptAt
<1>7. CASE Next /\ ~ApplyTakes /\ ~IssueNext /\ ~IssueReturns /\ ~Stop
  <2>1. SUFFICES ASSUME node' \in IssueNodes, clock' < hist'.stopped
                 PROVE  reg'.open /\ reg'.stop /\ sweptAt' = hist'.stopped
    BY <1>0, <1>1 DEF StopInv
  <2>2. node' = node /\ hist'.stopped = hist.stopped
    BY <1>7, <2>1, OnlyApplyIssues DEF StopInv
  <2>3. CASE Tick
    <3>1. clock' = clock + 1 /\ UNCHANGED <<reg, hist>> /\ clock \in Nat
      BY <2>3 DEF Tick, StopInv
    <3>2. hist.stopped \in Nat
      BY DEF StopInv
    <3>3. clock < hist.stopped
      BY <2>1, <3>1, <3>2
    <3> QED BY <2>1, <2>2, <3>1, <3>3 DEF StopInv, sweptAt
  <2>4. CASE ~Tick
    <3>1. clock' = clock
      BY <1>7, <2>4, TimesStep
    <3>2. reg.open /\ reg.stop /\ sweptAt = hist.stopped /\ clock < hist.stopped
      BY <2>1, <2>2, <3>1 DEF StopInv
    <3>3. SUFFICES UNCHANGED reg \/ \E n : reg' = [reg EXCEPT !.evidence = n]
      BY <1>1, <2>2, <3>2 DEF NoEntry, sweptAt
    <3>4. ~SweptByAnother
      <4>1. SUFFICES ASSUME SweptByAnother PROVE FALSE
        OBVIOUS
      <4>2. clock >= sweptAt
        BY <4>1 DEF SweptByAnother
      <4>3. hist.stopped \in Nat /\ clock \in Nat
        BY DEF StopInv
      <4> QED BY <3>2, <4>2, <4>3
    <3>5. CASE \E t \in DOMAIN work : Tools(t)
      BY <3>5 DEF Tools
    <3>6. CASE \E t \in DOMAIN work : AgentAsks(t) \/ AgentReply(t)
      BY <2>1, <2>2, <3>6 DEF AgentAsks, AgentReply, IssueNodes
    <3>7. CASE join \/ afterControl \/ ComposeReply \/ PlannerReply \/ orient \/ verify
               \/ \E may \in Viewers : Message(may)
      BY <3>7 DEF join, afterControl, ComposeReply, PlannerReply, orient, verify, Message
    <3>8. ~ (intake \/ PlannerAsks \/ ComposeAsks \/ PlanCheckStarts \/ DryRunsReturn \/ confirm
             \/ declined \/ finish \/ RunFails)
      BY <2>1, <2>2 DEF IssueNodes, intake, PlannerAsks, ComposeAsks, PlanCheckStarts, DryRunsReturn,
         confirm, declined, finish, RunFails
    <3>9. ASSUME NEW p, NEW d, Decide(p, d) PROVE FALSE
      BY <2>1, <2>2, <3>9 DEF IssueNodes, Decide, pendingDecision
    <3> QED BY <1>7, <2>4, <3>4, <3>5, <3>6, <3>7, <3>8, <3>9 DEF Next, RunStep
  <2> QED BY <2>3, <2>4
<1> QED BY <1>2, <1>3, <1>4, <1>5, <1>6, <1>7

(* Commands go out in time, and once the registry has taken a Stop none    *)
(* goes out while the registry has to keep it, whatever other threads of   *)
(* the process begin, for any deadline and plan TTL (registry.ts,          *)
(* apply.ts).                                                              *)
THEOREM TimelyIssue == Spec => IssueIsTimely
PROOF
<1> DEFINE Kept == clock < hist.stopped => hist'.issued = hist.issued
<1>1. Init => SpendInv /\ StopInv
  BY SpendInit, StopInit
<1>2. SpendInv /\ StopInv /\ [Next]_vars => (SpendInv /\ StopInv)'
  BY SpendStep, StopStep
<1>3. SpendInv /\ StopInv /\ [Next]_vars => [Kept]_vars
  <2> SUFFICES ASSUME StopInv, Next, clock < hist.stopped
               PROVE  hist'.issued = hist.issued
    OBVIOUS
  <2>1. CASE IssueNext
    <3>1. StopRead
      BY <2>1 DEF IssueNext, StopInv, IssueNodes, StopRead
    <3> QED BY <2>1, <3>1 DEF IssueNext
  <2>2. CASE ApplyTakes
    <3>1. UNCHANGED hist \/ hist' = [hist EXCEPT !.left = Commands, !.stopped = 0]
      BY <2>2 DEF ApplyTakes
    <3> QED BY <3>1 DEF StopInv, Record
  <2>3. CASE IssueReturns
    BY <2>3 DEF IssueReturns
  <2> QED BY <2>1, <2>2, <2>3, OnlyApplyIssues DEF StopInv
<1>4. Spec => StopKeepsRestBack
  BY <1>1, <1>2, <1>3, PTL DEF Spec, StopKeepsRestBack
<1> QED BY <1>4, IssuedOnTime, PTL DEF IssueIsTimely

-----------------------------------------------------------------------------
(* The verifier.                                                           *)
Shapes == UNION {Palettes[n].segs : n \in DOMAIN Palettes}
DraftInv == palette \in DOMAIN Palettes /\ doc \in Seq(Seq(Shapes)) /\ doc # <<>>

LEMMA DraftStart == AnswerInit => DraftInv
PROOF
<1> SUFFICES ASSUME AnswerInit PROVE DraftInv
  OBVIOUS
<1> DEFINE none == <<>>
<1>1. none \in Seq(Shapes) /\ doc = << none >>
  BY DEF AnswerInit
<1> HIDE DEF none
<1>2. doc \in Seq(Seq(Shapes)) /\ doc # <<>>
  BY <1>1
<1> QED BY <1>2 DEF AnswerInit, DraftInv

LEMMA DraftStep == DraftInv /\ [AnswerNext]_answervars => DraftInv'
PROOF
<1> SUFFICES ASSUME DraftInv, [AnswerNext]_answervars PROVE DraftInv'
  OBVIOUS
<1>1. palette \in DOMAIN Palettes /\ doc \in Seq(Seq(Shapes)) /\ Len(doc) \in Nat \ {0} /\ DOMAIN doc = 1..Len(doc)
  BY DEF DraftInv
<1>2. CASE NewParagraph
  <2> DEFINE none == <<>>
  <2>1. none \in Seq(Shapes) /\ doc' = Append(doc, none) /\ palette' = palette
    BY <1>2 DEF NewParagraph
  <2> HIDE DEF none
  <2>2. Append(doc, none) \in Seq(Seq(Shapes)) /\ Append(doc, none) # <<>>
    BY <1>1, <2>1, AppendProperties
  <2> QED BY <1>1, <2>1, <2>2 DEF DraftInv
<1>3. ASSUME NEW s \in Palettes[palette].segs, AddSegment(s) PROVE DraftInv'
  <2>1. s \in Shapes
    BY <1>1 DEF Shapes
  <2>2. doc[Len(doc)] \in Seq(Shapes)
    BY <1>1
  <2>3. PICK p : p = Append(doc[Len(doc)], s) /\ p \in Seq(Shapes)
    BY <2>1, <2>2, AppendProperties
  <2>4. doc' = [doc EXCEPT ![Len(doc)] = p] /\ palette' = palette
    BY <1>3, <2>3 DEF AddSegment
  <2>5. doc' \in [1..Len(doc) -> Seq(Shapes)]
    <3>1. doc \in [1..Len(doc) -> Seq(Shapes)]
      BY <1>1
    <3>2. PICK n : n = Len(doc)
      OBVIOUS
    <3>3. doc \in [1..n -> Seq(Shapes)] /\ doc' = [doc EXCEPT ![n] = p]
      BY <2>4, <3>1, <3>2
    <3>4. doc' \in [1..n -> Seq(Shapes)]
      BY <2>3, <3>3
    <3> QED BY <3>2, <3>4
  <2>6. doc' \in Seq(Seq(Shapes)) /\ Len(doc') = Len(doc)
    <3>1. PICK n \in Nat : n = Len(doc)
      BY <1>1
    <3>2. PICK d : d = doc' /\ d \in [1..n -> Seq(Shapes)]
      BY <2>5, <3>1
    <3>3. d \in Seq(Seq(Shapes)) /\ Len(d) = n
      BY <3>2
    <3> QED BY <3>1, <3>2, <3>3
  <2> QED BY <1>1, <2>4, <2>6 DEF DraftInv
<1>4. CASE UNCHANGED answervars
  BY <1>4 DEF DraftInv, answervars
<1> QED BY <1>2, <1>3, <1>4 DEF AnswerNext

LEMMA SegmentsFormed ==
    ASSUME DraftInv, NEW s \in Segments
    PROVE  /\ WellFormed(s)
           /\ \E p, k : p \in DOMAIN doc /\ k \in DOMAIN doc[p] /\ s = doc[p][k]
PROOF
<1>1. PICK p, k : p \in DOMAIN doc /\ k \in DOMAIN doc[p] /\ s = doc[p][k]
  <2>1. PICK x : x \in UNION {{p} \X (DOMAIN doc[p]) : p \in DOMAIN doc} /\ s = doc[x[1]][x[2]]
    BY DEF Segments
  <2>2. PICK p \in DOMAIN doc : x \in {p} \X (DOMAIN doc[p])
    BY <2>1
  <2>3. x[1] = p /\ x[2] \in DOMAIN doc[p]
    BY <2>2
  <2>4. PICK k : k = x[2]
    OBVIOUS
  <2>5. p \in DOMAIN doc /\ k \in DOMAIN doc[p] /\ s = doc[p][k]
    BY <2>1, <2>2, <2>3, <2>4
  <2> QED BY <2>5
<1>2. doc[p] \in Seq(Shapes)
  BY <1>1 DEF DraftInv
<1>3. s \in Shapes
  BY <1>1, <1>2
<1> QED BY <1>1, <1>3, AnswerAssumption DEF Shapes

(* What a verified draft was checked for.                                  *)
LEMMA PassedEach ==
    ASSUME Verified
    PROVE  /\ \A p \in DOMAIN doc :
                 /\ UnpairedTotals(doc[p]) = {}
                 /\ \A k \in DOMAIN doc[p] : doc[p][k].kind = "num" => CheckNum(doc[p][k]) = {}
                 /\ \A k \in DOMAIN doc[p] : doc[p][k].kind = "cite" => doc[p][k].ids \subseteq DOMAIN Evidence
           /\ Required \subseteq caveatsListed /\ caveatsListed \subseteq Carried
PROOF
<1> DEFINE said(p) == (UNION {VerifyText(t) : t \in ProseRuns(doc[p])})
                  \union (UNION {CheckNum(doc[p][k]) \union CheckGlue(doc[p], k) : k \in FiguresIn(doc[p])})
                  \union UnpairedTotals(doc[p])
                  \union (IF \E i \in DOMAIN doc[p] : doc[p][i].kind = "cite" /\ ~(doc[p][i].ids \subseteq DOMAIN Evidence)
                          THEN {"evidence_scope"} ELSE {})
<1>1. /\ UNION {said(p) : p \in DOMAIN doc} = {}
      /\ (IF Required \subseteq caveatsListed THEN {} ELSE {"caveat_required"}) = {}
      /\ (IF caveatsListed \subseteq Carried THEN {} ELSE {"caveat_unsupported"}) = {}
  <2> DEFINE shape == IF \E p \in DOMAIN doc : doc[p] = <<>> THEN {"shape"} ELSE {}
             all == UNION {said(p) : p \in DOMAIN doc}
             required == IF Required \subseteq caveatsListed THEN {} ELSE {"caveat_required"}
             carried == IF caveatsListed \subseteq Carried THEN {} ELSE {"caveat_unsupported"}
  <2>1. VerifyAnswer = shape \union all \union required \union carried
    BY DEF VerifyAnswer
  <2>2. VerifyAnswer = {}
    BY DEF Verified
  <2> HIDE DEF shape, all, required, carried
  <2>3. all = {} /\ required = {} /\ carried = {}
    BY <2>1, <2>2
  <2> QED BY <2>3 DEF all, required, carried
<1>2. Required \subseteq caveatsListed /\ caveatsListed \subseteq Carried
  BY <1>1
<1>3. ASSUME NEW p \in DOMAIN doc
      PROVE  /\ UnpairedTotals(doc[p]) = {}
             /\ \A k \in DOMAIN doc[p] : doc[p][k].kind = "num" => CheckNum(doc[p][k]) = {}
             /\ \A k \in DOMAIN doc[p] : doc[p][k].kind = "cite" => doc[p][k].ids \subseteq DOMAIN Evidence
  <2>1. said(p) = {}
    <3> HIDE DEF said
    <3> QED BY <1>1
  <2>2. UnpairedTotals(doc[p]) = {}
    BY <2>1
  <2>3. UNION {CheckNum(doc[p][k]) \union CheckGlue(doc[p], k) : k \in FiguresIn(doc[p])} = {}
    BY <2>1
  <2>4. \A k \in FiguresIn(doc[p]) : CheckNum(doc[p][k]) = {}
    BY <2>3
  <2>5. (IF \E i \in DOMAIN doc[p] : doc[p][i].kind = "cite" /\ ~(doc[p][i].ids \subseteq DOMAIN Evidence)
         THEN {"evidence_scope"} ELSE {}) = {}
    BY <2>1
  <2>6. \A k \in DOMAIN doc[p] : doc[p][k].kind = "cite" => doc[p][k].ids \subseteq DOMAIN Evidence
    BY <2>5
  <2> QED BY <2>2, <2>4, <2>6 DEF FiguresIn
<1> QED BY <1>2, <1>3

(* A figure that passes cites what was found, with a number and a unit.    *)
LEMMA Resolved ==
    ASSUME NEW r, ResolveRef(r).rule = Nil
    PROVE  /\ r.id \in DOMAIN Evidence /\ r.path \in DOMAIN Evidence[r.id].data
           /\ ResolveRef(r) = [rule |-> Nil, v |-> Evidence[r.id].data[r.path].v,
                               unit |-> Evidence[r.id].data[r.path].unit, kind |-> Evidence[r.id].kind]
           /\ Evidence[r.id].data[r.path].v \in Int
PROOF
<1>1. r.id \in DOMAIN Evidence
  BY DEF ResolveRef, Nil
<1>2. r.path \in DOMAIN Evidence[r.id].data
  BY <1>1 DEF ResolveRef, Nil
<1>3. Evidence[r.id].data[r.path].v # NoValue
  BY <1>1, <1>2 DEF ResolveRef, Nil
<1>4. Evidence[r.id].data[r.path].unit # Nil
  BY <1>1, <1>2, <1>3 DEF ResolveRef, Nil
<1> QED BY <1>1, <1>2, <1>3, <1>4, AnswerAssumption DEF ResolveRef

Cited(seg) == [i \in DOMAIN RefsOf(seg) |-> ResolveRef(RefsOf(seg)[i])]
KindsOf(seg) == {Cited(seg)[i].kind : i \in DOMAIN Cited(seg)}
LEMMA FigurePassed ==
    ASSUME NEW seg, CheckNum(seg) = {}
    PROVE  /\ \A i \in DOMAIN RefsOf(seg) : ResolveRef(RefsOf(seg)[i]).rule = Nil
           /\ seg.refs # <<>> => /\ seg.ref = <<>> /\ EvaluateDerive(seg.op, Cited(seg)).ok
                                 /\ ~ ({"simulated", "measured"} \subseteq KindsOf(seg))
PROOF
<1> DEFINE bad == {Cited(seg)[i].rule : i \in DOMAIN Cited(seg)} \ {Nil}
           differ(unit, num, den) == (IF seg.unit # unit THEN {"unit"} ELSE {})
                                  \union (IF ~Agrees(seg, num, den) THEN {"value_mismatch"} ELSE {})
           d == EvaluateDerive(seg.op, Cited(seg))
<1>1. CheckNum(seg) =
        IF (seg.ref = <<>>) = (seg.refs = <<>>) THEN {"ref"}
        ELSE IF seg.ref # <<>>
        THEN IF seg.basis = "derived" THEN {"derive"}
             ELSE IF bad # {} THEN bad
             ELSE differ(Cited(seg)[1].unit, Cited(seg)[1].v, 1)
                  \union (IF seg.basis \notin KindsOf(seg) THEN {"basis"} ELSE {})
        ELSE IF seg.basis # "derived" THEN {"basis"}
        ELSE IF Cardinality(ToSet(seg.refs)) # Len(seg.refs) THEN {"derive"}
        ELSE IF bad # {} THEN bad
        ELSE IF {"simulated", "measured"} \subseteq KindsOf(seg) THEN {"basis"}
        ELSE IF ~d.ok THEN {"derive"} ELSE differ(d.unit, d.num, d.den)
  BY Zenon DEF CheckNum, Cited, KindsOf
<1> HIDE DEF bad, differ, d
<1>2. (seg.ref = <<>>) # (seg.refs = <<>>)
  BY <1>1
<1>3. bad = {}
  BY <1>1, <1>2
<1>4. \A i \in DOMAIN RefsOf(seg) : ResolveRef(RefsOf(seg)[i]).rule = Nil
  BY <1>3 DEF bad, Cited
<1>5. ASSUME seg.refs # <<>> PROVE seg.ref = <<>> /\ d.ok /\ ~ ({"simulated", "measured"} \subseteq KindsOf(seg))
  BY <1>1, <1>2, <1>3, <1>5
<1> QED BY <1>4, <1>5 DEF d

(* The zero of the Celsius scale moved: a derivation that passes moves a   *)
(* temperature by as much, and nothing else.                               *)
Figures(c, n) ==
    /\ n \in Nat \ {0} /\ DOMAIN c = 1..n /\ Len(c) = n /\ c = [i \in 1..n |-> c[i]]
    /\ \A i \in 1..n : /\ c[i] = [rule |-> Nil, v |-> c[i].v, unit |-> c[i].unit, kind |-> c[i].kind]
                       /\ c[i].v \in Int

LEMMA ShiftedFigures ==
    ASSUME NEW c, NEW n, Figures(c, n)
    PROVE  /\ DOMAIN Shifted(c) = 1..n /\ Len(Shifted(c)) = n
           /\ \A i \in 1..n : /\ Shifted(c)[i].unit = c[i].unit
                              /\ Shifted(c)[i].v = IF c[i].unit = "c" THEN c[i].v + 1 ELSE c[i].v
           /\ (\A i \in 1..n : c[i].unit # "c") => Shifted(c) = c
PROOF
<1> DEFINE z == Shifted(c)
<1>1. DOMAIN z = 1..n /\ n \in Nat /\ z = [i \in 1..n |-> z[i]]
  BY DEF Shifted, Figures
<1>2. ASSUME NEW i \in 1..n
      PROVE  z[i].unit = c[i].unit /\ z[i].v = IF c[i].unit = "c" THEN c[i].v + 1 ELSE c[i].v
  <2>1. PICK x : x = c[i]
    OBVIOUS
  <2>2. x = [rule |-> Nil, v |-> x.v, unit |-> x.unit, kind |-> x.kind]
    BY <2>1 DEF Figures
  <2>3. z[i] = IF x.unit = "c" THEN [x EXCEPT !.v = x.v + 1] ELSE x
    BY <2>1 DEF Shifted, Figures
  <2>4. [x EXCEPT !.v = x.v + 1].unit = x.unit /\ [x EXCEPT !.v = x.v + 1].v = x.v + 1
    BY <2>2
  <2> QED BY <2>1, <2>3, <2>4
<1>3. ASSUME \A i \in 1..n : c[i].unit # "c" PROVE z = c
  <2>1. z = [i \in 1..n |-> c[i]]
    BY <1>3 DEF Shifted, Figures
  <2> QED BY <2>1 DEF Figures
<1> HIDE DEF z
<1>4. Len(z) = n
  <2>1. z \in Seq({z[i] : i \in 1..n})
    BY <1>1
  <2> QED BY <1>1, <2>1
<1> QED BY <1>1, <1>2, <1>3, <1>4 DEF z

LEMMA ShiftedDerivation ==
    ASSUME NEW c, NEW n, Figures(c, n), NEW op \in {"difference", "sum", "percent_change"},
           EvaluateDerive(op, c).ok
    PROVE  LET d == EvaluateDerive(op, c)
               e == EvaluateDerive(op, Shifted(c))
           IN  e.ok /\ e.num = (IF d.unit = "c" THEN d.num + 1 ELSE d.num) /\ e.den = d.den
PROOF
<1> DEFINE z == Shifted(c)
           d == EvaluateDerive(op, c)
           e == EvaluateDerive(op, z)
           goal == e.ok /\ e.num = (IF d.unit = "c" THEN d.num + 1 ELSE d.num) /\ e.den = d.den
<1> SUFFICES goal
  OBVIOUS
<1>1. /\ DOMAIN z = 1..n /\ Len(z) = n
      /\ \A i \in 1..n : z[i].unit = c[i].unit /\ z[i].v = IF c[i].unit = "c" THEN c[i].v + 1 ELSE c[i].v
      /\ (\A i \in 1..n : c[i].unit # "c") => z = c
  BY ShiftedFigures
<1>2. n \in Nat \ {0} /\ DOMAIN c = 1..n /\ Len(c) = n /\ \A i \in 1..n : c[i].v \in Int
  BY DEF Figures
<1> HIDE DEF z
<1>3. ~ Bad.ok
  BY DEF Bad
<1>4. \A num, den, unit : /\ Good(num, den, unit).ok /\ Good(num, den, unit).num = num
                          /\ Good(num, den, unit).den = den /\ Good(num, den, unit).unit = unit
  BY DEF Good
<1>5. ASSUME \A i \in 1..n : c[i].unit # "c", NEW num, NEW den, NEW unit, d = Good(num, den, unit), unit # "c"
      PROVE  goal
  <2>1. z = c
    BY <1>1, <1>5
  <2>2. e = d
    BY <2>1
  <2> HIDE DEF e, d
  <2> QED BY <1>4, <1>5, <2>2
<1>6. CASE op = "difference"
  <2> DEFINE unit(x) == IF Len(x) # 2 THEN Nil
                        ELSE IF x[1].unit = "c" /\ x[2].unit = "c" THEN "k"
                        ELSE IF x[1].unit = "c" /\ x[2].unit = "k" THEN "c"
                        ELSE IF x[1].unit = x[2].unit /\ x[1].unit # "pct" THEN x[1].unit
                        ELSE Nil
  <2>1. d = (IF unit(c) = Nil THEN Bad ELSE Good(c[1].v - c[2].v, 1, unit(c)))
    BY <1>6 DEF EvaluateDerive
  <2>2. e = (IF unit(z) = Nil THEN Bad ELSE Good(z[1].v - z[2].v, 1, unit(z)))
    BY <1>6 DEF EvaluateDerive
  <2> HIDE DEF d, e
  <2>3. unit(c) # Nil
    <3> HIDE DEF unit
    <3> QED BY <1>3, <2>1 DEF d
  <2>4. Len(c) = 2 /\ n = 2
    BY <1>2, <2>3
  <2> DEFINE u == c[1].unit
             w == c[2].unit
  <2>5. z[1].unit = u /\ z[2].unit = w /\ Len(z) = 2 /\ c[1].v \in Int /\ c[2].v \in Int
    BY <1>1, <1>2, <2>4
  <2>6. unit(z) = unit(c)
    BY <2>4, <2>5
  <2>7. d = Good(c[1].v - c[2].v, 1, unit(c)) /\ e = Good(z[1].v - z[2].v, 1, unit(c))
    <3> HIDE DEF unit
    <3> QED BY <2>1, <2>2, <2>3, <2>6
  <2>8. z[1].v - z[2].v = IF unit(c) = "c" THEN (c[1].v - c[2].v) + 1 ELSE c[1].v - c[2].v
    <3>1. z[1].v = (IF u = "c" THEN c[1].v + 1 ELSE c[1].v) /\ z[2].v = (IF w = "c" THEN c[2].v + 1 ELSE c[2].v)
      BY <1>1, <1>2, <2>4
    <3>2. CASE u = "c" /\ w = "c"
      <4>1. unit(c) = "k"
        BY <2>4, <3>2
      <4> HIDE DEF unit
      <4> QED BY <2>5, <3>1, <3>2, <4>1
    <3>3. CASE u = "c" /\ w = "k"
      <4>1. unit(c) = "c"
        BY <2>4, <3>3
      <4> HIDE DEF unit
      <4> QED BY <2>5, <3>1, <3>3, <4>1
    <3>4. CASE u = w /\ u # "c"
      <4>1. unit(c) # "c"
        BY <2>4, <3>4 DEF Nil
      <4> HIDE DEF unit
      <4> QED BY <2>5, <3>1, <3>4, <4>1
    <3> QED BY <2>3, <2>4, <3>2, <3>3, <3>4
  <2> HIDE DEF unit
  <2> QED BY <1>4, <2>7, <2>8
<1>7. CASE op = "sum"
  <2> DEFINE num == FoldLeft(LAMBDA acc, y : acc + y.v, 0, c)
  <2>1. d = IF (\E i \in DOMAIN c : c[i].unit # c[1].unit) \/ c[1].unit \in {"c", "pct"} THEN Bad
            ELSE Good(num, 1, c[1].unit)
    BY <1>7 DEF EvaluateDerive
  <2> HIDE DEF num
  <2>2. (\A i \in 1..n : c[i].unit = c[1].unit) /\ c[1].unit # "c" /\ d = Good(num, 1, c[1].unit)
    BY <1>2, <1>3, <2>1
  <2> QED BY <1>5, <2>2
<1>8. CASE op = "percent_change"
  <2> DEFINE num == (c[2].v - c[1].v) * 1000
             den == Magnitude(c[1].v)
  <2>1. d = IF Len(c) # 2 \/ c[1].unit # c[2].unit \/ c[1].unit \in {"c", "pct"} \/ c[1].v = 0 THEN Bad
            ELSE Good(num, den, "pct")
    BY <1>8 DEF EvaluateDerive
  <2>2. Len(c) = 2 /\ c[1].unit = c[2].unit /\ c[1].unit # "c" /\ d = Good(num, den, "pct")
    <3> HIDE DEF num, den
    <3> QED BY <1>3, <2>1
  <2>3. n = 2 /\ \A i \in 1..n : c[i].unit # "c"
    BY <1>2, <2>2
  <2> HIDE DEF num, den
  <2> QED BY <1>5, <2>2, <2>3
<1> QED BY <1>6, <1>7, <1>8

LEMMA MeansSomething == DraftInv => DerivationsMeanSomething
PROOF
<1> SUFFICES ASSUME DraftInv, Verified, NEW s \in Segments, s.kind = "num", s.refs # <<>>
             PROVE  LET c == [i \in DOMAIN s.refs |-> ResolveRef(s.refs[i])]
                        d == EvaluateDerive(s.op, c)
                        e == EvaluateDerive(s.op, Shifted(c))
                    IN  /\ e.ok /\ e.num = (IF d.unit = "c" THEN d.num + 1 ELSE d.num) /\ e.den = d.den
                        /\ {Evidence[r.id].kind : r \in ToSet(s.refs)} # {"measured", "simulated"}
  BY DEF DerivationsMeanSomething
<1> DEFINE c == [i \in DOMAIN s.refs |-> ResolveRef(s.refs[i])]
           n == Len(s.refs)
<1>1. WellFormed(s) /\ CheckNum(s) = {}
  <2>1. PICK p, k : p \in DOMAIN doc /\ k \in DOMAIN doc[p] /\ s = doc[p][k]
    BY SegmentsFormed
  <2> QED BY <2>1, SegmentsFormed, PassedEach
<1>2. s.refs \in References /\ s.op \in {"difference", "sum", "percent_change"}
  BY <1>1 DEF WellFormed
<1>3. /\ \A i \in DOMAIN RefsOf(s) : ResolveRef(RefsOf(s)[i]).rule = Nil
      /\ s.ref = <<>> /\ EvaluateDerive(s.op, Cited(s)).ok
      /\ ~ ({"simulated", "measured"} \subseteq KindsOf(s))
  BY <1>1, FigurePassed
<1>4. RefsOf(s) = s.refs
  <2>1. PICK A : s.refs \in Seq(A)
    BY <1>2 DEF References
  <2> QED BY <1>3, <2>1, ConcatEmptySeq DEF RefsOf
<1>5. c = Cited(s)
  BY <1>4 DEF Cited
<1>6. n \in Nat \ {0} /\ DOMAIN s.refs = 1..n
  BY <1>2 DEF References
<1>7. \A i \in 1..n : /\ c[i] = [rule |-> Nil, v |-> c[i].v, unit |-> c[i].unit, kind |-> c[i].kind]
                      /\ c[i].v \in Int /\ c[i].kind = Evidence[s.refs[i].id].kind
  <2> TAKE i \in 1..n
  <2>1. PICK r : r = s.refs[i]
    OBVIOUS
  <2>2. ResolveRef(r).rule = Nil /\ c[i] = ResolveRef(r)
    BY <1>3, <1>4, <1>6, <2>1
  <2>3. /\ c[i] = [rule |-> Nil, v |-> Evidence[r.id].data[r.path].v,
                   unit |-> Evidence[r.id].data[r.path].unit, kind |-> Evidence[r.id].kind]
        /\ Evidence[r.id].data[r.path].v \in Int
    BY <2>2, Resolved
  <2> HIDE DEF c
  <2> QED BY <2>1, <2>3
<1>8. DOMAIN c = 1..n /\ c = [i \in 1..n |-> c[i]]
  BY <1>6
<1>9. {Evidence[r.id].kind : r \in ToSet(s.refs)} # {"measured", "simulated"}
  <2>1. KindsOf(s) = {Evidence[r.id].kind : r \in ToSet(s.refs)}
    <3>1. ToSet(s.refs) = {s.refs[i] : i \in 1..n}
      BY <1>6 DEF ToSet
    <3>2. KindsOf(s) = {c[i].kind : i \in 1..n}
      BY <1>5, <1>8 DEF KindsOf
    <3> DEFINE kinds == {Evidence[r.id].kind : r \in ToSet(s.refs)}
    <3> HIDE DEF c
    <3>3. \A i \in 1..n : c[i].kind = Evidence[s.refs[i].id].kind
      BY <1>7
    <3>4. ASSUME NEW k \in KindsOf(s) PROVE k \in kinds
      <4>1. PICK i \in 1..n : k = c[i].kind
        BY <3>2
      <4>2. PICK r : r = s.refs[i]
        OBVIOUS
      <4>3. r \in ToSet(s.refs) /\ k = Evidence[r.id].kind
        BY <3>1, <3>3, <4>1, <4>2
      <4> QED BY <4>3
    <3>5. ASSUME NEW k \in kinds PROVE k \in KindsOf(s)
      <4>1. PICK r \in ToSet(s.refs) : k = Evidence[r.id].kind
        OBVIOUS
      <4>2. PICK i \in 1..n : r = s.refs[i]
        BY <3>1
      <4> HIDE DEF kinds
      <4>3. k = c[i].kind
        BY <3>3, <4>1, <4>2
      <4> QED BY <3>2, <4>3
    <3> QED BY <3>4, <3>5
  <2> QED BY <1>3, <2>1
<1> HIDE DEF c
<1>10. Len(c) = n
  <2>1. c \in Seq({c[i] : i \in 1..n})
    BY <1>6, <1>8
  <2> QED BY <1>6, <1>8, <2>1
<1>11. Figures(c, n) /\ EvaluateDerive(s.op, c).ok
  BY <1>3, <1>5, <1>6, <1>7, <1>8, <1>10 DEF Figures
<1>12. PICK op : op = s.op /\ op \in {"difference", "sum", "percent_change"}
  BY <1>2
<1>13. LET d == EvaluateDerive(op, c)
           e == EvaluateDerive(op, Shifted(c))
       IN  e.ok /\ e.num = (IF d.unit = "c" THEN d.num + 1 ELSE d.num) /\ e.den = d.den
  BY <1>11, <1>12, ShiftedDerivation
<1> QED BY <1>9, <1>12, <1>13 DEF c

(* What a verified draft cites was found.                                  *)
LEMMA CitedIsFound ==
    ASSUME DraftInv, Verified, NEW s \in Segments, NEW id \in EvidenceIds(s)
    PROVE  id \in CitedIds /\ id \in DOMAIN Evidence
PROOF
<1>1. PICK p, k : p \in DOMAIN doc /\ k \in DOMAIN doc[p] /\ s = doc[p][k]
  BY SegmentsFormed
<1>2. WellFormed(s)
  BY SegmentsFormed
<1>3. s.kind \in {"text", "cite", "num"}
  BY <1>2 DEF WellFormed
<1>4. id \in DOMAIN Evidence
  <2>1. CASE s.kind = "text"
    BY <2>1 DEF EvidenceIds
  <2>2. CASE s.kind = "cite"
    <3>1. id \in s.ids
      BY <2>2 DEF EvidenceIds
    <3> QED BY <1>1, <2>2, <3>1, PassedEach
  <2>3. CASE s.kind = "num"
    <3>1. PICK r \in ToSet(RefsOf(s)) : id = r.id
      BY <2>3 DEF EvidenceIds
    <3>2. PICK i \in DOMAIN RefsOf(s) : r = RefsOf(s)[i]
      BY DEF ToSet
    <3>3. CheckNum(s) = {}
      BY <1>1, <2>3, PassedEach
    <3>4. ResolveRef(r).rule = Nil
      BY <3>2, <3>3, FigurePassed
    <3> QED BY <3>1, <3>4, Resolved
  <2> QED BY <1>3, <2>1, <2>2, <2>3
<1> QED BY <1>4 DEF CitedIds

LEMMA LeavesNothing == DraftInv => NothingUnsaid
PROOF
<1> SUFFICES ASSUME DraftInv, Verified PROVE NothingUnsaid
  BY DEF NothingUnsaid
<1>1. Required \subseteq caveatsListed /\ caveatsListed \subseteq Carried
  BY PassedEach
<1>2. ASSUME NEW s \in Segments, NEW id \in EvidenceIds(s)
      PROVE  /\ id \in DOMAIN Evidence
             /\ Evidence[id].caveats \subseteq caveatsListed
             /\ Evidence[id].kind = "simulated" => Simulated \in caveatsListed
  <2>1. id \in CitedIds /\ id \in DOMAIN Evidence
    BY <1>2, CitedIsFound
  <2>2. Evidence[id].caveats \subseteq Required
    BY <2>1 DEF Required
  <2>3. Evidence[id].kind = "simulated" => Simulated \in Required
    BY <2>1 DEF Required
  <2> QED BY <1>1, <2>1, <2>2, <2>3
<1>3. ASSUME NEW p \in DOMAIN doc, NEW id \in DOMAIN Evidence,
             NEW r \in RefsIn(doc[p]), r.id = id, r.path \in Totals, Suspect \in Evidence[id].caveats,
             NEW q \in Totals \intersect DOMAIN Evidence[id].data, Evidence[id].data[q].v # NoValue
      PROVE  \E x \in RefsIn(doc[p]) : x.id = id /\ x.path = q
  <2>1. CASE q = r.path
    BY <1>3, <2>1
  <2>2. CASE q # r.path
    <3>1. OtherTotal(r.path) = q
      <4>1. \A o \in Totals : o # r.path => o = q
        BY <1>3, <2>2 DEF Totals
      <4> QED BY <2>2, <4>1 DEF OtherTotal
    <3>2. UnpairedTotals(doc[p]) = {}
      BY PassedEach
    <3>3. [id |-> r.id, path |-> q] \in RefsIn(doc[p])
      BY <1>3, <3>1, <3>2 DEF UnpairedTotals
    <3>4. PICK x : x = [id |-> r.id, path |-> q]
      OBVIOUS
    <3>5. x.id = id /\ x.path = q /\ x \in RefsIn(doc[p])
      BY <1>3, <3>3, <3>4
    <3> QED BY <3>5
  <2> QED BY <2>1, <2>2
<1>4. ASSUME NEW p \in DOMAIN doc, NEW id \in DOMAIN Evidence
      PROVE  LET told == {r.path : r \in {x \in RefsIn(doc[p]) : x.id = id}} \intersect Totals
             IN  told # {} /\ Suspect \in Evidence[id].caveats =>
                    \A q \in Totals \intersect DOMAIN Evidence[id].data :
                       Evidence[id].data[q].v = NoValue \/ q \in told
  <2> DEFINE told == {r.path : r \in {x \in RefsIn(doc[p]) : x.id = id}} \intersect Totals
  <2> SUFFICES ASSUME told # {}, Suspect \in Evidence[id].caveats,
                      NEW q \in Totals \intersect DOMAIN Evidence[id].data, Evidence[id].data[q].v # NoValue
               PROVE  q \in told
    OBVIOUS
  <2>1. PICK r \in RefsIn(doc[p]) : r.id = id /\ r.path \in Totals
    OBVIOUS
  <2>2. PICK x \in RefsIn(doc[p]) : x.id = id /\ x.path = q
    BY <1>3, <2>1
  <2> QED BY <2>2
<1>5. ASSUME NEW c \in caveatsListed \ {CheckMode}
      PROVE  (\E id \in DOMAIN Evidence : c \in Evidence[id].caveats) \/ c = Simulated
  <2>1. c \in Carried
    BY <1>1
  <2> QED BY <2>1 DEF Carried
<1> QED BY <1>2, <1>3, <1>4, <1>5 DEF NothingUnsaid

(***************************************************************************)
(* Of whatever evidence a request found and whatever draft the model       *)
(* wrote, what the verifier passes rests on evidence that was found, lists *)
(* every caveat that evidence carries and none that it does not, gives     *)
(* both totals of a suspect meter, and combines figures only where the     *)
(* zero of a temperature scale makes no difference (verifyAnswer and       *)
(* evaluateDerive in verify.ts).                                           *)
(***************************************************************************)
THEOREM AnswerSays == AnswerSpec => [](DerivationsMeanSomething /\ NothingUnsaid)
PROOF
<1>1. AnswerInit => DraftInv
  BY DraftStart
<1>2. DraftInv /\ [AnswerNext]_answervars => DraftInv'
  BY DraftStep
<1>3. DraftInv => DerivationsMeanSomething /\ NothingUnsaid
  BY MeansSomething, LeavesNothing
<1> QED BY <1>1, <1>2, <1>3, PTL DEF AnswerSpec

-----------------------------------------------------------------------------
(* A non-empty set of naturals that has a bound has a least element.       *)
LEMMA MinExists ==
    ASSUME NEW n \in Nat, NEW T, T \subseteq 0 .. n, T # {}
    PROVE  \E x \in T : \A y \in T : x <= y
PROOF
<1> DEFINE Below(t) == 0 .. (t - 1)
           F == {Below(t) : t \in T}
           R == StrictSubsetOrdering(0 .. n)
<1>1. IsFiniteSet(0 .. n)
  BY FS_Interval
<1>2. IsWellFoundedOn(R, SUBSET (0 .. n))
  <2>1. IsWellFoundedOn(R, FiniteSubsetsOf(0 .. n))
    BY FS_StrictSubsetOrderingWellFounded
  <2> QED BY <1>1, <2>1, FS_FiniteSubsetsOfFinite
<1>3. F \subseteq SUBSET (0 .. n) /\ F # {}
  <2>1. ASSUME NEW t \in T PROVE Below(t) \in SUBSET (0 .. n)
    OBVIOUS
  <2>2. PICK t \in T : TRUE
    OBVIOUS
  <2>3. Below(t) \in F
    BY <2>2
  <2> HIDE DEF Below
  <2> QED BY <2>1, <2>3
<1> HIDE DEF F, R
<1>4. PICK X \in F : \A Y \in F : <<Y, X>> \notin R
  BY <1>2, <1>3, WFMin
<1>5. PICK x \in T : X = Below(x)
  BY <1>4 DEF F
<1>6. ASSUME NEW y \in T PROVE x <= y
  <2>1. SUFFICES ASSUME y < x PROVE FALSE
    OBVIOUS
  <2>2. Below(y) \in F
    BY DEF F
  <2>3. Below(y) \subseteq Below(x) /\ y \in Below(x) /\ y \notin Below(y)
    BY <2>1
  <2>4. <<Below(y), X>> \in R
    <3>1. Below(y) \in SUBSET (0 .. n) /\ X \in SUBSET (0 .. n)
      BY <1>5
    <3>2. Below(y) # X
      BY <2>3, <1>5
    <3> HIDE DEF Below
    <3> QED BY <3>1, <3>2, <2>3, <1>5 DEF R, StrictSubsetOrdering
  <2> QED BY <2>2, <2>4, <1>4
<1> QED BY <1>6

-----------------------------------------------------------------------------
(* Folding events, one after the other.  Fold(p, q, g) says that g takes   *)
(* every set of positions of q to what those events, in order, make of p.  *)
Fold(p, q, n, g) ==
    g = [T \in SUBSET (1..n) |-> IF T = {} THEN p ELSE FoldEvent(g[T \ {Max(T)}], q[Max(T)])]

LEMMA MaxOf == ASSUME NEW n \in Nat, NEW T \in SUBSET (1..n), T # {}
               PROVE  Max(T) \in T /\ \A y \in T : Max(T) >= y
PROOF
<1> DEFINE J == {n - i : i \in T}
<1>1. J \subseteq 0..n /\ J # {}
  <2>1. \A i \in T : i \in 1..n /\ n - i \in 0..n
    <3>1. \A i \in 1..n : n - i \in 0..n
      OBVIOUS
    <3> QED BY <3>1
  <2>2. PICK i \in T : TRUE
    OBVIOUS
  <2>3. n - i \in J
    BY <2>2
  <2> QED BY <2>1, <2>3
<1>2. PICK y \in J : \A z \in J : y <= z
  BY <1>1, MinExists
<1>3. PICK i \in T : y = n - i
  OBVIOUS
<1>4. \A k \in T : i >= k
  <2>1. \A k \in T : n - k \in J /\ k \in Int
    OBVIOUS
  <2>2. \A k \in T : n - i <= n - k
    BY <1>2, <1>3, <2>1
  <2> HIDE DEF J
  <2> QED BY <1>3, <2>1, <2>2
<1> HIDE DEF J
<1> QED BY <1>3, <1>4 DEF Max

LEMMA FoldExists == ASSUME NEW p, NEW q, NEW n \in Nat PROVE \E g : Fold(p, q, n, g)
PROOF
<1> DEFINE Has(k) == \E g : Fold(p, q, k, g)
           Amiss == {k \in 0..n : ~Has(k)}
<1>1. Has(0)
  <2> DEFINE g == [T \in SUBSET (1..0) |-> p]
  <2>1. SUBSET (1..0) = {{}}
    OBVIOUS
  <2>2. Fold(p, q, 0, g)
    BY <2>1 DEF Fold
  <2> QED BY <2>2
<1>2. ASSUME NEW k \in 0..n, k + 1 \in 0..n, Has(k) PROVE Has(k + 1)
  <2>1. PICK g : Fold(p, q, k, g)
    BY <1>2
  <2> DEFINE h == [T \in SUBSET (1..(k+1)) |-> IF k + 1 \in T THEN FoldEvent(g[T \ {k + 1}], q[k + 1]) ELSE g[T]]
  <2>2. ASSUME NEW T \in SUBSET (1..(k+1))
        PROVE  h[T] = IF T = {} THEN p ELSE FoldEvent(h[T \ {Max(T)}], q[Max(T)])
    <3>1. CASE T = {}
      <4>1. T \in SUBSET (1..k) /\ k + 1 \notin T
        BY <3>1
      <4>2. g[T] = p
        BY <2>1, <3>1, <4>1 DEF Fold
      <4> QED BY <3>1, <4>1, <4>2
    <3>2. CASE k + 1 \in T
      <4>1. Max(T) = k + 1
        <5>1. k + 1 \in Nat /\ T # {}
          BY <3>2
        <5>2. Max(T) \in T /\ \A y \in T : Max(T) >= y
          BY <5>1, MaxOf
        <5>3. Max(T) \in 1..(k+1) /\ Max(T) >= k + 1
          BY <3>2, <5>2
        <5> QED BY <5>3
      <4>2. T \ {k + 1} \in SUBSET (1..(k+1)) /\ k + 1 \notin T \ {k + 1}
        OBVIOUS
      <4>3. h[T \ {k + 1}] = g[T \ {k + 1}]
        BY <4>2
      <4> QED BY <3>2, <4>1, <4>3
    <3>3. CASE k + 1 \notin T /\ T # {}
      <4>1. T \in SUBSET (1..k)
        BY <3>3
      <4>2. g[T] = FoldEvent(g[T \ {Max(T)}], q[Max(T)])
        BY <2>1, <3>3, <4>1 DEF Fold
      <4>3. h[T \ {Max(T)}] = g[T \ {Max(T)}]
        <5>1. T \ {Max(T)} \in SUBSET (1..(k+1)) /\ k + 1 \notin T \ {Max(T)}
          BY <3>3
        <5> QED BY <5>1
      <4> QED BY <3>3, <4>2, <4>3
    <3> QED BY <3>1, <3>2, <3>3
  <2>3. Fold(p, q, k + 1, h)
    <3> DEFINE S == SUBSET (1..(k+1))
    <3>1. h = [T \in S |-> h[T]]
      OBVIOUS
    <3> HIDE DEF h
    <3> QED BY <2>2, <3>1 DEF Fold
  <2> QED BY <2>3
<1> HIDE DEF Has
<1>3. SUFFICES ASSUME ~Has(n) PROVE FALSE
  BY DEF Has
<1>4. PICK m \in Amiss : \A k \in Amiss : m <= k
  <2>1. Amiss \subseteq 0..n /\ Amiss # {}
    BY <1>3
  <2> HIDE DEF Amiss
  <2> QED BY <2>1, MinExists
<1>5. m # 0 /\ m - 1 \in 0..n /\ m - 1 + 1 = m
  BY <1>1, <1>4
<1>6. Has(m - 1)
  BY <1>4, <1>5
<1> QED BY <1>2, <1>4, <1>5, <1>6

(* Two folds that agree on the first k events have made the same of them.  *)
LEMMA FoldUnique ==
    ASSUME NEW p, NEW q, NEW r, NEW n \in Nat, NEW m \in Nat, n <= m, NEW g, NEW h,
           Fold(p, q, n, g), Fold(p, r, m, h), \A i \in 1..n : q[i] = r[i]
    PROVE  g[1..n] = h[1..n]
PROOF
<1> DEFINE Amiss == {k \in 0..n : g[1..k] # h[1..k]}
<1>1. SUFFICES ASSUME Amiss # {} PROVE FALSE
  <2>1. n \in 0..n
    OBVIOUS
  <2> QED BY <2>1
<1>2. PICK k \in Amiss : \A j \in Amiss : k <= j
  <2>1. Amiss \subseteq 0..n
    OBVIOUS
  <2> HIDE DEF Amiss
  <2> QED BY <1>1, <2>1, MinExists
<1>3. CASE k = 0
  <2>1. 1..k = {} /\ {} \in SUBSET (1..n) /\ {} \in SUBSET (1..m)
    BY <1>3
  <2>2. g[{}] = p /\ h[{}] = p
    BY <2>1 DEF Fold
  <2> QED BY <1>2, <2>1, <2>2
<1>4. CASE k # 0
  <2>1. k \in 1..n /\ k - 1 \in 0..n /\ k - 1 \notin Amiss
    BY <1>2, <1>4
  <2>2. 1..k \in SUBSET (1..n) /\ 1..k \in SUBSET (1..m) /\ 1..k # {}
    <3>1. k \in Nat /\ k <= n /\ k <= m /\ k >= 1
      BY <2>1
    <3>2. \A i \in 1..k : i \in 1..n /\ i \in 1..m
      BY <3>1
    <3>3. k \in 1..k
      BY <3>1
    <3> QED BY <3>2, <3>3
  <2>3. Max(1..k) = k
    <3>1. Max(1..k) \in 1..k /\ \A y \in 1..k : Max(1..k) >= y
      BY <2>2, MaxOf
    <3> QED BY <2>1, <3>1
  <2>4. (1..k) \ {k} = 1..(k-1)
    <3>1. k \in Nat
      BY <2>1
    <3>2. \A i : i \in (1..k) \ {k} <=> i \in 1..(k-1)
      BY <3>1
    <3> QED BY <3>2
  <2>5. g[1..k] = FoldEvent(g[1..(k-1)], q[k])
    <3>1. \A T \in SUBSET (1..n) : T # {} => g[T] = FoldEvent(g[T \ {Max(T)}], q[Max(T)])
      BY DEF Fold
    <3>2. g[1..k] = FoldEvent(g[(1..k) \ {Max(1..k)}], q[Max(1..k)])
      BY <2>2, <3>1
    <3> QED BY <2>3, <2>4, <3>2
  <2>6. h[1..k] = FoldEvent(h[1..(k-1)], r[k])
    <3>1. \A T \in SUBSET (1..m) : T # {} => h[T] = FoldEvent(h[T \ {Max(T)}], r[Max(T)])
      BY DEF Fold
    <3>2. h[1..k] = FoldEvent(h[(1..k) \ {Max(1..k)}], r[Max(1..k)])
      BY <2>2, <3>1
    <3> QED BY <2>3, <2>4, <3>2
  <2>7. g[1..(k-1)] = h[1..(k-1)]
    BY <2>1
  <2> QED BY <1>2, <2>1, <2>5, <2>6, <2>7
<1> QED BY <1>3, <1>4

LEMMA ApplyIsFold == ASSUME NEW p, NEW q, NEW n \in Nat, DOMAIN q = 1..n
                     PROVE  \E g : Fold(p, q, n, g) /\ ApplyEvents(p, q) = g[1..n]
PROOF
<1> DEFINE it == CHOOSE g : Fold(p, q, n, g)
<1>1. Fold(p, q, n, it)
  BY FoldExists
<1>2. ApplyEvents(p, q) = it[1..n]
  BY DEF ApplyEvents, FoldLeft, MapThenFoldSet, Fold
<1> QED BY <1>1, <1>2

LEMMA ApplyNone == ASSUME NEW p, NEW q, Len(q) = 0, DOMAIN q = 1..Len(q) PROVE ApplyEvents(p, q) = p
PROOF
<1>1. PICK g : Fold(p, q, 0, g) /\ ApplyEvents(p, q) = g[1..0]
  BY ApplyIsFold
<1>2. 1..0 = {} /\ {} \in SUBSET (1..0)
  OBVIOUS
<1>3. g[{}] = p
  BY <1>1, <1>2 DEF Fold
<1> QED BY <1>1, <1>2, <1>3

LEMMA ApplyAppend == ASSUME NEW p, NEW E, NEW q \in Seq(E), NEW e \in E
                     PROVE  ApplyEvents(p, Append(q, e)) = FoldEvent(ApplyEvents(p, q), e)
PROOF
<1> DEFINE n == Len(q)
           r == Append(q, e)
<1>1. n \in Nat /\ DOMAIN q = 1..n /\ DOMAIN r = 1..(n+1) /\ r[n+1] = e /\ \A i \in 1..n : r[i] = q[i]
  OBVIOUS
<1>0. n \in Nat
  OBVIOUS
<1> HIDE DEF n, r
<1>2. PICK g : Fold(p, q, n, g) /\ ApplyEvents(p, q) = g[1..n]
  BY <1>1, ApplyIsFold
<1>3. PICK h : Fold(p, r, n + 1, h) /\ ApplyEvents(p, r) = h[1..(n+1)]
  BY <1>1, ApplyIsFold
<1>4. g[1..n] = h[1..n]
  <2>1. n + 1 \in Nat /\ n <= n + 1 /\ n \in 0..n
    BY <1>0
  <2>2. \A i \in 1..n : q[i] = r[i]
    BY <1>1
  <2>3. PICK m \in Nat : m = n + 1
    BY <1>0
  <2>4. n <= m /\ Fold(p, q, n, g) /\ Fold(p, r, m, h)
    BY <1>2, <1>3, <2>1, <2>3
  <2>5. \A k \in Nat : k <= m /\ Fold(p, q, k, g) /\ Fold(p, r, m, h) /\ (\A i \in 1..k : q[i] = r[i]) => g[1..k] = h[1..k]
    BY FoldUnique
  <2> QED BY <1>0, <2>2, <2>4, <2>5, ZenonT(30)
<1>5. 1..(n+1) \in SUBSET (1..(n+1)) /\ 1..(n+1) # {}
  <2>1. n + 1 \in 1..(n+1)
    BY <1>0
  <2> QED BY <2>1
<1>6. Max(1..(n+1)) = n + 1
  <2>1. n + 1 \in Nat /\ n + 1 \in 1..(n+1)
    BY <1>1
  <2>2. Max(1..(n+1)) \in 1..(n+1) /\ \A y \in 1..(n+1) : Max(1..(n+1)) >= y
    BY <1>5, <2>1, MaxOf
  <2> QED BY <2>1, <2>2
<1>7. (1..(n+1)) \ {n+1} = 1..n
  <2>1. \A i : i \in (1..(n+1)) \ {n+1} <=> i \in 1..n
    BY <1>1
  <2> QED BY <2>1
<1>8. h[1..(n+1)] = FoldEvent(h[1..n], r[n+1])
  <2>1. \A T \in SUBSET (1..(n+1)) : T # {} => h[T] = FoldEvent(h[T \ {Max(T)}], r[Max(T)])
    BY <1>3 DEF Fold
  <2>2. h[1..(n+1)] = FoldEvent(h[(1..(n+1)) \ {Max(1..(n+1))}], r[Max(1..(n+1))])
    BY <1>5, <2>1
  <2> QED BY <1>6, <1>7, <2>2
<1> QED BY <1>1, <1>2, <1>3, <1>4, <1>8 DEF r

(* What every event of a stream keeps, the whole stream keeps.             *)
LEMMA ApplyKeeps ==
    ASSUME NEW G, NEW p \in G, NEW q, NEW n \in Nat, DOMAIN q = 1..n,
           \A i \in 1..n : \A x \in G : FoldEvent(x, q[i]) \in G
    PROVE  ApplyEvents(p, q) \in G
PROOF
<1>1. PICK g : Fold(p, q, n, g) /\ ApplyEvents(p, q) = g[1..n]
  BY ApplyIsFold
<1> DEFINE Amiss == {k \in 0..n : g[1..k] \notin G}
<1>2. SUFFICES ASSUME Amiss # {} PROVE FALSE
  <2>1. n \in 0..n
    OBVIOUS
  <2> QED BY <1>1, <2>1
<1>3. PICK k \in Amiss : \A j \in Amiss : k <= j
  <2>1. Amiss \subseteq 0..n
    OBVIOUS
  <2> HIDE DEF Amiss
  <2> QED BY <1>2, <2>1, MinExists
<1>4. CASE k = 0
  <2>1. 1..k = {} /\ {} \in SUBSET (1..n)
    BY <1>4
  <2>2. g[{}] = p
    BY <1>1, <2>1 DEF Fold
  <2> QED BY <1>3, <2>1, <2>2
<1>5. CASE k # 0
  <2>1. k \in 1..n /\ k - 1 \in 0..n /\ k - 1 \notin Amiss
    BY <1>3, <1>5
  <2>2. 1..k \in SUBSET (1..n) /\ 1..k # {} /\ k \in 1..k
    <3>1. k \in Nat /\ k <= n /\ k >= 1
      BY <2>1
    <3>2. (\A i \in 1..k : i \in 1..n) /\ k \in 1..k
      BY <3>1
    <3> QED BY <3>2
  <2>3. Max(1..k) = k
    <3>1. Max(1..k) \in 1..k /\ \A y \in 1..k : Max(1..k) >= y
      BY <2>2, MaxOf
    <3> QED BY <2>1, <2>2, <3>1
  <2>4. (1..k) \ {k} = 1..(k-1)
    <3>1. \A i : i \in (1..k) \ {k} <=> i \in 1..(k-1)
      BY <2>1
    <3> QED BY <3>1
  <2>5. g[1..k] = FoldEvent(g[1..(k-1)], q[k])
    <3>1. \A T \in SUBSET (1..n) : T # {} => g[T] = FoldEvent(g[T \ {Max(T)}], q[Max(T)])
      BY <1>1 DEF Fold
    <3>2. g[1..k] = FoldEvent(g[(1..k) \ {Max(1..k)}], q[Max(1..k)])
      BY <2>2, <3>1
    <3> QED BY <2>3, <2>4, <3>2
  <2>6. g[1..(k-1)] \in G
    BY <2>1
  <2> QED BY <1>3, <2>1, <2>5, <2>6
<1> QED BY <1>4, <1>5

-----------------------------------------------------------------------------
(* The panel.  What it holds agrees with the thread it is in: a is what    *)
(* the server has of it.  A request that came to a plan dispatched nothing,*)
(* and will not.                                                           *)
Statuses == {"none", "running", "done"}
PanelNodes == OtherNodes \cup Specialists
SrvType == [req : Nat, st : {"idle", "running", "plan"}, node : OtherNodes,
            stage : [Specialists -> {"none", "running", "ended", "over"}], tasks : [Specialists -> Statuses]]
TurnType == [thread : Nat, req : Nat, running : BOOLEAN, plan : BOOLEAN, tasks : [Specialists -> Statuses]]
RunType == [kind : {"none", "message", "decision"}, req : Nat, streaming : BOOLEAN,
            ended : {"none", "turn", "error", "lost"}, last : PanelNodes,
            finishing : [Specialists -> Nat], tasks : [Specialists -> Statuses], plan : BOOLEAN]
PostType == [st : {"none", "sent", "lost", "open", "closed"}, thread : Nat,
             what : {"none", "message", "decision"}, req : Nat]
StreamEvents == [t : {"accepted"}, req : Nat]
          \cup [t : {"task"}, s : Specialists, status : {"running", "done"}]
          \cup [t : {"step"}, node : PanelNodes]
          \cup [t : {"plan", "error"}]
          \cup [t : {"turn"}, turn : TurnType]
PanelTypes ==
    /\ srv \in [Threads -> SrvType] /\ thread \in Threads /\ turn \in TurnType
    /\ live \in RunType /\ previous \in RunType /\ post \in PostType /\ queue \in Seq(StreamEvents)
    /\ \A g \in gets : g = [thread |-> g.thread, turn |-> g.turn] /\ g.thread \in Threads /\ g.turn \in TurnType

Planned(a) == a.tasks = NoTasks /\ a.stage = NoTasks /\ a.node \in {"none", "confirm", "finish"}
TurnOk(T, a) ==
    /\ T.thread = thread /\ T.req <= a.req
    /\ T.req = a.req => /\ \A s \in Specialists : T.tasks[s] # "none" => a.tasks[s] # "none"
                        /\ T.plan => Planned(a)
RunOk(l, a) ==
    /\ l.req \in {0, a.req}
    /\ \A s \in Specialists : l.tasks[s] = "running" => a.tasks[s] # "none"
    /\ l.kind = "decision" => /\ \A s \in Specialists : l.tasks[s] # "running"
                              /\ l.req # 0 => Planned(a)
EventOk(e, a) ==
    /\ e.t = "accepted" => e.req = a.req
    /\ e.t = "task" => a.tasks[e.s] # "none"
    /\ e.t = "turn" => TurnOk(e.turn, a) /\ e.turn.req = a.req

(* A specialist is lit from its dispatch to its own step.                  *)
LitAt(l, a, s) ==
    /\ a.stage[s] \in {"none", "over"} => l.tasks[s] # "running" /\ l.finishing[s] = 0
    /\ a.stage[s] = "running" => l.tasks[s] = "running" /\ l.finishing[s] = 0
    /\ a.stage[s] = "ended" => l.tasks[s] = "done" /\ l.finishing[s] = 1
LitOf(l, a) == l.streaming /\ ~l.plan /\ \A s \in Specialists : LitAt(l, a, s)

ServerSane(a) ==
    /\ a.st = "plan" => Planned(a)
    /\ a.st = "running" => \A s \in Specialists : a.stage[s] = "none" => a.tasks[s] = "none"
    /\ a.st = "running" /\ a.node = "control" => a.stage = NoTasks
PageSane(a) ==
    /\ turn # NoTurn => TurnOk(turn, a)
    /\ \A g \in gets : g.thread <= thread /\ (g.turn # NoTurn /\ g.thread = thread => TurnOk(g.turn, a))
    /\ RunOk(live, a) /\ RunOk(previous, a)
    /\ \A i \in 1..Len(queue) : EventOk(queue[i], a)
PostSane(a) ==
    /\ Len(queue) # 0 => post.st \in {"open", "closed"}
    /\ post.st # "none" => post.thread = thread /\ live.streaming
    /\ post.st = "sent" =>
          /\ ~previous.streaming /\ live.kind = post.what /\ ~live.plan
          /\ \A s \in Specialists : live.tasks[s] # "running" /\ live.finishing[s] = 0
          /\ post.what = "message" => live.req = 0 /\ live.tasks = NoTasks
    /\ post.st \in {"lost", "open", "closed"} /\ live.kind = "decision" => Planned(a)

PanelStates == [turn : TurnType, live : RunType]
OpenLit == post.st = "open" =>
    \A c \in TurnType : LitOf(ApplyEvents([turn |-> c, live |-> live], queue).live, srv[thread])
PanelRest ==
    /\ PanelTypes
    /\ \A t \in Threads : t > thread => srv[t] = AtRest
    /\ ServerSane(srv[thread]) /\ PageSane(srv[thread]) /\ PostSane(srv[thread])
PanelInv == PanelRest /\ OpenLit

LEMMA NodesApart == \A s \in Specialists : s \notin OtherNodes
BY PanelAssumption

(* Of the same request, with no less dispatched and a plan still one.      *)
Grows(a, b) ==
    /\ b.req = a.req /\ (Planned(a) => Planned(b))
    /\ \A s \in Specialists : a.tasks[s] # "none" => b.tasks[s] # "none"

LEMMA GrowsKeeps ==
    ASSUME NEW a \in SrvType, NEW b \in SrvType, Grows(a, b)
    PROVE  /\ \A T \in TurnType : TurnOk(T, a) => TurnOk(T, b)
           /\ \A l \in RunType : RunOk(l, a) => RunOk(l, b)
           /\ \A e \in StreamEvents : EventOk(e, a) => EventOk(e, b)
PROOF
<1>1. ASSUME NEW T \in TurnType, TurnOk(T, a) PROVE TurnOk(T, b)
  BY <1>1 DEF Grows, TurnOk
<1>2. ASSUME NEW l \in RunType, RunOk(l, a) PROVE RunOk(l, b)
  BY <1>2 DEF Grows, RunOk
<1>3. ASSUME NEW e \in StreamEvents, EventOk(e, a) PROVE EventOk(e, b)
  <2>1. e.t = "turn" => e.turn \in TurnType
    BY DEF StreamEvents
  <2>2. e.t = "task" => e.s \in Specialists
    BY DEF StreamEvents
  <2> QED BY <1>1, <1>3, <2>1, <2>2 DEF Grows, EventOk
<1> QED BY <1>1, <1>2, <1>3

LEMMA FoldRun ==
    ASSUME NEW x \in PanelStates, NEW e \in StreamEvents
    PROVE  LET y == FoldEvent(x, e)
           IN  /\ y \in PanelStates /\ y.live.streaming = x.live.streaming /\ y.live.kind = x.live.kind
               /\ y.turn = IF e.t = "turn" THEN e.turn ELSE x.turn
               /\ e.t # "task" /\ e.t # "turn" => y.live.tasks = x.live.tasks
               /\ e.t = "task" => y.live.tasks = x.live.tasks \/ y.live.tasks = [x.live.tasks EXCEPT ![e.s] = e.status]
               /\ e.t = "turn" => y.live.tasks = x.live.tasks \/ y.live.tasks = MergeTasks(x.live.tasks, e.turn.tasks)
               /\ e.t # "accepted" => y.live.req = x.live.req
               /\ e.t = "accepted" => y.live.req \in {x.live.req, e.req}
PROOF
<1> DEFINE y == FoldEvent(x, e)
<1>1. x = [turn |-> x.turn, live |-> x.live] /\ x.turn \in TurnType /\ x.live \in RunType
  BY DEF PanelStates
<1>2. CASE e.t = "turn"
  <2>1. e.turn \in TurnType
    BY <1>2 DEF StreamEvents
  <2>2. y = [turn |-> e.turn, live |-> IF x.live = NoRun THEN NoRun
             ELSE [x.live EXCEPT !.tasks = MergeTasks(x.live.tasks, e.turn.tasks), !.ended = "turn"]]
    BY <1>2 DEF FoldEvent
  <2>3. MergeTasks(x.live.tasks, e.turn.tasks) \in [Specialists -> Statuses]
    BY <1>1, <2>1 DEF MergeTasks, RunType, TurnType
  <2>4. CASE x.live = NoRun
    BY <1>1, <1>2, <2>1, <2>2, <2>4 DEF PanelStates
  <2>5. CASE x.live # NoRun
    <3> DEFINE r == [x.live EXCEPT !.tasks = MergeTasks(x.live.tasks, e.turn.tasks), !.ended = "turn"]
    <3>1. r \in RunType /\ r.streaming = x.live.streaming /\ r.kind = x.live.kind /\ r.req = x.live.req
          /\ r.tasks = MergeTasks(x.live.tasks, e.turn.tasks)
      BY <1>1, <2>3 DEF RunType
    <3>2. y = [turn |-> e.turn, live |-> r]
      BY <2>2, <2>5
    <3> HIDE DEF r, y
    <3>3. y \in PanelStates /\ y.turn = e.turn /\ y.live = r
      BY <3>1, <3>2, <2>1 DEF PanelStates
    <3> QED BY <3>1, <3>3, <1>2 DEF y
  <2> QED BY <2>4, <2>5
<1>3. CASE e.t # "turn" /\ x.live = NoRun
  <2>1. y = x
    BY <1>3 DEF FoldEvent
  <2> QED BY <1>3, <2>1
<1>4. CASE e.t # "turn" /\ x.live # NoRun
  <2> DEFINE r == CASE e.t = "accepted" -> [x.live EXCEPT !.req = e.req]
                    [] e.t = "task" -> FoldTask(x.live, e)
                    [] e.t = "step" -> FoldStep(x.live, e)
                    [] e.t = "plan" -> [x.live EXCEPT !.plan = TRUE]
                    [] e.t = "error" -> [x.live EXCEPT !.ended = "error"]
  <2>1. y = [x EXCEPT !.live = r]
    BY <1>4 DEF FoldEvent
  <2>2. /\ r \in RunType /\ r.streaming = x.live.streaming /\ r.kind = x.live.kind
        /\ e.t # "task" => r.tasks = x.live.tasks
        /\ e.t = "task" => r.tasks = [x.live.tasks EXCEPT ![e.s] = e.status]
        /\ e.t # "accepted" => r.req = x.live.req
        /\ e.t = "accepted" => r.req = e.req
    <3>1. CASE e.t = "accepted"
      <4>1. e.req \in Nat /\ r = [x.live EXCEPT !.req = e.req]
        BY <3>1 DEF StreamEvents
      <4> HIDE DEF r
      <4> QED BY <4>1, <3>1, <1>1 DEF RunType
    <3>2. CASE e.t = "task"
      <4>1. e.s \in Specialists /\ e.status \in Statuses /\ r = FoldTask(x.live, e)
        BY <3>2 DEF StreamEvents, Statuses
      <4> HIDE DEF r
      <4>2. r = [x.live EXCEPT !.tasks = [x.live.tasks EXCEPT ![e.s] = e.status],
                               !.finishing = [x.live.finishing EXCEPT ![e.s] = IF e.status = "done" /\ x.live.tasks[e.s] # "done"
                                              THEN x.live.finishing[e.s] + 1 ELSE x.live.finishing[e.s]]]
        BY <4>1, <1>1 DEF FoldTask, RunType
      <4>3. [x.live.tasks EXCEPT ![e.s] = e.status] \in [Specialists -> Statuses]
        BY <4>1, <1>1 DEF RunType
      <4>4. [x.live.finishing EXCEPT ![e.s] = IF e.status = "done" /\ x.live.tasks[e.s] # "done"
                                              THEN x.live.finishing[e.s] + 1 ELSE x.live.finishing[e.s]] \in [Specialists -> Nat]
        BY <4>1, <1>1 DEF RunType
      <4> QED BY <4>2, <4>3, <4>4, <3>2, <1>1 DEF RunType
    <3>3. CASE e.t = "step"
      <4>1. e.node \in PanelNodes /\ r = FoldStep(x.live, e)
        BY <3>3 DEF StreamEvents
      <4> HIDE DEF r
      <4>2. r = [x.live EXCEPT !.last = e.node,
                   !.finishing = [s \in Specialists |-> IF s = e.node /\ x.live.finishing[s] > 0
                                  THEN x.live.finishing[s] - 1 ELSE x.live.finishing[s]]]
        BY <4>1, <1>1 DEF FoldStep, RunType
      <4>3. [s \in Specialists |-> IF s = e.node /\ x.live.finishing[s] > 0
                                  THEN x.live.finishing[s] - 1 ELSE x.live.finishing[s]] \in [Specialists -> Nat]
        BY <1>1 DEF RunType
      <4> QED BY <4>1, <4>2, <4>3, <3>3, <1>1 DEF RunType
    <3>4. CASE e.t = "plan"
      <4>1. r = [x.live EXCEPT !.plan = TRUE]
        BY <3>4
      <4> HIDE DEF r
      <4> QED BY <4>1, <3>4, <1>1 DEF RunType
    <3>5. CASE e.t = "error"
      <4>1. r = [x.live EXCEPT !.ended = "error"]
        BY <3>5
      <4> HIDE DEF r
      <4> QED BY <4>1, <3>5, <1>1 DEF RunType
    <3>6. e.t \in {"accepted", "task", "step", "plan", "error", "turn"}
      BY DEF StreamEvents
    <3> QED BY <3>1, <3>2, <3>3, <3>4, <3>5, <3>6, <1>4
  <2> HIDE DEF r
  <2>3. y = [turn |-> x.turn, live |-> r]
    BY <1>1, <2>1
  <2>4. y \in PanelStates /\ y.turn = x.turn /\ y.live = r
    BY <1>1, <2>2, <2>3 DEF PanelStates
  <2> HIDE DEF y
  <2> QED BY <2>2, <2>4, <1>4 DEF y
<1> QED BY <1>2, <1>3, <1>4

(* What the page may hold, as far as an event of the stream can change it. *)
Fitting(a, f, k) ==
    {x \in PanelStates : /\ x.turn # NoTurn => TurnOk(x.turn, a)
                         /\ RunOk(x.live, a) /\ x.live.streaming = f /\ x.live.kind = k}

LEMMA FoldGood ==
    ASSUME NEW a \in SrvType, NEW f, NEW k, k = "decision" => Planned(a),
           NEW x \in Fitting(a, f, k), NEW e \in StreamEvents, EventOk(e, a)
    PROVE  FoldEvent(x, e) \in Fitting(a, f, k)
PROOF
<1>1. x \in PanelStates /\ RunOk(x.live, a) /\ x.live \in RunType
  BY DEF Fitting, PanelStates
<1> DEFINE y == FoldEvent(x, e)
<1>2. /\ y \in PanelStates /\ y.live.streaming = x.live.streaming /\ y.live.kind = x.live.kind
      /\ y.turn = IF e.t = "turn" THEN e.turn ELSE x.turn
      /\ e.t # "task" /\ e.t # "turn" => y.live.tasks = x.live.tasks
      /\ e.t = "task" => y.live.tasks = x.live.tasks \/ y.live.tasks = [x.live.tasks EXCEPT ![e.s] = e.status]
      /\ e.t = "turn" => y.live.tasks = x.live.tasks \/ y.live.tasks = MergeTasks(x.live.tasks, e.turn.tasks)
      /\ e.t # "accepted" => y.live.req = x.live.req
      /\ e.t = "accepted" => y.live.req \in {x.live.req, e.req}
  BY <1>1, FoldRun
<1> HIDE DEF y
<1>3. y.turn # NoTurn => TurnOk(y.turn, a)
  BY <1>2 DEF EventOk, Fitting
<1>4. y.live.req \in {0, a.req}
  BY <1>1, <1>2 DEF EventOk, RunOk
<1>5. ASSUME NEW s \in Specialists, y.live.tasks[s] = "running"
      PROVE  a.tasks[s] # "none" /\ x.live.kind # "decision"
  <2>1. x.live.tasks[s] = "running" => a.tasks[s] # "none" /\ x.live.kind # "decision"
    BY <1>1 DEF RunOk
  <2>2. Planned(a) => a.tasks[s] = "none"
    BY DEF Planned, NoTasks
  <2>3. x.live.kind = "decision" => Planned(a)
    BY DEF Fitting
  <2>4. CASE e.t = "task"
    <3>1. e.s \in Specialists /\ a.tasks[e.s] # "none"
      BY <2>4 DEF StreamEvents, EventOk
    <3>2. x.live.tasks[s] = "running" \/ s = e.s
      BY <1>1, <1>2, <1>5, <2>4, <3>1 DEF RunType
    <3> QED BY <2>1, <2>2, <2>3, <3>1, <3>2
  <2>5. CASE e.t = "turn"
    <3>1. e.turn \in TurnType /\ TurnOk(e.turn, a) /\ e.turn.req = a.req
      BY <2>5 DEF StreamEvents, EventOk
    <3>2. CASE x.live.tasks[s] = "running"
      BY <2>1, <3>2
    <3>3. CASE y.live.tasks = MergeTasks(x.live.tasks, e.turn.tasks) /\ x.live.tasks[s] # "running"
      <4>1. e.turn.tasks[s] = "running"
        BY <3>3, <1>5 DEF MergeTasks
      <4> QED BY <4>1, <3>1, <2>2, <2>3 DEF TurnOk
    <3> QED BY <1>2, <1>5, <2>5, <3>2, <3>3
  <2> QED BY <1>2, <1>5, <2>1, <2>4, <2>5
<1>6. y.live.kind = "decision" => Planned(a)
  BY <1>2 DEF Fitting
<1>7. RunOk(y.live, a)
  BY <1>2, <1>4, <1>5, <1>6 DEF RunOk
<1> QED BY <1>2, <1>3, <1>7 DEF Fitting, y

LEMMA StreamGood ==
    ASSUME PanelInv, post.st \in {"open", "closed"}, NEW q, NEW n \in 0..Len(queue), DOMAIN q = 1..n,
           \A i \in 1..n : q[i] = queue[i]
    PROVE  ApplyEvents([turn |-> turn, live |-> live], q) \in Fitting(srv[thread], TRUE, live.kind)
PROOF
<1> DEFINE a == srv[thread]
           G == Fitting(a, TRUE, live.kind)
           p == [turn |-> turn, live |-> live]
<1>1. a \in SrvType /\ live \in RunType /\ turn \in TurnType /\ queue \in Seq(StreamEvents)
  BY DEF PanelInv, PanelRest, PanelTypes
<1>2. p \in G
  <2>1. live.streaming /\ RunOk(live, a) /\ (turn # NoTurn => TurnOk(turn, a))
    BY DEF PanelInv, PanelRest, PageSane, PostSane
  <2>2. live.streaming = TRUE
    BY <2>1, <1>1 DEF RunType
  <2>3. p \in PanelStates
    BY <1>1 DEF PanelStates
  <2> QED BY <2>1, <2>2, <2>3 DEF Fitting
<1>3. live.kind = "decision" => Planned(a)
  BY DEF PanelInv, PanelRest, PostSane
<1>4. n \in Nat /\ \A i \in 1..n : i \in 1..Len(queue)
  BY <1>1
<1>5. \A i \in 1..n : q[i] \in StreamEvents /\ EventOk(q[i], a)
  BY <1>1, <1>4 DEF PanelInv, PanelRest, PageSane
<1> HIDE DEF a, G, p
<1>6. \A i \in 1..n : \A x \in G : FoldEvent(x, q[i]) \in G
  BY <1>1, <1>3, <1>5, FoldGood DEF G
<1>7. ApplyEvents(p, q) \in G
  BY <1>2, <1>4, <1>6, ApplyKeeps
<1> QED BY <1>7 DEF p, G, a

LEMMA EndRunKeeps ==
    ASSUME NEW a, NEW l \in RunType, RunOk(l, a), NEW how \in {"lost", "error", "turn"}
    PROVE  EndRun(l, how) \in RunType /\ RunOk(EndRun(l, how), a) /\ (~ EndRun(l, how).streaming)
PROOF
<1>1. CASE l = NoRun
  BY <1>1 DEF EndRun, NoRun
<1>2. CASE l # NoRun
  <2>1. EndRun(l, how) = [l EXCEPT !.streaming = FALSE, !.ended = IF l.ended = "none" THEN how ELSE l.ended]
    BY <1>2 DEF EndRun, RunType
  <2>2. /\ EndRun(l, how) \in RunType /\ EndRun(l, how).streaming = FALSE /\ EndRun(l, how).tasks = l.tasks
        /\ EndRun(l, how).req = l.req /\ EndRun(l, how).kind = l.kind
    BY <2>1 DEF RunType
  <2> QED BY <2>2 DEF RunOk
<1> QED BY <1>1, <1>2

(* What one event does to what is lit.                                     *)
LEMMA LitQuiet ==
    ASSUME NEW a \in SrvType, NEW b \in SrvType, NEW x \in PanelStates, LitOf(x.live, a), NEW e \in StreamEvents,
           e.t = "accepted" \/ (e.t = "step" /\ e.node \in OtherNodes), b.stage = a.stage
    PROVE  LitOf(FoldEvent(x, e).live, b)
PROOF
<1> DEFINE l == x.live
           y == FoldEvent(x, e).live
<1>1. l \in RunType /\ x = [turn |-> x.turn, live |-> l] /\ l # NoRun /\ l.streaming = TRUE /\ l.plan = FALSE
  BY DEF PanelStates, LitOf, NoRun, RunType
<1>2. \A s \in Specialists : LitAt(l, a, s)
  BY DEF LitOf
<1>3. CASE e.t = "accepted"
  <2>1. y = [l EXCEPT !.req = e.req]
    BY <1>1, <1>3 DEF FoldEvent
  <2> HIDE DEF l, y
  <2>2. y.streaming /\ ~y.plan /\ y.tasks = l.tasks /\ y.finishing = l.finishing
    BY <1>1, <2>1 DEF RunType
  <2>3. LitOf(y, b)
    BY <1>2, <2>2 DEF LitOf, LitAt
  <2> QED BY <2>3 DEF y
<1>4. CASE e.t = "step" /\ e.node \in OtherNodes
  <2>1. y = [l EXCEPT !.last = e.node,
                !.finishing = [s \in Specialists |-> IF s = e.node /\ l.finishing[s] > 0
                                                     THEN l.finishing[s] - 1 ELSE l.finishing[s]]]
    BY <1>1, <1>4 DEF FoldEvent, FoldStep, RunType
  <2> HIDE DEF l, y
  <2>2. /\ y.streaming /\ ~y.plan /\ y.tasks = l.tasks
        /\ \A s \in Specialists : y.finishing[s] = l.finishing[s]
    BY <1>1, <1>4, <2>1, NodesApart DEF RunType
  <2>3. LitOf(y, b)
    BY <1>2, <2>2 DEF LitOf, LitAt
  <2> QED BY <2>3 DEF y
<1> QED BY <1>3, <1>4

LEMMA LitOver ==
    ASSUME NEW a \in SrvType, NEW b \in SrvType, NEW x \in PanelStates, LitOf(x.live, a), NEW s \in Specialists,
           a.stage[s] = "ended", b.stage = [a.stage EXCEPT ![s] = "over"]
    PROVE  LitOf(FoldEvent(x, [t |-> "step", node |-> s]).live, b)
PROOF
<1> DEFINE l == x.live
           e == [t |-> "step", node |-> s]
           y == FoldEvent(x, e).live
<1>1. l \in RunType /\ x = [turn |-> x.turn, live |-> l] /\ l # NoRun /\ l.streaming = TRUE /\ l.plan = FALSE
  BY DEF PanelStates, LitOf, NoRun, RunType
<1>2. \A q \in Specialists : LitAt(l, a, q)
  BY DEF LitOf
<1>3. y = [l EXCEPT !.last = s,
              !.finishing = [q \in Specialists |-> IF q = s /\ l.finishing[q] > 0
                                                   THEN l.finishing[q] - 1 ELSE l.finishing[q]]]
  BY <1>1 DEF FoldEvent, FoldStep, RunType
<1> HIDE DEF l, y
<1>4. /\ y.streaming /\ ~y.plan /\ y.tasks = l.tasks
      /\ \A q \in Specialists : y.finishing[q] = IF q = s /\ l.finishing[q] > 0
                                                 THEN l.finishing[q] - 1 ELSE l.finishing[q]
  BY <1>1, <1>3 DEF RunType
<1>5. y.finishing[s] = 0 /\ y.tasks[s] = "done" /\ b.stage[s] = "over"
  BY <1>2, <1>4 DEF SrvType, LitAt
<1>6. \A q \in Specialists \ {s} : y.finishing[q] = l.finishing[q] /\ b.stage[q] = a.stage[q]
  BY <1>4 DEF SrvType
<1>7. \A q \in Specialists \ {s} : LitAt(y, b, q)
  BY <1>2, <1>4, <1>6 DEF LitAt
<1>8. LitAt(y, b, s)
  BY <1>5 DEF LitAt
<1>9. \A q \in Specialists : LitAt(y, b, q)
  <2>1. \A q \in Specialists : q = s \/ q \in Specialists \ {s}
    OBVIOUS
  <2> QED BY <1>7, <1>8, <2>1, Zenon
<1>10. LitOf(y, b)
  BY <1>4, <1>9 DEF LitOf
<1> QED BY <1>10 DEF y

LEMMA LitTask ==
    ASSUME NEW a \in SrvType, NEW b \in SrvType, NEW x \in PanelStates, LitOf(x.live, a), NEW s \in Specialists,
           NEW st \in {"running", "done"},
           st = "running" => a.stage[s] = "none" /\ b.stage = [a.stage EXCEPT ![s] = "running"],
           st = "done" => a.stage[s] = "running" /\ b.stage = [a.stage EXCEPT ![s] = "ended"]
    PROVE  LitOf(FoldEvent(x, [t |-> "task", s |-> s, status |-> st]).live, b)
PROOF
<1> DEFINE l == x.live
           e == [t |-> "task", s |-> s, status |-> st]
           y == FoldEvent(x, e).live
<1>1. l \in RunType /\ x = [turn |-> x.turn, live |-> l] /\ l # NoRun /\ l.streaming = TRUE /\ l.plan = FALSE
  BY DEF PanelStates, LitOf, NoRun, RunType
<1>2. \A q \in Specialists : LitAt(l, a, q)
  BY DEF LitOf
<1>3. y = [l EXCEPT !.tasks = [l.tasks EXCEPT ![s] = st],
              !.finishing = [l.finishing EXCEPT ![s] = IF st = "done" /\ l.tasks[s] # "done"
                                                       THEN l.finishing[s] + 1 ELSE l.finishing[s]]]
  BY <1>1 DEF FoldEvent, FoldTask, RunType
<1> HIDE DEF l, y
<1>4. /\ y.streaming /\ ~y.plan /\ y.tasks = [l.tasks EXCEPT ![s] = st]
      /\ y.finishing = [l.finishing EXCEPT ![s] = IF st = "done" /\ l.tasks[s] # "done"
                                                       THEN l.finishing[s] + 1 ELSE l.finishing[s]]
  BY <1>1, <1>3 DEF RunType
<1>5. l.tasks \in [Specialists -> Statuses] /\ l.finishing \in [Specialists -> Nat]
  BY <1>1 DEF RunType
<1>6. \A q \in Specialists \ {s} : y.finishing[q] = l.finishing[q] /\ b.stage[q] = a.stage[q] /\ y.tasks[q] = l.tasks[q]
  BY <1>4, <1>5 DEF SrvType
<1>7. /\ st = "running" => b.stage[s] = "running" /\ y.tasks[s] = "running" /\ y.finishing[s] = 0
      /\ st = "done" => b.stage[s] = "ended" /\ y.tasks[s] = "done" /\ y.finishing[s] = 1
  BY <1>2, <1>4, <1>5 DEF SrvType, LitAt
<1>8. \A q \in Specialists \ {s} : LitAt(y, b, q)
  BY <1>2, <1>6 DEF LitAt
<1>9. LitAt(y, b, s)
  BY <1>7 DEF LitAt
<1>10. \A q \in Specialists : LitAt(y, b, q)
  <2>1. \A q \in Specialists : q = s \/ q \in Specialists \ {s}
    OBVIOUS
  <2> QED BY <1>8, <1>9, <2>1, Zenon
<1>11. LitOf(y, b)
  BY <1>4, <1>10 DEF LitOf
<1> QED BY <1>11 DEF y

(* The route goes on with the request it runs: nothing the page holds of   *)
(* it becomes wrong.                                                       *)
LEMMA RouteMoves ==
    ASSUME PanelInv, thread' = thread, UNCHANGED page, gets' = gets,
           NEW b \in SrvType, srv' = [srv EXCEPT ![thread] = b], Grows(srv[thread], b), ServerSane(b),
           NEW es \in Seq(StreamEvents), \A i \in 1..Len(es) : EventOk(es[i], b), Emit(thread, es),
           post' = post \/ (post.st = "open" /\ post' = [post EXCEPT !.st = "closed"])
    PROVE  PanelRest'
PROOF
<1> DEFINE a == srv[thread]
<1>1. PanelTypes /\ a \in SrvType /\ thread \in Threads /\ Threads \subseteq Nat
  BY PanelAssumption DEF PanelInv, PanelRest, PanelTypes
<1>2. /\ \A T \in TurnType : TurnOk(T, a) => TurnOk(T, b)
      /\ \A l \in RunType : RunOk(l, a) => RunOk(l, b)
      /\ \A e \in StreamEvents : EventOk(e, a) => EventOk(e, b)
  BY <1>1, GrowsKeeps
<1>3. UNCHANGED <<turn, live, previous, problem, polling>>
  BY DEF page
<1>4. srv'[thread] = b /\ srv' \in [Threads -> SrvType] /\ \A t \in Threads \ {thread} : srv'[t] = srv[t]
  BY <1>1 DEF PanelTypes
<1>5. queue' = queue \/ (post.st = "open" /\ queue' = queue \o es)
  BY DEF Emit, Listening
<1>6. queue' \in Seq(StreamEvents) /\ \A i \in 1..Len(queue') : EventOk(queue'[i], b)
  <2>1. queue \in Seq(StreamEvents) /\ \A i \in 1..Len(queue) : queue[i] \in StreamEvents /\ EventOk(queue[i], a)
    BY DEF PanelInv, PanelRest, PageSane, PanelTypes
  <2>2. \A i \in 1..Len(queue) : EventOk(queue[i], b)
    BY <1>2, <2>1
  <2>3. CASE queue' = queue \o es
    <3>1. queue' \in Seq(StreamEvents) /\ Len(queue') = Len(queue) + Len(es)
          /\ \A i \in 1..Len(queue') : queue'[i] = IF i <= Len(queue) THEN queue[i] ELSE es[i - Len(queue)]
      BY <2>1, <2>3
    <3>2. \A i \in 1..Len(queue') : i <= Len(queue) \/ i - Len(queue) \in 1..Len(es)
      BY <2>1, <3>1
    <3>3. ASSUME NEW i \in 1..Len(queue') PROVE EventOk(queue'[i], b)
      <4>1. CASE i <= Len(queue)
        <5>1. i \in 1..Len(queue)
          BY <4>1, <2>1
        <5> QED BY <2>2, <3>1, <4>1, <5>1
      <4>2. CASE ~(i <= Len(queue))
        BY <3>1, <3>2, <4>2
      <4> QED BY <4>1, <4>2
    <3> QED BY <3>1, <3>3
  <2> QED BY <1>5, <2>1, <2>2, <2>3
<1>7. post' \in PostType /\ post'.thread = post.thread /\ post'.what = post.what
      /\ (post'.st = post.st \/ (post.st = "open" /\ post'.st = "closed"))
  BY <1>1 DEF PanelTypes, PostType
<1>8. PanelTypes'
  BY <1>1, <1>3, <1>4, <1>6, <1>7 DEF PanelTypes
<1>9. \A t \in Threads : t > thread => srv'[t] = AtRest
  <2>1. \A t \in Threads : t > thread => t # thread
    BY <1>1
  <2> QED BY <1>4, <2>1 DEF PanelInv, PanelRest
<1>10. PageSane(a) /\ PostSane(a)
  BY DEF PanelInv, PanelRest
<1>11. PageSane(b)'
  <2>1. turn' # NoTurn => TurnOk(turn, b)
    BY <1>2, <1>3, <1>10, <1>1 DEF PageSane, PanelTypes
  <2>2. \A g \in gets : g.thread <= thread /\ (g.turn # NoTurn /\ g.thread = thread => TurnOk(g.turn, b))
    BY <1>2, <1>10, <1>1 DEF PageSane, PanelTypes
  <2>3. RunOk(live, b) /\ RunOk(previous, b)
    BY <1>2, <1>10, <1>1 DEF PageSane, PanelTypes
  <2> QED BY <1>3, <1>6, <2>1, <2>2, <2>3 DEF PageSane, TurnOk, RunOk, EventOk
<1>12. PostSane(b)'
  <2>1. Len(queue') # 0 => post'.st \in {"open", "closed"}
    BY <1>5, <1>7, <1>10 DEF PostSane
  <2>2. post'.st # "none" => post'.thread = thread /\ live.streaming
    BY <1>7, <1>10 DEF PostSane
  <2>3. post'.st = "sent" => post.st = "sent"
    BY <1>7
  <2>4. post'.st \in {"lost", "open", "closed"} => post.st \in {"lost", "open", "closed"}
    BY <1>7
  <2>5. post'.st \in {"lost", "open", "closed"} /\ live.kind = "decision" => Planned(b)
    BY <2>4, <1>10 DEF PostSane, Grows
  <2> QED BY <1>3, <1>7, <1>10, <2>1, <2>2, <2>3, <2>5 DEF PostSane
<1> QED BY <1>4, <1>8, <1>9, <1>11, <1>12 DEF PanelRest, ServerSane, PageSane, PostSane, TurnOk, RunOk, EventOk

LEMMA RouteLit ==
    ASSUME PanelInv, thread' = thread, UNCHANGED page,
           NEW b \in SrvType, srv' = [srv EXCEPT ![thread] = b], post' = post,
           NEW e \in StreamEvents, Emit(thread, <<e>>),
           \A x \in PanelStates : LitOf(x.live, srv[thread]) => LitOf(FoldEvent(x, e).live, b)
    PROVE  OpenLit'
PROOF
<1> SUFFICES ASSUME post'.st = "open", NEW c \in TurnType
             PROVE  LitOf(ApplyEvents([turn |-> c, live |-> live'], queue').live, srv'[thread'])
  BY DEF OpenLit, TurnType, Statuses, LitOf, LitAt
<1>1. PanelTypes /\ thread \in Threads /\ live \in RunType /\ queue \in Seq(StreamEvents) /\ live' = live
  BY DEF PanelInv, PanelRest, PanelTypes, page
<1>2. srv'[thread'] = b
  BY <1>1 DEF PanelTypes
<1>3. post.st = "open" /\ post.thread = thread
  BY DEF PanelInv, PanelRest, PostSane
<1>4. queue' = Append(queue, e)
  BY <1>1, <1>3 DEF Emit, Listening
<1> DEFINE p == [turn |-> c, live |-> live]
           x == ApplyEvents(p, queue)
<1>5. LitOf(x.live, srv[thread])
  BY <1>3 DEF PanelInv, OpenLit
<1>6. x \in PanelStates
  <2>1. p \in PanelStates
    BY <1>1 DEF PanelStates
  <2>2. \A i \in 1..Len(queue) : queue[i] \in StreamEvents
    BY <1>1
  <2> HIDE DEF p
  <2>3. \A i \in 1..Len(queue) : \A z \in PanelStates : FoldEvent(z, queue[i]) \in PanelStates
    BY <2>2, FoldRun
  <2>4. Len(queue) \in Nat /\ DOMAIN queue = 1..Len(queue)
    BY <1>1
  <2> QED BY <2>1, <2>3, <2>4, ApplyKeeps
<1>7. ApplyEvents(p, queue') = FoldEvent(x, e)
  BY <1>1, <1>4, ApplyAppend
<1> HIDE DEF x, p
<1>8. LitOf(ApplyEvents(p, queue').live, b)
  BY <1>5, <1>6, <1>7
<1> QED BY <1>1, <1>2, <1>8 DEF p

LEMMA NodeMoves ==
    ASSUME PanelInv, RunningAt(thread), NEW from \in OtherNodes \ {"none", "finish"}, NEW to \in OtherNodes,
           ToNode(thread, from, to), UNCHANGED <<thread, page, post, gets, faults>>,
           from = "confirm" => to = "finish", to = "control" => srv[thread].stage = NoTasks
    PROVE  PanelInv'
PROOF
<1> DEFINE a == srv[thread]
           b == [a EXCEPT !.node = to]
           e == [t |-> "step", node |-> from]
           es == <<e>>
<1>1. a \in SrvType /\ a.st = "running" /\ a.node = from /\ ServerSane(a)
  BY DEF PanelInv, PanelRest, PanelTypes, RunningAt, ToNode
<1>2. /\ b \in SrvType /\ b.node = to
      /\ b.req = a.req /\ b.st = a.st /\ b.stage = a.stage /\ b.tasks = a.tasks
  BY <1>1 DEF SrvType
<1>3. srv' = [srv EXCEPT ![thread] = b] /\ Emit(thread, es)
  BY DEF ToNode, PanelInv, PanelRest, PanelTypes, SrvType
<1>4. e \in StreamEvents /\ es \in Seq(StreamEvents) /\ Len(es) = 1 /\ es[1] = e
  BY DEF StreamEvents, PanelNodes
<1>5. EventOk(e, b) /\ e.t = "step" /\ e.node = from
  BY DEF EventOk
<1> HIDE DEF a, b, e
<1>6. Grows(a, b)
  BY <1>1, <1>2 DEF Grows, Planned
<1>7. ServerSane(b)
  BY <1>1, <1>2 DEF ServerSane, a
<1>8. \A i \in 1..Len(es) : EventOk(es[i], b)
  BY <1>4, <1>5
<1>9. PanelRest'
  <2> HIDE DEF es
  <2> QED BY <1>2, <1>3, <1>4, <1>6, <1>7, <1>8, RouteMoves DEF a
<1>10. \A x \in PanelStates : LitOf(x.live, a) => LitOf(FoldEvent(x, e).live, b)
  BY <1>1, <1>2, <1>4, <1>5, LitQuiet
<1>11. OpenLit'
  BY <1>2, <1>3, <1>4, <1>10, RouteLit DEF a
<1> QED BY <1>9, <1>11 DEF PanelInv

LEMMA NodeEndsKeeps == ASSUME PanelInv, NodeEnds(thread) PROVE PanelInv'
PROOF
<1>1. RunningAt(thread) /\ UNCHANGED <<thread, page, post, gets, faults>>
  BY DEF NodeEnds
<1>2. Idle(thread) /\ ~Dispatched(thread) => srv[thread].stage = NoTasks
  BY DEF Idle, Dispatched, PanelInv, PanelRest, PanelTypes, SrvType, NoTasks
<1>3. \E from \in OtherNodes \ {"none", "finish"}, to \in OtherNodes :
         /\ ToNode(thread, from, to) /\ (from = "confirm" => to = "finish")
         /\ to = "control" => srv[thread].stage = NoTasks
  BY <1>2 DEF NodeEnds, OtherNodes
<1> QED BY <1>1, <1>3, NodeMoves

LEMMA TaskMoves ==
    ASSUME PanelInv, RunningAt(thread), NEW s \in Specialists, NEW e \in StreamEvents,
           NEW to \in {"running", "ended", "over"}, NEW b \in SrvType, srv' = [srv EXCEPT ![thread] = b],
           b.req = srv[thread].req, b.st = "running", ~Planned(srv[thread]), b.node # "control",
           b.stage = [srv[thread].stage EXCEPT ![s] = to],
           \A q \in Specialists \ {s} : b.tasks[q] = srv[thread].tasks[q],
           srv[thread].tasks[s] # "none" \/ e.t = "task" => b.tasks[s] # "none",
           e.t = "task" \/ e.t = "step", e.t = "task" => e.s = s,
           Emit(thread, <<e>>), UNCHANGED <<thread, page, post, gets, faults>>,
           \A x \in PanelStates : LitOf(x.live, srv[thread]) => LitOf(FoldEvent(x, e).live, b)
    PROVE  PanelInv'
PROOF
<1> DEFINE a == srv[thread]
           es == <<e>>
<1>1. a \in SrvType /\ a.st = "running" /\ ServerSane(a)
  BY DEF PanelInv, PanelRest, PanelTypes, RunningAt
<1>2. Grows(a, b)
  BY DEF Grows
<1>3. ServerSane(b)
  <2>1. ASSUME NEW q \in Specialists, b.stage[q] = "none" PROVE b.tasks[q] = "none"
    <3>1. q # s /\ a.stage[q] = "none"
      BY <1>1, <2>1 DEF SrvType
    <3> QED BY <1>1, <3>1 DEF ServerSane
  <2> QED BY <2>1 DEF ServerSane
<1>4. es \in Seq(StreamEvents) /\ Len(es) = 1 /\ es[1] = e
  OBVIOUS
<1>5. EventOk(e, b)
  BY DEF EventOk
<1>6. PanelRest'
  <2>1. \A i \in 1..Len(es) : EventOk(es[i], b)
    BY <1>4, <1>5
  <2>2. Emit(thread, es)
    OBVIOUS
  <2> HIDE DEF es
  <2> QED BY <1>2, <1>3, <1>4, <2>1, <2>2, RouteMoves
<1>7. OpenLit'
  BY RouteLit
<1> QED BY <1>6, <1>7 DEF PanelInv

LEMMA TaskBeginsKeeps == ASSUME PanelInv, NEW s \in Specialists, TaskBegins(thread, s) PROVE PanelInv'
PROOF
<1> DEFINE a == srv[thread]
           b == [a EXCEPT !.stage = [a.stage EXCEPT ![s] = "running"], !.tasks = [a.tasks EXCEPT ![s] = "running"]]
           e == [t |-> "task", s |-> s, status |-> "running"]
<1>1. /\ RunningAt(thread) /\ a.node = "planner" /\ a.stage[s] = "none"
      /\ Emit(thread, <<e>>) /\ UNCHANGED <<thread, page, post, gets, faults>>
  BY DEF TaskBegins
<1>2. a \in SrvType /\ a.st = "running"
  BY <1>1 DEF PanelInv, PanelRest, PanelTypes, RunningAt
<1>3. srv' = [srv EXCEPT ![thread] = b]
  BY <1>2 DEF TaskBegins, PanelInv, PanelRest, PanelTypes, SrvType
<1>4. /\ b \in SrvType /\ b.node = "planner" /\ b.st = "running" /\ b.req = a.req
      /\ b.stage = [a.stage EXCEPT ![s] = "running"] /\ b.tasks = [a.tasks EXCEPT ![s] = "running"]
  BY <1>1, <1>2 DEF SrvType, Statuses
<1>5. e \in StreamEvents /\ e.t = "task" /\ e.s = s
  BY DEF StreamEvents
<1> HIDE DEF b
<1>6. \A x \in PanelStates : LitOf(x.live, a) => LitOf(FoldEvent(x, e).live, b)
  BY <1>1, <1>2, <1>4, LitTask
<1>7. ~Planned(a)
  BY <1>1 DEF Planned
<1>8. b.tasks[s] # "none" /\ \A q \in Specialists \ {s} : b.tasks[q] = a.tasks[q]
  BY <1>2, <1>4 DEF SrvType
<1> HIDE DEF a, e
<1> QED BY <1>1, <1>3, <1>4, <1>5, <1>6, <1>7, <1>8, TaskMoves DEF a

LEMMA TaskEndsKeeps == ASSUME PanelInv, NEW s \in Specialists, TaskEnds(thread, s) PROVE PanelInv'
PROOF
<1> DEFINE a == srv[thread]
           b == [a EXCEPT !.stage = [a.stage EXCEPT ![s] = "ended"], !.tasks = [a.tasks EXCEPT ![s] = "done"]]
           e == [t |-> "task", s |-> s, status |-> "done"]
<1>1. /\ RunningAt(thread) /\ a.node = "work" /\ a.stage[s] = "running"
      /\ Emit(thread, <<e>>) /\ UNCHANGED <<thread, page, post, gets, faults>>
  BY DEF TaskEnds
<1>2. a \in SrvType /\ a.st = "running"
  BY <1>1 DEF PanelInv, PanelRest, PanelTypes, RunningAt
<1>3. srv' = [srv EXCEPT ![thread] = b]
  BY <1>2 DEF TaskEnds, PanelInv, PanelRest, PanelTypes, SrvType
<1>4. /\ b \in SrvType /\ b.node = "work" /\ b.st = "running" /\ b.req = a.req
      /\ b.stage = [a.stage EXCEPT ![s] = "ended"] /\ b.tasks = [a.tasks EXCEPT ![s] = "done"]
  BY <1>1, <1>2 DEF SrvType, Statuses
<1>5. e \in StreamEvents /\ e.t = "task" /\ e.s = s
  BY DEF StreamEvents
<1> HIDE DEF b
<1>6. \A x \in PanelStates : LitOf(x.live, a) => LitOf(FoldEvent(x, e).live, b)
  BY <1>1, <1>2, <1>4, LitTask
<1>7. ~Planned(a)
  BY <1>1 DEF Planned
<1>8. b.tasks[s] # "none" /\ \A q \in Specialists \ {s} : b.tasks[q] = a.tasks[q]
  BY <1>2, <1>4 DEF SrvType
<1> HIDE DEF a, e
<1> QED BY <1>1, <1>3, <1>4, <1>5, <1>6, <1>7, <1>8, TaskMoves DEF a

LEMMA SpecialistStepsKeeps == ASSUME PanelInv, NEW s \in Specialists, SpecialistSteps(thread, s) PROVE PanelInv'
PROOF
<1> DEFINE a == srv[thread]
           to == IF \A q \in Specialists \ {s} : a.stage[q] \in {"none", "over"} THEN "join" ELSE a.node
           b == [a EXCEPT !.stage = [a.stage EXCEPT ![s] = "over"], !.node = to]
           e == [t |-> "step", node |-> s]
<1>1. /\ RunningAt(thread) /\ a.stage[s] = "ended"
      /\ Emit(thread, <<e>>) /\ UNCHANGED <<thread, page, post, gets, faults>>
  BY DEF SpecialistSteps
<1>2. a \in SrvType /\ a.st = "running" /\ ServerSane(a)
  BY <1>1 DEF PanelInv, PanelRest, PanelTypes, RunningAt
<1>3. srv' = [srv EXCEPT ![thread] = b]
  BY <1>2 DEF SpecialistSteps, PanelInv, PanelRest, PanelTypes, SrvType
<1>4. to \in OtherNodes /\ (to = "join" \/ to = a.node)
  BY <1>2 DEF SrvType, OtherNodes
<1>5. a.stage # NoTasks
  BY <1>1 DEF NoTasks
<1>6. to # "control" /\ ~Planned(a)
  BY <1>2, <1>4, <1>5 DEF ServerSane, Planned
<1> HIDE DEF to
<1>7. /\ b \in SrvType /\ b.node = to /\ b.st = "running" /\ b.req = a.req
      /\ b.stage = [a.stage EXCEPT ![s] = "over"] /\ b.tasks = a.tasks
  BY <1>1, <1>2, <1>4 DEF SrvType
<1>8. e \in StreamEvents /\ e.t = "step"
  BY DEF StreamEvents, PanelNodes
<1> HIDE DEF b
<1>9. \A x \in PanelStates : LitOf(x.live, a) => LitOf(FoldEvent(x, e).live, b)
  BY <1>1, <1>2, <1>7, LitOver
<1> HIDE DEF a, e
<1> QED BY <1>1, <1>3, <1>6, <1>7, <1>8, <1>9, TaskMoves DEF a

LEMMA RunEndsKeeps == ASSUME PanelInv, NEW how \in {"turn", "plan", "error"}, RunEnds(thread, how) PROVE PanelInv'
PROOF
<1>0. PICK pl \in BOOLEAN : pl = (how = "plan")
  OBVIOUS
<1> DEFINE a == srv[thread]
           st == IF how = "plan" THEN "plan" ELSE "idle"
           b == [a EXCEPT !.st = st, !.node = "none", !.stage = NoTasks]
           T == [TurnOf(thread) EXCEPT !.running = FALSE, !.plan = (how = "plan")]
           end == [t |-> "turn", turn |-> T]
           es == CASE how = "turn" -> <<end>>
                   [] how = "plan" -> <<[t |-> "plan"], end>>
                   [] how = "error" -> <<[t |-> "error"]>>
<1>1. a \in SrvType /\ a.st = "running" /\ ServerSane(a) /\ PanelTypes /\ thread \in Nat
  BY PanelAssumption DEF RunEnds, PanelInv, PanelRest, PanelTypes, RunningAt
<1>2. /\ how = "plan" => a.node = "control"
      /\ srv' = [srv EXCEPT ![thread] = b]
      /\ post' = IF Listening(thread) THEN [post EXCEPT !.st = "closed"] ELSE post
      /\ UNCHANGED <<thread, page, gets, faults>>
  <2>1. how = "plan" => a.node = "control"
    BY DEF RunEnds
  <2>2. srv' = [srv EXCEPT ![thread] = b]
    BY DEF RunEnds
  <2>3. post' = IF Listening(thread) THEN [post EXCEPT !.st = "closed"] ELSE post
    BY DEF RunEnds
  <2>4. UNCHANGED <<thread, page, gets, faults>>
    BY DEF RunEnds
  <2> QED BY <2>1, <2>2, <2>3, <2>4
<1>3. T \in TurnType /\ T.thread = thread /\ T.req = a.req /\ T.plan = pl /\ T.tasks = a.tasks
  <2> DEFINE X == TurnOf(thread)
  <2>1. X \in TurnType /\ X.thread = thread /\ X.req = a.req /\ X.tasks = a.tasks
    BY <1>1 DEF TurnOf, TurnType, SrvType
  <2>2. T = [X EXCEPT !.running = FALSE, !.plan = pl]
    BY <1>0
  <2> HIDE DEF X, T, a
  <2> QED BY <2>1, <2>2 DEF TurnType
<1>4. Emit(thread, es)
  BY DEF RunEnds
<1>5. /\ b \in SrvType /\ b.req = a.req /\ b.tasks = a.tasks /\ b.node = "none" /\ b.stage = NoTasks
      /\ b.st = st
  <2>1. st \in {"plan", "idle"} /\ NoTasks \in [Specialists -> {"none", "running", "ended", "over"}] /\ "none" \in OtherNodes
    BY DEF NoTasks, OtherNodes
  <2> HIDE DEF st, a
  <2> QED BY <1>1, <2>1 DEF SrvType
<1>6. how = "plan" => Planned(b)
  <2>1. how = "plan" => a.stage = NoTasks
    BY <1>1, <1>2 DEF ServerSane
  <2>2. a.stage = NoTasks => \A s \in Specialists : a.tasks[s] = "none"
    BY <1>1 DEF ServerSane, NoTasks
  <2>3. (\A s \in Specialists : a.tasks[s] = "none") => a.tasks = NoTasks
    BY <1>1 DEF SrvType, NoTasks
  <2> QED BY <1>5, <2>1, <2>2, <2>3 DEF Planned
<1>7. Grows(a, b) /\ ServerSane(b)
  BY <1>5, <1>6 DEF Grows, Planned, ServerSane, st
<1>8. TurnOk(T, b) /\ T.req = b.req
  <2> HIDE DEF b, T
  <2>1. a.req \in Nat
    BY <1>1 DEF SrvType
  <2>2. T.plan => Planned(b)
    BY <1>0, <1>3, <1>6
  <2> HIDE DEF a
  <2>3. T.req <= b.req /\ T.req = b.req /\ \A s \in Specialists : T.tasks[s] # "none" => b.tasks[s] # "none"
    BY <1>3, <1>5, <2>1
  <2> QED BY <1>3, <2>2, <2>3 DEF TurnOk
<1> HIDE DEF T, b, st
<1>9. end \in StreamEvents /\ EventOk(end, b)
  BY <1>3, <1>8 DEF StreamEvents, EventOk
<1>10. [t |-> "plan"] \in StreamEvents /\ [t |-> "error"] \in StreamEvents /\ EventOk([t |-> "plan"], b) /\ EventOk([t |-> "error"], b)
  BY DEF StreamEvents, EventOk
<1>11. es \in Seq(StreamEvents) /\ \A i \in 1..Len(es) : EventOk(es[i], b)
  <2> HIDE DEF end
  <2>1. CASE how = "turn"
    <3>1. es = <<end>>
      BY <2>1
    <3> HIDE DEF es
    <3> QED BY <3>1, <1>9
  <2>2. CASE how = "plan"
    <3>1. es = <<[t |-> "plan"], end>>
      BY <2>2
    <3> HIDE DEF es
    <3>2. es \in Seq(StreamEvents) /\ Len(es) = 2 /\ es[1] = [t |-> "plan"] /\ es[2] = end
      BY <3>1, <1>9, <1>10
    <3>3. \A i \in 1..Len(es) : i = 1 \/ i = 2
      BY <3>2
    <3> QED BY <3>2, <3>3, <1>9, <1>10
  <2>3. CASE how = "error"
    <3>1. es = <<[t |-> "error"]>>
      BY <2>3
    <3> HIDE DEF es
    <3> QED BY <3>1, <1>10
  <2> QED BY <2>1, <2>2, <2>3
<1> HIDE DEF es
<1>12. PanelRest'
  <2>1. post' = post \/ (post.st = "open" /\ post' = [post EXCEPT !.st = "closed"])
    BY <1>2 DEF Listening
  <2> QED BY <1>2, <1>4, <1>5, <1>7, <1>11, <2>1, RouteMoves DEF a
<1>13. post'.st # "open"
  <2>1. post.st = "open" => Listening(thread)
    BY DEF Listening, PanelInv, PanelRest, PostSane
  <2>2. post \in PostType
    BY <1>1 DEF PanelTypes
  <2> QED BY <1>2, <2>1, <2>2 DEF PostType, Listening
<1>14. OpenLit'
  BY <1>13 DEF OpenLit
<1> QED BY <1>12, <1>14 DEF PanelInv

LEMMA RouteKeeps == ASSUME PanelInv, RouteSteps(thread) PROVE PanelInv'
BY NodeEndsKeeps, RunEndsKeeps, TaskBeginsKeeps, TaskEndsKeeps, SpecialistStepsKeeps DEF RouteSteps

(* What the page does between the route's steps.                           *)
GetsOk(G) ==
    \A g \in G : /\ g = [thread |-> g.thread, turn |-> g.turn] /\ g.thread \in Threads /\ g.turn \in TurnType
                 /\ g.thread <= thread /\ (g.turn # NoTurn /\ g.thread = thread => TurnOk(g.turn, srv[thread]))
PostOk(o, l, p, n, a) ==
    /\ n # 0 => o.st \in {"open", "closed"}
    /\ o.st # "none" => o.thread = thread /\ l.streaming
    /\ o.st = "sent" =>
          /\ ~p.streaming /\ l.kind = o.what /\ ~l.plan
          /\ \A s \in Specialists : l.tasks[s] # "running" /\ l.finishing[s] = 0
          /\ o.what = "message" => l.req = 0 /\ l.tasks = NoTasks
    /\ o.st \in {"lost", "open", "closed"} /\ l.kind = "decision" => Planned(a)

LEMMA Starts ==
    /\ NoTurn \in TurnType /\ NoRun \in RunType /\ NoPost \in PostType /\ <<>> \in Seq(StreamEvents) /\ AtRest \in SrvType
    /\ \A a : RunOk(NoRun, a)
    /\ ServerSane(AtRest) /\ Len(<<>>) = 0
BY DEF NoTurn, NoRun, NoPost, AtRest, TurnType, RunType, PostType, SrvType, NoTasks, Statuses, PanelNodes, OtherNodes,
       RunOk, ServerSane

LEMMA GetsAreOk == ASSUME PanelInv PROVE GetsOk(gets)
BY DEF PanelInv, PanelRest, PanelTypes, PageSane, GetsOk

LEMMA StartsOk ==
    ASSUME PanelInv, NEW t \in Threads, t <= thread, StartGet(t) PROVE GetsOk(gets')
PROOF
<1>1. GetsOk(gets) /\ NoTurn \in TurnType
  BY GetsAreOk, Starts
<1>2. gets' = gets \/ gets' = gets \cup {[thread |-> t, turn |-> NoTurn]}
  BY DEF StartGet
<1>3. GetsOk(gets \cup {[thread |-> t, turn |-> NoTurn]})
  BY <1>1 DEF GetsOk
<1> QED BY <1>1, <1>2, <1>3

LEMMA PageKeeps ==
    ASSUME PanelInv, thread' = thread, NEW b \in SrvType, srv' = [srv EXCEPT ![thread] = b], ServerSane(b),
           NEW T \in TurnType, NEW l \in RunType, NEW p \in RunType, NEW o \in PostType, NEW q \in Seq(StreamEvents), NEW G,
           turn' = T, live' = l, previous' = p, post' = o, queue' = q, gets' = G,
           \A g \in G : /\ g = [thread |-> g.thread, turn |-> g.turn] /\ g.thread \in Threads /\ g.turn \in TurnType
                        /\ g.thread <= thread /\ (g.turn # NoTurn /\ g.thread = thread => TurnOk(g.turn, b)),
           T # NoTurn => TurnOk(T, b), RunOk(l, b), RunOk(p, b), \A i \in 1..Len(q) : EventOk(q[i], b),
           PostOk(o, l, p, Len(q), b)
    PROVE  PanelRest'
PROOF
<1>1. PanelTypes /\ thread \in Threads /\ Threads \subseteq Nat
  BY PanelAssumption DEF PanelInv, PanelRest, PanelTypes
<1>2. srv'[thread'] = b /\ srv' \in [Threads -> SrvType] /\ \A t \in Threads \ {thread} : srv'[t] = srv[t]
  BY <1>1 DEF PanelTypes
<1>3. PanelTypes'
  BY <1>1, <1>2 DEF PanelTypes
<1>4. \A t \in Threads : t > thread' => srv'[t] = AtRest
  <2>1. \A t \in Threads : t > thread => t # thread
    BY <1>1
  <2> QED BY <1>2, <2>1 DEF PanelInv, PanelRest
<1>5. PageSane(b)'
  BY DEF PageSane, TurnOk, RunOk, EventOk
<1>6. PostSane(b)'
  BY DEF PostSane, PostOk
<1> QED BY <1>2, <1>3, <1>4, <1>5, <1>6 DEF PanelRest, PageSane, PostSane, ServerSane, TurnOk, RunOk, EventOk

(* As above, with the route's record of the thread as it was.              *)
LEMMA StillKeeps ==
    ASSUME PanelInv, thread' = thread, srv' = srv,
           NEW T \in TurnType, NEW l \in RunType, NEW p \in RunType, NEW o \in PostType, NEW q \in Seq(StreamEvents), NEW G,
           turn' = T, live' = l, previous' = p, post' = o, queue' = q, gets' = G, GetsOk(G),
           T # NoTurn => TurnOk(T, srv[thread]), RunOk(l, srv[thread]), RunOk(p, srv[thread]),
           \A i \in 1..Len(q) : EventOk(q[i], srv[thread]), PostOk(o, l, p, Len(q), srv[thread])
    PROVE  PanelRest'
PROOF
<1> DEFINE b == srv[thread]
<1>1. b \in SrvType /\ srv' = [srv EXCEPT ![thread] = b] /\ ServerSane(b)
  BY DEF PanelInv, PanelRest, PanelTypes
<1>2. \A g \in G : /\ g = [thread |-> g.thread, turn |-> g.turn] /\ g.thread \in Threads /\ g.turn \in TurnType
                   /\ g.thread <= thread /\ (g.turn # NoTurn /\ g.thread = thread => TurnOk(g.turn, b))
  BY DEF GetsOk
<1> HIDE DEF b
<1> QED BY <1>1, <1>2, PageKeeps DEF b

LEMMA Held ==
    ASSUME PanelInv
    PROVE  /\ turn \in TurnType /\ live \in RunType /\ previous \in RunType /\ post \in PostType /\ queue \in Seq(StreamEvents)
           /\ srv[thread] \in SrvType /\ thread \in Threads /\ thread \in Nat
           /\ turn # NoTurn => TurnOk(turn, srv[thread])
           /\ RunOk(live, srv[thread]) /\ RunOk(previous, srv[thread])
           /\ \A i \in 1..Len(queue) : EventOk(queue[i], srv[thread])
           /\ PostOk(post, live, previous, Len(queue), srv[thread])
BY PanelAssumption DEF PanelInv, PanelRest, PanelTypes, PageSane, PostSane, PostOk

LEMMA PostKeeps ==
    ASSUME PanelInv, NEW what \in {"message", "decision"}, NEW run \in RunType, NEW n \in Nat, Post(what, run, n),
           RunOk(run, srv[thread]), run.kind = what, run.streaming, ~run.plan,
           \A s \in Specialists : run.tasks[s] # "running" /\ run.finishing[s] = 0,
           what = "message" => run.req = 0 /\ run.tasks = NoTasks
    PROVE  PanelInv'
PROOF
<1> DEFINE o == [st |-> "sent", thread |-> thread, what |-> what, req |-> n]
           none == <<>>
<1>1. o \in PostType /\ o.st = "sent" /\ o.thread = thread /\ o.what = what
  BY Held DEF PostType
<1>2. none \in Seq(StreamEvents) /\ Len(none) = 0 /\ \A i \in 1..Len(none) : EventOk(none[i], srv[thread])
  BY Starts
<1>3. /\ post' = o /\ live' = run /\ previous' = live /\ queue' = none
      /\ srv' = srv /\ thread' = thread /\ turn' = turn /\ gets' = gets /\ ~live.streaming
  BY DEF Post, Busy, IsRunning
<1> HIDE DEF o, none
<1>4. PostOk(o, run, live, Len(none), srv[thread])
  BY <1>1, <1>2, <1>3 DEF PostOk
<1>5. PanelRest'
  BY <1>1, <1>2, <1>3, <1>4, Held, GetsAreOk, StillKeeps
<1>6. OpenLit'
  BY <1>1, <1>3 DEF OpenLit
<1> QED BY <1>5, <1>6 DEF PanelInv

LEMMA FreshRuns ==
    ASSUME NEW kind \in {"message", "decision"}
    PROVE  LET r == FreshRun(kind)
           IN  /\ r \in RunType /\ r.kind = kind /\ r.req = 0 /\ r.streaming /\ ~r.plan /\ r.tasks = NoTasks
               /\ \A s \in Specialists : r.tasks[s] # "running" /\ r.finishing[s] = 0
BY Starts DEF FreshRun, NoRun, RunType, NoTasks

LEMMA SendKeeps == ASSUME PanelInv, Send PROVE PanelInv'
PROOF
<1> DEFINE r == FreshRun("message")
<1>1. Post("message", r, 0)
  BY DEF Send, BeginMessage
<1>2. /\ r \in RunType /\ r.kind = "message" /\ r.req = 0 /\ r.streaming /\ ~r.plan /\ r.tasks = NoTasks
      /\ \A s \in Specialists : r.tasks[s] # "running" /\ r.finishing[s] = 0
  BY FreshRuns
<1> HIDE DEF r
<1>3. RunOk(r, srv[thread])
  BY <1>2 DEF RunOk
<1> QED BY <1>1, <1>2, <1>3, PostKeeps

LEMMA SendDecisionKeeps == ASSUME PanelInv, SendDecision PROVE PanelInv'
PROOF
<1> DEFINE r == [FreshRun("decision") EXCEPT !.req = live.req, !.tasks = live.tasks]
           a == srv[thread]
<1>1. CurrentTurn = turn /\ turn # NoTurn /\ turn.plan
      /\ (live = NoRun \/ live.kind = "decision" \/ (live.req # 0 /\ live.req = turn.req))
  BY DEF SendDecision, CurrentTurn, NoTurn
<1>2. Post("decision", r, turn.req)
  BY <1>1 DEF SendDecision, BeginDecision
<1>3. live \in RunType /\ turn.req \in Nat /\ RunOk(live, a) /\ TurnOk(turn, a)
  BY <1>1, Held DEF TurnType
<1>4. /\ r \in RunType /\ r.kind = "decision" /\ r.req = live.req /\ r.streaming /\ ~r.plan /\ r.tasks = live.tasks
      /\ \A s \in Specialists : r.finishing[s] = 0
  <2> DEFINE f == FreshRun("decision")
  <2>1. /\ f \in RunType /\ f.kind = "decision" /\ f.streaming /\ ~f.plan
        /\ \A s \in Specialists : f.finishing[s] = 0
    BY FreshRuns
  <2>2. r = [f EXCEPT !.req = live.req, !.tasks = live.tasks]
    OBVIOUS
  <2> HIDE DEF f, r
  <2> QED BY <1>3, <2>1, <2>2 DEF RunType
<1> HIDE DEF r
<1>5. (\A s \in Specialists : live.tasks[s] # "running") /\ (live.req # 0 => Planned(a))
  <2>1. CASE live = NoRun
    BY <2>1 DEF NoRun, NoTasks
  <2>2. CASE live.kind = "decision"
    BY <2>2, <1>3 DEF RunOk
  <2>3. CASE live.req # 0 /\ live.req = turn.req
    <3>1. turn.req = a.req
      BY <2>3, <1>3 DEF RunOk
    <3>2. Planned(a)
      BY <3>1, <1>1, <1>3 DEF TurnOk
    <3>3. \A s \in Specialists : a.tasks[s] = "none"
      BY <3>2 DEF Planned, NoTasks
    <3> QED BY <3>2, <3>3, <1>3 DEF RunOk
  <2> QED BY <1>1, <2>1, <2>2, <2>3
<1>6. RunOk(r, a)
  BY <1>3, <1>4, <1>5 DEF RunOk
<1> QED BY <1>2, <1>3, <1>4, <1>5, <1>6, PostKeeps

LEMMA RefusedKeeps == ASSUME PanelInv, NEW c \in BOOLEAN, Refused(c) PROVE PanelInv'
PROOF
<1>1. /\ post.st = "sent" /\ live' = previous /\ previous' = NoRun /\ post' = NoPost
      /\ thread' = thread /\ srv' = srv /\ turn' = turn /\ queue' = queue
      /\ StartGet(post.thread) \/ gets' = gets
  BY DEF Refused, Refuse
<1>2. post.thread = thread /\ Len(queue) = 0
  BY <1>1, Held DEF PostOk
<1>3. GetsOk(gets')
  BY <1>1, <1>2, Held, GetsAreOk, StartsOk
<1>4. PostOk(NoPost, previous, NoRun, Len(queue), srv[thread])
  BY <1>2 DEF PostOk, NoPost
<1>5. PanelRest'
  BY <1>1, <1>3, <1>4, Held, Starts, StillKeeps
<1> QED BY <1>1, <1>5 DEF PanelInv, OpenLit, NoPost

LEMMA UnreachedKeeps == ASSUME PanelInv, Unreached PROVE PanelInv'
PROOF
<1> DEFINE r == EndRun(live, "lost")
<1>1. /\ post.st \in {"sent", "lost"} /\ live' = r /\ previous' = NoRun /\ post' = NoPost
      /\ thread' = thread /\ srv' = srv /\ turn' = turn /\ queue' = queue /\ StartGet(post.thread)
  BY DEF Unreached
<1>2. post.thread = thread /\ Len(queue) = 0
  BY <1>1, Held DEF PostOk
<1>3. GetsOk(gets')
  BY <1>1, <1>2, Held, StartsOk
<1>4. PostOk(NoPost, r, NoRun, Len(queue), srv[thread])
  BY <1>2 DEF PostOk, NoPost
<1>5. r \in RunType /\ RunOk(r, srv[thread])
  BY Held, EndRunKeeps
<1> HIDE DEF r
<1>6. PanelRest'
  BY <1>1, <1>3, <1>4, <1>5, Held, Starts, StillKeeps
<1> QED BY <1>1, <1>6 DEF PanelInv, OpenLit, NoPost

(* The route takes a request: a message is a request of its own, and what  *)
(* the page still holds of an earlier one is no longer of this.            *)
LEMMA AcceptedKeeps == ASSUME PanelInv, NEW answered \in BOOLEAN, Accepted(answered) PROVE PanelInv'
PROOF
<1> DEFINE a == srv[thread]
           msg == post.what = "message"
           n == IF msg THEN a.req + 1 ELSE a.req
           at == IF msg THEN "intake" ELSE "confirm"
           tasks == IF msg THEN NoTasks ELSE a.tasks
           b == [req |-> n, st |-> "running", node |-> at, stage |-> NoTasks, tasks |-> tasks]
           e == [t |-> "accepted", req |-> n]
           one == <<e>>
           o == IF answered THEN [post EXCEPT !.st = "open", !.req = n] ELSE [post EXCEPT !.st = "lost"]
           q == IF answered THEN one ELSE queue
<1>1. post.st = "sent" /\ post.thread = thread /\ Len(queue) = 0 /\ Matches(thread)
  BY Held DEF Accepted, PostOk
<1>2. /\ srv' = [srv EXCEPT ![thread] = b]
      /\ post' = o /\ queue' = q
      /\ previous' = NoRun /\ thread' = thread /\ turn' = turn /\ live' = live /\ gets' = gets
  BY <1>1, Held DEF Accepted
<1>3. /\ a \in SrvType /\ a.req \in Nat /\ n \in Nat /\ n >= a.req /\ (~msg => n = a.req) /\ (msg => n > a.req)
      /\ tasks \in [Specialists -> Statuses] /\ (msg => tasks = NoTasks)
  BY Held DEF SrvType, NoTasks, Statuses
<1>4. /\ b \in SrvType /\ b.req = n /\ b.st = "running" /\ b.node = at /\ b.stage = NoTasks /\ b.tasks = tasks
  <2>1. at \in OtherNodes /\ NoTasks \in [Specialists -> {"none", "running", "ended", "over"}]
    BY DEF OtherNodes, NoTasks
  <2> HIDE DEF at, tasks, n
  <2> QED BY <1>3, <2>1 DEF SrvType
<1>5. ~msg => Planned(a) /\ Planned(b) /\ tasks = a.tasks /\ tasks = NoTasks
  <2>1. ~msg => a.st = "plan"
    BY <1>1 DEF Matches
  <2>2. ~msg => Planned(a) /\ tasks = a.tasks
    BY <2>1 DEF PanelInv, PanelRest, ServerSane
  <2> HIDE DEF b
  <2> QED BY <2>2, <1>4 DEF Planned
<1>6. tasks = NoTasks /\ ServerSane(b)
  <2>1. tasks = NoTasks
    BY <1>3, <1>5
  <2> HIDE DEF b, tasks
  <2> QED BY <2>1, <1>4 DEF ServerSane, NoTasks
<1>7. e \in StreamEvents /\ EventOk(e, b) /\ e.t = "accepted"
  <2> HIDE DEF n
  <2>1. e \in StreamEvents /\ e.t = "accepted" /\ e.req = n
    BY <1>3 DEF StreamEvents
  <2> HIDE DEF e, b
  <2> QED BY <1>4, <2>1 DEF EventOk
<1> HIDE DEF n, at, tasks, b, e
<1>8. ASSUME NEW T \in TurnType, TurnOk(T, a) PROVE TurnOk(T, b)
  <2>1. T.req \in Nat
    BY DEF TurnType
  <2>2. CASE msg
    <3>1. T.req <= b.req /\ T.req # b.req
      BY <1>3, <1>4, <1>8, <2>1, <2>2 DEF TurnOk
    <3> QED BY <3>1, <1>8 DEF TurnOk
  <2>3. CASE ~msg
    <3>1. Grows(a, b)
      BY <1>3, <1>4, <1>5, <2>3 DEF Grows
    <3> QED BY <3>1, <1>3, <1>4, <1>8, GrowsKeeps
  <2> QED BY <2>2, <2>3
<1>9. RunOk(live, b)
  <2>1. CASE msg
    <3>1. live.req = 0 /\ live.tasks = NoTasks /\ live.kind = "message"
      BY <1>1, <2>1, Held DEF PostOk
    <3> QED BY <3>1 DEF RunOk, NoTasks
  <2>2. CASE ~msg
    <3>1. Grows(a, b)
      BY <1>3, <1>4, <1>5, <2>2 DEF Grows
    <3> QED BY <3>1, <1>3, <1>4, Held, GrowsKeeps
  <2> QED BY <2>1, <2>2
<1>10. /\ o \in PostType /\ o.thread = thread /\ o.what = post.what
       /\ o.st = (IF answered THEN "open" ELSE "lost")
  BY <1>1, <1>3, Held DEF PostType
<1>11. /\ q \in Seq(StreamEvents) /\ (answered => q = <<e>>) /\ (~answered => Len(q) = 0)
       /\ \A i \in 1..Len(q) : EventOk(q[i], b)
  <2>1. one \in Seq(StreamEvents) /\ Len(one) = 1 /\ one[1] = e
    BY <1>7
  <2>2. \A i \in 1..Len(one) : EventOk(one[i], b)
    <3> HIDE DEF one
    <3> QED BY <2>1, <1>7
  <2> QED BY <1>1, <2>1, <2>2, Held
<1>12. PostOk(o, live, NoRun, Len(q), b)
  <2>1. live.streaming /\ live.kind = post.what
    BY <1>1, Held DEF PostOk
  <2>2. live.kind = "decision" => ~msg
    BY <2>1
  <2>3. Len(q) # 0 => answered
    BY <1>11
  <2> HIDE DEF o, q, msg
  <2> QED BY <1>5, <1>10, <2>1, <2>2, <2>3 DEF PostOk
<1>13. \A g \in gets : /\ g = [thread |-> g.thread, turn |-> g.turn] /\ g.thread \in Threads /\ g.turn \in TurnType
                       /\ g.thread <= thread /\ (g.turn # NoTurn /\ g.thread = thread => TurnOk(g.turn, b))
  <2>1. GetsOk(gets)
    BY GetsAreOk
  <2> QED BY <1>8, <2>1 DEF GetsOk
<1> HIDE DEF o, q, msg
<1>14. PanelRest'
  <2>1. turn # NoTurn => TurnOk(turn, b)
    BY <1>8, Held
  <2> HIDE DEF a
  <2> QED BY <1>2, <1>4, <1>6, <1>9, <1>10, <1>11, <1>12, <1>13, <2>1, Held, Starts, PageKeeps
<1>15. OpenLit'
  <2> SUFFICES ASSUME post'.st = "open", NEW c \in TurnType
               PROVE  LitOf(ApplyEvents([turn |-> c, live |-> live'], queue').live, srv'[thread'])
    BY DEF OpenLit, TurnType, Statuses, LitOf, LitAt
  <2>1. answered /\ queue' = <<e>>
    BY <1>2, <1>10, <1>11
  <2>2. srv'[thread'] = b
    BY <1>2, Held DEF PanelInv, PanelRest, PanelTypes
  <2> DEFINE x == [turn |-> c, live |-> live]
             none == <<>>
  <2>3. x \in PanelStates /\ x.live = live
    BY Held DEF PanelStates
  <2>4. LitOf(live, b)
    <3>1. /\ live.streaming /\ ~live.plan
          /\ \A s \in Specialists : live.tasks[s] # "running" /\ live.finishing[s] = 0
      BY <1>1, Held DEF PostOk
    <3>2. \A s \in Specialists : b.stage[s] = "none"
      BY <1>4 DEF NoTasks
    <3> QED BY <3>1, <3>2 DEF LitOf, LitAt
  <2>5. none \in Seq(StreamEvents) /\ Len(none) = 0 /\ DOMAIN none = 1..Len(none) /\ <<e>> = Append(none, e)
    BY Starts
  <2> HIDE DEF x, none
  <2>6. ApplyEvents(x, none) = x
    BY <2>5, ApplyNone
  <2>7. ApplyEvents(x, <<e>>) = FoldEvent(x, e)
    <3>1. ApplyEvents(x, Append(none, e)) = FoldEvent(ApplyEvents(x, none), e)
      BY <1>7, <2>5, ApplyAppend
    <3> QED BY <3>1, <2>5, <2>6
  <2>8. LitOf(FoldEvent(x, e).live, b)
    BY <1>4, <1>7, <2>3, <2>4, LitQuiet
  <2> QED BY <1>2, <2>1, <2>2, <2>7, <2>8 DEF x
<1> QED BY <1>14, <1>15 DEF PanelInv

LEMMA FlushKeeps == ASSUME PanelInv, Flush PROVE PanelInv'
PROOF
<1> DEFINE p == ApplyEvents([turn |-> turn, live |-> live], queue)
           none == <<>>
<1>1. /\ post.st \in {"open", "closed"} /\ turn' = p.turn /\ live' = p.live /\ queue' = none
      /\ post' = post /\ previous' = previous /\ gets' = gets /\ srv' = srv /\ thread' = thread
  BY DEF Flush
<1>2. p \in Fitting(srv[thread], TRUE, live.kind)
  <2>1. Len(queue) \in 0..Len(queue) /\ DOMAIN queue = 1..Len(queue)
    BY Held
  <2> QED BY <1>1, <2>1, StreamGood
<1>3. none \in Seq(StreamEvents) /\ Len(none) = 0 /\ DOMAIN none = 1..Len(none) /\ \A i \in 1..Len(none) : EventOk(none[i], srv[thread])
  BY Starts
<1>4. /\ p.turn \in TurnType /\ p.live \in RunType /\ RunOk(p.live, srv[thread])
      /\ p.live.streaming /\ p.live.kind = live.kind
      /\ p.turn # NoTurn => TurnOk(p.turn, srv[thread])
  BY <1>2 DEF Fitting, PanelStates
<1> HIDE DEF p, none
<1>5. PostOk(post, p.live, previous, Len(none), srv[thread])
  BY <1>1, <1>3, <1>4, Held DEF PostOk
<1>6. PanelRest'
  BY <1>1, <1>3, <1>4, <1>5, Held, GetsAreOk, StillKeeps
<1>7. OpenLit'
  <2> SUFFICES ASSUME post'.st = "open", NEW c \in TurnType
               PROVE  LitOf(ApplyEvents([turn |-> c, live |-> live'], queue').live, srv'[thread'])
    BY DEF OpenLit, TurnType, Statuses, LitOf, LitAt
  <2>1. LitOf(p.live, srv[thread])
    BY <1>1, Held DEF PanelInv, OpenLit, p
  <2> DEFINE x == [turn |-> c, live |-> p.live]
  <2>2. x.live = p.live
    OBVIOUS
  <2> HIDE DEF x
  <2>3. ApplyEvents(x, none) = x
    BY <1>3, ApplyNone
  <2> QED BY <1>1, <2>1, <2>2, <2>3 DEF x
<1> QED BY <1>6, <1>7 DEF PanelInv

(* The stream comes to an end, with all of what was read or a part of it.  *)
LEMMA EndStreamKeeps ==
    ASSUME PanelInv, NEW kept, NEW n \in 0..Len(queue), DOMAIN kept = 1..n, \A i \in 1..n : kept[i] = queue[i],
           EndStream(kept)
    PROVE  PanelInv'
PROOF
<1> DEFINE p == ApplyEvents([turn |-> turn, live |-> live], kept)
           r == EndRun(p.live, "lost")
           none == <<>>
<1>1. /\ post.st \in {"open", "closed"} /\ turn' = p.turn /\ live' = r /\ queue' = none
      /\ post' = NoPost /\ previous' = previous /\ srv' = srv /\ thread' = thread
      /\ StartGet(post.thread) \/ gets' = gets
  BY DEF EndStream
<1>2. p \in Fitting(srv[thread], TRUE, live.kind)
  BY <1>1, StreamGood
<1>3. none \in Seq(StreamEvents) /\ Len(none) = 0 /\ \A i \in 1..Len(none) : EventOk(none[i], srv[thread])
  BY Starts
<1>4. /\ p.turn \in TurnType /\ p.live \in RunType /\ RunOk(p.live, srv[thread])
      /\ p.turn # NoTurn => TurnOk(p.turn, srv[thread])
  BY <1>2 DEF Fitting, PanelStates
<1> HIDE DEF p, none
<1>5. r \in RunType /\ RunOk(r, srv[thread])
  BY <1>4, EndRunKeeps
<1> HIDE DEF r
<1>6. PostOk(NoPost, r, previous, Len(none), srv[thread])
  BY <1>3 DEF PostOk, NoPost
<1>7. GetsOk(gets')
  <2>1. post.thread = thread
    BY <1>1, Held DEF PostOk
  <2> QED BY <1>1, <2>1, Held, GetsAreOk, StartsOk
<1>8. PanelRest'
  BY <1>1, <1>3, <1>4, <1>5, <1>6, <1>7, Held, Starts, StillKeeps
<1> QED BY <1>1, <1>8 DEF PanelInv, OpenLit, NoPost

LEMMA StreamEndsKeeps == ASSUME PanelInv, ReadToTheEnd \/ ConnectionDrops PROVE PanelInv'
PROOF
<1>1. CASE ReadToTheEnd
  <2>1. Len(queue) \in 0..Len(queue) /\ DOMAIN queue = 1..Len(queue) /\ EndStream(queue)
    BY <1>1, Held DEF ReadToTheEnd
  <2> QED BY <2>1, EndStreamKeeps
<1>2. CASE ConnectionDrops
  <2>1. PICK k \in 0..Len(queue) : EndStream(SubSeq(queue, 1, k))
    BY <1>2 DEF ConnectionDrops
  <2> DEFINE kept == SubSeq(queue, 1, k)
  <2>2. DOMAIN kept = 1..k /\ \A i \in 1..k : kept[i] = queue[i]
    BY Held
  <2> HIDE DEF kept
  <2>3. EndStream(kept)
    BY <2>1 DEF kept
  <2> QED BY <2>2, <2>3, EndStreamKeeps
<1> QED BY <1>1, <1>2

(* A GET asked, read by the route, failed or lost changes nothing on the   *)
(* page.                                                                   *)
LEMMA GetMoves ==
    ASSUME PanelInv, UNCHANGED <<srv, thread, turn, live, previous, post, queue>>, GetsOk(gets')
    PROVE  PanelInv'
PROOF
<1>1. PanelRest'
  BY Held, StillKeeps
<1>2. OpenLit'
  BY DEF PanelInv, OpenLit
<1> QED BY <1>1, <1>2 DEF PanelInv

LEMMA GetsKeep ==
    ASSUME PanelInv, PollTimer \/ \E g \in gets : GetIsRead(g) \/ GetAnswersError(g) \/ GetIsLost(g)
    PROVE  PanelInv'
PROOF
<1>1. CASE PollTimer
  <2>1. UNCHANGED <<srv, thread, turn, live, previous, post, queue>> /\ StartGet(thread)
    BY <1>1 DEF PollTimer, page
  <2>2. GetsOk(gets')
    BY <2>1, Held, StartsOk
  <2> QED BY <2>1, <2>2, GetMoves
<1>2. CASE \E g \in gets : GetAnswersError(g) \/ GetIsLost(g)
  <2>1. UNCHANGED <<srv, thread, turn, live, previous, post, queue>> /\ \E g \in gets : gets' = gets \ {g}
    BY <1>2 DEF GetAnswersError, GetIsLost, page
  <2>2. GetsOk(gets')
    BY <2>1, GetsAreOk DEF GetsOk
  <2> QED BY <2>1, <2>2, GetMoves
<1>3. CASE \E g \in gets : GetIsRead(g)
  <2>1. PICK g \in gets : GetIsRead(g)
    BY <1>3
  <2>2. /\ g = [thread |-> g.thread, turn |-> g.turn] /\ g.thread \in Threads /\ g.turn \in TurnType /\ g.thread <= thread
        /\ GetsOk(gets) /\ Threads \subseteq Nat
    BY GetsAreOk, PanelAssumption DEF GetsOk
  <2> DEFINE X == TurnOf(g.thread)
             h == [g EXCEPT !.turn = X]
  <2>3. X \in TurnType
    <3>1. srv[g.thread] \in SrvType
      BY <2>2 DEF PanelInv, PanelRest, PanelTypes
    <3> QED BY <2>2, <3>1 DEF TurnOf, TurnType, SrvType
  <2>4. g.thread = thread => TurnOk(X, srv[thread])
    <3> SUFFICES ASSUME g.thread = thread PROVE TurnOk(X, srv[thread])
      OBVIOUS
    <3>1. X.thread = thread /\ X.req = srv[thread].req /\ X.tasks = srv[thread].tasks
          /\ (X.plan <=> srv[thread].st = "plan")
      BY DEF TurnOf
    <3>2. srv[thread].req \in Nat /\ (srv[thread].st = "plan" => Planned(srv[thread]))
      BY Held DEF SrvType, PanelInv, PanelRest, ServerSane
    <3> HIDE DEF X
    <3> QED BY <3>1, <3>2 DEF TurnOk
  <2> HIDE DEF X
  <2>5. h = [thread |-> h.thread, turn |-> h.turn] /\ h.thread = g.thread /\ h.turn = X
    BY <2>2
  <2>6. /\ UNCHANGED <<srv, thread, turn, live, previous, post, queue>>
        /\ gets' = (gets \ {g}) \cup {h}
    BY <2>1 DEF GetIsRead, page, X
  <2> HIDE DEF h
  <2>7. GetsOk(gets')
    BY <2>2, <2>3, <2>4, <2>5, <2>6 DEF GetsOk
  <2> QED BY <2>6, <2>7, GetMoves
<1> QED BY <1>1, <1>2, <1>3

(* A turn read whole is the thread's, of its request or of an earlier one. *)
LEMMA GetLandsKeeps == ASSUME PanelInv, NEW g \in gets, GetLands(g) PROVE PanelInv'
PROOF
<1> DEFINE a == srv[thread]
           T == g.turn
<1>1. /\ g.turn # NoTurn /\ gets' = gets \ {g} /\ srv' = srv /\ thread' = thread
      /\ previous' = previous /\ post' = post /\ queue' = queue
  BY DEF GetLands
<1>2. GetsOk(gets') /\ T \in TurnType /\ (g.thread = thread => TurnOk(T, a))
  BY <1>1, GetsAreOk DEF GetsOk
<1>3. CASE g.thread # thread
  BY <1>1, <1>2, <1>3, GetMoves DEF GetLands, StillWanted
<1>4. CASE g.thread = thread
  <2>1. turn' = T /\ TurnOk(T, a) /\ ApplyTurn(T)
    BY <1>2, <1>4 DEF GetLands, StillWanted, ApplyTurn
  <2>2. PICK l \in RunType : live' = l /\ RunOk(l, a) /\ (live.streaming => l = live)
    <3>1. CASE live.streaming
      <4>1. live' = live
        BY <2>1, <3>1 DEF ApplyTurn
      <4> QED BY <4>1, Held
    <3>2. CASE ~live.streaming /\ ~(live # NoRun /\ live.req # 0 /\ live.req = T.req)
      <4>1. live' = NoRun
        BY <2>1, <3>2 DEF ApplyTurn
      <4> QED BY <4>1, <3>2, Starts
    <3>3. CASE ~live.streaming /\ live # NoRun /\ live.req # 0 /\ live.req = T.req
      <4> DEFINE m == MergeTasks(live.tasks, T.tasks)
                 l == [live EXCEPT !.tasks = m]
      <4>1. live' = l
        BY <2>1, <3>3 DEF ApplyTurn
      <4>2. live \in RunType /\ RunOk(live, a) /\ T \in TurnType
        BY <1>2, Held
      <4>3. /\ m \in [Specialists -> Statuses]
            /\ \A s \in Specialists : m[s] = IF T.tasks[s] = "none" THEN live.tasks[s] ELSE T.tasks[s]
        BY <4>2 DEF MergeTasks, RunType, TurnType
      <4> HIDE DEF m
      <4>4. l \in RunType /\ l.tasks = m /\ l.req = live.req /\ l.kind = live.kind
        BY <4>2, <4>3 DEF RunType
      <4> HIDE DEF l
      <4>5. T.req = a.req /\ \A s \in Specialists : T.tasks[s] # "none" => a.tasks[s] # "none"
        BY <2>1, <3>3, <4>2 DEF RunOk, TurnOk
      <4>6. \A s \in Specialists : m[s] = "running" => a.tasks[s] # "none"
        BY <4>2, <4>3, <4>5 DEF RunOk
      <4>7. live.kind = "decision" => Planned(a) /\ \A s \in Specialists : a.tasks[s] = "none"
        BY <3>3, <4>2 DEF RunOk, Planned, NoTasks
      <4>8. RunOk(l, a)
        BY <4>2, <4>4, <4>6, <4>7 DEF RunOk
      <4> QED BY <3>3, <4>1, <4>4, <4>8
    <3> QED BY <3>1, <3>2, <3>3
  <2>3. PostOk(post, l, previous, Len(queue), a)
    BY <2>2, Held DEF PostOk
  <2>4. PanelRest'
    BY <1>1, <1>2, <2>1, <2>2, <2>3, Held, StillKeeps
  <2>5. post.st = "open" => live' = live
    BY <2>2, Held DEF PostOk
  <2>6. OpenLit'
    BY <1>1, <2>5 DEF PanelInv, OpenLit
  <2> QED BY <2>4, <2>6 DEF PanelInv
<1> QED BY <1>3, <1>4

LEMMA NewThreadKeeps == ASSUME PanelInv, NewThread PROVE PanelInv'
PROOF
<1> DEFINE none == <<>>
<1>1. /\ thread + 1 \in Threads /\ thread' = thread + 1
      /\ turn' = NoTurn /\ live' = NoRun /\ previous' = NoRun /\ queue' = none /\ post' = NoPost
      /\ StartGet(thread + 1) /\ srv' = [srv EXCEPT ![thread] = AtRest]
  BY DEF NewThread
<1>2. none \in Seq(StreamEvents) /\ Len(none) = 0
  BY Starts
<1> HIDE DEF none
<1>3. PanelTypes /\ thread \in Nat /\ Threads \subseteq Nat /\ GetsOk(gets)
  BY Held, GetsAreOk, PanelAssumption DEF PanelInv, PanelRest
<1>4. \A t \in Threads : t > thread => srv[t] = AtRest
  BY DEF PanelInv, PanelRest
<1>5. /\ srv' \in [Threads -> SrvType] /\ srv'[thread + 1] = AtRest
      /\ \A t \in Threads : t > thread + 1 => srv'[t] = AtRest
  <2>1. \A t \in Threads : t >= thread + 1 => t # thread /\ t > thread
    BY <1>3
  <2>2. srv' \in [Threads -> SrvType] /\ \A t \in Threads : t # thread => srv'[t] = srv[t]
    BY <1>1, <1>3, Starts DEF PanelTypes
  <2>3. \A t \in Threads : t > thread + 1 => t >= thread + 1
    BY <1>3
  <2>4. thread + 1 >= thread + 1
    BY <1>3
  <2> QED BY <1>1, <1>4, <2>1, <2>2, <2>3, <2>4
<1>6. \A g \in gets' : /\ g = [thread |-> g.thread, turn |-> g.turn] /\ g.thread \in Threads /\ g.turn \in TurnType
                       /\ g.thread <= thread + 1 /\ (g.turn # NoTurn => g.thread # thread + 1)
  <2> DEFINE h == [thread |-> thread + 1, turn |-> NoTurn]
  <2>1. \A g \in gets' : g \in gets \/ g = h
    BY <1>1 DEF StartGet
  <2>2. ASSUME NEW g \in gets
        PROVE  /\ g = [thread |-> g.thread, turn |-> g.turn] /\ g.thread \in Threads /\ g.turn \in TurnType
               /\ g.thread <= thread + 1 /\ g.thread # thread + 1
    <3>1. /\ g = [thread |-> g.thread, turn |-> g.turn] /\ g.thread \in Threads /\ g.turn \in TurnType
          /\ g.thread <= thread
      BY <1>3 DEF GetsOk
    <3>2. g.thread \in Nat
      BY <1>3, <3>1
    <3>3. g.thread <= thread + 1 /\ g.thread # thread + 1
      BY <1>3, <3>1, <3>2
    <3> QED BY <3>1, <3>3
  <2>3. /\ h = [thread |-> h.thread, turn |-> h.turn] /\ h.thread = thread + 1 /\ h.turn = NoTurn
        /\ h.thread <= thread + 1
    BY <1>3
  <2> HIDE DEF h
  <2> QED BY <1>1, <2>1, <2>2, <2>3, Starts
<1>7. PanelTypes'
  BY <1>1, <1>2, <1>5, <1>6, Starts DEF PanelTypes
<1>8. \A b : PageSane(b)'
  BY <1>1, <1>2, <1>6, Starts DEF PageSane, RunOk, NoRun, NoTasks
<1>9. \A b : PostSane(b)'
  BY <1>1, <1>2 DEF PostSane, NoPost
<1>10. ServerSane(AtRest)'
  BY Starts DEF ServerSane, Planned
<1>11. PanelRest'
  BY <1>1, <1>5, <1>7, <1>8, <1>9, <1>10 DEF PanelRest, PageSane, PostSane, ServerSane, TurnOk, RunOk, EventOk
<1>12. OpenLit'
  BY <1>1 DEF OpenLit, NoPost
<1> QED BY <1>11, <1>12 DEF PanelInv

LEMMA PanelStarts == ASSUME PanelInit PROVE PanelInv
PROOF
<1> DEFINE none == <<>>
<1>1. /\ srv = [t \in Threads |-> AtRest] /\ thread = 1 /\ turn = NoTurn /\ live = NoRun /\ previous = NoRun
      /\ post = NoPost /\ queue = none /\ gets = {}
  BY DEF PanelInit
<1>2. none \in Seq(StreamEvents) /\ Len(none) = 0
  BY Starts
<1> HIDE DEF none
<1>3. srv[thread] = AtRest /\ srv \in [Threads -> SrvType]
  BY <1>1, PanelAssumption, Starts
<1>4. PanelTypes
  BY <1>1, <1>2, <1>3, PanelAssumption, Starts DEF PanelTypes
<1>5. PageSane(AtRest) /\ PostSane(AtRest)
  BY <1>1, <1>2, Starts DEF PageSane, PostSane, NoPost
<1>6. PanelRest
  BY <1>1, <1>3, <1>4, <1>5, Starts DEF PanelRest
<1> QED BY <1>1, <1>6 DEF PanelInv, OpenLit, NoPost

LEMMA PanelSteps == ASSUME PanelInv, PanelNext PROVE PanelInv'
PROOF
<1>1. CASE Send \/ SendDecision \/ NewThread \/ Flush
  BY <1>1, SendKeeps, SendDecisionKeeps, NewThreadKeeps, FlushKeeps
<1>2. CASE ReadToTheEnd \/ ConnectionDrops
  BY <1>2, StreamEndsKeeps
<1>3. CASE PollTimer \/ \E g \in gets : GetIsRead(g) \/ GetAnswersError(g) \/ GetIsLost(g)
  BY <1>3, GetsKeep
<1>4. CASE \E g \in gets : GetLands(g)
  BY <1>4, GetLandsKeeps
<1>5. CASE PostAnswered \/ Accepted(FALSE) \/ Unreached
  BY <1>5, AcceptedKeeps, UnreachedKeeps, RefusedKeeps DEF PostAnswered
<1>6. CASE RouteSteps(thread)
  BY <1>6, RouteKeeps
<1> QED BY <1>1, <1>2, <1>3, <1>4, <1>5, <1>6 DEF PanelNext, GetSteps

LEMMA PanelStutters == ASSUME PanelInv, UNCHANGED panelvars PROVE PanelInv'
PROOF
<1>1. UNCHANGED <<srv, thread, turn, live, previous, post, queue, gets>>
  BY DEF panelvars
<1> QED BY <1>1, GetsAreOk, GetMoves

(* What is lit, read off the fold of an empty queue.                       *)
LEMMA LitIsRead == ASSUME PanelInv PROVE LitAreAtWork
PROOF
<1> DEFINE none == <<>>
           a == srv[thread]
           x == [turn |-> turn, live |-> live]
           Lit == {s \in Specialists : a.stage[s] \in {"running", "ended"}}
<1> SUFFICES ASSUME post.st = "open", queue = none, live.streaming
             PROVE  ActiveNodes \cap Specialists = {s \in Specialists : srv[post.thread].stage[s] \in {"running", "ended"}}
  BY DEF LitAreAtWork
<1>1. post.thread = thread /\ turn \in TurnType /\ live \in RunType /\ a \in SrvType
  BY Held DEF PostOk
<1>2. Len(none) = 0 /\ DOMAIN none = 1..Len(none)
  BY Starts
<1>3. x.live = live
  OBVIOUS
<1> HIDE DEF none, x
<1>4. ApplyEvents(x, none) = x
  BY <1>2, ApplyNone
<1>5. LitOf(ApplyEvents(x, none).live, a)
  BY <1>1 DEF PanelInv, OpenLit, x
<1>6. LitOf(live, a)
  BY <1>3, <1>4, <1>5
<1>7. LitSpecialists = Lit
  <2>1. ASSUME NEW s \in Specialists
        PROVE  (live.tasks[s] = "running" \/ live.finishing[s] > 0) <=> a.stage[s] \in {"running", "ended"}
    <3>1. a.stage[s] \in {"none", "running", "ended", "over"} /\ LitAt(live, a, s)
      BY <1>1, <1>6 DEF SrvType, LitOf
    <3> QED BY <3>1 DEF LitAt
  <2> QED BY <2>1 DEF LitSpecialists
<1>8. ActiveNodes = IF LitSpecialists # {}
                    THEN LitSpecialists \cup (IF live.last \in {"orient", "join"} THEN {"planner"} ELSE {})
                    ELSE LikelyNext(live.last)
  BY <1>6 DEF LitOf, ActiveNodes, IsRunning
<1>9. LikelyNext(live.last) \subseteq OtherNodes /\ "planner" \in OtherNodes /\ LitSpecialists \subseteq Specialists
  BY DEF LikelyNext, OtherNodes, LitSpecialists
<1>10. OtherNodes \cap Specialists = {}
  BY NodesApart
<1>11. ActiveNodes \cap Specialists = LitSpecialists
  BY <1>8, <1>9, <1>10
<1> QED BY <1>1, <1>7, <1>11

LEMMA OnlyRefusals ==
    ASSUME PanelInv, PanelNext, problem' = "refused", problem # "refused"
    PROVE  live' = previous /\ ~live'.streaming /\ turn' = turn
PROOF
<1>1. CASE \E c \in BOOLEAN : Refused(c)
  <2>1. post.st = "sent" /\ live' = previous /\ turn' = turn
    BY <1>1 DEF Refused, Refuse
  <2>2. ~previous.streaming
    BY <2>1, Held DEF PostOk
  <2> QED BY <2>1, <2>2
<1>2. CASE Send \/ SendDecision \/ NewThread \/ Flush \/ PollTimer
  BY <1>2 DEF Send, SendDecision, Post, NewThread, Flush, PollTimer, page
<1>3. CASE ReadToTheEnd \/ ConnectionDrops
  <2>1. PICK q : EndStream(q)
    BY <1>3 DEF ReadToTheEnd, ConnectionDrops
  <2> QED BY <2>1 DEF EndStream
<1>4. CASE Unreached \/ Accepted(FALSE) \/ Accepted(TRUE)
  BY <1>4 DEF Unreached, Accepted
<1>5. CASE \E g \in gets : GetIsRead(g) \/ GetLands(g) \/ GetAnswersError(g) \/ GetIsLost(g)
  BY <1>5 DEF GetIsRead, GetLands, GetAnswersError, GetIsLost, page
<1>6. CASE RouteSteps(thread)
  BY <1>6 DEF RouteSteps, NodeEnds, RunEnds, TaskBegins, TaskEnds, SpecialistSteps, page
<1> QED BY <1>1, <1>2, <1>3, <1>4, <1>5, <1>6 DEF PanelNext, PostAnswered, GetSteps

(* The panel shows its own conversation only, lights exactly the           *)
(* specialists at work once all that was written is folded, and takes a    *)
(* refused request off the screen, leaving the run that was there          *)
(* (run.ts, CopilotPanel.tsx), for any number of threads, specialists,     *)
(* events unread, GETs in flight and faults.                               *)
THEOREM PanelSound == PanelSpec => PanelIsSound
PROOF
<1>1. PanelInit => PanelInv
  BY PanelStarts
<1>2. PanelInv /\ [PanelNext]_panelvars => PanelInv'
  BY PanelSteps, PanelStutters
<1>3. PanelInv => OwnThreadOnly /\ LitAreAtWork
  <2>1. PanelInv => OwnThreadOnly
    BY Held DEF OwnThreadOnly, TurnOk
  <2> QED BY <2>1, LitIsRead
<1>4. PanelInv /\ [PanelNext]_panelvars =>
        [problem' = "refused" /\ problem # "refused" =>
            /\ live' = previous /\ ~live'.streaming
            /\ turn' = turn]_panelvars
  BY OnlyRefusals
<1> QED BY <1>1, <1>2, <1>3, <1>4, PTL DEF PanelSpec, PanelIsSound, RefusedLeavesNoTrace

-----------------------------------------------------------------------------
(* The past of a zone, as it is read back.  Rows gain applies and ends but  *)
(* lose none, so each instant stays readable: Remembered is inductive       *)
(* because an apply of a past instant can no longer appear (PastStays).     *)
Moments == Nat \cup {Never}
CommandRow == [state : {"pending", "dispatched", "applied", "failed", "expired", "cancelled", "superseded"},
               requested : Nat, until : Nat, applied : Moments, settled : Moments]
AlertRow == [own : BOOLEAN, opened : Nat, resolved : Moments]
RowOk(c) ==
    /\ c.requested <= stNow /\ c.requested <= c.until
    /\ c.state \in {"applied", "superseded"} <=> c.applied # Never
    /\ c.applied # Never => c.requested <= c.applied /\ c.applied <= stNow
StoryTypes ==
    /\ stNow \in Nat /\ stCommands \in Seq(CommandRow) /\ stAlerts \in Seq(AlertRow)
    /\ stInForce \in Seq(Nat) /\ Len(stInForce) = stNow
    /\ \A i \in DOMAIN stCommands : RowOk(stCommands[i])
    /\ \A a \in DOMAIN stAlerts : /\ stAlerts[a].opened <= stNow
                                  /\ stAlerts[a].resolved # Never => stAlerts[a].opened <= stAlerts[a].resolved

(* The apply that counts at an instant is the last before it.              *)
HasApplied(i, u) == i \in DOMAIN stCommands /\ stCommands[i].applied # Never /\ stCommands[i].applied <= u
Latest(i, u) ==
    HasApplied(i, u) /\ \A j \in DOMAIN stCommands : HasApplied(j, u) => stCommands[j].applied <= stCommands[i].applied
OneLatest(u) == (\E i \in DOMAIN stCommands : HasApplied(i, u)) => \E i \in DOMAIN stCommands : Latest(i, u)
Superseding ==
    /\ \A i \in ActiveIn(stCommands) : Latest(i, stNow) /\ \A j \in ActiveIn(stCommands) : i = j
    /\ \A i \in DOMAIN stCommands : stCommands[i].state = "superseded" =>
          \E j \in DOMAIN stCommands : j # i /\ HasApplied(j, stNow) /\ stCommands[j].applied >= stCommands[i].applied

(* What was noted of an instant is what the rows, as they are now, still   *)
(* say of it.                                                              *)
Remembered(t) ==
    /\ stInForce[t] # NoOverride => HasApplied(stInForce[t], t - 1) /\ stCommands[stInForce[t]].until > t - 1
    /\ \A i \in DOMAIN stCommands :
          stCommands[i].state = "applied" /\ stCommands[i].applied <= t - 1 /\ stCommands[i].until > t - 1 => stInForce[t] = i
    /\ OneReportAnInstant =>
          \A i \in DOMAIN stCommands :
             Latest(i, t - 1) => stInForce[t] = IF stCommands[i].until <= t - 1 THEN NoOverride ELSE i
StoryInv ==
    /\ StoryTypes /\ Superseding
    /\ \A u \in 0..stNow : OneLatest(u)
    /\ \A t \in 1..stNow : Remembered(t)

LEMMA StoryRow == ASSUME StoryTypes, NEW i \in DOMAIN stCommands
                  PROVE  /\ stCommands[i] \in CommandRow /\ RowOk(stCommands[i]) /\ i \in Nat \ {0} /\ stNow \in Nat
                         /\ stCommands[i].applied # Never => stCommands[i].applied \in Nat
PROOF
<1> DEFINE c == stCommands[i]
<1>1. c \in CommandRow /\ RowOk(c) /\ stNow \in Nat
  BY DEF StoryTypes
<1>2. i \in Nat \ {0}
  BY DEF StoryTypes
<1> HIDE DEF c
<1>3. c.applied # Never => c.applied \in Nat
  BY <1>1 DEF CommandRow, Moments
<1> QED BY <1>1, <1>2, <1>3 DEF c

LEMMA InForceNow ==
    ASSUME StoryTypes, Superseding
    PROVE  /\ \A i \in ActiveIn(stCommands) : ActiveOverride = i
           /\ ActiveIn(stCommands) = {} => ActiveOverride = NoOverride
           /\ ActiveOverride \in ActiveIn(stCommands) \cup {NoOverride}
           /\ OneReportAnInstant => \A i \in DOMAIN stCommands :
                 Latest(i, stNow) => ActiveOverride = IF stCommands[i].until <= stNow THEN NoOverride ELSE i
PROOF
<1> DEFINE A == ActiveIn(stCommands)
<1>1. \A i \in A : i \in DOMAIN stCommands /\ stCommands[i].state = "applied" /\ stCommands[i].until > stNow
                   /\ Latest(i, stNow) /\ \A j \in A : i = j
  BY DEF ActiveIn, Superseding
<1>2. \A i \in A : ActiveOverride = i
  <2> TAKE i \in A
  <2>1. A = {i}
    BY <1>1
  <2>2. stCommands[i].until >= stCommands[i].until
    BY <1>1, StoryRow DEF CommandRow
  <2>3. ActiveOverride = CHOOSE k \in {i} : \A j \in {i} : stCommands[k].until >= stCommands[j].until
    BY <2>1 DEF ActiveOverride
  <2> QED BY <2>2, <2>3
<1>3. A = {} => ActiveOverride = NoOverride
  BY DEF ActiveOverride
<1>4. ASSUME OneReportAnInstant, NEW i \in DOMAIN stCommands, Latest(i, stNow)
      PROVE  ActiveOverride = IF stCommands[i].until <= stNow THEN NoOverride ELSE i
  <2>1. stCommands[i].until \in Nat /\ stNow \in Nat /\ stCommands[i].applied \in Nat
    BY <1>4, StoryRow DEF CommandRow, Latest, HasApplied
  <2>2. CASE stCommands[i].until <= stNow
    <3>1. ASSUME NEW k \in A PROVE FALSE
      <4>1. k \in DOMAIN stCommands /\ Latest(k, stNow) /\ stCommands[k].until > stNow
        BY <1>1
      <4>2. stCommands[k].applied \in Nat /\ stCommands[k].until \in Nat
        BY <4>1, StoryRow DEF CommandRow, Latest, HasApplied
      <4>3. stCommands[k].applied = stCommands[i].applied
        BY <1>4, <2>1, <4>1, <4>2 DEF Latest
      <4>4. k = i
        BY <1>4, <4>1, <4>3 DEF OneReportAnInstant, Latest, HasApplied
      <4> QED BY <2>1, <2>2, <4>1, <4>4
    <3> QED BY <1>3, <2>2, <3>1
  <2>3. CASE ~(stCommands[i].until <= stNow)
    <3>1. stCommands[i].state # "superseded"
      <4> SUFFICES ASSUME stCommands[i].state = "superseded" PROVE FALSE
        OBVIOUS
      <4>1. PICK j \in DOMAIN stCommands : j # i /\ HasApplied(j, stNow) /\ stCommands[j].applied >= stCommands[i].applied
        BY DEF Superseding
      <4>2. stCommands[j].applied \in Nat
        BY <4>1, StoryRow DEF HasApplied
      <4>3. stCommands[j].applied = stCommands[i].applied
        BY <1>4, <2>1, <4>1, <4>2 DEF Latest
      <4> QED BY <1>4, <4>1, <4>3 DEF OneReportAnInstant, HasApplied
    <3>2. stCommands[i].state = "applied"
      BY <1>4, <3>1, StoryRow DEF RowOk, Latest, HasApplied
    <3>3. i \in A
      BY <2>1, <2>3, <3>2 DEF ActiveIn
    <3> QED BY <1>2, <2>3, <3>3
  <2> QED BY <2>2, <2>3
<1> QED BY <1>2, <1>3, <1>4

(* Rows only ever gain an apply of this instant, and lose none.            *)
RowsGrow ==
    /\ stNow' = stNow /\ stInForce' = stInForce /\ DOMAIN stCommands \subseteq DOMAIN stCommands'
    /\ \A i \in DOMAIN stCommands' :
          /\ i \notin DOMAIN stCommands => stCommands'[i].applied = Never /\ stCommands'[i].state # "applied"
          /\ i \in DOMAIN stCommands =>
                /\ stCommands'[i].until = stCommands[i].until
                /\ \/ stCommands'[i].applied = stCommands[i].applied
                      /\ (stCommands'[i].state = "applied" => stCommands[i].state = "applied")
                   \/ stCommands[i].applied = Never /\ stCommands'[i].applied = stNow

LEMMA PastStays ==
    ASSUME StoryInv, RowsGrow
    PROVE  /\ \A t \in 1..stNow : Remembered(t)'
           /\ \A u \in 0..stNow : u < stNow => OneLatest(u)'
PROOF
<1>1. stNow \in Nat /\ StoryTypes
  BY DEF StoryInv, StoryTypes
<1>2. ASSUME NEW u \in 0..stNow, u < stNow, NEW i
      PROVE  /\ HasApplied(i, u)' <=> HasApplied(i, u)
             /\ HasApplied(i, u) => stCommands'[i].applied = stCommands[i].applied /\ stCommands'[i].until = stCommands[i].until
  <2>1. CASE i \in DOMAIN stCommands /\ stCommands'[i].applied = stCommands[i].applied
    BY <2>1 DEF RowsGrow, HasApplied
  <2>2. CASE i \in DOMAIN stCommands /\ stCommands[i].applied = Never /\ stCommands'[i].applied = stNow
    BY <1>1, <1>2, <2>2 DEF RowsGrow, HasApplied
  <2>3. CASE i \notin DOMAIN stCommands
    BY <2>3 DEF RowsGrow, HasApplied
  <2> QED BY <2>1, <2>2, <2>3 DEF RowsGrow
<1>3. ASSUME NEW u \in 0..stNow, u < stNow, NEW i
      PROVE  Latest(i, u)' <=> Latest(i, u)
  <2>1. Latest(i, u)' => HasApplied(i, u)
    BY <1>2, <1>3 DEF Latest
  <2>2. Latest(i, u) => HasApplied(i, u)'
    BY <1>2, <1>3 DEF Latest
  <2>3. \A j : HasApplied(j, u)' <=> HasApplied(j, u)
    BY <1>2, <1>3
  <2>4. \A j : HasApplied(j, u) => stCommands'[j].applied = stCommands[j].applied
    BY <1>2, <1>3
  <2>5. \A j : HasApplied(j, u) => j \in DOMAIN stCommands /\ j \in DOMAIN stCommands'
    BY DEF HasApplied, RowsGrow
  <2> QED BY <2>1, <2>2, <2>3, <2>4, <2>5 DEF Latest
<1>4. OneReportAnInstant' => OneReportAnInstant
  <2> SUFFICES ASSUME OneReportAnInstant', NEW i \in DOMAIN stCommands, NEW j \in DOMAIN stCommands, i # j,
                      stCommands[i].applied # Never
               PROVE  stCommands[i].applied # stCommands[j].applied
    BY DEF OneReportAnInstant
  <2>1. stCommands'[i].applied = stCommands[i].applied /\ i \in DOMAIN stCommands' /\ j \in DOMAIN stCommands'
    BY DEF RowsGrow
  <2>2. stCommands[j].applied # Never => stCommands'[j].applied = stCommands[j].applied
    BY DEF RowsGrow
  <2> QED BY <2>1, <2>2 DEF OneReportAnInstant
<1>5. ASSUME NEW t \in 1..stNow PROVE Remembered(t)'
  <2>1. t - 1 \in 0..stNow /\ t - 1 < stNow /\ Remembered(t)
    BY <1>1 DEF StoryInv
  <2> DEFINE x == stInForce[t]
  <2>2. stInForce'[t] = x
    BY DEF RowsGrow
  <2>5. x # NoOverride => HasApplied(x, t - 1) /\ stCommands[x].until > t - 1
    BY <2>1 DEF Remembered
  <2>6. PICK y : y = x
    OBVIOUS
  <2>7. y # NoOverride => HasApplied(y, t - 1)' /\ stCommands'[y].until > t - 1
    BY <1>2, <2>1, <2>5, <2>6
  <2>8. OneReportAnInstant' => \A i \in DOMAIN stCommands' :
             Latest(i, t - 1)' => y = IF stCommands'[i].until <= t - 1 THEN NoOverride ELSE i
    <3> SUFFICES ASSUME OneReportAnInstant', NEW i \in DOMAIN stCommands', Latest(i, t - 1)'
                 PROVE  y = IF stCommands'[i].until <= t - 1 THEN NoOverride ELSE i
      OBVIOUS
    <3>1. Latest(i, t - 1) /\ stCommands'[i].until = stCommands[i].until /\ i \in DOMAIN stCommands
      BY <1>2, <1>3, <2>1 DEF Latest, HasApplied
    <3> QED BY <1>4, <2>1, <2>6, <3>1 DEF Remembered
  <2>3. ASSUME NEW i \in DOMAIN stCommands', stCommands'[i].state = "applied", stCommands'[i].applied <= t - 1,
               stCommands'[i].until > t - 1, RowOk(stCommands[i]) \/ i \notin DOMAIN stCommands,
               stCommands'[i].applied # Never
        PROVE  y = i
    <3>1. HasApplied(i, t - 1)'
      BY <2>3 DEF HasApplied
    <3>2. HasApplied(i, t - 1) /\ stCommands'[i].applied = stCommands[i].applied /\ stCommands'[i].until = stCommands[i].until
      BY <1>2, <2>1, <3>1
    <3>3. stCommands[i].state = "applied"
      BY <2>3, <3>2 DEF RowsGrow, HasApplied
    <3> QED BY <2>1, <2>3, <2>6, <3>2, <3>3 DEF Remembered, HasApplied
  <2>4. \A i \in DOMAIN stCommands' : stCommands'[i].state = "applied" => stCommands'[i].applied # Never
    <3> TAKE i \in DOMAIN stCommands'
    <3>1. i \in DOMAIN stCommands => RowOk(stCommands[i])
      BY <1>1, StoryRow
    <3>2. stNow # Never
      BY <1>1 DEF Never
    <3> QED BY <3>1, <3>2 DEF RowsGrow, RowOk
  <2>9. \A i \in DOMAIN stCommands' :
          stCommands'[i].state = "applied" /\ stCommands'[i].applied <= t - 1 /\ stCommands'[i].until > t - 1 => y = i
    <3> TAKE i \in DOMAIN stCommands'
    <3>1. RowOk(stCommands[i]) \/ i \notin DOMAIN stCommands
      BY <1>1, StoryRow
    <3> QED BY <2>3, <2>4, <3>1
  <2> QED BY <2>2, <2>6, <2>7, <2>8, <2>9 DEF Remembered
<1>6. ASSUME NEW u \in 0..stNow, u < stNow PROVE OneLatest(u)'
  <2>1. OneLatest(u)
    BY DEF StoryInv
  <2>2. \A i : (Latest(i, u)' <=> Latest(i, u)) /\ (HasApplied(i, u)' <=> HasApplied(i, u))
    BY <1>2, <1>3, <1>6
  <2> QED BY <2>1, <2>2 DEF OneLatest, Latest, HasApplied
<1> QED BY <1>5, <1>6

LEMMA RowsKeep ==
    ASSUME StoryInv, RowsGrow, stAlerts' = stAlerts, stCommands' \in Seq(CommandRow),
           \A i \in DOMAIN stCommands' : RowOk(stCommands[i])', Superseding', OneLatest(stNow)'
    PROVE  StoryInv'
PROOF
<1>1. stNow \in Nat /\ StoryTypes /\ stNow' = stNow /\ stInForce' = stInForce
  BY DEF StoryInv, StoryTypes, RowsGrow
<1>2. StoryTypes'
  BY <1>1 DEF StoryTypes
<1>3. \A u \in 0..stNow : u < stNow => OneLatest(u)'
  BY PastStays
<1>4. \A u \in 0..stNow' : OneLatest(u)'
  <2> SUFFICES ASSUME NEW u \in 0..stNow PROVE OneLatest(u)'
    BY <1>1
  <2>1. CASE u < stNow
    BY <1>3, <2>1
  <2>2. CASE u = stNow
    <3>1. PICK n : n = stNow
      OBVIOUS
    <3>2. OneLatest(n)'
      BY <1>1, <3>1 DEF OneLatest, Latest, HasApplied
    <3> QED BY <2>2, <3>1, <3>2
  <2> QED BY <1>1, <2>1, <2>2
<1>5. \A t \in 1..stNow' : Remembered(t)'
  BY <1>1, PastStays
<1> QED BY <1>2, <1>4, <1>5 DEF StoryInv

LEMMA AskKeeps == ASSUME StoryInv, NEW d \in Lengths, Ask(d) PROVE StoryInv'
PROOF
<1> DEFINE c == [state |-> "pending", requested |-> stNow, until |-> stNow + d, applied |-> Never, settled |-> Never]
           n == Len(stCommands)
<1>1. stNow \in Nat /\ StoryTypes /\ stNow' = stNow /\ stInForce' = stInForce /\ stAlerts' = stAlerts
      /\ stCommands' = Append(stCommands, c) /\ Superseding /\ OneLatest(stNow) /\ d \in Nat
  BY StoryAssumption DEF Ask, StoryInv, StoryTypes
<1>2. c \in CommandRow /\ c.state = "pending" /\ c.applied = Never /\ c.requested = stNow /\ c.until = stNow + d
  BY <1>1 DEF CommandRow, Moments
<1> HIDE DEF c
<1>3. /\ n \in Nat /\ DOMAIN stCommands = 1..n /\ DOMAIN stCommands' = 1..(n+1) /\ stCommands' \in Seq(CommandRow)
      /\ \A i \in 1..n : stCommands'[i] = stCommands[i]
      /\ stCommands'[n+1] = c
  BY <1>1, <1>2 DEF StoryTypes
<1> HIDE DEF n
<1>4. RowsGrow
  BY <1>1, <1>2, <1>3 DEF RowsGrow
<1>5. \A i \in DOMAIN stCommands' : RowOk(stCommands[i])'
  <2>1. RowOk(c)
    BY <1>1, <1>2 DEF RowOk
  <2>2. \A i \in 1..n : RowOk(stCommands[i])
    BY <1>1, <1>3 DEF StoryTypes
  <2> QED BY <1>1, <1>3, <2>1, <2>2 DEF RowOk
<1>6. \A i, u : HasApplied(i, u)' <=> HasApplied(i, u)
  BY <1>1, <1>2, <1>3 DEF HasApplied
<1>7. \A i, u : HasApplied(i, u) => stCommands'[i] = stCommands[i] /\ i \in DOMAIN stCommands /\ i \in DOMAIN stCommands'
  BY <1>3 DEF HasApplied
<1>8. \A i, u : Latest(i, u)' <=> Latest(i, u)
  BY <1>6, <1>7 DEF Latest
<1>9. ActiveIn(stCommands') \subseteq ActiveIn(stCommands) /\ ActiveIn(stCommands)' \subseteq ActiveIn(stCommands)
  BY <1>1, <1>2, <1>3 DEF ActiveIn
<1>10. OneLatest(stNow)'
  <2>1. PICK v : v = stNow
    OBVIOUS
  <2>2. (\E i \in DOMAIN stCommands' : HasApplied(i, v)') => \E i \in DOMAIN stCommands' : Latest(i, v)'
    <3> SUFFICES ASSUME NEW i \in DOMAIN stCommands', HasApplied(i, v)' PROVE \E k \in DOMAIN stCommands' : Latest(k, v)'
      OBVIOUS
    <3>1. HasApplied(i, v) /\ i \in DOMAIN stCommands
      BY <1>6, <1>7
    <3>2. PICK k \in DOMAIN stCommands : Latest(k, v)
      BY <1>1, <2>1, <3>1 DEF OneLatest
    <3>3. k \in DOMAIN stCommands'
      BY <1>7, <3>2 DEF Latest
    <3> QED BY <1>8, <3>2, <3>3
  <2> QED BY <1>1, <2>1, <2>2 DEF OneLatest, Latest, HasApplied
<1>11. Superseding'
  BY <1>1, <1>2, <1>3, <1>6, <1>7, <1>8, <1>9 DEF Superseding
<1> QED BY <1>1, <1>3, <1>4, <1>5, <1>10, <1>11, RowsKeep

LEMMA EndsKeeps ==
    ASSUME StoryInv, NEW i \in DOMAIN stCommands, NEW how \in {"failed", "expired", "cancelled"}, Ends(i, how)
    PROVE  StoryInv'
PROOF
<1> DEFINE c == [stCommands[i] EXCEPT !.state = how, !.settled = stNow]
<1>1. stNow \in Nat /\ StoryTypes /\ stNow' = stNow /\ stInForce' = stInForce /\ stAlerts' = stAlerts
      /\ Superseding /\ OneLatest(stNow) /\ stCommands[i].state \in Live
  BY DEF Ends, StoryInv, StoryTypes
<1>2. stCommands[i] \in CommandRow /\ RowOk(stCommands[i])
  BY <1>1, StoryRow
<1>3. /\ c \in CommandRow /\ c.state = how /\ c.applied = Never /\ stCommands[i].applied = Never
      /\ c.requested = stCommands[i].requested /\ c.until = stCommands[i].until
  BY <1>1, <1>2 DEF CommandRow, Moments, RowOk, Live
<1> HIDE DEF c
<1>0. stCommands' = [stCommands EXCEPT ![i] = c]
  BY <1>1 DEF Ends, StoryTypes, c
<1>4. /\ DOMAIN stCommands' = DOMAIN stCommands /\ stCommands' \in Seq(CommandRow)
      /\ \A j \in DOMAIN stCommands : stCommands'[j] = IF j = i THEN c ELSE stCommands[j]
  BY <1>0, <1>1, <1>3 DEF StoryTypes
<1>5. RowsGrow
  BY <1>1, <1>3, <1>4 DEF RowsGrow
<1>6. \A j \in DOMAIN stCommands' : RowOk(stCommands[j])'
  <2>1. RowOk(c)
    BY <1>1, <1>2, <1>3 DEF RowOk
  <2>2. \A j \in DOMAIN stCommands : RowOk(stCommands[j])
    BY <1>1 DEF StoryTypes
  <2> QED BY <1>1, <1>4, <2>1, <2>2 DEF RowOk
<1>7. \A j, u : HasApplied(j, u)' <=> HasApplied(j, u)
  BY <1>1, <1>3, <1>4 DEF HasApplied
<1>8. \A j, u : HasApplied(j, u) => stCommands'[j] = stCommands[j] /\ j \in DOMAIN stCommands
  BY <1>3, <1>4 DEF HasApplied
<1>9. \A j, u : Latest(j, u)' <=> Latest(j, u)
  BY <1>4, <1>7, <1>8 DEF Latest
<1>10. ActiveIn(stCommands') \subseteq ActiveIn(stCommands) /\ ActiveIn(stCommands)' \subseteq ActiveIn(stCommands)
  BY <1>1, <1>3, <1>4 DEF ActiveIn
<1>11. OneLatest(stNow)'
  <2>1. PICK v : v = stNow
    OBVIOUS
  <2>2. (\E j \in DOMAIN stCommands' : HasApplied(j, v)') => \E j \in DOMAIN stCommands' : Latest(j, v)'
    <3> SUFFICES ASSUME NEW j \in DOMAIN stCommands', HasApplied(j, v)' PROVE \E k \in DOMAIN stCommands' : Latest(k, v)'
      OBVIOUS
    <3>1. HasApplied(j, v) /\ j \in DOMAIN stCommands
      BY <1>7, <1>8
    <3>2. PICK k \in DOMAIN stCommands : Latest(k, v)
      BY <1>1, <2>1, <3>1 DEF OneLatest
    <3> QED BY <1>4, <1>9, <3>2
  <2> QED BY <1>1, <2>1, <2>2 DEF OneLatest, Latest, HasApplied
<1>12. Superseding'
  BY <1>1, <1>3, <1>4, <1>7, <1>8, <1>9, <1>10 DEF Superseding
<1> QED BY <1>1, <1>4, <1>5, <1>6, <1>11, <1>12, RowsKeep

(* An apply supersedes what is in force, and is from now on the latest.    *)
LEMMA GatewayKeeps ==
    ASSUME StoryInv, NEW i \in DOMAIN stCommands, GatewayApplies(i) PROVE StoryInv'
PROOF
<1> DEFINE A == ActiveIn(stCommands)
           c == [stCommands[i] EXCEPT !.state = "applied", !.settled = stNow, !.applied = stNow]
           s(j) == [stCommands[j] EXCEPT !.state = "superseded", !.settled = stNow]
<1>1. stNow \in Nat /\ StoryTypes /\ stNow' = stNow /\ stInForce' = stInForce /\ stAlerts' = stAlerts
      /\ Superseding /\ stCommands[i].state \in Live
      /\ stCommands' = [j \in DOMAIN stCommands |-> IF j = i THEN c ELSE IF j \in A THEN s(j) ELSE stCommands[j]]
  BY DEF GatewayApplies, Applied, StoryInv, StoryTypes
<1>2. \A j \in DOMAIN stCommands : stCommands[j] \in CommandRow /\ RowOk(stCommands[j])
  BY <1>1, StoryRow
<1>3. /\ c \in CommandRow /\ c.state = "applied" /\ c.applied = stNow /\ stCommands[i].applied = Never /\ stNow # Never
      /\ c.requested = stCommands[i].requested /\ c.until = stCommands[i].until
  <2>1. stCommands[i] \in CommandRow /\ RowOk(stCommands[i])
    BY <1>2
  <2>2. stCommands[i].applied = Never
    BY <1>1, <2>1 DEF RowOk, Live
  <2>3. stNow # Never /\ stNow \in Moments
    <3>1. stNow \in Nat
      BY <1>1
    <3> QED BY <3>1 DEF Never, Moments
  <2>4. c \in CommandRow /\ c.state = "applied" /\ c.applied = stNow
        /\ c.requested = stCommands[i].requested /\ c.until = stCommands[i].until
    BY <2>1, <2>3 DEF CommandRow
  <2> QED BY <2>2, <2>3, <2>4
<1>4. ASSUME NEW j \in A
      PROVE  /\ j \in DOMAIN stCommands /\ stCommands[j].state = "applied" /\ stCommands[j].applied # Never
             /\ s(j) \in CommandRow /\ s(j).state = "superseded" /\ s(j).applied = stCommands[j].applied
             /\ s(j).requested = stCommands[j].requested /\ s(j).until = stCommands[j].until
  <2>1. j \in DOMAIN stCommands /\ stCommands[j].state = "applied"
    BY <1>4 DEF ActiveIn
  <2>2. stCommands[j] \in CommandRow /\ stCommands[j].applied # Never
    BY <1>2, <2>1 DEF RowOk
  <2> QED BY <1>1, <2>1, <2>2 DEF CommandRow, Moments
<1> HIDE DEF c, s, A
<1>5. /\ DOMAIN stCommands' = DOMAIN stCommands
      /\ \A j \in DOMAIN stCommands : stCommands'[j] = IF j = i THEN c ELSE IF j \in A THEN s(j) ELSE stCommands[j]
  BY <1>1
<1>6. stCommands' \in Seq(CommandRow)
  <2>1. \A j \in DOMAIN stCommands' : stCommands'[j] \in CommandRow
    BY <1>2, <1>3, <1>4, <1>5
  <2>2. DOMAIN stCommands' = 1..Len(stCommands) /\ Len(stCommands) \in Nat
    BY <1>1, <1>5 DEF StoryTypes
  <2>3. stCommands' = [j \in DOMAIN stCommands' |-> stCommands'[j]]
    BY <1>1, <1>5
  <2> QED BY <2>1, <2>2, <2>3
<1>7. \A j \in DOMAIN stCommands :
         /\ stCommands'[j].requested = stCommands[j].requested /\ stCommands'[j].until = stCommands[j].until
         /\ j # i => stCommands'[j].applied = stCommands[j].applied
         /\ j # i => stCommands'[j].state = IF j \in A THEN "superseded" ELSE stCommands[j].state
  BY <1>3, <1>4, <1>5
<1>8. stCommands'[i].applied = stNow /\ stCommands'[i].state = "applied"
  BY <1>3, <1>5
<1>9. RowsGrow
  BY <1>1, <1>3, <1>5, <1>7, <1>8 DEF RowsGrow
<1>10. \A j \in DOMAIN stCommands' : RowOk(stCommands[j])'
  <2> SUFFICES ASSUME NEW j \in DOMAIN stCommands PROVE RowOk(stCommands[j])'
    BY <1>5
  <2>1. stCommands[j] \in CommandRow /\ RowOk(stCommands[j])
    BY <1>2
  <2>2. CASE j = i
    <3> DEFINE r == stCommands[i]
               q == stCommands'[i]
    <3>1. r.requested \in Nat /\ r.requested <= stNow /\ r.requested <= r.until
      BY <2>1, <2>2 DEF RowOk, CommandRow
    <3>2. q.requested = r.requested /\ q.until = r.until /\ q.applied = stNow /\ q.state = "applied"
      BY <1>7, <1>8
    <3> HIDE DEF r, q
    <3>3. /\ q.requested <= stNow /\ q.requested <= q.until /\ q.applied # Never
          /\ q.state \in {"applied", "superseded"} /\ q.requested <= q.applied /\ q.applied <= stNow
      BY <1>1, <1>3, <3>1, <3>2
    <3> QED BY <1>1, <2>2, <3>3 DEF RowOk, q
  <2>3. CASE j # i /\ j \notin A
    BY <1>1, <1>7, <2>1, <2>3 DEF RowOk
  <2>4. CASE j # i /\ j \in A
    BY <1>1, <1>4, <1>7, <2>1, <2>4 DEF RowOk
  <2> QED BY <2>2, <2>3, <2>4
<1>11. \A j \in DOMAIN stCommands : stCommands[j].applied # Never => stCommands[j].applied \in Nat /\ stCommands[j].applied <= stNow
  BY <1>1, StoryRow DEF RowOk
<1>12. Latest(i, stNow)'
  <2>1. HasApplied(i, stNow)'
    BY <1>1, <1>3, <1>5, <1>8 DEF HasApplied
  <2>2. \A j \in DOMAIN stCommands' : HasApplied(j, stNow)' => stCommands'[j].applied <= stCommands'[i].applied
    BY <1>1, <1>5, <1>8 DEF HasApplied
  <2> QED BY <1>1, <2>1, <2>2 DEF Latest, HasApplied
<1>13. OneLatest(stNow)'
  BY <1>5, <1>12 DEF OneLatest
<1>14. ActiveIn(stCommands)' \subseteq {i}
  <2> SUFFICES ASSUME NEW j \in DOMAIN stCommands', stCommands'[j].state = "applied", stCommands'[j].until > stNow, j # i PROVE FALSE
    BY <1>1 DEF ActiveIn
  <2>1. stCommands[j].state = "applied" /\ stCommands[j].until > stNow /\ j \notin A
    BY <1>5, <1>7
  <2> QED BY <1>5, <2>1 DEF A, ActiveIn
<1>15. ASSUME NEW j \in DOMAIN stCommands', stCommands'[j].state = "superseded"
       PROVE  \E k \in DOMAIN stCommands' : k # j /\ HasApplied(k, stNow)' /\ stCommands'[k].applied >= stCommands'[j].applied
  <2>1. j # i /\ j \in DOMAIN stCommands
    BY <1>5, <1>8, <1>15
  <2>2. CASE j \in A
    <3>1. stCommands[j].applied \in Nat /\ stCommands[j].applied <= stNow /\ stCommands'[j].applied = stCommands[j].applied
      BY <1>4, <1>7, <1>11, <2>1, <2>2
    <3>2. i # j /\ HasApplied(i, stNow)' /\ stCommands'[i].applied >= stCommands'[j].applied
      BY <1>1, <1>8, <1>12, <2>1, <3>1 DEF Latest
    <3> QED BY <1>5, <3>2
  <2>3. CASE j \notin A
    <3>1. stCommands[j].state = "superseded" /\ stCommands'[j].applied = stCommands[j].applied
      BY <1>7, <1>15, <2>1, <2>3
    <3>2. PICK k \in DOMAIN stCommands : k # j /\ HasApplied(k, stNow) /\ stCommands[k].applied >= stCommands[j].applied
      BY <1>1, <2>1, <3>1 DEF Superseding
    <3>3. k # i /\ stCommands'[k].applied = stCommands[k].applied
      BY <1>3, <1>7, <3>2 DEF HasApplied
    <3>4. HasApplied(k, stNow)'
      BY <1>1, <1>5, <3>2, <3>3 DEF HasApplied
    <3> QED BY <1>5, <3>1, <3>2, <3>3, <3>4
  <2> QED BY <2>2, <2>3
<1>16. Superseding'
  <2>1. \A j \in ActiveIn(stCommands)' : j = i
    BY <1>14
  <2> QED BY <1>1, <1>12, <1>15, <2>1 DEF Superseding
<1> QED BY <1>1, <1>6, <1>9, <1>10, <1>13, <1>16, RowsKeep

LEMMA AlertsKeep ==
    ASSUME StoryInv, UNCHANGED <<stNow, stCommands, stInForce>>, stAlerts' \in Seq(AlertRow),
           \A a \in DOMAIN stAlerts' : /\ stAlerts'[a].opened <= stNow
                                       /\ stAlerts'[a].resolved # Never => stAlerts'[a].opened <= stAlerts'[a].resolved
    PROVE  StoryInv'
PROOF
<1>1. \A i, u : (HasApplied(i, u)' <=> HasApplied(i, u)) /\ (Latest(i, u)' <=> Latest(i, u)) /\ (OneLatest(u)' <=> OneLatest(u))
  BY DEF OneLatest, Latest, HasApplied
<1>2. StoryTypes'
  BY DEF StoryInv, StoryTypes, RowOk
<1>3. ActiveIn(stCommands)' = ActiveIn(stCommands) /\ (OneReportAnInstant' <=> OneReportAnInstant)
  BY DEF ActiveIn, OneReportAnInstant
<1>4. Superseding'
  BY DEF StoryInv, Superseding, ActiveIn, Latest, HasApplied
<1>5. \A t : Remembered(t)' <=> Remembered(t)
  BY <1>1, <1>3 DEF Remembered
<1>6. stNow' = stNow
  OBVIOUS
<1>7. \A u \in 0..stNow' : OneLatest(u)'
  BY <1>1, <1>6 DEF StoryInv
<1>8. \A t \in 1..stNow' : Remembered(t)'
  BY <1>5, <1>6 DEF StoryInv
<1> QED BY <1>2, <1>4, <1>7, <1>8 DEF StoryInv

LEMMA AlertStepsKeep ==
    ASSUME StoryInv, \/ \E own \in BOOLEAN : AlertOpens(own)
                     \/ \E a \in DOMAIN stAlerts : AlertResolves(a)
    PROVE  StoryInv'
PROOF
<1>1. stNow \in Nat /\ stAlerts \in Seq(AlertRow) /\ stNow \in Moments /\ Never \in Moments
      /\ \A a \in DOMAIN stAlerts : /\ stAlerts[a].opened <= stNow
                                    /\ stAlerts[a].resolved # Never => stAlerts[a].opened <= stAlerts[a].resolved
  BY DEF StoryInv, StoryTypes, Moments
<1>2. ASSUME NEW own \in BOOLEAN, AlertOpens(own) PROVE StoryInv'
  <2> DEFINE r == [own |-> own, opened |-> stNow, resolved |-> Never]
  <2>1. r \in AlertRow /\ r.resolved = Never
    BY <1>1 DEF AlertRow
  <2>2. stAlerts' = Append(stAlerts, r) /\ UNCHANGED <<stNow, stCommands, stInForce>>
    BY <1>2 DEF AlertOpens
  <2>4. r.opened = stNow
    OBVIOUS
  <2> HIDE DEF r
  <2>3. stAlerts' \in Seq(AlertRow)
        /\ \A a \in DOMAIN stAlerts' : /\ stAlerts'[a].opened <= stNow
                                       /\ stAlerts'[a].resolved # Never => stAlerts'[a].opened <= stAlerts'[a].resolved
    BY <1>1, <2>1, <2>2, <2>4
  <2> QED BY <2>2, <2>3, AlertsKeep
<1>3. ASSUME NEW a \in DOMAIN stAlerts, AlertResolves(a), stAlerts[a].opened <= stNow PROVE StoryInv'
  <2> DEFINE r == [stAlerts[a] EXCEPT !.resolved = stNow]
  <2>1. stAlerts[a] \in AlertRow
    BY <1>1
  <2>2. r \in AlertRow /\ r.opened = stAlerts[a].opened /\ r.resolved = stNow
    BY <1>1, <2>1 DEF AlertRow
  <2>3. stAlerts' = [stAlerts EXCEPT ![a] = r] /\ UNCHANGED <<stNow, stCommands, stInForce>>
    BY <1>1, <1>3 DEF AlertResolves
  <2> HIDE DEF r
  <2>4. stAlerts' \in Seq(AlertRow)
        /\ \A b \in DOMAIN stAlerts' : /\ stAlerts'[b].opened <= stNow
                                       /\ stAlerts'[b].resolved # Never => stAlerts'[b].opened <= stAlerts'[b].resolved
    BY <1>1, <1>3, <2>2, <2>3
  <2>5. stAlerts' \in Seq(AlertRow)
    BY <2>4
  <2> QED BY <2>3, <2>4, <2>5, AlertsKeep
<1>4. \A a \in DOMAIN stAlerts : stAlerts[a].opened <= stNow
  BY DEF StoryInv, StoryTypes
<1> QED BY <1>2, <1>3, <1>4

LEMMA TickKeeps == ASSUME StoryInv, StoryTick PROVE StoryInv'
PROOF
<1>1. stNow \in Nat /\ StoryTypes /\ Superseding /\ stNow' = stNow + 1 /\ stCommands' = stCommands /\ stAlerts' = stAlerts
      /\ stInForce \in Seq(Nat) /\ Len(stInForce) = stNow /\ stInForce' = Append(stInForce, ActiveOverride)
  BY DEF StoryInv, StoryTypes, StoryTick
<1>2. \A i \in DOMAIN stCommands :
         /\ stCommands[i] \in CommandRow /\ RowOk(stCommands[i]) /\ i \in Nat
         /\ stCommands[i].applied # Never => stCommands[i].applied \in Nat /\ stCommands[i].applied <= stNow
  BY <1>1, StoryRow DEF RowOk
<1>3. ActiveOverride \in Nat
  BY <1>1, <1>2, InForceNow DEF ActiveIn, NoOverride
<1>4. \A i, u : (HasApplied(i, u)' <=> HasApplied(i, u)) /\ (Latest(i, u)' <=> Latest(i, u)) /\ (OneLatest(u)' <=> OneLatest(u))
  BY <1>1 DEF OneLatest, Latest, HasApplied
<1>5. \A i : HasApplied(i, stNow + 1) <=> HasApplied(i, stNow)
  BY <1>1, <1>2 DEF HasApplied
<1>6. \A i : Latest(i, stNow + 1) <=> Latest(i, stNow)
  BY <1>5 DEF Latest
<1>7. StoryTypes'
  <2>1. \A i \in DOMAIN stCommands' : RowOk(stCommands[i])'
    <3> SUFFICES ASSUME NEW i \in DOMAIN stCommands PROVE RowOk(stCommands[i])'
      BY <1>1
    <3>1. stCommands[i].requested \in Nat /\ RowOk(stCommands[i])
          /\ (stCommands[i].applied # Never => stCommands[i].applied \in Nat /\ stCommands[i].applied <= stNow)
      BY <1>2 DEF CommandRow
    <3> QED BY <1>1, <3>1 DEF RowOk
  <2>2. stInForce' \in Seq(Nat) /\ Len(stInForce') = stNow'
    BY <1>1, <1>3
  <2>3. \A a \in DOMAIN stAlerts : stAlerts[a] \in AlertRow /\ stAlerts[a].opened <= stNow
    BY <1>1 DEF StoryTypes
  <2>4. \A a \in DOMAIN stAlerts' : stAlerts'[a].opened <= stNow'
    BY <1>1, <2>3 DEF AlertRow
  <2>5. stAlerts' \in Seq(AlertRow) /\ stNow' \in Nat
        /\ \A a \in DOMAIN stAlerts' : stAlerts'[a].resolved # Never => stAlerts'[a].opened <= stAlerts'[a].resolved
    BY <1>1 DEF StoryTypes
  <2>6. stCommands' \in Seq(CommandRow)
    BY <1>1 DEF StoryTypes
  <2> QED BY <2>1, <2>2, <2>4, <2>5, <2>6 DEF StoryTypes
<1>8. \A u \in 0..stNow' : OneLatest(u)'
  <2>1. OneLatest(stNow + 1)
    BY <1>1, <1>5, <1>6 DEF StoryInv, OneLatest
  <2>2. \A u \in 0..(stNow + 1) : OneLatest(u)
    BY <1>1, <2>1 DEF StoryInv
  <2> QED BY <1>1, <1>4, <2>2
<1>9. Superseding'
  <2>1. ActiveIn(stCommands)' \subseteq ActiveIn(stCommands)
    BY <1>1, <1>2 DEF ActiveIn, CommandRow
  <2>2. PICK v : v = stNow + 1
    OBVIOUS
  <2>3. \A i \in ActiveIn(stCommands)' : Latest(i, v)' /\ \A j \in ActiveIn(stCommands)' : i = j
    BY <1>1, <1>4, <1>6, <2>1, <2>2 DEF Superseding
  <2>4. \A i \in DOMAIN stCommands' : stCommands'[i].state = "superseded" =>
          \E j \in DOMAIN stCommands' : j # i /\ HasApplied(j, v)' /\ stCommands'[j].applied >= stCommands'[i].applied
    BY <1>1, <1>4, <1>5, <2>2 DEF Superseding
  <2> QED BY <1>1, <2>2, <2>3, <2>4 DEF Superseding, Latest, HasApplied
<1>10. OneReportAnInstant' <=> OneReportAnInstant
  BY <1>1 DEF OneReportAnInstant
<1>11. ASSUME NEW t \in 1..stNow PROVE Remembered(t)'
  <2>1. stInForce'[t] = stInForce[t] /\ Remembered(t)
    BY <1>1 DEF StoryInv
  <2> QED BY <1>1, <1>4, <1>10, <2>1 DEF Remembered, HasApplied
<1>12. PICK x : x = ActiveOverride
  OBVIOUS
<1>13. PICK t : t = stNow + 1
  OBVIOUS
<1>14. t \in Nat /\ t - 1 = stNow
  BY <1>1, <1>13
<1>15. Remembered(t)'
  <2>1. stInForce'[t] = x
    BY <1>1, <1>12, <1>13
  <2>2. x # NoOverride => HasApplied(x, stNow) /\ stCommands[x].until > stNow
    BY <1>1, <1>12, InForceNow DEF Superseding, ActiveIn, Latest
  <2>3. \A i \in DOMAIN stCommands : stCommands[i].state = "applied" /\ stCommands[i].until > stNow => x = i
    BY <1>1, <1>12, InForceNow DEF ActiveIn
  <2>4. OneReportAnInstant => \A i \in DOMAIN stCommands :
           Latest(i, stNow) => x = IF stCommands[i].until <= stNow THEN NoOverride ELSE i
    BY <1>1, <1>12, InForceNow
  <2>5. x # NoOverride => HasApplied(x, t - 1)' /\ stCommands'[x].until > t - 1
    BY <1>1, <1>4, <1>14, <2>2
  <2>6. \A i \in DOMAIN stCommands' :
          stCommands'[i].state = "applied" /\ stCommands'[i].applied <= t - 1 /\ stCommands'[i].until > t - 1 => x = i
    BY <1>1, <1>14, <2>3
  <2>7. OneReportAnInstant' => \A i \in DOMAIN stCommands' :
           Latest(i, t - 1)' => x = IF stCommands'[i].until <= t - 1 THEN NoOverride ELSE i
    BY <1>1, <1>4, <1>10, <1>14, <2>4
  <2> QED BY <2>1, <2>5, <2>6, <2>7 DEF Remembered
<1>16. \A u \in 1..stNow' : Remembered(u)'
  <2> SUFFICES ASSUME NEW u \in 1..(stNow + 1) PROVE Remembered(u)'
    BY <1>1
  <2>1. CASE u = t
    BY <1>15, <2>1
  <2>2. CASE u # t
    BY <1>1, <1>11, <1>13, <2>2
  <2> QED BY <2>1, <2>2
<1> QED BY <1>7, <1>8, <1>9, <1>16 DEF StoryInv

THEOREM StoryKept == StorySpec => []StoryInv
PROOF
<1>1. StoryInit => StoryInv
  <2> DEFINE none == <<>>
  <2>1. none \in Seq(CommandRow) /\ none \in Seq(AlertRow) /\ none \in Seq(Nat) /\ Len(none) = 0 /\ DOMAIN none = {}
    OBVIOUS
  <2> SUFFICES ASSUME stNow = 0, stCommands = none, stAlerts = none, stInForce = none PROVE StoryInv
    BY DEF StoryInit
  <2> HIDE DEF none
  <2>2. DOMAIN stCommands = {} /\ DOMAIN stAlerts = {} /\ 1..stNow = {} /\ ActiveIn(stCommands) = {}
    BY <2>1 DEF ActiveIn
  <2>3. StoryTypes
    BY <2>1, <2>2 DEF StoryTypes
  <2>4. Superseding /\ \A u : OneLatest(u)
    BY <2>2 DEF Superseding, OneLatest
  <2> QED BY <2>2, <2>3, <2>4 DEF StoryInv
<1>2. StoryInv /\ [StoryNext]_stvars => StoryInv'
  <2> SUFFICES ASSUME StoryInv, [StoryNext]_stvars PROVE StoryInv'
    OBVIOUS
  <2>1. CASE StoryTick
    BY <2>1, TickKeeps
  <2>2. CASE \E d \in Lengths : Ask(d)
    BY <2>2, AskKeeps
  <2>3. ASSUME NEW i \in DOMAIN stCommands, GatewayApplies(i) PROVE StoryInv'
    BY <2>3, GatewayKeeps
  <2>4. ASSUME NEW i \in DOMAIN stCommands, NEW how \in {"failed", "expired", "cancelled"}, Ends(i, how) PROVE StoryInv'
    BY <2>4, EndsKeeps
  <2>5. CASE (\E own \in BOOLEAN : AlertOpens(own)) \/ \E a \in DOMAIN stAlerts : AlertResolves(a)
    BY <2>5, AlertStepsKeep
  <2>6. CASE UNCHANGED stvars
    BY <2>6, AlertsKeep DEF stvars, StoryInv, StoryTypes
  <2> QED BY <2>1, <2>2, <2>3, <2>4, <2>5, <2>6 DEF StoryNext
<1> QED BY <1>1, <1>2, PTL DEF StorySpec

LEMMA ImageFinite == ASSUME NEW S, IsFiniteSet(S), NEW f PROVE IsFiniteSet({f[x] : x \in S})
PROOF
<1> DEFINE T == {f[x] : x \in S}
           g == [x \in S |-> f[x]]
<1>1. g \in Surjection(S, T)
  BY DEF Surjection
<1> HIDE DEF g, T
<1>2. IsFiniteSet(T)
  BY <1>1, FS_Surjection
<1> QED BY <1>2 DEF T

LEMMA EventsFinite == ASSUME StoryTypes, NEW w PROVE IsFiniteSet(Events(w))
PROOF
<1>1. IsFiniteSet(DOMAIN stAlerts) /\ IsFiniteSet(DOMAIN stCommands)
  <2>1. DOMAIN stAlerts = 1..Len(stAlerts) /\ DOMAIN stCommands = 1..Len(stCommands) /\ Len(stAlerts) \in Int /\ Len(stCommands) \in Int
    BY DEF StoryTypes
  <2> QED BY <2>1, FS_Interval
<1> DEFINE soFar == <<w[1], IF w[2] < stNow THEN w[2] ELSE stNow>>
           R1 == {x \in DOMAIN stAlerts : Within(stAlerts[x].opened, w)}
           R2 == {x \in DOMAIN stAlerts : Within(stAlerts[x].resolved, w)}
           R3 == {i \in DOMAIN stCommands : Within(stCommands[i].requested, w)}
           R4 == {i \in DOMAIN stCommands : Within(stCommands[i].applied, w)}
           R5 == {i \in DOMAIN stCommands : Lapses(stCommands[i]) /\ Within(stCommands[i].until, soFar)}
           R6 == {i \in DOMAIN stCommands : stCommands[i].state \notin Live \union {"applied"} /\ Within(stCommands[i].settled, w)}
           f1 == [x \in R1 |-> Event(stAlerts[x].opened, "alert_opened", x)]
           f2 == [x \in R2 |-> Event(stAlerts[x].resolved, "alert_resolved", x)]
           f3 == [i \in R3 |-> Event(stCommands[i].requested, "command_requested", i)]
           f4 == [i \in R4 |-> Event(stCommands[i].applied, "command_applied", i)]
           f5 == [i \in R5 |-> Event(stCommands[i].until, "override_lapsed", i)]
           f6 == [i \in R6 |-> Event(stCommands[i].settled, SettledAs[stCommands[i].state], i)]
           E1 == {f1[x] : x \in R1}
           E2 == {f2[x] : x \in R2}
           E3 == {f3[x] : x \in R3}
           E4 == {f4[x] : x \in R4}
           E5 == {f5[x] : x \in R5}
           E6 == {f6[x] : x \in R6}
<1>2. AlertEvents(w) = E1 \cup E2
  BY DEF AlertEvents
<1>3. CommandEvents(w) = E3 \cup E4 \cup E5 \cup E6
  BY DEF CommandEvents
<1>4. R1 \subseteq DOMAIN stAlerts /\ R2 \subseteq DOMAIN stAlerts
      /\ R3 \subseteq DOMAIN stCommands /\ R4 \subseteq DOMAIN stCommands /\ R5 \subseteq DOMAIN stCommands /\ R6 \subseteq DOMAIN stCommands
  OBVIOUS
<1> HIDE DEF R1, R2, R3, R4, R5, R6, f1, f2, f3, f4, f5, f6, soFar
<1>5. IsFiniteSet(R1) /\ IsFiniteSet(R2) /\ IsFiniteSet(R3) /\ IsFiniteSet(R4) /\ IsFiniteSet(R5) /\ IsFiniteSet(R6)
  BY <1>1, <1>4, FS_Subset
<1>6. IsFiniteSet(E1) /\ IsFiniteSet(E2) /\ IsFiniteSet(E3) /\ IsFiniteSet(E4) /\ IsFiniteSet(E5) /\ IsFiniteSet(E6)
  <2>1. IsFiniteSet(E1)
    BY <1>5, ImageFinite
  <2>2. IsFiniteSet(E2)
    BY <1>5, ImageFinite
  <2>3. IsFiniteSet(E3)
    BY <1>5, ImageFinite
  <2>4. IsFiniteSet(E4)
    BY <1>5, ImageFinite
  <2>5. IsFiniteSet(E5)
    BY <1>5, ImageFinite
  <2>6. IsFiniteSet(E6)
    BY <1>5, ImageFinite
  <2> QED BY <2>1, <2>2, <2>3, <2>4, <2>5, <2>6
<1> HIDE DEF E1, E2, E3, E4, E5, E6
<1>7. IsFiniteSet(E1 \cup E2) /\ IsFiniteSet(E3 \cup E4)
  BY <1>6, FS_Union
<1>8. IsFiniteSet(E3 \cup E4 \cup E5)
  BY <1>6, <1>7, FS_Union
<1>9. IsFiniteSet(E3 \cup E4 \cup E5 \cup E6)
  BY <1>6, <1>8, FS_Union
<1> QED BY <1>2, <1>3, <1>7, <1>9, FS_Union DEF Events

(* The events of the whole past that a reader goes by: applies and lapses. *)
LEMMA WholePast ==
    ASSUME StoryTypes, NEW w, w[1] = 0, w[2] = stNow + 1
    PROVE  /\ \A e \in Events(w) : e.at \in Nat
           /\ \A e \in Events(w) : e.kind = "command_applied" =>
                 \E i \in DOMAIN stCommands : HasApplied(i, stNow) /\ e = Event(stCommands[i].applied, "command_applied", i)
           /\ \A i \in DOMAIN stCommands :
                 HasApplied(i, stNow) => Event(stCommands[i].applied, "command_applied", i) \in Events(w)
           /\ \A e \in CommandEvents(w) : e.kind = "override_lapsed" =>
                 \E i \in DOMAIN stCommands : /\ stCommands[i].state = "applied" /\ stCommands[i].until < stNow
                                              /\ e = Event(stCommands[i].until, "override_lapsed", i)
PROOF
<1> DEFINE soFar == <<w[1], IF w[2] < stNow THEN w[2] ELSE stNow>>
<1>1. stNow \in Nat /\ stNow + 1 \in Nat /\ ~(stNow + 1 < stNow)
  BY DEF StoryTypes
<1>2. \A i \in DOMAIN stCommands : stCommands[i] \in CommandRow /\ RowOk(stCommands[i])
         /\ (stCommands[i].applied # Never => stCommands[i].applied \in Nat)
  BY StoryRow
<1>3. \A a \in DOMAIN stAlerts : stAlerts[a] \in AlertRow
  BY DEF StoryTypes
<1>4. soFar[1] = 0 /\ soFar[2] = stNow
  BY <1>1
<1>5. \A e \in AlertEvents(w) : e.kind \in {"alert_opened", "alert_resolved"} /\ e.at \in Nat
  BY <1>3 DEF AlertEvents, Event, AlertRow, Moments, Within
<1>6. ASSUME NEW e \in CommandEvents(w)
      PROVE  \E i \in DOMAIN stCommands :
                \/ e = Event(stCommands[i].requested, "command_requested", i)
                \/ e = Event(stCommands[i].applied, "command_applied", i) /\ Within(stCommands[i].applied, w)
                \/ /\ e = Event(stCommands[i].until, "override_lapsed", i)
                   /\ stCommands[i].state = "applied" /\ Within(stCommands[i].until, soFar)
                \/ /\ e = Event(stCommands[i].settled, SettledAs[stCommands[i].state], i)
                   /\ stCommands[i].state \notin Live \cup {"applied"} /\ Within(stCommands[i].settled, w)
  BY <1>6 DEF CommandEvents, Lapses
<1>7. \A i \in DOMAIN stCommands : Within(stCommands[i].applied, w) => Event(stCommands[i].applied, "command_applied", i) \in CommandEvents(w)
  BY DEF CommandEvents
<1> HIDE DEF soFar
<1>8. \A i \in DOMAIN stCommands : Within(stCommands[i].applied, w) <=> HasApplied(i, stNow)
  BY <1>1, <1>2 DEF Within, HasApplied, RowOk
<1>9. \A i \in DOMAIN stCommands : stCommands[i].state \notin Live \cup {"applied"} =>
         SettledAs[stCommands[i].state] \in {"command_failed", "command_expired", "command_cancelled", "command_superseded"}
  BY <1>2 DEF CommandRow, Live, SettledAs
<1>10. ASSUME NEW e \in CommandEvents(w)
       PROVE  /\ e.at \in Nat
              /\ e.kind = "command_applied" =>
                    \E i \in DOMAIN stCommands : HasApplied(i, stNow) /\ e = Event(stCommands[i].applied, "command_applied", i)
              /\ e.kind = "override_lapsed" =>
                    \E i \in DOMAIN stCommands : /\ stCommands[i].state = "applied" /\ stCommands[i].until < stNow
                                                 /\ e = Event(stCommands[i].until, "override_lapsed", i)
  <2>1. PICK i \in DOMAIN stCommands :
                \/ e = Event(stCommands[i].requested, "command_requested", i)
                \/ e = Event(stCommands[i].applied, "command_applied", i) /\ Within(stCommands[i].applied, w)
                \/ /\ e = Event(stCommands[i].until, "override_lapsed", i)
                   /\ stCommands[i].state = "applied" /\ Within(stCommands[i].until, soFar)
                \/ /\ e = Event(stCommands[i].settled, SettledAs[stCommands[i].state], i)
                   /\ stCommands[i].state \notin Live \cup {"applied"} /\ Within(stCommands[i].settled, w)
    BY <1>6, <1>10
  <2>2. stCommands[i] \in CommandRow
    BY <1>2
  <2>3. CASE e = Event(stCommands[i].requested, "command_requested", i)
    BY <2>2, <2>3 DEF Event, CommandRow
  <2>4. CASE e = Event(stCommands[i].applied, "command_applied", i) /\ Within(stCommands[i].applied, w)
    <3>1. HasApplied(i, stNow) /\ stCommands[i].applied \in Nat
      BY <1>2, <1>8, <2>4 DEF HasApplied
    <3>2. e.at = stCommands[i].applied /\ e.kind = "command_applied"
      BY <2>4 DEF Event
    <3> QED BY <2>4, <3>1, <3>2
  <2>5. CASE /\ e = Event(stCommands[i].until, "override_lapsed", i)
             /\ stCommands[i].state = "applied" /\ Within(stCommands[i].until, soFar)
    <3>1. e.at = stCommands[i].until /\ e.kind = "override_lapsed" /\ stCommands[i].until \in Nat
      BY <2>2, <2>5 DEF Event, CommandRow
    <3>2. stCommands[i].until < stNow
      BY <1>4, <2>5 DEF Within
    <3> QED BY <2>5, <3>1, <3>2
  <2>6. CASE /\ e = Event(stCommands[i].settled, SettledAs[stCommands[i].state], i)
             /\ stCommands[i].state \notin Live \cup {"applied"} /\ Within(stCommands[i].settled, w)
    <3>1. e.at = stCommands[i].settled /\ e.kind = SettledAs[stCommands[i].state]
      BY <2>6 DEF Event
    <3>2. stCommands[i].settled \in Nat
      BY <2>2, <2>6 DEF CommandRow, Moments, Within
    <3>3. e.kind # "command_applied" /\ e.kind # "override_lapsed"
      BY <1>9, <2>6, <3>1
    <3> QED BY <3>1, <3>2, <3>3
  <2> QED BY <2>1, <2>3, <2>4, <2>5, <2>6
<1>11. \A e \in Events(w) : e.at \in Nat
  BY <1>5, <1>10 DEF Events
<1>12. \A e \in Events(w) : e.kind = "command_applied" =>
          \E i \in DOMAIN stCommands : HasApplied(i, stNow) /\ e = Event(stCommands[i].applied, "command_applied", i)
  BY <1>5, <1>10 DEF Events
<1>13. \A i \in DOMAIN stCommands : HasApplied(i, stNow) => Event(stCommands[i].applied, "command_applied", i) \in Events(w)
  BY <1>7, <1>8 DEF Events
<1> QED BY <1>10, <1>11, <1>12, <1>13

(* Read off any part of the past that keeps the latest apply, the override *)
(* at an instant is the one of that apply.                                 *)
LEMMA ReadsOff ==
    ASSUME StoryInv, OneReportAnInstant, NEW u \in 0..stNow, NEW w, w[1] = 0, w[2] = stNow + 1,
           NEW E \in SUBSET Events(w),
           \A i \in DOMAIN stCommands : Latest(i, u) => Event(stCommands[i].applied, "command_applied", i) \in E
    PROVE  /\ \A i \in DOMAIN stCommands :
                 Latest(i, u) => ReadOff(E, u) = IF stCommands[i].until <= u THEN NoOverride ELSE i
           /\ (\A i \in DOMAIN stCommands : ~HasApplied(i, u)) => ReadOff(E, u) = NoOverride
PROOF
<1> DEFINE A == {e \in E : e.kind = "command_applied" /\ e.at <= u}
           best == CHOOSE e \in A : \A f \in A : f.at <= e.at
<1>1. ReadOff(E, u) = IF A = {} \/ stCommands[best.of].until <= u THEN NoOverride ELSE best.of
  BY DEF ReadOff
<1>2. stNow \in Nat /\ StoryTypes
  BY DEF StoryInv, StoryTypes
<1>3. ASSUME NEW e \in A
      PROVE  \E k \in DOMAIN stCommands : /\ HasApplied(k, u) /\ e.of = k /\ e.at = stCommands[k].applied
                                          /\ stCommands[k].applied \in Nat
  <2>1. e \in Events(w) /\ e.kind = "command_applied" /\ e.at <= u
    BY <1>3
  <2>2. PICK k \in DOMAIN stCommands : HasApplied(k, stNow) /\ e = Event(stCommands[k].applied, "command_applied", k)
    BY <1>2, <2>1, WholePast
  <2>3. e.of = k /\ e.at = stCommands[k].applied
    BY <2>2 DEF Event
  <2>4. stCommands[k].applied \in Nat
    BY <1>2, <2>2, StoryRow DEF HasApplied
  <2>5. HasApplied(k, u)
    BY <2>1, <2>2, <2>3 DEF HasApplied
  <2> QED BY <2>3, <2>4, <2>5
<1>4. ASSUME NEW i \in DOMAIN stCommands, Latest(i, u)
      PROVE  ReadOff(E, u) = IF stCommands[i].until <= u THEN NoOverride ELSE i
  <2>1. PICK ev : ev = Event(stCommands[i].applied, "command_applied", i)
    OBVIOUS
  <2>2. ev.kind = "command_applied" /\ ev.at = stCommands[i].applied /\ stCommands[i].applied <= u /\ stCommands[i].applied \in Nat
        /\ stCommands[i].applied # Never
    BY <1>2, <1>4, <2>1, StoryRow DEF Event, Latest, HasApplied
  <2>3. ev \in A
    BY <1>4, <2>1, <2>2
  <2>4. \A f \in A : f.at <= ev.at
    BY <1>3, <1>4, <2>2 DEF Latest
  <2>5. best \in A /\ \A f \in A : f.at <= best.at
    BY <2>3, <2>4
  <2> HIDE DEF A, best
  <2>6. PICK k \in DOMAIN stCommands : HasApplied(k, u) /\ best.of = k /\ best.at = stCommands[k].applied /\ stCommands[k].applied \in Nat
    BY <1>3, <2>5
  <2>7. stCommands[k].applied = stCommands[i].applied
    BY <2>2, <2>3, <2>4, <2>5, <2>6
  <2>8. k = i
    BY <2>2, <2>7 DEF OneReportAnInstant
  <2> QED BY <1>1, <2>5, <2>6, <2>8
<1>5. ASSUME \A i \in DOMAIN stCommands : ~HasApplied(i, u) PROVE ReadOff(E, u) = NoOverride
  <2>1. A = {}
    <3> HIDE DEF A
    <3> QED BY <1>3, <1>5
  <2> QED BY <1>1, <2>1
<1> QED BY <1>4, <1>5

LEMMA PastIsTold == StoryInv => TimelineTellsTheOverride
PROOF
<1> SUFFICES ASSUME StoryInv, OneReportAnInstant
             PROVE  LET w == <<0, stNow + 1>>
                    IN  /\ \A t \in DOMAIN stInForce : ReadOff(Events(w), t - 1) = stInForce[t]
                        /\ \A limit \in 1..4 :
                              LET told == ZoneTimelineTool(w, limit)
                              IN  (~told.truncated \/ \E e \in told.items : e.kind = "command_applied") =>
                                      ReadOff(told.items, stNow) = ActiveOverride
  BY DEF TimelineTellsTheOverride
<1> DEFINE w == <<0, stNow + 1>>
<1>1. w[1] = 0 /\ w[2] = stNow + 1
  OBVIOUS
<1> HIDE DEF w
<1>2. stNow \in Nat /\ StoryTypes /\ Superseding /\ DOMAIN stInForce = 1..stNow
  BY DEF StoryInv, StoryTypes
<1>3. \A i, u : u \in 0..stNow /\ Latest(i, u) =>
         i \in DOMAIN stCommands /\ Event(stCommands[i].applied, "command_applied", i) \in Events(w)
  <2> SUFFICES ASSUME NEW i, NEW u \in 0..stNow, Latest(i, u)
               PROVE  i \in DOMAIN stCommands /\ Event(stCommands[i].applied, "command_applied", i) \in Events(w)
    OBVIOUS
  <2>1. i \in DOMAIN stCommands /\ stCommands[i].applied # Never /\ stCommands[i].applied <= u
    BY DEF Latest, HasApplied
  <2>2. stCommands[i].applied \in Nat
    BY <1>2, <2>1, StoryRow
  <2>3. HasApplied(i, stNow)
    BY <1>2, <2>1, <2>2 DEF HasApplied
  <2> QED BY <1>1, <1>2, <2>1, <2>3, WholePast
<1>4. ASSUME NEW t \in 1..stNow PROVE ReadOff(Events(w), t - 1) = stInForce[t]
  <2>1. t - 1 \in 0..stNow /\ Remembered(t) /\ OneLatest(t - 1)
    BY <1>2 DEF StoryInv
  <2>2. CASE \A i \in DOMAIN stCommands : ~HasApplied(i, t - 1)
    <3>1. stInForce[t] = NoOverride
      BY <2>1, <2>2 DEF Remembered, HasApplied
    <3>2. ReadOff(Events(w), t - 1) = NoOverride
      BY <1>1, <1>3, <2>1, <2>2, ReadsOff
    <3> QED BY <3>1, <3>2
  <2>3. CASE \E i \in DOMAIN stCommands : HasApplied(i, t - 1)
    <3>1. PICK i \in DOMAIN stCommands : Latest(i, t - 1)
      BY <2>1, <2>3 DEF OneLatest
    <3>2. stInForce[t] = IF stCommands[i].until <= t - 1 THEN NoOverride ELSE i
      BY <2>1, <3>1 DEF Remembered
    <3>3. ReadOff(Events(w), t - 1) = IF stCommands[i].until <= t - 1 THEN NoOverride ELSE i
      BY <1>1, <1>3, <2>1, <3>1, ReadsOff
    <3> QED BY <3>2, <3>3
  <2> QED BY <2>2, <2>3
<1>5. ASSUME NEW E \in SUBSET Events(w),
             \A i \in DOMAIN stCommands : Latest(i, stNow) => Event(stCommands[i].applied, "command_applied", i) \in E
      PROVE  ReadOff(E, stNow) = ActiveOverride
  <2>1. stNow \in 0..stNow /\ OneLatest(stNow)
    BY <1>2 DEF StoryInv
  <2>2. CASE \A i \in DOMAIN stCommands : ~HasApplied(i, stNow)
    <3>1. ActiveIn(stCommands) = {}
      BY <1>2, <2>2 DEF Superseding, Latest, ActiveIn
    <3>2. ReadOff(E, stNow) = NoOverride
      BY <1>1, <1>5, <2>1, <2>2, ReadsOff
    <3> QED BY <1>2, <3>1, <3>2, InForceNow
  <2>3. CASE \E i \in DOMAIN stCommands : HasApplied(i, stNow)
    <3>1. PICK i \in DOMAIN stCommands : Latest(i, stNow)
      BY <2>1, <2>3 DEF OneLatest
    <3>2. ReadOff(E, stNow) = IF stCommands[i].until <= stNow THEN NoOverride ELSE i
      BY <1>1, <1>5, <2>1, <3>1, ReadsOff
    <3> QED BY <1>2, <3>1, <3>2, InForceNow
  <2> QED BY <2>2, <2>3
<1>6. ASSUME NEW limit \in 1..4, ~ZoneTimelineTool(w, limit).truncated
      PROVE  ReadOff(ZoneTimelineTool(w, limit).items, stNow) = ActiveOverride
  <2>1. PICK E : E = ZoneTimeline(w, limit)
    OBVIOUS
  <2>2. E \in SUBSET Events(w) /\ ZoneTimelineTool(w, limit).items = E /\ ~(Cardinality(E) < Cardinality(Events(w)))
    BY <1>6, <2>1 DEF ZoneTimelineTool, ZoneTimeline
  <2>3. IsFiniteSet(Events(w))
    BY <1>2, EventsFinite
  <2>4. Cardinality(Events(w)) \in Nat /\ Cardinality(E) \in Nat /\ Cardinality(E) <= Cardinality(Events(w))
        /\ (Cardinality(Events(w)) = Cardinality(E) => Events(w) = E)
    BY <2>2, <2>3, FS_Subset, FS_CardinalityType
  <2>5. E = Events(w)
    BY <2>2, <2>4
  <2>6. stNow \in 0..stNow
    BY <1>2
  <2>7. \A i \in DOMAIN stCommands : Latest(i, stNow) => Event(stCommands[i].applied, "command_applied", i) \in E
    BY <1>3, <2>5, <2>6
  <2> QED BY <1>5, <2>2, <2>7
<1>7. ASSUME NEW limit \in 1..4, NEW e \in ZoneTimelineTool(w, limit).items, e.kind = "command_applied"
      PROVE  ReadOff(ZoneTimelineTool(w, limit).items, stNow) = ActiveOverride
  <2>1. PICK E : E = ZoneTimeline(w, limit)
    OBVIOUS
  <2> DEFINE Ahead(x) == {f \in Events(w) : Before(f, x)}
  <2>2. E \in SUBSET Events(w) /\ ZoneTimelineTool(w, limit).items = E /\ \A x \in Events(w) : x \in E <=> Cardinality(Ahead(x)) < limit
    BY <2>1 DEF ZoneTimelineTool, ZoneTimeline
  <2>3. \A x : Ahead(x) \subseteq Events(w)
    OBVIOUS
  <2>4. \A x \in Events(w) : x.at \in Nat
    BY <1>1, <1>2, WholePast
  <2>5. PICK k \in DOMAIN stCommands : HasApplied(k, stNow) /\ e = Event(stCommands[k].applied, "command_applied", k)
    BY <1>1, <1>2, <1>7, <2>2, WholePast
  <2>6. e.at = stCommands[k].applied /\ stCommands[k].applied # Never /\ stCommands[k].applied \in Nat
    BY <1>2, <2>5, StoryRow DEF HasApplied, Event
  <2>7. stNow \in 0..stNow
    BY <1>2
  <2>8. ASSUME NEW i \in DOMAIN stCommands, Latest(i, stNow)
        PROVE  Event(stCommands[i].applied, "command_applied", i) \in E
    <3>1. CASE i = k
      BY <1>7, <2>2, <2>5, <3>1
    <3>2. CASE i # k
      <4>1. PICK ev : ev = Event(stCommands[i].applied, "command_applied", i)
        OBVIOUS
      <4>2. ev \in Events(w) /\ ev.at = stCommands[i].applied
        BY <1>3, <2>7, <2>8, <4>1 DEF Event
      <4>3. stCommands[k].applied <= stCommands[i].applied
        BY <2>5, <2>8 DEF Latest
      <4>4. stCommands[k].applied # stCommands[i].applied
        BY <2>6, <3>2 DEF OneReportAnInstant
      <4>5. e.at < ev.at
        BY <2>4, <2>6, <4>2, <4>3, <4>4
      <4>6. ASSUME NEW f \in Events(w), Before(f, ev) PROVE Before(f, e)
        <5>1. f.at >= ev.at
          BY <2>4, <4>2, <4>6 DEF Before
        <5> QED BY <2>4, <2>6, <4>2, <4>5, <5>1 DEF Before
      <4>7. Ahead(ev) \subseteq Ahead(e)
        BY <4>6
      <4> HIDE DEF Ahead
      <4>8. IsFiniteSet(Ahead(e))
        BY <1>2, <2>3, EventsFinite, FS_Subset
      <4>9. Cardinality(Ahead(ev)) <= Cardinality(Ahead(e)) /\ Cardinality(Ahead(e)) \in Nat /\ Cardinality(Ahead(ev)) \in Nat
        BY <4>7, <4>8, FS_Subset, FS_CardinalityType
      <4>10. Cardinality(Ahead(e)) < limit
        BY <1>7, <2>2
      <4>11. ev \in E
        BY <2>2, <4>2, <4>9, <4>10
      <4> QED BY <4>1, <4>11
    <3> QED BY <3>1, <3>2
  <2> QED BY <1>5, <2>2, <2>8
<1> QED BY <1>2, <1>4, <1>6, <1>7 DEF w

LEMMA LapseTold == StoryInv => LapseIsTheMoment
PROOF
<1> DEFINE w == <<0, stNow + 1>>
<1> SUFFICES ASSUME StoryInv, NEW e \in CommandEvents(w), e.kind = "override_lapsed",
                    stCommands[e.of].applied < stCommands[e.of].until
             PROVE  stInForce[e.at] = e.of /\ (e.at + 1 \in DOMAIN stInForce => stInForce[e.at + 1] # e.of)
  BY DEF LapseIsTheMoment
<1>1. w[1] = 0 /\ w[2] = stNow + 1
  OBVIOUS
<1> HIDE DEF w
<1>2. stNow \in Nat /\ StoryTypes /\ DOMAIN stInForce = 1..stNow
  BY DEF StoryInv, StoryTypes
<1>3. PICK i \in DOMAIN stCommands : /\ stCommands[i].state = "applied" /\ stCommands[i].until < stNow
                                    /\ e = Event(stCommands[i].until, "override_lapsed", i)
  BY <1>1, <1>2, WholePast
<1>4. e.of = i /\ e.at = stCommands[i].until
  BY <1>3 DEF Event
<1>5. stCommands[i].until \in Nat /\ i # NoOverride /\ stCommands[i].applied # Never /\ stCommands[i].applied \in Nat
  BY <1>2, <1>3, StoryRow DEF RowOk, CommandRow, NoOverride
<1>6. PICK t : t = stCommands[i].until
  OBVIOUS
<1>7. t \in 1..stNow /\ t + 1 \in 1..stNow /\ stCommands[i].applied <= t - 1 /\ stCommands[i].until > t - 1
      /\ (t + 1) - 1 = t
  BY <1>2, <1>3, <1>4, <1>5, <1>6
<1>8. stInForce[t] = i
  BY <1>3, <1>7 DEF StoryInv, Remembered
<1>9. stInForce[t + 1] # i
  <2>1. Remembered(t + 1)
    BY <1>7 DEF StoryInv
  <2>2. stInForce[t + 1] # NoOverride => stCommands[stInForce[t + 1]].until > t
    BY <1>7, <2>1 DEF Remembered
  <2> QED BY <1>5, <1>6, <1>7, <2>2
<1> QED BY <1>4, <1>6, <1>8, <1>9

LEMMA ListsTold == StoryInv => ListsAreComplete
PROOF
<1> SUFFICES ASSUME StoryInv, NEW w \in StoryWindows
             PROVE  /\ \A t \in DOMAIN stInForce : Within(t - 1, w) /\ stInForce[t] # NoOverride => stInForce[t] \in ControlHistory(w)
                    /\ \A e \in AlertEvents(w) : stAlerts[e.of].own => e.of \in ListAlerts(w)
  BY DEF ListsAreComplete
<1>1. stNow \in Nat /\ StoryTypes /\ DOMAIN stInForce = 1..stNow /\ w[1] \in Nat /\ w[2] \in Nat
  BY DEF StoryInv, StoryTypes, StoryWindows
<1>2. ASSUME NEW t \in 1..stNow, Within(t - 1, w), stInForce[t] # NoOverride PROVE stInForce[t] \in ControlHistory(w)
  <2>1. PICK i : i = stInForce[t]
    OBVIOUS
  <2>2. HasApplied(i, t - 1) /\ stCommands[i].until > t - 1
    BY <1>2, <2>1 DEF StoryInv, Remembered
  <2>3. i \in DOMAIN stCommands /\ stCommands[i].applied # Never /\ stCommands[i].applied <= t - 1
    BY <2>2 DEF HasApplied
  <2>4. /\ stCommands[i].requested \in Nat /\ stCommands[i].until \in Nat /\ stCommands[i].applied \in Nat
        /\ stCommands[i].requested <= stCommands[i].applied
    BY <1>1, <2>3, StoryRow DEF CommandRow, RowOk
  <2>5. t - 1 >= w[1] /\ t - 1 < w[2]
    BY <1>2 DEF Within
  <2>6. stCommands[i].requested < w[2] /\ stCommands[i].until >= w[1]
    BY <1>1, <2>2, <2>3, <2>4, <2>5
  <2> QED BY <2>1, <2>3, <2>6 DEF ControlHistory
<1>3. ASSUME NEW e \in AlertEvents(w), stAlerts[e.of].own PROVE e.of \in ListAlerts(w)
  <2>1. PICK a \in DOMAIN stAlerts : e.of = a /\ (Within(stAlerts[a].opened, w) \/ Within(stAlerts[a].resolved, w))
    BY <1>3 DEF AlertEvents, Event
  <2>2. stAlerts[a] \in AlertRow /\ (stAlerts[a].resolved # Never => stAlerts[a].opened <= stAlerts[a].resolved)
    BY <1>1 DEF StoryTypes
  <2>3. stAlerts[a].opened \in Nat /\ (stAlerts[a].resolved # Never => stAlerts[a].resolved \in Nat)
    BY <2>2 DEF AlertRow, Moments
  <2>4. stAlerts[a].opened < w[2] /\ (stAlerts[a].resolved = Never \/ stAlerts[a].resolved >= w[1])
    BY <1>1, <2>1, <2>2, <2>3 DEF Within
  <2> QED BY <1>3, <2>1, <2>4 DEF ListAlerts
<1> QED BY <1>1, <1>2, <1>3

(* The past of a zone is told as it was: which override was in force, when *)
(* it lapsed, and every override and alert of it on the lists - whatever   *)
(* the rows went through since, and for a timeline cut to its limit.       *)
THEOREM StoryTold == StorySpec => []PastIsToldWhole
PROOF
<1>1. StoryInv => PastIsToldWhole
  BY PastIsTold, LapseTold, ListsTold DEF PastIsToldWhole
<1> QED BY <1>1, StoryKept, PTL
=============================================================================
