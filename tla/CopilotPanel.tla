---------------------------- MODULE CopilotPanel ----------------------------
(***************************************************************************)
(* The copilot panel of the dashboard: its reducers                        *)
(* (apps/web/lib/copilot-panel/run.ts), the reading of a streamed answer   *)
(* (wire.ts), the conversation it is in (thread.ts) and the component that *)
(* posts, reads, polls and catches up (components/panels/CopilotPanel.tsx).*)
(*                                                                         *)
(* The route is seen from the page: it accepts or refuses a request, runs  *)
(* it whether or not the page is listening, streams its events and answers *)
(* GET ?threadId with the thread's turn.  A request has one task per       *)
(* specialist at most.                                                     *)
(***************************************************************************)
EXTENDS Integers, Sequences, FiniteSets, SequencesExt, FiniteSetsExt

CONSTANTS
    Threads,        \* conversations the tab goes through, 1..n
    Specialists,    \* specialists a plan may dispatch
    MaxPanelRequests,    \* bound on the requests and new conversations
    MaxUnread,      \* bound on events written and not yet folded
    MaxGets,        \* bound on GET ?threadId in flight
    MaxFaults,      \* bound on lost connections and answers
    GetMayFail      \* a GET may be answered with an error status

(* The nodes a run is at here (protocol.ts), apart from the specialists a  *)
(* plan dispatches: "work" is where those run, "none" is no node yet.      *)
OtherNodes == {"none", "intake", "orient", "planner", "work", "join", "compose", "verify",
               "control", "confirm", "apply", "declined", "finish"}

ASSUME PanelAssumption ==
    /\ Threads \subseteq Nat /\ 1 \in Threads
    /\ Specialists \cap OtherNodes = {}

VARIABLES
    srv,       \* per thread: request, state, node, task stages, the last turn's tasks
    thread,    \* threadRef
    turn,      \* PanelState.turn
    live,      \* PanelState.live
    previous,  \* live.previous
    post,      \* the POST this tab is waiting on or reading
    queue,     \* events of the stream not yet folded
    polling,
    problem,   \* the notice shown: "none", "dropped", "failed", "refused" or "unreached"
    gets,      \* GETs in flight
    faults

panelvars == <<srv, thread, turn, live, previous, post, queue, polling, problem, gets, faults>>
page == <<turn, live, previous, problem, polling>>

NoTasks == [s \in Specialists |-> "none"]
NoTurn == [thread |-> 0, req |-> 0, running |-> FALSE, plan |-> FALSE, tasks |-> NoTasks]
NoRun == [kind |-> "none", req |-> 0, streaming |-> FALSE, ended |-> "none", last |-> "none",
          finishing |-> [s \in Specialists |-> 0], tasks |-> NoTasks, plan |-> FALSE]
NoPost == [st |-> "none", thread |-> 0, what |-> "none", req |-> 0]
AtRest == [req |-> 0, st |-> "idle", node |-> "none", stage |-> NoTasks, tasks |-> NoTasks]
TurnOf(t) == [thread |-> t, req |-> srv[t].req, running |-> srv[t].st = "running",
              plan |-> srv[t].st = "plan", tasks |-> srv[t].tasks]
-----------------------------------------------------------------------------
(* Reducers.                                                               *)
FreshRun(kind) == [NoRun EXCEPT !.kind = kind, !.streaming = TRUE]

BeginMessage == FreshRun("message")

BeginDecision ==
    [FreshRun("decision") EXCEPT !.req = live.req, !.tasks = live.tasks]

MergeTasks(mine, theirs) == [s \in Specialists |-> IF theirs[s] = "none" THEN mine[s] ELSE theirs[s]]

(* A specialist reports its task's end before its own step: until the step *)
(* arrives it is still finishing.                                          *)
FoldTaskAtOnce(run, e) == [run EXCEPT !.tasks[e.s] = e.status]

FoldTask(run, e) ==
    [run EXCEPT !.tasks[e.s] = e.status,
                !.finishing[e.s] = IF e.status = "done" /\ run.tasks[e.s] # "done" THEN @ + 1 ELSE @]

FoldStep(run, e) ==
    [run EXCEPT !.last = e.node,
                !.finishing = [s \in Specialists |-> IF s = e.node /\ @[s] > 0 THEN @[s] - 1 ELSE @[s]]]

FoldEvent(p, e) ==
    IF e.t = "turn"
    THEN [turn |-> e.turn,
          live |-> IF p.live = NoRun THEN NoRun
                   ELSE [p.live EXCEPT !.tasks = MergeTasks(@, e.turn.tasks), !.ended = "turn"]]
    ELSE IF p.live = NoRun THEN p
    ELSE [p EXCEPT !.live = CASE e.t = "accepted" -> [@ EXCEPT !.req = e.req]
                              [] e.t = "task" -> FoldTask(@, e)
                              [] e.t = "step" -> FoldStep(@, e)
                              [] e.t = "plan" -> [@ EXCEPT !.plan = TRUE]
                              [] e.t = "error" -> [@ EXCEPT !.ended = "error"]]

ApplyEvents(p, events) == FoldLeft(FoldEvent, p, events)

EndRun(run, how) ==
    IF run = NoRun THEN run ELSE [run EXCEPT !.streaming = FALSE, !.ended = IF @ = "none" THEN how ELSE @]

(* A turn read whole keeps the run it answers and drops any other.         *)
ApplyTurn(t) ==
    /\ turn' = t
    /\ live' = CASE live # NoRun /\ ~live.streaming /\ live.req # 0 /\ live.req = t.req
                        -> [live EXCEPT !.tasks = MergeTasks(@, t.tasks)]
                 [] live.streaming -> live
                 [] OTHER -> NoRun

CurrentTurn ==
    CASE turn = NoTurn -> NoTurn
      [] live = NoRun \/ live.kind = "decision" -> turn
      [] OTHER -> IF live.req # 0 /\ live.req = turn.req THEN turn ELSE NoTurn

IsRunning == live.streaming \/ turn.running
Busy == IsRunning \/ post.st # "none"

HasFindings == \E s \in Specialists : live.tasks[s] = "done"

LikelyNext(last) ==
    CASE last = "none" -> IF live.kind = "decision" THEN {"confirm"} ELSE {"intake"}
      [] last = "intake" -> {"orient"}
      [] last \in {"orient", "join"} -> {"planner"}
      [] last = "planner" -> {IF HasFindings THEN "compose" ELSE "control"}
      [] last \in Specialists -> {"join"}
      [] last = "compose" -> {"verify"}
      [] last = "confirm" -> {"apply", "declined"}
      [] last \in {"apply", "declined"} -> {"finish"}
      [] OTHER -> {}

LitSpecialists == {s \in Specialists : live.tasks[s] = "running" \/ live.finishing[s] > 0}

ActiveNodes ==
    CASE ~IsRunning -> IF turn.plan THEN {"confirm"} ELSE {}
      [] IsRunning /\ ~live.streaming -> {}
      [] live.streaming /\ live.plan -> {"confirm"}
      [] OTHER -> IF LitSpecialists # {}
                  THEN LitSpecialists \cup (IF live.last \in {"orient", "join"} THEN {"planner"} ELSE {})
                  ELSE LikelyNext(live.last)
-----------------------------------------------------------------------------
(* The component.  post(): what a send or a decision does at once.         *)
Post(what, run, req) ==
    /\ ~Busy
    /\ post' = [st |-> "sent", thread |-> thread, what |-> what, req |-> req]
    /\ live' = run /\ previous' = live
    /\ queue' = <<>> /\ polling' = FALSE /\ problem' = "none"
    /\ UNCHANGED <<srv, thread, turn, gets, faults>>

Send == MapThenSumSet(LAMBDA t : srv[t].req, Threads) + (thread - 1) < MaxPanelRequests /\ Post("message", BeginMessage, 0)

SendDecision == CurrentTurn.plan /\ Post("decision", BeginDecision, CurrentTurn.req)

StartGet(t) == IF Cardinality(gets) < MaxGets THEN gets' = gets \cup {[thread |-> t, turn |-> NoTurn]}
               ELSE UNCHANGED gets

(* A refusal: 409 when a run holds the thread or the decision no longer    *)
(* matches its plan, another status at any time.  Nothing ran.             *)
Refuse ==
    /\ live' = previous /\ previous' = NoRun

Matches(t) == post.what = "message" \/ (srv[t].st = "plan" /\ srv[t].req = post.req)

Refused(conflict) ==
    /\ post.st = "sent"
    /\ LET t == post.thread
       IN  /\ conflict <=> (srv[t].st = "running" \/ ~Matches(t))
           /\ Refuse /\ problem' = "refused" /\ post' = NoPost
           /\ IF conflict THEN StartGet(t) ELSE UNCHANGED gets
    /\ UNCHANGED <<srv, thread, turn, queue, polling, faults>>

(* The route takes the request and opens its stream, or the answer to a    *)
(* request it took never arrives.  Only a refusal reads live.previous.     *)
Accepted(answered) ==
    /\ post.st = "sent" /\ srv[post.thread].st # "running" /\ Matches(post.thread)
    /\ LET t == post.thread
           msg == post.what = "message"
           n == IF msg THEN srv[t].req + 1 ELSE srv[t].req
       IN  /\ srv' = [srv EXCEPT ![t] = [req |-> n, st |-> "running", node |-> IF msg THEN "intake" ELSE "confirm",
                                         stage |-> NoTasks, tasks |-> IF msg THEN NoTasks ELSE @.tasks]]
           /\ IF answered
              THEN /\ post' = [post EXCEPT !.st = "open", !.req = n]
                   /\ queue' = <<[t |-> "accepted", req |-> n]>>
                   /\ UNCHANGED faults
              ELSE /\ faults < MaxFaults /\ faults' = faults + 1
                   /\ post' = [post EXCEPT !.st = "lost"] /\ UNCHANGED queue
    /\ previous' = NoRun
    /\ UNCHANGED <<thread, turn, live, problem, polling, gets>>

(* No response at all.                                                     *)
Unreached ==
    /\ \/ post.st = "sent" /\ faults < MaxFaults /\ faults' = faults + 1
       \/ post.st = "lost" /\ UNCHANGED faults
    /\ live' = EndRun(live, "lost") /\ problem' = "unreached" /\ post' = NoPost
    /\ StartGet(post.thread) /\ previous' = NoRun
    /\ UNCHANGED <<srv, thread, turn, queue, polling>>

(* One animation frame: every event read, in order, in one update.         *)
Flush ==
    /\ post.st \in {"open", "closed"} /\ queue # <<>>
    /\ LET p == ApplyEvents([turn |-> turn, live |-> live], queue)
       IN  turn' = p.turn /\ live' = p.live
    /\ queue' = <<>>
    /\ UNCHANGED <<srv, thread, previous, post, polling, problem, gets, faults>>

(* The body has been read to its end, or the connection is gone: what      *)
(* arrived whole is folded, and a stream without a turn is caught up with. *)
EndStream(kept) ==
    /\ post.st \in {"open", "closed"}
    /\ LET p == ApplyEvents([turn |-> turn, live |-> live], kept)
           r == EndRun(p.live, "lost")
       IN  /\ turn' = p.turn /\ live' = r /\ queue' = <<>> /\ post' = NoPost
           /\ problem' = (CASE r.ended = "lost" -> "dropped" [] r.ended = "error" -> "failed" [] OTHER -> problem)
           /\ polling' = (polling \/ r.ended = "lost")
           /\ IF r.ended = "error" THEN StartGet(post.thread) ELSE UNCHANGED gets
    /\ UNCHANGED <<srv, thread, previous>>

ReadToTheEnd == post.st = "closed" /\ EndStream(queue) /\ UNCHANGED faults

ConnectionDrops ==
    /\ post.st = "open" /\ faults < MaxFaults /\ faults' = faults + 1
    /\ \E k \in 0..Len(queue) : EndStream(SubSeq(queue, 1, k))

(* GET ?threadId: asked by the poll, read by the route, landing later.     *)
(* POLL_LIMIT outlasts a run's deadline by a minute, and is not reached.   *)
PollTimer ==
    /\ polling /\ Cardinality(gets) < MaxGets
    /\ StartGet(thread)
    /\ UNCHANGED <<srv, thread, page, post, queue, faults>>

GetIsRead(g) ==
    /\ g.turn = NoTurn
    /\ gets' = (gets \ {g}) \cup {[g EXCEPT !.turn = TurnOf(g.thread)]}
    /\ UNCHANGED <<srv, thread, page, post, queue, faults>>

StillWanted(g) == g.thread = thread

GetLands(g) ==
    /\ g.turn # NoTurn /\ gets' = gets \ {g}
    /\ IF StillWanted(g)
       THEN /\ ApplyTurn(g.turn) /\ polling' = g.turn.running
            /\ problem' = IF ~g.turn.running /\ problem = "dropped" THEN "none" ELSE problem
       ELSE UNCHANGED <<turn, live, polling, problem>>
    /\ UNCHANGED <<srv, thread, previous, post, queue, faults>>

(* An answer with an error status ends the polling; no answer does not.    *)
GetAnswersError(g) ==
    /\ GetMayFail /\ faults < MaxFaults /\ faults' = faults + 1
    /\ gets' = gets \ {g}
    /\ polling' = (polling /\ ~StillWanted(g))
    /\ UNCHANGED <<srv, thread, turn, live, previous, problem, post, queue>>

GetIsLost(g) ==
    /\ faults < MaxFaults /\ faults' = faults + 1
    /\ gets' = gets \ {g}
    /\ UNCHANGED <<srv, thread, page, post, queue>>

(* New conversation: the stream is aborted and the panel starts clean,     *)
(* reading back what the server holds.  Nothing of a run on the thread the *)
(* tab has left can reach the page any more, so its state is let go.       *)
NewThread ==
    /\ thread + 1 \in Threads /\ thread' = thread + 1
    /\ turn' = NoTurn /\ live' = NoRun /\ previous' = NoRun /\ queue' = <<>> /\ post' = NoPost
    /\ polling' = FALSE /\ problem' = "none"
    /\ StartGet(thread + 1)
    /\ srv' = [srv EXCEPT ![thread] = AtRest]
    /\ UNCHANGED faults
-----------------------------------------------------------------------------
(* The run behind the stream.  Its events reach this page only while the   *)
(* page reads it, and a slow reader holds it up.                           *)
Listening(t) == post.st = "open" /\ post.thread = t
Emit(t, events) ==
    IF Listening(t) THEN Len(queue) < MaxUnread /\ queue' = queue \o events ELSE UNCHANGED queue
RunningAt(t) == srv[t].st = "running"
ToNode(t, from, to) ==
    /\ srv[t].node = from
    /\ srv' = [srv EXCEPT ![t].node = to]
    /\ Emit(t, <<[t |-> "step", node |-> from]>>)

(* intake, orient; the planner after it has dispatched, or once it has     *)
(* findings; the join; then the answer, or control and its plan.           *)
Dispatched(t) == \E s \in Specialists : srv[t].stage[s] # "none"
Idle(t) == \A s \in Specialists : srv[t].stage[s] \in {"none", "over"}
NodeEnds(t) ==
    /\ RunningAt(t)
    /\ \/ ToNode(t, "intake", "orient") \/ ToNode(t, "orient", "planner")
       \/ Dispatched(t) /\ ~Idle(t) /\ ToNode(t, "planner", "work")
       \/ Idle(t) /\ Dispatched(t) /\ ToNode(t, "join", "planner")
       \/ Idle(t) /\ Dispatched(t) /\ ToNode(t, "planner", "compose")
       \/ Idle(t) /\ ~Dispatched(t) /\ ToNode(t, "planner", "control")
       \/ ToNode(t, "compose", "finish") \/ ToNode(t, "confirm", "finish")
    /\ UNCHANGED <<thread, page, post, gets, faults>>

TaskBegins(t, s) ==
    /\ RunningAt(t) /\ srv[t].node = "planner" /\ srv[t].stage[s] = "none"
    /\ \A q \in Specialists : srv[t].stage[q] # "over"
    /\ srv' = [srv EXCEPT ![t].stage[s] = "running", ![t].tasks[s] = "running"]
    /\ Emit(t, <<[t |-> "task", s |-> s, status |-> "running"]>>)
    /\ UNCHANGED <<thread, page, post, gets, faults>>

TaskEnds(t, s) ==
    /\ RunningAt(t) /\ srv[t].node = "work" /\ srv[t].stage[s] = "running"
    /\ srv' = [srv EXCEPT ![t].stage[s] = "ended", ![t].tasks[s] = "done"]
    /\ Emit(t, <<[t |-> "task", s |-> s, status |-> "done"]>>)
    /\ UNCHANGED <<thread, page, post, gets, faults>>

SpecialistSteps(t, s) ==
    /\ RunningAt(t) /\ srv[t].stage[s] = "ended"
    /\ srv' = [srv EXCEPT ![t].stage[s] = "over",
                          ![t].node = IF \A q \in Specialists \ {s} : srv[t].stage[q] \in {"none", "over"}
                                      THEN "join" ELSE @]
    /\ Emit(t, <<[t |-> "step", node |-> s]>>)
    /\ UNCHANGED <<thread, page, post, gets, faults>>

(* The run ends: its turn, the plan it is suspended on, or an error.       *)
RunEnds(t, how) ==
    /\ RunningAt(t)
    /\ how = "turn" <=> srv[t].node = "finish"
    /\ how = "plan" => srv[t].node = "control"
    /\ srv' = [srv EXCEPT ![t] = [@ EXCEPT !.st = IF how = "plan" THEN "plan" ELSE "idle",
                                           !.node = "none", !.stage = NoTasks]]
    /\ LET end == [t |-> "turn", turn |-> [TurnOf(t) EXCEPT !.running = FALSE, !.plan = how = "plan"]]
       IN  Emit(t, CASE how = "turn" -> <<end>>
                     [] how = "plan" -> <<[t |-> "plan"], end>>
                     [] how = "error" -> <<[t |-> "error"]>>)
    /\ post' = IF Listening(t) THEN [post EXCEPT !.st = "closed"] ELSE post
    /\ UNCHANGED <<thread, page, gets, faults>>

PanelInit ==
    /\ srv = [t \in Threads |-> AtRest]
    /\ thread = 1 /\ turn = NoTurn /\ live = NoRun /\ previous = NoRun /\ post = NoPost
    /\ queue = <<>> /\ polling = FALSE /\ problem = "none" /\ gets = {} /\ faults = 0

RouteSteps(t) ==
    \/ NodeEnds(t) \/ \E h \in {"turn", "plan", "error"} : RunEnds(t, h)
    \/ \E s \in Specialists : TaskBegins(t, s) \/ TaskEnds(t, s) \/ SpecialistSteps(t, s)
PostAnswered == Accepted(TRUE) \/ (post.st = "lost" /\ Unreached) \/ \E c \in BOOLEAN : Refused(c)
GetSteps == \E g \in gets : GetIsRead(g) \/ GetLands(g)

PanelNext ==
    \/ Send \/ SendDecision \/ NewThread \/ Flush \/ ReadToTheEnd \/ PollTimer \/ PostAnswered \/ GetSteps
    \/ ConnectionDrops \/ Accepted(FALSE) \/ Unreached
    \/ \E g \in gets : GetAnswersError(g) \/ GetIsLost(g)
    \/ RouteSteps(thread)

PanelSpec == PanelInit /\ [][PanelNext]_panelvars
-----------------------------------------------------------------------------
(* The panel shows only the conversation it is in: an answer that arrives  *)
(* after New conversation belongs to a thread the operator has left.       *)
OwnThreadOnly == turn # NoTurn => turn.thread = thread

(* Once everything the route wrote has been folded, the specialists the    *)
(* diagram lights are exactly the ones at work on the server, from their   *)
(* dispatch to their own step.                                             *)
LitAreAtWork ==
    LET t == post.thread
    IN  post.st = "open" /\ queue = <<>> /\ live.streaming =>
            ActiveNodes \cap Specialists = {s \in Specialists : srv[t].stage[s] \in {"running", "ended"}}

(* A refused request leaves no trace: the run that was on screen is back   *)
(* as it was, and the request that never ran is not part of it.            *)
RefusedLeavesNoTrace ==
    [][problem' = "refused" /\ problem # "refused" =>
         /\ live' = previous /\ ~live'.streaming
         /\ turn' = turn]_panelvars

(* What the panel shows is its own thread's, is lit only while at work,    *)
(* and never includes a request that was refused (CopilotPanel.tsx).       *)
PanelIsSound == [](OwnThreadOnly /\ LitAreAtWork) /\ RefusedLeavesNoTrace

(* The panel never stays busy: whatever connections and answers are lost,  *)
(* a run on screen comes to its end there too.                             *)
PanelSettles == Busy ~> ~Busy
=============================================================================
