----------------------------- MODULE MCCopilot -----------------------------
(***************************************************************************)
(* Four small copilots, one chosen at the start; the panel stays as it     *)
(* began in the first two and the graph in the last two.                   *)
(*   "ask"      one request of rich planning: a wave of two tasks, one     *)
(*              repair, two drafts, a plan or a check;                     *)
(*   "approve"  two requests that go straight to the controller, with runs *)
(*              that fail, so that plans are superseded, expire, and are   *)
(*              decided on twice;                                          *)
(*   "panel"    the panel over its route, with lost connections;           *)
(*   "errors"   the panel when a GET may be answered with an error status. *)
(***************************************************************************)
EXTENDS CopilotTurn, CopilotPanel

VARIABLE mode

D(next, tasks, sims, control, ctlMode, allowControl, known) ==
  [next |-> next, tasks |-> tasks, sims |-> sims, control |-> control, mode |-> ctlMode,
   allowControl |-> allowControl, allowSimulation |-> sims > 0, known |-> known,
   talks |-> next = "finish"]

MCDecisions ==
  {D("dispatch", 2, 1, FALSE, "propose", FALSE, TRUE),
   D("dispatch", 1, 0, TRUE, "propose", TRUE, TRUE),
   D("control", 0, 0, TRUE, "check", TRUE, TRUE),
   D("compose", 0, 0, FALSE, "propose", FALSE, TRUE),
   D("finish", 0, 0, FALSE, "propose", FALSE, TRUE),
   D("control", 0, 0, TRUE, "propose", FALSE, FALSE)}

MCPlans == {D("control", 0, 0, TRUE, "propose", TRUE, TRUE)}

Approve == INSTANCE CopilotTurn WITH
  Decisions <- MCPlans, Viewers <- {TRUE}, Failures <- TRUE, MaxRequests <- 2,
  MaxModelCalls <- 2, MaxDrafts <- 1, MaxPlannerRepairs <- 0, MaxEvidence <- 1,
  DeadlineS <- 1, MaxClock <- 3

Erring == INSTANCE CopilotPanel WITH GetMayFail <- TRUE, MaxPanelRequests <- 1

mcvars == <<vars, panelvars, mode>>

InMode(ask, approve) ==
  /\ \/ mode = "ask" /\ ask
     \/ mode = "approve" /\ approve
  /\ UNCHANGED <<mode, panelvars>>
OnPanel(panel, errors) ==
  /\ \/ mode = "panel" /\ panel
     \/ mode = "errors" /\ errors
  /\ UNCHANGED <<mode, vars>>

\* a request of its own, without failures: what StopIsHeard is about
AskInit == Init /\ PanelInit /\ mode = "ask"
AskSpec == AskInit /\ [][InMode(Next, FALSE)]_mcvars

MCFairness ==
  /\ WF_mcvars(InMode(LocalStep, Approve!LocalStep))
  /\ WF_mcvars(InMode(Tick, Approve!Tick))
  /\ WF_mcvars(InMode(Aborted /\ PlannerReply, Approve!Aborted /\ Approve!PlannerReply))
  /\ WF_mcvars(InMode(Aborted /\ ComposeReply, Approve!Aborted /\ Approve!ComposeReply))
  /\ \A t \in 0..MaxTasksPerRequest :
       WF_mcvars(InMode(Aborted /\ AgentReply(t), Approve!Aborted /\ Approve!AgentReply(t)))
  /\ WF_mcvars(OnPanel(Flush, FALSE)) /\ WF_mcvars(OnPanel(ReadToTheEnd, FALSE))
  /\ WF_mcvars(OnPanel(PollTimer, FALSE)) /\ WF_mcvars(OnPanel(PostAnswered, FALSE))
  /\ WF_mcvars(OnPanel(GetSteps, FALSE)) /\ WF_mcvars(OnPanel(RouteSteps(thread), FALSE))

MCInit == Init /\ PanelInit /\ mode \in {"ask", "approve", "panel", "errors"}
MCNext == InMode(Next, Approve!Next) \/ OnPanel(PanelNext, Erring!PanelNext)

MCSpec == MCInit /\ [][MCNext]_mcvars /\ MCFairness
----------------------------------------------------------------------------
(* The panel's own PanelSettles, where no GET is answered with an error    *)
(* status (one that is ends the polling for good): whatever connections    *)
(* and answers are lost, a run on screen comes to its end there too        *)
(* (CopilotPanel.tsx, rehydrate and the poll timer).                       *)
ScreenSettles == mode # "errors" => PanelSettles

(* Neither a run of the graph nor the panel that shows it stays busy for   *)
(* ever: Stop, the deadline, lost connections and failed requests all lead *)
(* to an end (registry.ts, CopilotPanel.tsx).                              *)
TurnsAndScreensSettle == TurnEnds /\ ScreenSettles
=============================================================================
