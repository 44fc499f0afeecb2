-------------------------- MODULE MCSimulationRuns --------------------------
(***************************************************************************)
(* The two simulations: three deployments of the what-if worker and two    *)
(* of the device simulator, one chosen at the start; the other stays as it *)
(* began.                                                                  *)
(*   "panel"    a copilot call beside a person's panel, a worker with two  *)
(*              permits, one failure;                                      *)
(*   "pair"     two copilot calls, one permit, and calls that time out;    *)
(*   "alone"    one copilot call of up to two runs, and two failures;      *)
(*   "gateway"  the device simulator polling for commands (no spike on the *)
(*              setpoint point: a drift misreports it as well);            *)
(*   "meter"    the device simulator and its meter, without commands.      *)
(***************************************************************************)
EXTENDS SimulationRuns, DeviceFeed

VARIABLE mode

Pair == INSTANCE SimulationRuns WITH
  Calling <- Tools, People <- {}, MaxConcurrentRuns <- 1, MaxFaults <- 0
Alone == INSTANCE SimulationRuns WITH People <- {}, Specs <- 2, MaxFaults <- 2

mcvars == <<vars, feedvars, mode>>

\* A drift downwards or upwards; a spike to double.
FaultSizes == {-1, 2}

InMode(panelled, pair, alone) ==
  /\ \/ mode = "panel" /\ panelled
     \/ mode = "pair" /\ pair
     \/ mode = "alone" /\ alone
  /\ UNCHANGED <<mode, feedvars>>

Feeding(A) ==
  /\ \/ mode = "gateway" /\ A /\ ~registered' /\ injected'["setpoint"] # "spike"
     \/ mode = "meter" /\ A /\ commands' = <<>>
  /\ UNCHANGED <<mode, vars>>

MCInit ==
  /\ FeedInit
  /\ mode = "meter" \/ ~registered
  /\ \/ mode \in {"panel", "gateway", "meter"} /\ Init
     \/ mode = "pair" /\ Pair!Init
     \/ mode = "alone" /\ Alone!Init

MCNext == InMode(Next, Pair!Next, Alone!Next) \/ Feeding(FeedNext)

MCSpec ==
  /\ MCInit /\ [][MCNext]_mcvars
  /\ \A r \in Runs : WF_mcvars(InMode(TaskStep(r), Pair!TaskStep(r), Alone!TaskStep(r)))
  /\ WF_mcvars(InMode(Restart, Pair!Restart, Alone!Restart))
  /\ WF_mcvars(InMode(Tick, Pair!Tick, Alone!Tick))
  /\ WF_mcvars(InMode(panel_next, FALSE, FALSE))
  /\ WF_mcvars(InMode(Serve, Pair!Serve, Alone!Serve))
  /\ \A c \in Tools : WF_mcvars(InMode(ToolStep(c), Pair!ToolStep(c), Alone!ToolStep(c)))
  /\ WF_mcvars(Feeding(Start)) /\ WF_mcvars(Feeding(PollTimer)) /\ WF_mcvars(Feeding(FeedFlush))
  /\ WF_mcvars(Feeding(FeedTick(Points)))
  /\ \A i \in PollSlots : WF_mcvars(Feeding(PollStep(i)))
-----------------------------------------------------------------------------
(* DeviceFeed's own FeedFollowsOverrides, where the gateway is what moves: *)
(* the setpoint point ends up reporting the override in force, in whatever *)
(* order overlapping polls finished (simulator/index.ts, pollCommands).    *)
PointFollowsOverrides == mode = "gateway" => FeedFollowsOverrides

(* The device simulator's points tell the truth: the stored meter never    *)
(* goes back over restarts, and the setpoint follows the overrides         *)
(* (simulator/index.ts).                                                   *)
FeedIsTrue == MeterNeverRewinds /\ PointFollowsOverrides
=============================================================================
