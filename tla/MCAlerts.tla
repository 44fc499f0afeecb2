------------------------------ MODULE MCAlerts ------------------------------
(***************************************************************************)
(* Alerts and their notifications on five small instances, one chosen at   *)
(* the start.  The outbox stays as it began in the first three, the engine *)
(* in the last two.                                                        *)
(*   "replicas"  two engines over one target with fixed rules, which are   *)
(*               read only at a start since a reload would find the same,  *)
(*               a crash or a rolled-back transaction;                     *)
(*   "raises"    one engine, rules that change, refreshes that overlap;    *)
(*   "cooldown"  one engine that does not restart, transactions that take  *)
(*               time, roll back or lose their answer;                     *)
(*   "lease"     two passes over an alert with two destinations, under a   *)
(*               lease longer than a batch of slow sends;                  *)
(*   "recovery"  the same with passes of one row slower than their lease.  *)
(***************************************************************************)
EXTENDS AlertEngine, NotificationOutbox

VARIABLE mode

Fixed == {Targets}              \* the rules and the registry never change
Changing == SUBSET Targets      \* rules are disabled and enabled, sensors come and go

Replicas == INSTANCE AlertEngine WITH
    ConsecutiveBreaches <- 1, Cooldown <- 1, Configurations <- Fixed,
    MaxLatency <- 0, MaxReads <- 0, Faults <- {"crash", "rollback"}, MaxFaults <- 1
Raises == INSTANCE AlertEngine WITH Cooldown <- 1, MaxLatency <- 0, MaxFaults <- 1
Cooling == INSTANCE AlertEngine WITH
    Configurations <- Fixed, MaxReads <- 1, Faults <- {"rollback", "lostAnswer"}
Recovering == INSTANCE NotificationOutbox WITH Batch <- 1, Lease <- 1

mcvars == <<vars, outboxvars, mode>>

\* The instances of one engine: the others are never deployed.
OneEngine == \A e \in Engines \ {CHOOSE e \in Engines : TRUE} : phase'[e] = "new"

Alerting(replicas, raises, cooling) ==
    /\ \/ mode = "replicas" /\ replicas
       \/ mode = "raises" /\ raises /\ OneEngine
       \/ mode = "cooldown" /\ cooling /\ OneEngine
    /\ UNCHANGED <<mode, outboxvars>>
Notifying(lease, recovery) ==
    /\ \/ mode = "lease" /\ lease
       \/ mode = "recovery" /\ recovery
    /\ UNCHANGED <<mode, vars>>

MCInit ==
    /\ OutboxInit
    /\ \/ mode \in {"replicas", "lease", "recovery"} /\ Replicas!Init
       \/ mode = "raises" /\ Raises!Init
       \/ mode = "cooldown" /\ Cooling!Init

MCNext ==
    \/ Alerting(Replicas!Next, Raises!Next, Cooling!Next)
    \/ Notifying(OutboxNext, Recovering!OutboxNext)

(* Each component's own fairness, where liveness is in question.  One mode *)
(* moves at a time, so a conjunct may stand for a step of each.            *)
Step(replicas, raises, recovery) ==
    Alerting(replicas, raises, FALSE) \/ Notifying(FALSE, recovery)
MCFairness ==
    /\ WF_mcvars(Step(Replicas!Tick, Raises!Tick, Recovering!OutboxTick))
    /\ \A e \in Engines :
         /\ WF_mcvars(Step(FALSE, Raises!RefreshRead(e), FALSE))
         /\ \A C \in Configurations : WF_mcvars(Step(C = Targets /\ Replicas!refresh(e, C), Raises!refresh(e, C), FALSE))
         /\ WF_mcvars(Step(Replicas!start(e) \/ Replicas!loadLiveAlerts(e) \/ Replicas!StartTimers(e),
                           Raises!start(e) \/ Raises!loadLiveAlerts(e) \/ Raises!StartTimers(e), FALSE))
         /\ \A t \in Targets : /\ WF_mcvars(Step(Replicas!Evaluate(e, t), Raises!Evaluate(e, t), FALSE))
                               /\ WF_mcvars(Step(Replicas!Job(e, t), Raises!Job(e, t), FALSE))
    /\ \A p \in Passes : /\ WF_mcvars(Step(FALSE, FALSE, Recovering!retryPending(p)))
                         /\ WF_mcvars(Step(FALSE, FALSE, Recovering!Deliver(p)))

MCSpec == MCInit /\ [][MCNext]_mcvars /\ MCFairness
-----------------------------------------------------------------------------
(* AlertEngine's own CooldownHolds, for an engine that does not restart:   *)
(* the cooldown is the minimum gap between a target's alerts (index.ts,    *)
(* #open and #close).                                                      *)
CooldownOfOneEngine == [][mode = "cooldown" => Cooling!CooldownKept]_mcvars

(* What holds of engines and rows over crashes, rollbacks and lost         *)
(* answers: their types, that a delivered row was received, and that two   *)
(* passes hold a row only once one has outlasted its lease; and where the  *)
(* lease covers a batch, that no two passes hold a row and attempts bound  *)
(* the sends (notify.ts, #claim and retryPending).                         *)
AlertsAreSound ==
    /\ TypeOK /\ OutboxTypeOK /\ OwnTypeOK
    /\ DeliveredWasReceived
    /\ OneSenderInTime
    /\ mode = "lease" => OneSender /\ SendsBounded

(* A condition that stays clear ends with its alert resolved, over         *)
(* restarts, failures and changed rules (index.ts, start and #close).      *)
ResolvedInTheEnd == /\ mode = "replicas" => Replicas!ResolvesWhenClear
                    /\ mode = "raises" => ResolvesWhenClear

(* Where rules change and refreshes overlap, a lasting breach ends with a  *)
(* live alert, unless the answer of a close was lost (index.ts, #evaluate).*)
RaisedInTheEnd == mode = "raises" => RaisesWhenBreaching

(* Where passes outlast their lease, every row of a live alert is          *)
(* delivered or has used up its attempts (notify.ts, retryPending).        *)
RowsSettle == mode = "recovery" => SettlesWhileLive

(* Nothing is left hanging, each where its component promises it: clear    *)
(* conditions are resolved, lasting breaches raised, and their rows        *)
(* settled.                                                                *)
AlertsSettle == ResolvedInTheEnd /\ RaisedInTheEnd /\ RowsSettle
=============================================================================
