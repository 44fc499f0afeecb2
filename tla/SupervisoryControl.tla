------------------------- MODULE SupervisoryControl -------------------------
(***************************************************************************)
(* Supervisory control of one tenant's building: operators issue, cancel   *)
(* and configure through HTTP handlers (server.ts, control/service.ts),    *)
(* gateways pull commands through claimForGateway and report what the      *)
(* equipment said, and the rows of control_commands (control/store.ts,     *)
(* migration 017) are the only state they share.                           *)
(*                                                                         *)
(* Row-level security keeps tenants apart, so one tenant is modelled.      *)
(* Every `await` of a handler is a boundary between two actions: what was  *)
(* read before it may be stale after it.  A database transaction is one    *)
(* action.  One clock stands for Date.now() and the database's now().      *)
(* Columns that no decision reads (reason, previous_temp_c, attempts,      *)
(* settled_at, outcome_detail) are left out.                               *)
(***************************************************************************)
EXTENDS Envelope, FiniteSets

CONSTANTS
    Zones,          \* the tenant's zones
    Users,          \* people, each with at most one request in flight
    Gateways,       \* claimants: building gateways, the device simulator
    Commands,       \* ids for control_commands rows (bounds how many)
    Temps,          \* the setpoints a request may name
    Durations,      \* the durationS a request may name; Null when omitted
    SettingsSpace,  \* what the control_settings row may hold
    RoleSpace,      \* what memberRole may answer; Null for a non-member
    BaselineSpace,  \* designed setpoints; Null for a zone with no profile
    EquipmentSpace, \* sets of statuses of a zone's serving equipment
    QualitySpace,   \* qualities a stored reading may carry
    ClaimLimit,     \* CONTROL_CLAIM_MAX
    MaxTime,        \* bound on the clock
    MaxFaults       \* bound on crashes and lost responses

ASSUME ControlAssumption ==
    /\ Null \notin Zones /\ Null \notin Gateways /\ Null \notin Commands
    /\ Null \notin Roles /\ Null \notin Settings
    /\ Temps \subseteq Int
    /\ Durations \subseteq (Nat \ {0}) \cup {Null}
    /\ SettingsSpace \subseteq Settings
    /\ RoleSpace \subseteq Roles \cup {Null}
    /\ BaselineSpace \subseteq Int \cup {Null}
    /\ EquipmentSpace \subseteq SUBSET EquipmentStatuses
    /\ QualitySpace \subseteq {"good", "bad"}
    /\ ClaimLimit \in Nat \ {0} /\ MaxTime \in Nat /\ MaxFaults \in Nat

VARIABLES
    clock,      \* now
    settings,   \* the control_settings row
    role,       \* tenant_members: each user's role, or Null
    baseline,   \* thermal_profiles.setpoint_temp_c of each zone
    equipment,  \* statuses of the equipment serving each zone
    feedback,   \* latest stored temperature reading of each zone
    cmd,        \* the rows of control_commands
    op,         \* the request handler of each user
    poll,       \* the claimForGateway call of each gateway
    held,       \* commands a gateway was handed and has not reported
    written,    \* commands a gateway has written to the equipment
    faults      \* crashes and lost responses so far

world == <<settings, role, baseline, equipment, feedback>>
vars == <<clock, settings, role, baseline, equipment, feedback, cmd, op,
          poll, held, written, faults>>

-----------------------------------------------------------------------------
States == {"none", "pending", "dispatched", "applied", "failed", "expired",
           "cancelled", "superseded"}

(* The predicate of control_commands_one_live_idx.                         *)
Live == {"pending", "dispatched"}

Rows == [state : States, zone : Zones \cup {Null}, setpointTempC : Int,
         requestedBy : Users \cup {Null}, requestedAt : Nat,
         expiresAt : Int, effectiveUntil : Int,
         claimedBy : Gateways \cup {Null}]

(* An id that no row has taken yet.                                        *)
NoRow == [state |-> "none", zone |-> Null, setpointTempC |-> 0,
          requestedBy |-> Null, requestedAt |-> 0, expiresAt |-> 0,
          effectiveUntil |-> 0, claimedBy |-> Null]

RowsOf(z) == {c \in Commands : cmd[c].state # "none" /\ cmd[c].zone = z}

(* The rows activeOverrides and the `override` subquery select.            *)
activeOverrides(z) ==
    {c \in RowsOf(z) : cmd[c].state = "applied"
                       /\ cmd[c].effectiveUntil > clock}

Latest(S, time(_)) == CHOOSE c \in S : \A d \in S : time(d) <= time(c)

activeOverrideTempC(z) ==
    IF activeOverrides(z) = {} THEN Null
    ELSE LET until(c) == cmd[c].effectiveUntil
         IN  cmd[Latest(activeOverrides(z), until)].setpointTempC

(* Every row counts, whatever became of the command.                       *)
lastCommandAt(z) ==
    IF RowsOf(z) = {} THEN Null
    ELSE LET at(c) == cmd[c].requestedAt
         IN  cmd[Latest(RowsOf(z), at)].requestedAt

(* Everything the envelope needs about one zone, in one query.             *)
loadZoneContext(z) ==
    [baselineTempC       |-> baseline[z],
     activeOverrideTempC |-> activeOverrideTempC(z),
     equipment           |-> equipment[z],
     feedback            |-> feedback[z],
     lastCommandAt       |-> lastCommandAt(z),
     commandInFlight     |-> \E c \in RowsOf(z) : cmd[c].state \in Live]

-----------------------------------------------------------------------------
(* Operators: POST /control/commands, .../cancel and /control/settings.    *)

IdleOp == [pc |-> "idle", zone |-> Null, role |-> Null, settings |-> Null,
           ctx |-> Null, setpointTempC |-> 0, expiresAt |-> 0,
           effectiveUntil |-> 0]

(* Broken variant: a non-member is not turned away.                        *)
IssueStartAnyone(u) ==
    /\ op[u].pc = "idle"
    /\ \E z \in Zones :
         op' = [op EXCEPT ![u] = [IdleOp EXCEPT !.pc = "loading", !.zone = z,
                                               !.role = role[u]]]
    /\ UNCHANGED <<clock, world, cmd, poll, held, written, faults>>

(* A request arrives and memberRole answers; a non-member is refused on    *)
(* the spot, without a further step.                                       *)
IssueStart(u) ==
    /\ op[u].pc = "idle"
    /\ role[u] # Null
    /\ \E z \in Zones :
         op' = [op EXCEPT ![u] = [IdleOp EXCEPT !.pc = "loading", !.zone = z,
                                               !.role = role[u]]]
    /\ UNCHANGED <<clock, world, cmd, poll, held, written, faults>>

(* Promise.all: the settings row and the zone context are read by two      *)
(* transactions, in either order.  The first answer waits for the second.  *)
IssueSettings(u) ==
    /\ op[u].pc = "loading"
    /\ op[u].settings = Null /\ op[u].ctx = Null
    /\ op' = [op EXCEPT ![u].settings = settings]
    /\ UNCHANGED <<clock, world, cmd, poll, held, written, faults>>

IssueZone(u) ==
    /\ op[u].pc = "loading"
    /\ op[u].settings = Null /\ op[u].ctx = Null
    /\ op' = [op EXCEPT ![u].ctx = loadZoneContext(op[u].zone)]
    /\ UNCHANGED <<clock, world, cmd, poll, held, written, faults>>

(* The second read answers and the envelope runs.  The rest of the request *)
(* (setpoint, duration, dry run) is first read here, so it is chosen here. *)
(* A refusal and a dry run end the request.                                *)
IssueJudge(u) ==
    /\ op[u].pc = "loading"
    /\ op[u].settings # Null \/ op[u].ctx # Null
    /\ \E t \in Temps, d \in Durations, dryRun \in BOOLEAN :
         LET s == IF op[u].settings # Null THEN op[u].settings ELSE settings
             z == IF op[u].ctx # Null THEN op[u].ctx
                                     ELSE loadZoneContext(op[u].zone)
             v == evaluate([setpointTempC |-> t, durationS |-> d],
                           s, op[u].role, z, clock)
         IN  op' = [op EXCEPT ![u] =
                      IF v.ok /\ ~ dryRun
                      THEN [IdleOp EXCEPT !.pc = "inserting",
                              !.zone = op[u].zone, !.setpointTempC = t,
                              !.expiresAt = v.expiresAt,
                              !.effectiveUntil = v.effectiveUntil]
                      ELSE IdleOp]
    /\ UNCHANGED <<clock, world, cmd, poll, held, written, faults>>

(* control_commands_window_ck                                              *)
WindowOk(r) == r.effectiveUntil > r.expiresAt

(* control_commands_one_live_idx                                           *)
OneLiveIndexAllows(z) == \A c \in RowsOf(z) : cmd[c].state \notin Live

(* The INSERT.  The index turns a lost race into a refusal and the CHECK   *)
(* into an error; either way no row appears.                               *)
insertCommand(u) ==
    /\ op[u].pc = "inserting"
    /\ op' = [op EXCEPT ![u] = IdleOp]
    /\ IF WindowOk(op[u]) /\ OneLiveIndexAllows(op[u].zone)
       THEN \E c \in Commands :
              /\ cmd[c].state = "none"
              /\ cmd' = [cmd EXCEPT ![c] =
                   [state |-> "pending", zone |-> op[u].zone,
                    setpointTempC |-> op[u].setpointTempC,
                    requestedBy |-> u, requestedAt |-> clock,
                    expiresAt |-> op[u].expiresAt,
                    effectiveUntil |-> op[u].effectiveUntil,
                    claimedBy |-> Null]]
       ELSE UNCHANGED cmd
    /\ UNCHANGED <<clock, world, poll, held, written, faults>>

(* Cancelling: the role is read, then the row is updated.                  *)
CancelStart(u) ==
    /\ op[u].pc = "idle"
    /\ role[u] \notin {Null, "viewer"}
    /\ op' = [op EXCEPT ![u].pc = "cancelling"]
    /\ UNCHANGED <<clock, world, cmd, poll, held, written, faults>>

cancelCommand(u) ==
    /\ op[u].pc = "cancelling"
    /\ op' = [op EXCEPT ![u] = IdleOp]
    /\ \E c \in Commands :
         cmd' = IF cmd[c].state \in Live
                THEN [cmd EXCEPT ![c].state = "cancelled"]
                ELSE cmd
    /\ UNCHANGED <<clock, world, poll, held, written, faults>>

(* Changing the envelope and the kill switch: an owner's or an admin's.    *)
SettingsStart(u) ==
    /\ op[u].pc = "idle"
    /\ role[u] \in {"owner", "admin"}
    /\ op' = [op EXCEPT ![u].pc = "configuring"]
    /\ UNCHANGED <<clock, world, cmd, poll, held, written, faults>>

updateSettings(u) ==
    /\ op[u].pc = "configuring"
    /\ op' = [op EXCEPT ![u] = IdleOp]
    /\ settings' \in SettingsSpace
    /\ UNCHANGED <<clock, role, baseline, equipment, feedback, cmd, poll,
                   held, written, faults>>

-----------------------------------------------------------------------------
(* Gateways: claimForGateway, one action per await.                        *)

IdlePoll == [pc |-> "idle", settings |-> Null, queue |-> {}, out |-> {},
             cur |-> Null, ctx |-> Null]

(* Broken variant: nothing expires while the switch is off.                *)
ExpireOnlyWhileOn(g) ==
    /\ poll[g].pc = "idle"
    /\ cmd' = [c \in Commands |->
                 IF /\ settings.enabled
                    /\ cmd[c].state = "pending" /\ cmd[c].expiresAt <= clock
                 THEN [cmd[c] EXCEPT !.state = "expired"] ELSE cmd[c]]
    /\ poll' = [poll EXCEPT ![g].pc = "settings"]
    /\ UNCHANGED <<clock, world, op, held, written, faults>>

expireStale(g) ==
    /\ poll[g].pc = "idle"
    /\ cmd' = [c \in Commands |->
                 IF cmd[c].state = "pending" /\ cmd[c].expiresAt <= clock
                 THEN [cmd[c] EXCEPT !.state = "expired"] ELSE cmd[c]]
    /\ poll' = [poll EXCEPT ![g].pc = "settings"]
    /\ UNCHANGED <<clock, world, op, held, written, faults>>

(* Broken variant: the switch is left to the envelope.                     *)
PollSettingsUnchecked(g) ==
    /\ poll[g].pc = "settings"
    /\ poll' = [poll EXCEPT ![g] = [IdlePoll EXCEPT !.pc = "claiming",
                                                    !.settings = settings]]
    /\ UNCHANGED <<clock, world, cmd, op, held, written, faults>>

(* The kill switch: off means the call answers with nothing.               *)
PollSettings(g) ==
    /\ poll[g].pc = "settings"
    /\ poll' = [poll EXCEPT ![g] =
                  IF settings.enabled
                  THEN [IdlePoll EXCEPT !.pc = "claiming",
                                        !.settings = settings]
                  ELSE IdlePoll]
    /\ UNCHANGED <<clock, world, cmd, op, held, written, faults>>

(* Broken variant: a dispatched command may be collected again.            *)
CollectableAgain == {c \in Commands : cmd[c].state \in Live
                                      /\ cmd[c].expiresAt > clock}

Collectable == {c \in Commands : cmd[c].state = "pending"
                                 /\ cmd[c].expiresAt > clock}

(* ORDER BY requested_at LIMIT ClaimLimit                                  *)
OldestFirst(S) ==
    /\ Cardinality(S) <= ClaimLimit
    /\ Cardinality(S) < ClaimLimit => S = Collectable
    /\ \A c \in S, d \in Collectable \ S :
         cmd[c].requestedAt <= cmd[d].requestedAt

claimCommands(g) ==
    /\ poll[g].pc = "claiming"
    /\ \E S \in SUBSET Collectable :
         /\ OldestFirst(S)
         /\ cmd' = [c \in Commands |->
                      IF c \in S
                      THEN [cmd[c] EXCEPT !.state = "dispatched",
                                          !.claimedBy = g]
                      ELSE cmd[c]]
         /\ poll' = [poll EXCEPT ![g].pc = "checking", ![g].queue = S]
    /\ UNCHANGED <<clock, world, op, held, written, faults>>

(* The loop over the claimed commands: the zone context first ...          *)
PollZone(g) ==
    /\ poll[g].pc = "checking"
    /\ \E c \in poll[g].queue :
         poll' = [poll EXCEPT ![g].pc = "judging", ![g].cur = c,
                              ![g].ctx = loadZoneContext(cmd[c].zone)]
    /\ UNCHANGED <<clock, world, cmd, op, held, written, faults>>

(* ... then the requester's role, and the second evaluation, which neither *)
(* the command's own existence nor the rate limit may refuse.              *)
PollJudge(g) ==
    /\ poll[g].pc = "judging"
    /\ LET c == poll[g].cur
           r == role[cmd[c].requestedBy]
           v == evaluate([setpointTempC |-> cmd[c].setpointTempC,
                          durationS |-> Null],
                         poll[g].settings,
                         IF r = Null THEN "viewer" ELSE r,
                         [poll[g].ctx EXCEPT !.commandInFlight = FALSE,
                                             !.lastCommandAt = Null],
                         clock)
       IN  poll' = [poll EXCEPT ![g] =
                      IF v.ok
                      THEN [poll[g] EXCEPT !.pc = "checking", !.cur = Null,
                              !.ctx = Null, !.queue = @ \ {c},
                              !.out = @ \cup {c}]
                      ELSE [poll[g] EXCEPT !.pc = "releasing",
                              !.ctx = Null]]
    /\ UNCHANGED <<clock, world, cmd, op, held, written, faults>>

(* Broken variant: whatever became of the command, it is queued again.     *)
ReleaseUnguarded(g) ==
    /\ poll[g].pc = "releasing"
    /\ LET c == poll[g].cur
       IN  /\ cmd' = [cmd EXCEPT ![c].state = "pending",
                                 ![c].claimedBy = Null]
           /\ poll' = [poll EXCEPT ![g].pc = "checking", ![g].cur = Null,
                                   ![g].queue = @ \ {c}]
    /\ UNCHANGED <<clock, world, op, held, written, faults>>

releaseCommand(g) ==
    /\ poll[g].pc = "releasing"
    /\ LET c == poll[g].cur
       IN  /\ cmd' = IF cmd[c].state = "dispatched"
                     THEN [cmd EXCEPT ![c].state = "pending",
                                      ![c].claimedBy = Null]
                     ELSE cmd
           /\ poll' = [poll EXCEPT ![g].pc = "checking", ![g].cur = Null,
                                   ![g].queue = @ \ {c}]
    /\ UNCHANGED <<clock, world, op, held, written, faults>>

(* The loop is over and the response reaches the gateway.                  *)
PollAnswer(g) ==
    /\ poll[g].pc = "checking"
    /\ poll[g].queue = {}
    /\ held' = [held EXCEPT ![g] = @ \cup poll[g].out]
    /\ poll' = [poll EXCEPT ![g] = IdlePoll]
    /\ UNCHANGED <<clock, world, cmd, op, written, faults>>

(* A query of the call throws, or its response is lost on the way: nobody  *)
(* undoes what the call has done to the rows so far.                       *)
PollFails(g) ==
    /\ faults < MaxFaults
    /\ poll[g].pc # "idle"
    /\ faults' = faults + 1
    /\ poll' = [poll EXCEPT ![g] = IdlePoll]
    /\ UNCHANGED <<clock, world, cmd, op, held, written>>

(* The gateway writes the setpoint to a BMS point (external).              *)
GatewayWrite(g) ==
    /\ \E c \in held[g] \ written : written' = written \cup {c}
    /\ UNCHANGED <<clock, world, cmd, op, poll, held, faults>>

(* Broken variant: the override in force is left alone.                    *)
SettleWithoutSuperseding(c, outcome) ==
    cmd' = IF cmd[c].state = "dispatched"
           THEN [cmd EXCEPT ![c].state = outcome] ELSE cmd

(* settleCommand: one transaction; applying supersedes the override in     *)
(* force on the zone.                                                      *)
settleCommand(c, outcome) ==
    cmd' = IF cmd[c].state # "dispatched" THEN cmd
           ELSE [d \in Commands |->
                   IF d = c THEN [cmd[d] EXCEPT !.state = outcome]
                   ELSE IF /\ outcome = "applied"
                           /\ d \in activeOverrides(cmd[c].zone)
                        THEN [cmd[d] EXCEPT !.state = "superseded"]
                   ELSE cmd[d]]

(* POST /control/dispatch/result.  A gateway whose 200 or 409 is lost asks *)
(* again.                                                                  *)
GatewayReport(g) ==
    /\ \E c \in held[g] :
         /\ settleCommand(c, IF c \in written THEN "applied" ELSE "failed")
         /\ \/ held' = [held EXCEPT ![g] = @ \ {c}] /\ UNCHANGED faults
            \/ /\ faults < MaxFaults
               /\ faults' = faults + 1
               /\ UNCHANGED held
    /\ UNCHANGED <<clock, world, op, poll, written>>

-----------------------------------------------------------------------------
(* Failures.                                                               *)

(* The ingest process restarts: every handler in it is gone.               *)
IngestCrash ==
    /\ faults < MaxFaults
    /\ faults' = faults + 1
    /\ op' = [u \in Users |-> IdleOp]
    /\ poll' = [g \in Gateways |-> IdlePoll]
    /\ UNCHANGED <<clock, world, cmd, held, written>>

(* A gateway dies holding commands.                                        *)
GatewayCrash(g) ==
    /\ faults < MaxFaults
    /\ faults' = faults + 1
    /\ held[g] # {}
    /\ held' = [held EXCEPT ![g] = {}]
    /\ UNCHANGED <<clock, world, cmd, op, poll, written>>

-----------------------------------------------------------------------------
(* The world moving under the handlers.                                    *)

Tick ==
    /\ clock < MaxTime
    /\ clock' = clock + 1
    /\ UNCHANGED <<world, cmd, op, poll, held, written, faults>>

SensorReports(z) ==
    /\ \E q \in QualitySpace :
         feedback' = [feedback EXCEPT ![z] = [ts |-> clock, quality |-> q]]
    /\ UNCHANGED <<clock, settings, role, baseline, equipment, cmd, op, poll,
                   held, written, faults>>

EquipmentChanges(z) ==
    /\ \E s \in EquipmentSpace : equipment' = [equipment EXCEPT ![z] = s]
    /\ UNCHANGED <<clock, settings, role, baseline, feedback, cmd, op, poll,
                   held, written, faults>>

ProfileChanges(z) ==
    /\ \E b \in BaselineSpace : baseline' = [baseline EXCEPT ![z] = b]
    /\ UNCHANGED <<clock, settings, role, equipment, feedback, cmd, op, poll,
                   held, written, faults>>

RoleChanges(u) ==
    /\ \E r \in RoleSpace : role' = [role EXCEPT ![u] = r]
    /\ UNCHANGED <<clock, settings, baseline, equipment, feedback, cmd, op,
                   poll, held, written, faults>>

-----------------------------------------------------------------------------
Init ==
    /\ clock = 0
    /\ settings \in SettingsSpace
    /\ role \in [Users -> RoleSpace]
    /\ baseline \in [Zones -> BaselineSpace]
    /\ equipment \in [Zones -> EquipmentSpace]
    /\ feedback \in [Zones -> [ts : {0}, quality : QualitySpace] \cup {Null}]
    /\ cmd = [c \in Commands |-> NoRow]
    /\ op = [u \in Users |-> IdleOp]
    /\ poll = [g \in Gateways |-> IdlePoll]
    /\ held = [g \in Gateways |-> {}]
    /\ written = {}
    /\ faults = 0

Operator(u) ==
    \/ IssueStart(u) \/ IssueSettings(u) \/ IssueZone(u) \/ IssueJudge(u)
    \/ insertCommand(u) \/ CancelStart(u) \/ cancelCommand(u)
    \/ SettingsStart(u) \/ updateSettings(u)

claimForGateway(g) ==
    \/ expireStale(g) \/ PollSettings(g) \/ claimCommands(g)
    \/ PollZone(g) \/ PollJudge(g) \/ releaseCommand(g) \/ PollAnswer(g)

Gateway(g) == claimForGateway(g) \/ GatewayWrite(g) \/ GatewayReport(g)

Failure == IngestCrash
           \/ \E g \in Gateways : GatewayCrash(g) \/ PollFails(g)

World == \/ Tick
         \/ \E z \in Zones : \/ SensorReports(z) \/ EquipmentChanges(z)
                             \/ ProfileChanges(z)
         \/ \E u \in Users : RoleChanges(u)

Next == \/ \E u \in Users : Operator(u)
        \/ \E g \in Gateways : Gateway(g)
        \/ Failure
        \/ World

Spec == Init /\ [][Next]_vars

(* The schedule the deployment provides: time passes, every gateway keeps  *)
(* polling and reports what it was handed, and the handlers run to their   *)
(* end.  Nothing obliges a person to act or the world to change.           *)
Fairness ==
    /\ WF_vars(Tick)
    /\ \A g \in Gateways : /\ WF_vars(claimForGateway(g))
                           /\ WF_vars(GatewayReport(g))
    /\ \A u \in Users : WF_vars(IssueSettings(u) \/ IssueZone(u)
                                \/ IssueJudge(u) \/ insertCommand(u)
                                \/ cancelCommand(u) \/ updateSettings(u))

FairSpec == Spec /\ Fairness

-----------------------------------------------------------------------------
Ops == [pc : {"idle", "loading", "inserting", "cancelling", "configuring"},
        zone : Zones \cup {Null}, role : Roles \cup {Null},
        settings : Settings \cup {Null}, ctx : ZoneContexts \cup {Null},
        setpointTempC : Int, expiresAt : Int, effectiveUntil : Int]

Polls == [pc : {"idle", "settings", "claiming", "checking", "judging",
                "releasing"},
          settings : Settings \cup {Null}, queue : SUBSET Commands,
          out : SUBSET Commands, cur : Commands \cup {Null},
          ctx : ZoneContexts \cup {Null}]

(* Every variable has its type, and each handler has the arguments its     *)
(* next step reads: a zone and a role while loading, a queue of commands   *)
(* that exist, and a current one of them while judging or releasing.       *)
TypeOK ==
    /\ clock \in Nat /\ faults \in Nat
    /\ settings \in Settings
    /\ role \in [Users -> Roles \cup {Null}]
    /\ baseline \in [Zones -> Int \cup {Null}]
    /\ equipment \in [Zones -> SUBSET EquipmentStatuses]
    /\ feedback \in [Zones -> Feedback \cup {Null}]
    /\ cmd \in [Commands -> Rows]
    /\ op \in [Users -> Ops]
    /\ poll \in [Gateways -> Polls]
    /\ held \in [Gateways -> SUBSET Commands]
    /\ written \in SUBSET Commands
    /\ \A c \in Commands : cmd[c].state # "none" => cmd[c].zone \in Zones
    /\ \A u \in Users :
         /\ op[u].pc \in {"loading", "inserting"} => op[u].zone \in Zones
         /\ op[u].pc = "loading" => op[u].role \in Roles
    /\ \A g \in Gateways :
         /\ poll[g].pc \in {"judging", "releasing"} =>
              poll[g].cur \in poll[g].queue
         /\ \A c \in poll[g].queue : cmd[c].state # "none"

(* At most one pending or dispatched command per zone: two operators who   *)
(* both saw commandInFlight = false (service.ts issueCommand) end with one  *)
(* row, and no release, cancel or report brings a second one back to life.  *)
OneLivePerZone ==
    \A z \in Zones, c, d \in Commands :
        /\ c \in RowsOf(z) /\ cmd[c].state \in Live
        /\ d \in RowsOf(z) /\ cmd[d].state \in Live
        => c = d

(* "the `currently active override' query cannot find two" (store.ts       *)
(* settleCommand): at no time are two overrides in force on one zone.      *)
OneActiveOverride ==
    \A z \in Zones : \A c, d \in activeOverrides(z) : c = d

(* The commands a gateway is working on, in a claim call or by hand.       *)
Work(g) == poll[g].queue \cup poll[g].out \cup held[g]

(* No command is ever in the hands of two gateways (claimCommands,         *)
(* releaseCommand), whatever was crashed, cancelled, released or lost, and *)
(* the row of one that is still dispatched names its holder.               *)
OneHolder ==
    \A g \in Gateways : \A c \in Work(g) :
        /\ \A h \in Gateways \ {g} : c \notin Work(h)
        /\ cmd[c].state = "dispatched" => cmd[c].claimedBy = g

(* "nobody collected it in time; never applied" (migration 017): a command *)
(* recorded as expired, or still waiting in the queue, has never been      *)
(* written to the equipment.                                               *)
ExpiredNeverApplied ==
    \A c \in written : cmd[c].state \notin {"none", "pending", "expired"}

(* What holds of the commands whatever handlers, gateways and failures     *)
(* interleave: one per zone is live, one gateway holds it, and none is     *)
(* written to the equipment once expired (service.ts, store.ts).           *)
CommandsAreSound == OneLivePerZone /\ OneHolder /\ ExpiredNeverApplied

-----------------------------------------------------------------------------
(* The rows implement the lifecycle the schema promises: the handlers, the *)
(* envelope and the failures are hidden.                                   *)
Lifecycle ==
    INSTANCE CommandLifecycle WITH
        now <- clock,
        row <- [c \in Commands |->
                  [state |-> cmd[c].state, zone |-> cmd[c].zone,
                   expiresAt |-> cmd[c].expiresAt,
                   effectiveUntil |-> cmd[c].effectiveUntil]]

(* Every step of the handlers moves the rows as CommandLifecycle allows:   *)
(* a settled row never comes back, an expired one is never dispatched, and *)
(* a new override ends the old one in the same step.                       *)
ImplementsLifecycle == Lifecycle!ASpec

-----------------------------------------------------------------------------
(* Walking a setpoint in small steps never takes the zone out of its       *)
(* envelope: the override in force is within maxDeviationK of the designed *)
(* setpoint (envelope.ts measures it from the baseline, not from the       *)
(* current setpoint).  For runs in which neither the profile nor the       *)
(* limits change.                                                          *)
NeverWalkedOut ==
    \A z \in Zones : \A c \in activeOverrides(z) :
        AbsDiff(cmd[c].setpointTempC, baseline[z]) <= settings.maxDeviationK

(* "one command every minIntervalS" (envelope.ts too_soon): two commands   *)
(* accepted for one zone are at least the interval apart.  For runs in     *)
(* which the interval does not change and requests do not overlap: two     *)
(* people who read the zone together can both be accepted.                 *)
RateLimited ==
    \A z \in Zones : \A c, d \in RowsOf(z) :
        c # d => AbsDiff(cmd[c].requestedAt, cmd[d].requestedAt)
                   >= settings.minIntervalS

(* Issued one by one under limits that do not change, commands stay in the *)
(* envelope and keep the interval (envelope.ts, evaluate).                 *)
KeepsToItsLimits == NeverWalkedOut /\ RateLimited

(* A command that is dispatched and in nobody's hands: the answer that was *)
(* to hand it out was lost, or the gateway that held it died.              *)
Lost(c) == cmd[c].state = "dispatched" /\ \A g \in Gateways : c \notin Work(g)

(* Every accepted command that can expire within the bound on time is      *)
(* settled - applied, failed, cancelled or expired, switch on or off -     *)
(* unless a crash or a failed call loses it (service.ts: "Commands already *)
(* queued stay queued and lapse on their own").                            *)
EveryCommandSettles ==
    \A c \in Commands :
        (cmd[c].state \in Live /\ cmd[c].expiresAt <= MaxTime)
            ~> (cmd[c].state \notin Live \/ Lost(c))

(* "a gateway that dies holding a command releases it no later than the    *)
(* moment the command would have expired anyway" (store.ts claimCommands). *)
LeaseLapses ==
    \A c \in Commands :
        (cmd[c].state = "dispatched" /\ clock >= cmd[c].expiresAt)
            ~> (cmd[c].state # "dispatched")

(* Once the switch is off and the claim calls that began before it have    *)
(* drained, no gateway gets hold of a command until it is on again         *)
(* (service.ts claimForGateway reads the switch on every call).            *)
Quiet == \A g \in Gateways : /\ poll[g].pc \in {"idle", "settings"}
                              /\ Work(g) = {}

KillSwitchHolds == [][~ settings.enabled /\ Quiet => Quiet']_vars
=============================================================================
