------------------------------ MODULE Envelope ------------------------------
(***************************************************************************)
(* The safety envelope of supervisory control                              *)
(* (apps/ingest/src/control/envelope.ts): a pure function of a request and *)
(* a snapshot of the world, run once when a person asks and again when a   *)
(* gateway claims the command.                                             *)
(*                                                                         *)
(* Temperatures are integers in units of 0.05 K, the size of               *)
(* SETPOINT_EPSILON_K; the code's 1e-9 slack for floating-point rounding   *)
(* has no counterpart.  Times are integers in an abstract tick.  Null      *)
(* stands for the code's null and undefined.                               *)
(***************************************************************************)
EXTENDS Integers

CONSTANTS
    Null,       \* the code's null / undefined
    StaleAfter  \* staleAfterMs(sampleIntervalS) of the zone's point, in ticks

ASSUME StaleAfterAssumption == StaleAfter \in Nat
ASSUME NullAssumption == Null \notin Int

Roles == {"owner", "admin", "operator", "viewer"}

CONTROL_ROLES == {"owner", "admin", "operator"}

mayCommand(r) == r \in CONTROL_ROLES

EquipmentStatuses ==
    {"operational", "degraded", "fault", "offline", "maintenance"}

BLOCKING_STATUSES == {"fault", "offline", "maintenance"}

SETPOINT_EPSILON_K == 1

(* A setting the schema's control_settings_sane_ck accepts.                *)
SaneSettings(s) ==
    /\ s.maxDeviationK > 0 /\ s.maxStepK > 0 /\ s.minIntervalS >= 0
    /\ s.defaultDurationS > 0 /\ s.maxDurationS >= s.defaultDurationS
    /\ s.commandTtlS > 0

Settings ==
    {s \in [enabled : BOOLEAN, maxDeviationK : Int, maxStepK : Int,
            minIntervalS : Int, defaultDurationS : Int, maxDurationS : Int,
            commandTtlS : Int] : SaneSettings(s)}

Feedback == [ts : Nat, quality : {"good", "bad"}]

ZoneContexts ==
    [baselineTempC : Int \cup {Null}, activeOverrideTempC : Int \cup {Null},
     equipment : SUBSET EquipmentStatuses, feedback : Feedback \cup {Null},
     lastCommandAt : Nat \cup {Null}, commandInFlight : BOOLEAN]

AbsDiff(a, b) == IF a >= b THEN a - b ELSE b - a

(* A reading in the future has age 0, never a negative one.                *)
readingAge(ts, now) == IF now >= ts THEN now - ts ELSE 0

isReadingStale(ts, now) == readingAge(ts, now) > StaleAfter

(* Only a good, fresh reading may be acted on.                             *)
usableFeedback(reading, now) ==
    /\ reading # Null
    /\ reading.quality = "good"
    /\ ~ isReadingStale(reading.ts, now)

blocked(zone) == zone.equipment \cap BLOCKING_STATUSES # {}

(* The setpoint the zone is being moved from.                              *)
currentTempC(zone) ==
    IF zone.activeOverrideTempC # Null THEN zone.activeOverrideTempC
                                       ELSE zone.baselineTempC

(* Broken variant: the envelope moves along with the setpoint.             *)
DeviationFromCurrent(request, zone) ==
    AbsDiff(request.setpointTempC, currentTempC(zone))

deviation(request, zone) == AbsDiff(request.setpointTempC, zone.baselineTempC)

step(request, zone) == AbsDiff(request.setpointTempC, currentTempC(zone))

tooSoon(zone, settings, now) ==
    /\ zone.lastCommandAt # Null
    /\ now - zone.lastCommandAt < settings.minIntervalS

durationOf(request, settings) ==
    IF request.durationS # Null THEN request.durationS
                                ELSE settings.defaultDurationS

(* Broken variant: the default is held against the maximum, not the ask.   *)
DefaultTooLong(request, settings) ==
    settings.defaultDurationS > settings.maxDurationS

tooLong(request, settings) ==
    durationOf(request, settings) > settings.maxDurationS

(* The first check that refuses, in the order the operator is shown them:  *)
(* authority, capability, interlocks, value, rate.                         *)
refusalOf(request, settings, role, zone, now) ==
    IF ~ mayCommand(role)                     THEN "forbidden_role"
    ELSE IF ~ settings.enabled                THEN "control_disabled"
    ELSE IF zone.baselineTempC = Null         THEN "no_baseline"
    ELSE IF blocked(zone)                     THEN "equipment_unavailable"
    ELSE IF ~ usableFeedback(zone.feedback, now) THEN "feedback_unusable"
    ELSE IF deviation(request, zone) > settings.maxDeviationK
                                              THEN "outside_envelope"
    ELSE IF step(request, zone) > settings.maxStepK THEN "step_too_large"
    ELSE IF step(request, zone) <= SETPOINT_EPSILON_K THEN "no_change"
    ELSE IF zone.commandInFlight              THEN "command_in_flight"
    ELSE IF tooSoon(zone, settings, now)      THEN "too_soon"
    ELSE IF tooLong(request, settings)        THEN "duration_too_long"
    ELSE "none"

evaluate(request, settings, role, zone, now) ==
    LET r == refusalOf(request, settings, role, zone, now)
    IN  [ok             |-> r = "none",
         refusal        |-> r,
         expiresAt      |-> now + settings.commandTtlS,
         effectiveUntil |-> now + durationOf(request, settings)]
=============================================================================
