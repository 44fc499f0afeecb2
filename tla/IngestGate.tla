----------------------------- MODULE IngestGate -----------------------------
(***************************************************************************)
(* The way into ingest: POST /ingest (apps/ingest/src/server.ts), the      *)
(* pipeline's checks on each reading (pipeline.ts, quality.ts) and the     *)
(* sensor registry it resolves them against (registry.ts), which reloads   *)
(* itself from the database on a timer and when an unknown id turns up.    *)
(*                                                                         *)
(* A sensor is a pair of its tenant and its external id: the external id   *)
(* is unique within a tenant only.                                         *)
(***************************************************************************)
EXTENDS Integers, FiniteSets, Sequences, SequencesExt

CONSTANTS
    GateTenants,        \* a sequence: activeTenants() in the order they are loaded
    ExternalIds,
    MaxSensors,     \* INGEST_REGISTRY_MAX_SENSORS
    UnknownMax,     \* INGEST_UNKNOWN_MAX
    UnknownRetry,   \* INGEST_UNKNOWN_RETRY_MS, in units of the clock
    MaxSkew,        \* INGEST_MAX_CLOCK_SKEW_MS
    MaxGateTime,    \* bound on the clock
    MaxProvision,   \* bound on changes to the sensor table
    MaxAsks,        \* bound on early loads one id asks for
    MaxLoadFails    \* bound on failed loads

(* The limits are positive (config.ts), and the server starts with a       *)
(* tenant to load.                                                         *)
ASSUME GateAssumption ==
    /\ GateTenants \in Seq(ToSet(GateTenants)) /\ GateTenants # <<>> /\ ExternalIds # {}
    /\ MaxSensors \in Nat \ {0} /\ UnknownMax \in Nat \ {0} /\ UnknownRetry \in Nat
    /\ MaxSkew \in Nat /\ MaxGateTime \in Nat

TenantSet == ToSet(GateTenants)
GatePoints == TenantSet \X ExternalIds
Never == -1
Idle == [next |-> 0, built |-> {}]

VARIABLES
    provisioned,  \* active sensors in the database
    registry,     \* the maps in service
    loading,      \* #refreshing: the next tenant to load and the maps built so far, or Idle
    timerWaits,   \* the interval timer awaits this load and will then re-expand the rules
    ruled,        \* the sensors the alert engine's rules were last expanded over
    unknown,      \* #unknown: when each id was last missed, Never when it is not remembered
    asked,        \* per id: when it last asked for an early load, and how many times it has
    gateRows,       \* the rows of the last batch, and what was said of the rest
    gateClock, changes, fails

gatevars == <<provisioned, registry, loading, timerWaits, ruled, unknown, asked, gateRows, gateClock, changes, fails>>

NoBatch == [rows |-> {}, unknownIds |-> {}, futureDated |-> 0, sent |-> 0]
Raw == [externalId : ExternalIds, ahead : {0, MaxSkew + 1}, declared : {"good", "fault"},
        value : {"plausible", "implausible", "infinite"}]

GateTypeOK ==
    /\ provisioned \subseteq GatePoints /\ registry \subseteq GatePoints /\ ruled \subseteq GatePoints
    /\ Cardinality(registry) <= MaxSensors
    /\ loading \in [next : 0..Len(GateTenants) + 1, built : SUBSET GatePoints]
    /\ timerWaits \in BOOLEAN
    /\ unknown \in [GatePoints -> {Never} \cup 0..MaxGateTime]
    /\ Cardinality({k \in GatePoints : unknown[k] # Never}) <= UnknownMax
    /\ gateClock \in 0..MaxGateTime
-----------------------------------------------------------------------------
(* assessQuality: what the device says of itself, then what the value says.*)
TrustsTheValue(raw) ==
    CASE raw.value = "infinite" -> "device_fault"
      [] raw.value = "implausible" -> "out_of_range"
      [] OTHER -> "good"

AssessQuality(raw) ==
    CASE raw.declared = "fault" -> "declared"
      [] raw.declared # "fault" /\ raw.value = "infinite" -> "device_fault"
      [] raw.declared # "fault" /\ raw.value = "implausible" -> "out_of_range"
      [] OTHER -> "good"

(* lookup: by tenant AND external id.                                      *)
LookupByIdAlone(t, id) == {s \in registry : s[2] = id}
Lookup(t, id) == {s \in registry : s = <<t, id>>}

(* shouldRetryUnknown.                                                     *)
ShouldRetryUnknown(k) ==
    /\ unknown[k] = Never \/ gateClock - unknown[k] >= UnknownRetry
    /\ unknown[k] # Never \/ Cardinality({j \in GatePoints : unknown[j] # Never}) < UnknownMax

(* refresh(): joins the load in progress, or starts one.                   *)
StartLoad(l) == IF l = Idle THEN [next |-> 1, built |-> {}] ELSE l

(* ingestRaw, for a batch of one reading: unknown, refused, or dispatched. *)
IngestRaw(t, raw) ==
    LET found == Lookup(t, raw.externalId)
        key == <<t, raw.externalId>>
        late == raw.ahead > MaxSkew
        retry == found = {} /\ ShouldRetryUnknown(key)
    IN  /\ gateRows' = [sent |-> 1,
                      rows |-> IF late THEN {}
                               ELSE {[key |-> t, tenant |-> s[1], raw |-> raw,
                                      quality |-> AssessQuality(raw)] : s \in found},
                      unknownIds |-> IF found = {} THEN {raw.externalId} ELSE {},
                      futureDated |-> IF late /\ found # {} THEN 1 ELSE 0]
        /\ unknown' = IF retry THEN [unknown EXCEPT ![key] = gateClock] ELSE unknown
        /\ asked' = IF retry THEN [asked EXCEPT ![key] = [at |-> gateClock, times |-> @.times + 1]] ELSE asked
        /\ loading' = IF retry THEN StartLoad(loading) ELSE loading
        /\ UNCHANGED <<provisioned, registry, timerWaits, ruled, gateClock, changes, fails>>

(* POST /ingest, past its key and its limits (RateLimiter).                *)
PostIngest(t, raw) ==
    /\ asked[<<t, raw.externalId>>].times < MaxAsks
    /\ IngestRaw(t, raw)
-----------------------------------------------------------------------------
(* The load: one scoped pass per tenant, into maps of its own.             *)
LoadTenant ==
    /\ loading.next \in 1..Len(GateTenants)
    /\ LET built == loading.built \cup {s \in provisioned : s[1] = GateTenants[loading.next]}
       IN  IF Cardinality(built) > MaxSensors
           THEN loading' = Idle /\ timerWaits' = FALSE
           ELSE loading' = [next |-> loading.next + 1, built |-> built] /\ UNCHANGED timerWaits
    /\ UNCHANGED <<provisioned, registry, ruled, unknown, asked, gateRows, gateClock, changes, fails>>

(* The maps are swapped at once; the timer's continuation then expands the *)
(* alert rules over them (AlertEngine.refresh).                            *)
SwapWithoutRules ==
    /\ loading.next = Len(GateTenants) + 1
    /\ registry' = loading.built /\ unknown' = [k \in GatePoints |-> Never]
    /\ loading' = Idle /\ timerWaits' = FALSE
    /\ UNCHANGED <<provisioned, ruled, asked, gateRows, gateClock, changes, fails>>

SwapMaps ==
    /\ loading.next = Len(GateTenants) + 1
    /\ registry' = loading.built
    /\ unknown' = [k \in GatePoints |-> Never]
    /\ loading' = Idle
    /\ ruled' = IF timerWaits THEN loading.built ELSE ruled
    /\ timerWaits' = FALSE
    /\ UNCHANGED <<provisioned, asked, gateRows, gateClock, changes, fails>>

(* The database cannot be reached: the maps in service stay.               *)
LoadFails ==
    /\ loading # Idle /\ fails < MaxLoadFails
    /\ loading' = Idle /\ timerWaits' = FALSE /\ fails' = fails + 1
    /\ UNCHANGED <<provisioned, registry, ruled, unknown, asked, gateRows, gateClock, changes>>

(* The interval timer of Pipeline.start.                                   *)
RefreshTimer ==
    /\ ~timerWaits
    /\ loading' = StartLoad(loading) /\ timerWaits' = TRUE
    /\ UNCHANGED <<provisioned, registry, ruled, unknown, asked, gateRows, gateClock, changes, fails>>

(* Somebody provisions or retires a point.                                 *)
ProvisionSensor(s) ==
    /\ changes < MaxProvision
    /\ provisioned' = IF s \in provisioned THEN provisioned \ {s} ELSE provisioned \cup {s}
    /\ changes' = changes + 1
    /\ UNCHANGED <<registry, loading, timerWaits, ruled, unknown, asked, gateRows, gateClock, fails>>

GateTick ==
    /\ gateClock < MaxGateTime
    /\ gateClock' = gateClock + 1
    /\ UNCHANGED <<provisioned, registry, loading, timerWaits, ruled, unknown, asked, gateRows, changes, fails>>

(* Pipeline.start has loaded the registry and expanded the rules.          *)
GateInit ==
    /\ provisioned \in {{}, {<<GateTenants[1], CHOOSE i \in ExternalIds : TRUE>>}}
    /\ registry = provisioned /\ ruled = provisioned
    /\ loading = Idle /\ timerWaits = FALSE
    /\ unknown = [k \in GatePoints |-> Never]
    /\ asked = [k \in GatePoints |-> [at |-> Never, times |-> 0]]
    /\ gateRows = NoBatch /\ gateClock = 0 /\ changes = 0 /\ fails = 0

GateNext ==
    \/ \E t \in TenantSet, raw \in Raw : PostIngest(t, raw)
    \/ \E s \in GatePoints : ProvisionSensor(s)
    \/ LoadTenant \/ SwapMaps \/ LoadFails \/ RefreshTimer \/ GateTick
-----------------------------------------------------------------------------
(* A row is written only for the tenant whose key sent it, never for a     *)
(* moment the clock skew does not allow, and marked good only when neither *)
(* the device nor the value says otherwise; every reading sent is either   *)
(* written or reported back (ingestRaw's result).                          *)
RowsAreTheSendersOwn ==
    /\ \A r \in gateRows.rows :
         /\ r.tenant = r.key /\ r.raw.ahead <= MaxSkew
         /\ r.quality = "good" => r.raw.declared # "fault" /\ r.raw.value = "plausible"
    /\ Cardinality(gateRows.rows) + Cardinality(gateRows.unknownIds) + gateRows.futureDated = gateRows.sent

(* What the gate lets through while the registry reloads under it          *)
(* (pipeline.ts, registry.ts).                                             *)
GateIsSound == GateTypeOK /\ RowsAreTheSendersOwn

(* Once provisioning and failures stop, every point the ceiling admits is  *)
(* resolved and has its rules, whether an early load or the timer's found  *)
(* it first.  The timer's load re-expands the rules even where it joins an *)
(* early one.  (The engine's own timer, rules/index.ts, would expand them  *)
(* later over the same maps; it is left out.)                              *)
PointsGetRules ==
    <>[](Cardinality(provisioned) <= MaxSensors => registry = provisioned /\ ruled = provisioned)
=============================================================================
