----------------------------- MODULE DeviceFeed -----------------------------
(***************************************************************************)
(* The device simulator as the building's gateway and as its meters: it    *)
(* collects the commands of one zone on a timer with no overlap guard,     *)
(* works to the override map its polls leave behind, and emits a setpoint  *)
(* point and a cumulative meter whose counter is resumed from the database *)
(* when the process restarts.  A reading's size is abstracted: the setpoint*)
(* point reports which command it works to (0: the designed setpoint), the *)
(* meter reports a counter, and what a drift has come to, or a spike       *)
(* multiplies by, is any of a few sizes.                                   *)
(***************************************************************************)
EXTENDS Integers, Sequences, FiniteSets

CONSTANTS
    MaxCommands,  \* bound: commands queued for the zone
    PollSlots,    \* bound: polls of the timer that may be under way at once
    SeedTotal,    \* seedAccumulator: the counter of a meter never seen before
    MaxTotal,     \* bound: the counter; a meter at it consumes nothing more
    Sizes,        \* what a drift's magnitude comes to, and a spike's multiplier
    MaxFeedFaults,\* bound: faults injected and polls that fail
    MaxRestarts   \* bound: restarts of the process

ASSUME FeedAssumption == {SeedTotal, MaxTotal} \subseteq Nat /\ Sizes \subseteq Int

Points == {"meter", "setpoint"}
FaultKinds == {"drift", "flatline", "spike", "offline"}
Designed == 0
Nothing == -1

VARIABLES
    commands,   \* database: command -> "queued" "claimed" "applied" "over"
    overrideMap,\* ctx.overrides of the zone: a command, or Designed
    polls,      \* slot -> [at, todo, seen]
    proc,       \* "down" "starting" "up"
    counter,    \* the meter's #state: accumulator, or Nothing when it has none
    lastValue,  \* point -> what it last reported, or Nothing
    injected,     \* point -> the fault injected, or "none"
    registered, \* whether the meter is in the sensor registry
    unsaved,    \* the latest meter reading on its way to the database, or Nothing
    saved,      \* the meter's latest stored reading, or Nothing
    restarts, mishaps,
    distorted   \* history: the counter's own value has not been stored since a
                \* drift or spike falsified a meter reading, or since the counter
                \* was seeded although readings were stored

feedvars == <<commands, overrideMap, polls, proc, counter, lastValue, injected,
              registered, unsaved, saved, restarts, mishaps, distorted>>

Idle == [at |-> "idle", todo |-> {}, seen |-> Designed]
NoFaults == [s \in Points |-> "none"]

FeedInit ==
    /\ commands = <<>> /\ overrideMap = Designed
    /\ polls = [i \in PollSlots |-> Idle]
    /\ proc = "down" /\ counter = Nothing
    /\ lastValue = [s \in Points |-> Nothing] /\ injected = NoFaults
    /\ registered \in BOOLEAN
    /\ unsaved = Nothing /\ saved = Nothing
    /\ restarts = 0 /\ mishaps = 0 /\ distorted = FALSE

InForce == IF \E c \in DOMAIN commands : commands[c] = "applied"
           THEN CHOOSE c \in DOMAIN commands : commands[c] = "applied" ELSE Designed

----------------------------------------------------------------------------
\* start: a context with no overrides yet, the counters, and a first poll that
\* is awaited before either timer runs.
SeedsAnew == counter' = IF ~registered THEN Nothing ELSE SeedTotal
ResumeCounters ==
    counter' = IF ~registered THEN Nothing ELSE IF saved # Nothing THEN saved ELSE SeedTotal
Start ==
    /\ proc = "down" /\ proc' = "starting"
    /\ ResumeCounters
    /\ \E i \in PollSlots : polls' = [polls EXCEPT ![i] = [Idle EXCEPT !.at = "claim"]]
    /\ UNCHANGED <<commands, overrideMap, lastValue, injected, registered, unsaved, saved,
                   restarts, mishaps, distorted>>

\* The process dies: what it held in memory, unsaved readings included, is gone.
ProcessDies ==
    /\ proc # "down" /\ restarts < MaxRestarts
    /\ proc' = "down" /\ restarts' = restarts + 1
    /\ overrideMap' = Designed /\ polls' = [i \in PollSlots |-> Idle]
    /\ counter' = Nothing /\ lastValue' = [s \in Points |-> Nothing] /\ injected' = NoFaults
    /\ unsaved' = Nothing
    /\ UNCHANGED <<commands, registered, saved, mishaps, distorted>>

----------------------------------------------------------------------------
\* pollCommands, one await at a time.
PollTimer ==
    /\ proc = "up"
    /\ \E i \in PollSlots : polls[i] = Idle /\ polls' = [polls EXCEPT ![i].at = "claim"]
    /\ UNCHANGED <<commands, overrideMap, proc, counter, lastValue, injected, registered,
                   unsaved, saved, restarts, mishaps, distorted>>

ClaimForGateway(i) ==
    LET due == {c \in DOMAIN commands : commands[c] = "queued"}
    IN  /\ polls[i].at = "claim"
        /\ commands' = [c \in DOMAIN commands |-> IF c \in due THEN "claimed" ELSE commands[c]]
        /\ polls' = [polls EXCEPT ![i] = [at |-> "report", todo |-> due, seen |-> Designed]]
        /\ UNCHANGED <<overrideMap, proc, counter, lastValue, injected, registered, unsaved,
                       saved, restarts, mishaps, distorted>>

\* reportResult: applied if still claimed, ending the override it replaces.
ReportResult(i) ==
    /\ polls[i].at = "report" /\ polls[i].todo # {}
    /\ LET c == CHOOSE k \in polls[i].todo : \A j \in polls[i].todo : k <= j
       IN  /\ polls' = [polls EXCEPT ![i].todo = @ \ {c}]
           /\ commands' = IF commands[c] # "claimed" THEN commands
                          ELSE [k \in DOMAIN commands |-> IF k = c THEN "applied"
                                ELSE IF commands[k] = "applied" THEN "over" ELSE commands[k]]
    /\ UNCHANGED <<overrideMap, proc, counter, lastValue, injected, registered, unsaved,
                   saved, restarts, mishaps, distorted>>

ActiveOverrides(i) ==
    /\ polls[i].at = "report" /\ polls[i].todo = {}
    /\ polls' = [polls EXCEPT ![i].at = "set", ![i].seen = InForce]
    /\ UNCHANGED <<commands, overrideMap, proc, counter, lastValue, injected, registered,
                   unsaved, saved, restarts, mishaps, distorted>>

\* The map is rebuilt, never merged: an override that has lapsed is not in it.
RebuiltMap(i) == polls[i].seen
SetOverrides(i) ==
    /\ polls[i].at = "set"
    /\ overrideMap' = RebuiltMap(i)
    /\ polls' = [polls EXCEPT ![i] = Idle]
    /\ proc' = "up"
    /\ UNCHANGED <<commands, counter, lastValue, injected, registered, unsaved, saved,
                   restarts, mishaps, distorted>>

\* The catch: this poll ends where it was, the map as the last one left it.
PollFails(i) ==
    /\ polls[i] # Idle /\ mishaps < MaxFeedFaults
    /\ mishaps' = mishaps + 1
    /\ polls' = [polls EXCEPT ![i] = Idle]
    /\ proc' = "up"
    /\ UNCHANGED <<commands, overrideMap, counter, lastValue, injected, registered, unsaved,
                   saved, restarts, distorted>>

----------------------------------------------------------------------------
\* tick.  Which points are due is the clock's doing; an offline point emits nothing.
EffectiveSetpoint == overrideMap
Emitting(due) == {s \in due : injected[s] # "offline" /\ (s = "setpoint" \/ registered)}
Total == IF counter = Nothing THEN SeedTotal ELSE counter
Generate(s) == IF s = "setpoint" THEN EffectiveSetpoint
               ELSE IF Total < MaxTotal THEN Total + 1 ELSE Total

\* A drift grows with the hours since it was injected; what it has come to by
\* this tick is any size (bound: one that leaves the reading at or above zero).
ApplyFault(s, v, size) ==
    CASE injected[s] = "drift"    -> v + size
      [] injected[s] = "flatline" -> IF lastValue[s] # Nothing THEN lastValue[s] ELSE v
      [] injected[s] = "spike"    -> v * size
      [] OTHER                    -> v
Falsifying == {"drift", "spike"}

FeedTick(due) == \E size \in Sizes :
    LET out == Emitting(due)
    IN  /\ proc = "up" /\ due # {}
        /\ \A s \in out : ApplyFault(s, Generate(s), size) >= 0
        /\ lastValue' = [s \in Points |-> IF s \in out THEN ApplyFault(s, Generate(s), size) ELSE lastValue[s]]
        /\ counter' = IF "meter" \in out THEN Generate("meter")
                      ELSE IF registered /\ "meter" \in due THEN Total ELSE counter
        /\ unsaved' = IF "meter" \in out THEN lastValue'["meter"] ELSE unsaved
        /\ distorted' = (distorted \/ ("meter" \in out /\ injected["meter"] \in Falsifying)
                                   \/ (registered /\ "meter" \in due /\ counter = Nothing /\ saved # Nothing))
        /\ UNCHANGED <<commands, overrideMap, polls, proc, injected, registered, saved, restarts, mishaps>>

FeedFlush ==
    /\ unsaved # Nothing
    /\ saved' = unsaved /\ unsaved' = Nothing
    /\ distorted' = (distorted /\ unsaved # counter)
    /\ UNCHANGED <<commands, overrideMap, polls, proc, counter, lastValue, injected, registered,
                   restarts, mishaps>>

----------------------------------------------------------------------------
\* POST and DELETE /simulator/fault.
InjectFault(s, kind) ==
    /\ proc = "up" /\ mishaps < MaxFeedFaults /\ mishaps' = mishaps + 1
    /\ s = "setpoint" \/ registered
    /\ injected' = [injected EXCEPT ![s] = kind]
    /\ UNCHANGED <<commands, overrideMap, polls, proc, counter, lastValue, registered, unsaved,
                   saved, restarts, distorted>>
ClearFault(s) ==
    /\ proc = "up" /\ injected[s] # "none"
    /\ s = "setpoint" \/ registered
    /\ injected' = [injected EXCEPT ![s] = "none"]
    /\ UNCHANGED <<commands, overrideMap, polls, proc, counter, lastValue, registered, unsaved,
                   saved, restarts, mishaps, distorted>>

\* The rest of the system: a command is queued or lapses, a lease runs out,
\* the registry takes the meter in or lets it go.
QueueCommand ==
    /\ Len(commands) < MaxCommands
    /\ commands' = Append(commands, "queued")
    /\ UNCHANGED <<overrideMap, polls, proc, counter, lastValue, injected, registered, unsaved,
                   saved, restarts, mishaps, distorted>>
CommandMoves(c) ==
    /\ c \in DOMAIN commands
    /\ \/ commands[c] = "claimed" /\ commands' = [commands EXCEPT ![c] = "queued"]
          /\ \A i \in PollSlots : c \notin polls[i].todo
       \/ commands[c] \in {"queued", "claimed", "applied"} /\ commands' = [commands EXCEPT ![c] = "over"]
    /\ UNCHANGED <<overrideMap, polls, proc, counter, lastValue, injected, registered, unsaved,
                   saved, restarts, mishaps, distorted>>
RegistryChanges ==
    /\ restarts < MaxRestarts
    /\ registered' = ~registered
    /\ UNCHANGED <<commands, overrideMap, polls, proc, counter, lastValue, injected, unsaved,
                   saved, restarts, mishaps, distorted>>

PollStep(i) == ClaimForGateway(i) \/ ReportResult(i) \/ ActiveOverrides(i) \/ SetOverrides(i)
FeedNext ==
    \/ Start \/ ProcessDies \/ PollTimer \/ FeedFlush \/ QueueCommand \/ RegistryChanges
    \/ \E i \in PollSlots : PollStep(i) \/ PollFails(i)
    \/ \E due \in SUBSET Points : FeedTick(due)
    \/ \E s \in Points : ClearFault(s) \/ \E k \in FaultKinds : InjectFault(s, k)
    \/ \E c \in 1..MaxCommands : CommandMoves(c)

FeedSpec == FeedInit /\ [][FeedNext]_feedvars

\* The process is restarted, its timers fire, its awaits return, and the writer flushes.
FeedFairness ==
    /\ WF_feedvars(Start) /\ WF_feedvars(PollTimer) /\ WF_feedvars(FeedFlush)
    /\ WF_feedvars(FeedTick(Points))
    /\ \A i \in PollSlots : WF_feedvars(PollStep(i))

----------------------------------------------------------------------------
(***************************************************************************)
(* Once commands have come to rest, the setpoint point - unless a fault is *)
(* on it - comes to report the command in force, or the designed setpoint  *)
(* when none is: an override that lapsed stops applying with nothing       *)
(* reverting it, whatever overlapping polls left in the map and in which   *)
(* order they finished.                                                    *)
(***************************************************************************)
FeedFollowsOverrides ==
    <>[](injected["setpoint"] = "none" => lastValue["setpoint"] = InForce)

(***************************************************************************)
(* The stored readings of the meter never go down, through crashes that    *)
(* lose readings not yet written and restarts that resume the counter,     *)
(* except where a reading was falsified - a drift or a spike was on the    *)
(* meter, or the counter was seeded for a meter that came into the registry*)
(* after the process had started (index.ts does not look for its stored    *)
(* readings then) - and only until the counter's own value is stored again.*)
(***************************************************************************)
MeterNeverRewinds ==
    [][saved' # saved /\ saved # Nothing /\ ~distorted => saved' >= saved]_feedvars
=============================================================================
