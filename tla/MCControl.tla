----------------------------- MODULE MCControl -----------------------------
(***************************************************************************)
(* Control on three small instances, one chosen at the start:              *)
(*   "issue"     two operators walking one zone, one gateway, and no       *)
(*               cancelling;                                               *)
(*   "dispatch"  one operator and two gateways polling one queue, with     *)
(*               faulty equipment, a rate limit and a failure;             *)
(*   "envelope"  the envelope alone, over inputs on both sides of every    *)
(*               limit, while the building stays as it began.              *)
(***************************************************************************)
EXTENDS MCSupervisoryControl, EnvelopeCheck

VARIABLES
    mode,
    asker,      \* the one user who acts in "dispatch"
    speaker     \* the one gateway that polls in "issue"

NarrowOrLimited == Narrow \cup Limited

EnvelopeRequests == [setpointTempC : {0, 1, 20, 21, 40, 41}, durationS : {1, 2, 3, Null}]
SaneLimits ==
    {s \in [enabled : BOOLEAN, maxDeviationK : {40}, maxStepK : {20},
            minIntervalS : {2}, defaultDurationS : {2},
            maxDurationS : {2}, commandTtlS : {1}] : SaneSettings(s)}
EnvelopeWorlds ==
    [role : {"operator", "viewer"},
     zone : [baselineTempC : {0, Null}, activeOverrideTempC : {20, 40, Null},
             equipment : {{}, {"degraded"}, {"operational", "maintenance"}},
             feedback : {Null, [ts |-> 5, quality |-> "good"],
                         [ts |-> 4, quality |-> "good"],
                         [ts |-> 5, quality |-> "bad"]},
             lastCommandAt : {Null, 3, 4}, commandInFlight : BOOLEAN]]

(* What keeps an instance small: who acts in it, and what may change.     *)
Issuing ==
    /\ Next
    /\ settings' \in Narrow /\ equipment' \in [Zones -> Healthy] /\ faults' = 0
    /\ \A g \in Gateways \ {speaker} : poll'[g] = poll[g]
    /\ \A u \in Users : op'[u].pc # "cancelling"
Dispatching ==
    /\ Next
    /\ settings' \in Limited
    /\ \A u \in Users \ {asker} : op'[u] = op[u]
    /\ op'[asker].setpointTempC \in ThereAndBack

mcvars == <<vars, evars, mode, asker, speaker>>

\* Any one value, for what stays as it began.
One(S) == CHOOSE x \in S : TRUE

MCInit ==
    /\ Init
    /\ \/ /\ mode = "envelope" /\ asker = Null /\ speaker = Null
          /\ settings \in Narrow /\ equipment \in [Zones -> Healthy] /\ feedback = [z \in Zones |-> Null]
          /\ EInit
       \/ /\ \/ /\ mode = "issue" /\ asker = Null /\ speaker \in Gateways
                /\ settings \in Narrow /\ equipment \in [Zones -> Healthy]
             \/ mode = "dispatch" /\ asker \in Users /\ speaker = Null /\ settings \in Limited
          /\ request = One(Requests) /\ limits = One(EnvelopeSettings)
          /\ site = One(Worlds) /\ verdict = Null /\ recheck = Null

MCNext ==
    /\ \/ mode = "dispatch" /\ Dispatching /\ UNCHANGED evars
       \/ mode = "issue" /\ Issuing /\ UNCHANGED evars
       \/ mode = "envelope" /\ ENext /\ UNCHANGED vars
    /\ UNCHANGED <<mode, asker, speaker>>

MCSpec == MCInit /\ [][MCNext]_mcvars

=============================================================================
