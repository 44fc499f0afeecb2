--------------------------- MODULE EnvelopeCheck ---------------------------
(***************************************************************************)
(* The envelope over bounded inputs: a request and a world are chosen, the *)
(* verdict at issue is computed, and then the verdict of the re-check a    *)
(* claim would run at the same moment in the same world                    *)
(* (service.ts claimForGateway).                                           *)
(***************************************************************************)
EXTENDS Envelope

CONSTANTS
    Now,            \* the moment of the evaluation
    Requests,       \* [setpointTempC, durationS]
    EnvelopeSettings,  \* rows control_settings_sane_ck accepts
    Worlds          \* [role, zone]

ASSUME EnvelopeCheckAssumption ==
    /\ Now \in Nat
    /\ Requests \subseteq [setpointTempC : Int, durationS : (Nat \ {0}) \cup {Null}]
    /\ EnvelopeSettings \subseteq Settings
    /\ Worlds \subseteq [role : Roles, zone : ZoneContexts]

VARIABLES request, limits, site, verdict, recheck

evars == <<request, limits, site, verdict, recheck>>

EInit ==
    /\ request \in Requests
    /\ limits \in EnvelopeSettings
    /\ site \in Worlds
    /\ verdict = Null
    /\ recheck = Null

Issue ==
    /\ verdict = Null
    /\ verdict' = evaluate(request, limits, site.role, site.zone, Now)
    /\ UNCHANGED <<request, limits, site, recheck>>

(* At dispatch the request has no durationS, and neither the command       *)
(* itself nor the rate limit may refuse it.                                *)
Recheck ==
    /\ verdict # Null
    /\ recheck = Null
    /\ recheck' = evaluate([request EXCEPT !.durationS = Null], limits,
                           site.role,
                           [site.zone EXCEPT !.commandInFlight = FALSE,
                                              !.lastCommandAt = Null],
                           Now)
    /\ UNCHANGED <<request, limits, site, verdict>>

ENext == Issue \/ Recheck

ESpec == EInit /\ [][ENext]_evars

-----------------------------------------------------------------------------
zone == site.zone

(* The reference: everything that is wrong with the request, in no order.  *)
From == IF zone.activeOverrideTempC = Null THEN zone.baselineTempC ELSE zone.activeOverrideTempC
Asked == IF request.durationS = Null THEN limits.defaultDurationS ELSE request.durationS
Wrong(p) ==
    \/ p = "forbidden_role" /\ site.role = "viewer"
    \/ p = "control_disabled" /\ ~limits.enabled
    \/ p = "no_baseline" /\ zone.baselineTempC = Null
    \/ p = "equipment_unavailable" /\ ~(zone.equipment \subseteq {"operational", "degraded"})
    \/ /\ p = "feedback_unusable"
       /\ \/ zone.feedback = Null
          \/ zone.feedback.quality # "good"
          \/ Now > zone.feedback.ts + StaleAfter
    \/ /\ zone.baselineTempC # Null
       /\ \/ /\ p = "outside_envelope"
             /\ request.setpointTempC - zone.baselineTempC \notin -limits.maxDeviationK .. limits.maxDeviationK
          \/ p = "step_too_large" /\ request.setpointTempC - From \notin -limits.maxStepK .. limits.maxStepK
          \/ p = "no_change" /\ request.setpointTempC - From \in -1 .. 1
    \/ p = "command_in_flight" /\ zone.commandInFlight
    \/ p = "too_soon" /\ zone.lastCommandAt # Null /\ Now < zone.lastCommandAt + limits.minIntervalS
    \/ p = "duration_too_long" /\ Asked > limits.maxDurationS

\* Authority, capability, interlocks, value, rate: the five groups of the checks.
Group == [forbidden_role |-> 1, control_disabled |-> 2, no_baseline |-> 2,
          equipment_unavailable |-> 3, feedback_unusable |-> 3,
          outside_envelope |-> 4, step_too_large |-> 4, no_change |-> 4,
          command_in_flight |-> 5, too_soon |-> 5, duration_too_long |-> 5]
Problems == {p \in DOMAIN Group : Wrong(p)}

(* What is accepted has nothing wrong with it - the role, the switch, the  *)
(* interlocks, the envelope, the step, the interval and the duration - and *)
(* its override ends as long from now as was asked for, within the maximum *)
(* (envelope.ts evaluate).                                                 *)
AcceptedIsSafe ==
    verdict # Null /\ verdict.ok =>
        /\ Problems = {}
        /\ verdict.effectiveUntil = Now + Asked
        /\ verdict.effectiveUntil <= Now + limits.maxDurationS

(* "The FIRST failure is what an operator is shown and it should name the  *)
(* real problem ... so that a dead sensor is reported as a dead sensor"    *)
(* (envelope.ts): the reason given holds, and nothing of an earlier group  *)
(* is wrong as well.                                                       *)
RefusalNamesTheRealProblem ==
    verdict # Null /\ ~verdict.ok =>
        /\ verdict.refusal \in Problems
        /\ \A p \in Problems : Group[verdict.refusal] <= Group[p]

(* The re-check refuses nothing that was accepted in the same world        *)
(* (service.ts: the command's own existence and the rate limit must not be *)
(* the reason): a command is withheld only because something changed.      *)
RecheckAgrees ==
    recheck # Null /\ verdict.ok => recheck.ok

(* What the envelope promises its callers: nothing accepted that breaks a  *)
(* limit, every refusal for a reason that holds and that nothing earlier   *)
(* overshadows, and a re-check at dispatch that does not refuse what the   *)
(* first check accepted on the same world (envelope.ts, evaluate).         *)
VerdictsAreRight == AcceptedIsSafe /\ RefusalNamesTheRealProblem /\ RecheckAgrees
=============================================================================
