-------------------------- MODULE CommandLifecycle --------------------------
(***************************************************************************)
(* What migration 017 promises of control_commands, with no handler, no    *)
(* envelope and no gateway in sight: how a row may move between its states, *)
(* one live command per zone, and one override in force per zone.          *)
(***************************************************************************)
EXTENDS Integers

CONSTANTS Commands, Zones, Null

VARIABLES
    now,  \* the database clock
    row   \* id -> [state, zone, expiresAt, effectiveUntil]

LiveStates == {"pending", "dispatched"}

InForce(c) == row[c].state = "applied" /\ row[c].effectiveUntil > now

Absent == [state |-> "none", zone |-> Null, expiresAt |-> 0,
           effectiveUntil |-> 0]

AInit == now = 0 /\ row = [c \in Commands |-> Absent]

Passes == now' \in Nat /\ now' > now /\ UNCHANGED row

(* A row appears, for a zone that has no live one.  Its effect must        *)
(* outlast its intent.                                                     *)
Accept(c) ==
    /\ row[c].state = "none"
    /\ row'[c].state = "pending"
    /\ row'[c].zone \in Zones
    /\ row'[c].effectiveUntil > row'[c].expiresAt
    /\ \A d \in Commands \ {c} :
         /\ row[d].zone = row'[c].zone => row[d].state \notin LiveStates
         /\ row'[d] = row[d]
    /\ UNCHANGED now

Move(S, to) ==
    /\ row' = [c \in Commands |->
                 IF c \in S THEN [row[c] EXCEPT !.state = to] ELSE row[c]]
    /\ UNCHANGED now

(* Uncollected commands expire; unexpired ones may be collected.           *)
Expire(S) ==
    /\ \A c \in S : row[c].state = "pending" /\ row[c].expiresAt <= now
    /\ Move(S, "expired")

Collect(S) ==
    /\ \A c \in S : row[c].state = "pending" /\ row[c].expiresAt > now
    /\ Move(S, "dispatched")

HandBack(c) == row[c].state = "dispatched" /\ Move({c}, "pending")

Withdraw(c) == row[c].state \in LiveStates /\ Move({c}, "cancelled")

Fail(c) == row[c].state = "dispatched" /\ Move({c}, "failed")

(* The new override and the end of the one it replaces are one step.       *)
Apply(c) ==
    /\ row[c].state = "dispatched"
    /\ row' = [d \in Commands |->
                 IF d = c THEN [row[d] EXCEPT !.state = "applied"]
                 ELSE IF InForce(d) /\ row[d].zone = row[c].zone
                 THEN [row[d] EXCEPT !.state = "superseded"]
                 ELSE row[d]]
    /\ UNCHANGED now

ANext ==
    \/ Passes
    \/ \E c \in Commands : Accept(c) \/ HandBack(c) \/ Withdraw(c)
                           \/ Fail(c) \/ Apply(c)
    \/ \E S \in SUBSET Commands : Expire(S) \/ Collect(S)

ASpec == AInit /\ [][ANext]_<<now, row>>
=============================================================================
