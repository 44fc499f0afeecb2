------------------------- MODULE NotificationOutbox -------------------------
(***************************************************************************)
(* The notification outbox (apps/ingest/src/rules/notify.ts, migrations    *)
(* 006 and 015).  openAlert writes one row per destination with the alert; *)
(* delivery passes claim rows under a lease and send them.  A pass is one  *)
(* run of deliverForAlert (the fast path) or one tenant's turn in          *)
(* retryPending; passes of one replica overlap as freely as those of two,  *)
(* since nothing stops a timer from starting the next.                     *)
(*                                                                         *)
(* A row is a pair of an alert and a destination.  Leases are remaining    *)
(* times.  `sends' and `received' observe the network.                     *)
(***************************************************************************)
EXTENDS Naturals, FiniteSets

CONSTANTS
    NumAlerts,     \* bound on alerts, which open in the order 1, 2, ...
    Destinations,  \* what rules' notify configurations parse to
    LogChannel,    \* the destinations that are the log: sending cannot fail
    Passes,        \* bound on the passes under way at once
    NoRow,
    Batch,         \* ALERT_NOTIFY_BATCH
    Lease,         \* ALERT_NOTIFY_LEASE_MS, in ticks
    MaxAttempts,   \* ALERT_WEBHOOK_MAX_ATTEMPTS
    MaxSend,       \* bound on the ticks a row takes, its timeout included
    MaxOutboxFaults      \* bound on passes that die and database failures

Numbers == 1..NumAlerts
Rows == Numbers \X Destinations
RowsOf(a) == {a} \X Destinations

ASSUME OutboxAssumption ==
    /\ NumAlerts \in Nat /\ Batch \in Nat \ {0} /\ Lease \in Nat \ {0}
    /\ MaxAttempts \in Nat \ {0} /\ MaxSend \in Nat /\ MaxOutboxFaults \in Nat
    /\ LogChannel \subseteq Destinations /\ IsFiniteSet(Destinations)
    /\ NoRow \notin Rows

VARIABLES
    alert,     \* state of each alert, and whether its fast path is to run
    row,       \* the rows of alert_notifications
    pass,      \* what each pass still has to deliver, and where it is
    sends,     \* how often each row was sent
    received,  \* the rows whose destination has the message
    outboxFaults,
    own        \* history: what is left to each pass of the lease it claimed under

outboxvars == <<alert, row, pass, sends, received, outboxFaults, own>>

-----------------------------------------------------------------------------
NotYet == [status |-> "none", attempts |-> 0, lease |-> 0]

Idle == [at |-> "idle", todo |-> {}, row |-> NoRow, age |-> 0]

(* What #claim gives the pass that runs it.                                *)
Taking(B) == [at |-> "between", todo |-> B, row |-> NoRow, age |-> 0]

(* A pass moves on to its next row, or ends.                               *)
NextRow(p) ==
    IF pass[p].todo = {} THEN Idle
    ELSE [pass[p] EXCEPT !.at = "between", !.row = NoRow, !.age = 0]

(* A pass's own lease runs from its claim, whoever else claims its rows.   *)
OwnLease(passed) ==
    own' = [p \in Passes |-> IF pass'[p] = Idle THEN 0
                             ELSE IF pass[p] = Idle THEN Lease
                             ELSE IF own[p] > passed THEN own[p] - passed ELSE 0]

(* openAlert: the alert and a row for each destination its rule names      *)
(* commit together.                                                        *)
openAlertRows(a) ==
    /\ alert[a].state = "none"
    /\ \A b \in 1..(a - 1) : alert[b].state # "none"
    /\ alert' = [alert EXCEPT ![a] = [state |-> "live", fast |-> TRUE]]
    /\ \E D \in SUBSET Destinations :
         row' = [r \in Rows |-> IF r \in {a} \X D
                               THEN [NotYet EXCEPT !.status = "pending"]
                               ELSE row[r]]
    /\ UNCHANGED <<pass, sends, received, outboxFaults, own>>

resolveAlertRow(a) ==
    /\ alert[a].state = "live"
    /\ alert' = [alert EXCEPT ![a].state = "resolved"]
    /\ UNCHANGED <<row, pass, sends, received, outboxFaults, own>>

-----------------------------------------------------------------------------
(* Broken variant: a claimed row is claimable.                             *)
IgnoresLease(r) ==
    /\ row[r].status \in {"pending", "failed"}
    /\ row[r].attempts < MaxAttempts
    /\ alert[r[1]].state = "live"

Claimable(r) ==
    /\ row[r].status \in {"pending", "failed"}
    /\ row[r].attempts < MaxAttempts
    /\ alert[r[1]].state = "live"
    /\ row[r].lease = 0

(* ORDER BY created_at LIMIT: rows of one alert are equally old.           *)
Batches(S) ==
    {B \in SUBSET S :
       /\ Cardinality(B) = IF Cardinality(S) < Batch THEN Cardinality(S) ELSE Batch
       /\ \A b \in B, r \in S \ B : b[1] <= r[1]}

(* #claim's transaction.                                                   *)
Claim(p, scope) ==
    /\ pass[p] = Idle
    /\ \E B \in Batches({r \in scope : Claimable(r)}) :
         /\ row' = [r \in Rows |-> IF r \in B THEN [row[r] EXCEPT !.lease = Lease]
                                   ELSE row[r]]
         /\ pass' = [pass EXCEPT ![p] = IF B = {} THEN Idle ELSE Taking(B)]
    /\ OwnLease(0)
    /\ UNCHANGED <<sends, received, outboxFaults>>

retryPending(p) == Claim(p, Rows) /\ UNCHANGED alert

(* The fast path runs once, after openAlert, if the process lives.         *)
deliverForAlert(p, a) ==
    /\ alert[a].fast
    /\ alert' = [alert EXCEPT ![a].fast = FALSE]
    /\ Claim(p, RowsOf(a))

(* #deliverOne: the destination takes the message and says so; takes it    *)
(* and the answer is lost; or never has it (refused, blocked, no           *)
(* transport).  Writing to the log cannot fail.                            *)
Send(p, r, outcome) ==
    /\ pass[p].at = "between" /\ r \in pass[p].todo
    /\ r[2] \in LogChannel => outcome = "answered"
    /\ pass' = [pass EXCEPT
                  ![p].at = IF outcome = "answered" THEN "sent" ELSE "refused",
                  ![p].row = r, ![p].todo = @ \ {r}]
    /\ sends' = [sends EXCEPT ![r] = @ + 1]
    /\ received' = IF outcome = "refused" THEN received ELSE received \cup {r}
    /\ OwnLease(0)
    /\ UNCHANGED <<alert, row, outboxFaults>>

markDelivered(p) ==
    /\ pass[p].at = "sent"
    /\ row' = [row EXCEPT ![pass[p].row].status = "delivered",
                          ![pass[p].row].attempts = @ + 1]
    /\ pass' = [pass EXCEPT ![p] = NextRow(p)]
    /\ OwnLease(0)
    /\ UNCHANGED <<alert, sends, received, outboxFaults>>

(* Broken variant: without the CHECK of migration 006.                     *)
NoCheck(r) == r \in Rows

(* The CHECK (status = 'delivered') = (delivered_at IS NOT NULL): a        *)
(* delivered row cannot be made failed, since delivered_at stays.          *)
CheckAllowsFailing(r) == row[r].status # "delivered"

(* markFailed, whose error ends the whole pass.                            *)
markFailed(p) ==
    /\ pass[p].at = "refused"
    /\ IF CheckAllowsFailing(pass[p].row)
       THEN /\ row' = [row EXCEPT ![pass[p].row].status = "failed",
                                  ![pass[p].row].attempts = @ + 1]
            /\ pass' = [pass EXCEPT ![p] = NextRow(p)]
       ELSE /\ pass' = [pass EXCEPT ![p] = Idle]
            /\ UNCHANGED row
    /\ OwnLease(0)
    /\ UNCHANGED <<alert, sends, received, outboxFaults>>

(* markDelivered throws after a send: the catch records a failure.  (For   *)
(* the log channel there is no catch: PassDies.)                           *)
MarkDeliveredFails(p) ==
    /\ pass[p].at = "sent" /\ pass[p].row[2] \notin LogChannel
    /\ outboxFaults < MaxOutboxFaults
    /\ outboxFaults' = outboxFaults + 1
    /\ pass' = [pass EXCEPT ![p].at = "refused"]
    /\ OwnLease(0)
    /\ UNCHANGED <<alert, row, sends, received>>

(* The process dies, or an error escapes the pass (a claim whose answer is *)
(* lost, loadAlert, markFailed): what it claimed waits for the lease.      *)
PassDies(p) ==
    /\ pass[p] # Idle
    /\ outboxFaults < MaxOutboxFaults
    /\ outboxFaults' = outboxFaults + 1
    /\ pass' = [pass EXCEPT ![p] = Idle]
    /\ OwnLease(0)
    /\ UNCHANGED <<alert, row, sends, received>>

OutboxTick ==
    /\ \A p \in Passes : pass[p] # Idle => pass[p].age < MaxSend
    /\ row' = [r \in Rows |->
                 [row[r] EXCEPT !.lease = IF @ > 0 THEN @ - 1 ELSE 0]]
    /\ pass' = [p \in Passes |-> IF pass[p] = Idle THEN Idle
                                 ELSE [pass[p] EXCEPT !.age = @ + 1]]
    /\ OwnLease(1)
    /\ UNCHANGED <<alert, sends, received, outboxFaults>>

-----------------------------------------------------------------------------
OutboxInit ==
    /\ alert = [a \in Numbers |-> [state |-> "none", fast |-> FALSE]]
    /\ row = [r \in Rows |-> NotYet]
    /\ pass = [p \in Passes |-> Idle]
    /\ sends = [r \in Rows |-> 0]
    /\ received = {}
    /\ outboxFaults = 0
    /\ own = [p \in Passes |-> 0]

Deliver(p) ==
    \/ \E r \in Rows, outcome \in {"answered", "unanswered", "refused"} :
         Send(p, r, outcome)
    \/ markDelivered(p)
    \/ markFailed(p)

OutboxNext ==
    \/ \E a \in Numbers : openAlertRows(a) \/ resolveAlertRow(a)
    \/ \E p \in Passes :
         \/ retryPending(p) \/ Deliver(p)
         \/ MarkDeliveredFails(p) \/ PassDies(p)
         \/ \E a \in Numbers : deliverForAlert(p, a)
    \/ OutboxTick

OutboxSpec == OutboxInit /\ [][OutboxNext]_outboxvars

(* The sweep's timer keeps firing, sends end by answer or timeout, time    *)
(* passes.  The fast path is not fair: losing it is the case in question.  *)
OutboxFairness ==
    /\ WF_outboxvars(OutboxTick)
    /\ \A p \in Passes : WF_outboxvars(retryPending(p)) /\ WF_outboxvars(Deliver(p))

OutboxFairSpec == OutboxSpec /\ OutboxFairness

-----------------------------------------------------------------------------
(* Every variable has its type, and a row is being sent by a pass only     *)
(* once it exists.                                                         *)
OutboxTypeOK ==
    /\ alert \in [Numbers -> [state : {"none", "live", "resolved"}, fast : BOOLEAN]]
    /\ row \in [Rows -> [status : {"none", "pending", "failed", "delivered"},
                         attempts : Nat, lease : 0..Lease]]
    /\ pass \in [Passes -> [at : {"idle", "between", "sent", "refused"},
                            todo : SUBSET Rows, row : Rows \cup {NoRow},
                            age : 0..MaxSend]]
    /\ sends \in [Rows -> Nat]
    /\ received \subseteq Rows
    /\ outboxFaults \in 0..MaxOutboxFaults
    /\ \A p \in Passes : /\ pass[p].at \in {"sent", "refused"} <=> pass[p].row # NoRow
                         /\ pass[p].at = "between" => pass[p].todo # {}
                         /\ pass[p].at = "idle" <=> pass[p] = Idle

OwnTypeOK == own \in [Passes -> 0..Lease]

(* The rows a pass may still send or record.                               *)
Holding(p) == pass[p].todo \cup ({pass[p].row} \ {NoRow})

(* Two passes hold the same row only once one of them has been at it for   *)
(* longer than the lease it claimed it under: until then a claim by any    *)
(* other pass, of either path and of any replica, leaves the row alone     *)
(* (#claim).                                                               *)
OneSenderInTime ==
    \A p, q \in Passes : p # q /\ Holding(p) \cap Holding(q) # {} => own[p] = 0 \/ own[q] = 0

(* While the lease covers a batch of slow sends, no two passes hold a row: *)
(* "so the two cannot both send the same row" (deliverForAlert).           *)
OneSender ==
    \A p, q \in Passes : p # q => Holding(p) \cap Holding(q) = {}

(* While the lease covers a batch of slow sends, a row is sent at most     *)
(* MaxAttempts times, and once more per crash or failed write at worst:    *)
(* "bounded by attempt count" (retryPending).                              *)
SendsBounded == \A r \in Rows : sends[r] <= MaxAttempts + outboxFaults

(* "Was anyone actually told?" (migration 006): a row says delivered only  *)
(* if its destination has the message.                                     *)
DeliveredWasReceived ==
    \A r \in Rows : row[r].status = "delivered" => r \in received

(* A delivered row stays delivered, also when a slow pass whose row was    *)
(* taken over reports a failure afterwards.                                *)
DeliveredIsFinal ==
    [][\A r \in Rows : row[r].status = "delivered" => row'[r].status = "delivered"]_outboxvars

(* Every row of an alert that stays live is delivered in the end, or its   *)
(* attempts are used up, over lost fast paths, crashes and slow passes:    *)
(* "losing that call cost[s] one interval rather than a notification".     *)
SettlesWhileLive ==
    \A a \in Numbers :
        <>[](alert[a].state = "live") =>
            <>[](\A r \in RowsOf(a) :
                    row[r].status \in {"none", "delivered"} \/ row[r].attempts >= MaxAttempts)
=============================================================================
