----------------------- MODULE NotificationOutbox_proofs -----------------------
(***************************************************************************)
(* Proofs about NotificationOutbox, for any alerts, destinations, passes,  *)
(* batch, lease, number of attempts and faults.                            *)
(***************************************************************************)
EXTENDS NotificationOutbox, FiniteSetTheorems, TLAPS

(* An alert that has not opened has no rows, and nothing of it was sent.   *)
UnopenedIsBlank ==
    \A r \in Rows : alert[r[1]].state = "none" => row[r] = NotYet /\ sends[r] = 0

(* What a pass holds belongs to an alert that has opened, and a message a  *)
(* pass knows to have arrived has arrived.                                 *)
HoldsOpened ==
    \A p \in Passes : /\ \A r \in Holding(p) : alert[r[1]].state # "none"
                      /\ pass[p].at = "sent" => pass[p].row \in received
                      /\ pass[p].row \notin pass[p].todo

OutboxInv == OutboxTypeOK /\ UnopenedIsBlank /\ HoldsOpened /\ DeliveredWasReceived

Record == [at : {"idle", "between", "sent", "refused"}, todo : SUBSET Rows,
           row : Rows \cup {NoRow}, age : 0..MaxSend]

(* A pass that moves on is a pass that is well formed, holds what it still *)
(* has to do and nothing else, and has its whole time again.               *)
LEMMA MovesOn ==
    ASSUME OutboxTypeOK, NEW p \in Passes
    PROVE  /\ NextRow(p) \in Record
           /\ NextRow(p).row = NoRow /\ NextRow(p).todo = pass[p].todo
           /\ NextRow(p).age = 0
           /\ NextRow(p).at \in {"idle", "between"}
           /\ NextRow(p).at = "between" => NextRow(p).todo # {}
           /\ NextRow(p).at = "idle" <=> NextRow(p) = Idle
PROOF
<1>0. pass[p] \in Record /\ 0 \in 0..MaxSend
  BY OutboxAssumption DEF OutboxTypeOK, Record
<1>1. CASE pass[p].todo = {}
  BY <1>0, <1>1 DEF NextRow, Idle, Record
<1>2. CASE pass[p].todo # {}
  BY <1>0, <1>2 DEF NextRow, Idle, Record
<1> QED BY <1>1, <1>2

(* A claim takes rows nobody may be told about yet: one step of one pass.  *)
Claims(p, scope, B) ==
    /\ B \in Batches({r \in scope : Claimable(r)})
    /\ \A r \in B : Claimable(r)
    /\ \A r \in Rows \ B : row'[r] = row[r]
    /\ \A r \in B : row'[r] = [row[r] EXCEPT !.lease = Lease]
    /\ row' = [r \in Rows |-> IF r \in B THEN [row[r] EXCEPT !.lease = Lease]
                              ELSE row[r]]
    /\ \A q \in Passes \ {p} : pass'[q] = pass[q]
    /\ pass[p] = Idle
    /\ \/ B = {} /\ pass'[p] = Idle
       \/ B # {} /\ pass'[p] = Taking(B)
    /\ pass' \in [Passes -> Record]
    /\ UNCHANGED <<sends, received, outboxFaults>>

LEMMA ClaimRows ==
    ASSUME OutboxTypeOK, NEW p \in Passes, NEW scope \in SUBSET Rows, Claim(p, scope)
    PROVE  \E B \in SUBSET Rows : Claims(p, scope, B)
PROOF
<1>1. PICK B \in Batches({r \in scope : Claimable(r)}) :
         /\ row' = [r \in Rows |-> IF r \in B THEN [row[r] EXCEPT !.lease = Lease]
                                   ELSE row[r]]
         /\ pass' = [pass EXCEPT ![p] = IF B = {} THEN Idle ELSE Taking(B)]
  BY DEF Claim
<1>2. B \in SUBSET Rows /\ \A r \in B : Claimable(r)
  BY DEF Batches
<1>3. Idle \in Record /\ Taking(B) \in Record
  <2>1. 0 \in 0..MaxSend
    BY OutboxAssumption
  <2> QED BY <1>2, <2>1 DEF Idle, Taking, Record
<1>4. pass \in [Passes -> Record]
  BY DEF OutboxTypeOK, Record
<1>5. pass[p] = Idle /\ UNCHANGED <<sends, received, outboxFaults>>
  BY DEF Claim
<1>6. /\ \A q \in Passes \ {p} : pass'[q] = pass[q]
      /\ \/ B = {} /\ pass'[p] = Idle
         \/ B # {} /\ pass'[p] = Taking(B)
      /\ pass' \in [Passes -> Record]
  BY <1>1, <1>3, <1>4
<1>7. /\ \A r \in Rows \ B : row'[r] = row[r]
      /\ \A r \in B : row'[r] = [row[r] EXCEPT !.lease = Lease]
  BY <1>1, <1>2
<1> QED BY <1>1, <1>2, <1>5, <1>6, <1>7 DEF Claims

LEMMA OutboxInvInit == OutboxInit => OutboxInv
PROOF
<1> SUFFICES ASSUME OutboxInit PROVE OutboxInv
  OBVIOUS
<1>1. Idle \in Record /\ 0 \in 0..Lease /\ 0 \in 0..MaxSend /\ 0 \in 0..MaxOutboxFaults
  BY OutboxAssumption DEF Idle, Record
<1>2. OutboxTypeOK
  BY <1>1, OutboxAssumption DEF OutboxInit, OutboxTypeOK, NotYet, Idle, Record
<1>3. UnopenedIsBlank /\ DeliveredWasReceived
  BY DEF OutboxInit, UnopenedIsBlank, DeliveredWasReceived, NotYet
<1>4. HoldsOpened
  BY DEF OutboxInit, HoldsOpened, Holding, Idle
<1> QED BY <1>2, <1>3, <1>4 DEF OutboxInv

(* An alert opens or resolves.                                             *)
LEMMA AlertSteps ==
    ASSUME OutboxInv, NEW a \in Numbers, openAlertRows(a) \/ resolveAlertRow(a)
    PROVE  OutboxInv'
PROOF
<1> USE DEF OutboxInv
<1>1. CASE openAlertRows(a)
  <2>1. PICK D \in SUBSET Destinations :
         row' = [r \in Rows |-> IF r \in {a} \X D
                               THEN [NotYet EXCEPT !.status = "pending"]
                               ELSE row[r]]
    BY <1>1 DEF openAlertRows
  <2>2. /\ alert[a].state = "none"
        /\ alert' = [alert EXCEPT ![a] = [state |-> "live", fast |-> TRUE]]
        /\ UNCHANGED <<pass, sends, received, outboxFaults>>
    BY <1>1 DEF openAlertRows
  <2>3. \A r \in Rows : r[1] # a => row'[r] = row[r]
    BY <2>1
  <2>4. \A r \in Rows : row'[r] = row[r] \/ row'[r] = [NotYet EXCEPT !.status = "pending"]
    BY <2>1
  <2>5. 0 \in 0..Lease
    BY OutboxAssumption
  <2>6. row' \in [Rows -> [status : {"none", "pending", "failed", "delivered"},
                           attempts : Nat, lease : 0..Lease]]
    BY <2>1, <2>4, <2>5 DEF OutboxTypeOK, NotYet
  <2>7. \A b \in Numbers : IF b = a THEN alert'[b].state = "live"
                                    ELSE alert'[b] = alert[b]
    BY <2>2 DEF OutboxTypeOK
  <2>8. OutboxTypeOK'
    BY <2>2, <2>6 DEF OutboxTypeOK
  <2>9. UnopenedIsBlank'
    BY <2>2, <2>3, <2>7 DEF UnopenedIsBlank, Rows
  <2>10. HoldsOpened'
    <3>1. \A p \in Passes : Holding(p)' = Holding(p) /\ Holding(p) \subseteq Rows
      BY <2>2 DEF Holding, OutboxTypeOK
    <3> QED BY <2>2, <2>7, <3>1 DEF HoldsOpened, Rows
  <2>11. DeliveredWasReceived'
    BY <2>2, <2>4 DEF DeliveredWasReceived, NotYet
  <2> QED BY <2>8, <2>9, <2>10, <2>11
<1>2. CASE resolveAlertRow(a)
  <2>1. /\ alert[a].state = "live"
        /\ alert' = [alert EXCEPT ![a].state = "resolved"]
        /\ UNCHANGED <<row, pass, sends, received, outboxFaults>>
    BY <1>2 DEF resolveAlertRow
  <2>2. \A b \in Numbers : alert'[b].state = "none" <=> alert[b].state = "none"
    BY <2>1 DEF OutboxTypeOK
  <2>3. OutboxTypeOK'
    BY <2>1 DEF OutboxTypeOK
  <2>4. UnopenedIsBlank' /\ DeliveredWasReceived'
    BY <2>1, <2>2 DEF UnopenedIsBlank, DeliveredWasReceived, Rows
  <2>5. HoldsOpened'
    <3>1. \A p \in Passes : Holding(p)' = Holding(p) /\ Holding(p) \subseteq Rows
      BY <2>1 DEF Holding, OutboxTypeOK
    <3> QED BY <2>1, <2>2, <3>1 DEF HoldsOpened, Rows
  <2> QED BY <2>3, <2>4, <2>5
<1> QED BY <1>1, <1>2

(* A claim gives a pass rows of live alerts and touches only their leases. *)
LEMMA ClaimSteps ==
    ASSUME OutboxInv, NEW p \in Passes, NEW scope \in SUBSET Rows, Claim(p, scope),
           \A b \in Numbers : alert'[b].state = alert[b].state,
           alert' \in [Numbers -> [state : {"none", "live", "resolved"}, fast : BOOLEAN]]
    PROVE  OutboxInv'
PROOF
<1> USE DEF OutboxInv
<1>1. PICK B \in SUBSET Rows : Claims(p, scope, B)
  BY ClaimRows
<1> USE <1>1 DEF Claims
<1>2. Lease \in 0..Lease
  BY OutboxAssumption
<1>3. row' \in [Rows -> [status : {"none", "pending", "failed", "delivered"},
                         attempts : Nat, lease : 0..Lease]]
  BY <1>1, <1>2 DEF OutboxTypeOK
<1>4. /\ pass'[p].at \in {"sent", "refused"} <=> pass'[p].row # NoRow
      /\ pass'[p].at = "between" => pass'[p].todo # {}
      /\ pass'[p].at = "idle" <=> pass'[p] = Idle
      /\ pass'[p].at # "sent" /\ pass'[p].row = NoRow /\ pass'[p].todo = B
  <2>1. CASE B = {} /\ pass'[p] = Idle
    BY <2>1 DEF Idle
  <2>2. CASE B # {} /\ pass'[p] = Taking(B)
    <3>1. Taking(B) # Idle
      BY DEF Idle, Taking
    <3> QED BY <2>2, <3>1 DEF Taking
  <2> QED BY <1>1, <2>1, <2>2
<1>5. \A q \in Passes :
        /\ pass'[q].at \in {"sent", "refused"} <=> pass'[q].row # NoRow
        /\ pass'[q].at = "between" => pass'[q].todo # {}
        /\ pass'[q].at = "idle" <=> pass'[q] = Idle
  BY <1>1, <1>4 DEF OutboxTypeOK
<1>6. OutboxTypeOK'
  BY <1>1, <1>3, <1>5 DEF OutboxTypeOK, Record
<1>7. /\ Holding(p)' = B
      /\ \A q \in Passes \ {p} : Holding(q)' = Holding(q)
      /\ \A q \in Passes : Holding(q) \subseteq Rows
  BY <1>1, <1>4 DEF Holding, OutboxTypeOK
<1>8. HoldsOpened'
  <2>1. \A r \in B : alert'[r[1]].state # "none" /\ r \in Rows
    BY <1>1 DEF Claimable, Rows
  <2>2. NoRow \notin B
    BY OutboxAssumption
  <2>3. ASSUME NEW q \in Passes \ {p}
        PROVE  /\ \A r \in Holding(q)' : alert'[r[1]].state # "none"
               /\ pass'[q].at = "sent" => pass'[q].row \in received'
               /\ pass'[q].row \notin pass'[q].todo
    <3>1. \A r \in Holding(q)' : r[1] \in Numbers /\ alert[r[1]].state # "none"
      BY <1>7 DEF HoldsOpened, Rows
    <3>2. /\ pass'[q].at = "sent" => pass'[q].row \in received'
          /\ pass'[q].row \notin pass'[q].todo
      BY <1>1 DEF HoldsOpened
    <3> QED BY <3>1, <3>2
  <2> QED BY <1>4, <1>7, <2>1, <2>2, <2>3 DEF HoldsOpened
<1>9. \A r \in Rows : row'[r].status = row[r].status
  BY <1>1 DEF OutboxTypeOK
<1>10. UnopenedIsBlank'
  <2>1. \A r \in B : alert[r[1]].state = "live"
    BY <1>1 DEF Claimable
  <2> QED BY <1>1, <2>1 DEF UnopenedIsBlank, Rows
<1>11. DeliveredWasReceived'
  BY <1>1, <1>9 DEF DeliveredWasReceived
<1> QED BY <1>6, <1>8, <1>10, <1>11

(* What the other steps of a pass do to the rows, the passes and the rest. *)
Elsewhere(p) == /\ pass' \in [Passes -> Record]
                /\ \A q \in Passes \ {p} : pass'[q] = pass[q]
                /\ UNCHANGED alert

LEMMA SendSteps ==
    ASSUME OutboxInv, NEW p \in Passes, NEW r \in Rows,
           NEW outcome \in {"answered", "unanswered", "refused"}, Send(p, r, outcome)
    PROVE  /\ OutboxInv' /\ Elsewhere(p)
           /\ pass[p].at = "between" /\ r \in pass[p].todo
           /\ pass'[p].row = r /\ pass'[p].todo = pass[p].todo \ {r}
           /\ pass'[p].age = pass[p].age /\ pass'[p].at \in {"sent", "refused"}
           /\ sends' = [sends EXCEPT ![r] = @ + 1] /\ UNCHANGED <<row, outboxFaults>>
PROOF
<1> USE DEF OutboxInv
<1> DEFINE new == [pass[p] EXCEPT
                     !.at = IF outcome = "answered" THEN "sent" ELSE "refused",
                     !.row = r, !.todo = @ \ {r}]
<1>1. /\ pass[p].at = "between" /\ r \in pass[p].todo
      /\ sends' = [sends EXCEPT ![r] = @ + 1]
      /\ received' = IF outcome = "refused" THEN received ELSE received \cup {r}
      /\ UNCHANGED <<alert, row, outboxFaults>>
  BY DEF Send
<1>2. pass[p] \in Record /\ pass \in [Passes -> Record]
  BY DEF OutboxTypeOK, Record
<1>3. pass' = [pass EXCEPT ![p] = new]
  BY <1>2 DEF Send, Record
<1>4. /\ new \in Record /\ new.row = r /\ new.todo = pass[p].todo \ {r}
      /\ new.age = pass[p].age
      /\ new.at = IF outcome = "answered" THEN "sent" ELSE "refused"
  BY <1>2 DEF Record
<1> HIDE DEF new
<1>5. Elsewhere(p) /\ pass'[p] = new
  BY <1>1, <1>2, <1>3, <1>4 DEF Elsewhere
<1>6. r # NoRow /\ new # Idle
  BY <1>4, OutboxAssumption DEF Idle
<1>7. OutboxTypeOK'
  <2>1. \A q \in Passes :
          /\ pass'[q].at \in {"sent", "refused"} <=> pass'[q].row # NoRow
          /\ pass'[q].at = "between" => pass'[q].todo # {}
          /\ pass'[q].at = "idle" <=> pass'[q] = Idle
    BY <1>4, <1>5, <1>6 DEF OutboxTypeOK, Elsewhere
  <2> QED BY <1>1, <1>5, <2>1 DEF OutboxTypeOK, Elsewhere, Record
<1>8. \A q \in Passes : Holding(q)' \subseteq Holding(q)
  <2>1. Holding(p)' \subseteq Holding(p)
    BY <1>1, <1>4, <1>5 DEF Holding
  <2> QED BY <2>1, <1>5 DEF Holding, Elsewhere
<1>9. HoldsOpened'
  <2>1. \A q \in Passes : \A x \in Holding(q)' : alert'[x[1]].state # "none"
    BY <1>1, <1>8 DEF HoldsOpened
  <2>2. \A q \in Passes : pass'[q].at = "sent" => pass'[q].row \in received'
    BY <1>1, <1>4, <1>5 DEF HoldsOpened, Elsewhere
  <2>3. \A q \in Passes : pass'[q].row \notin pass'[q].todo
    BY <1>4, <1>5 DEF HoldsOpened, Elsewhere
  <2> QED BY <2>1, <2>2, <2>3 DEF HoldsOpened
<1>10. UnopenedIsBlank'
  <2>1. alert[r[1]].state # "none"
    BY <1>1 DEF HoldsOpened, Holding
  <2>2. \A x \in Rows : x # r => sends'[x] = sends[x]
    BY <1>1 DEF OutboxTypeOK
  <2> QED BY <1>1, <2>1, <2>2 DEF UnopenedIsBlank
<1>11. DeliveredWasReceived'
  BY <1>1 DEF DeliveredWasReceived
<1> QED BY <1>1, <1>4, <1>5, <1>7, <1>9, <1>10, <1>11

(* A step in which a pass records what happened to its row, or stops.      *)
LEMMA PassSteps ==
    ASSUME OutboxInv, NEW p \in Passes, Elsewhere(p),
           pass'[p].at \in {"sent", "refused"} <=> pass'[p].row # NoRow,
           pass'[p].at = "between" => pass'[p].todo # {},
           pass'[p].at = "idle" <=> pass'[p] = Idle,
           pass'[p].at # "sent", pass'[p].row \notin pass'[p].todo,
           pass'[p].todo \subseteq pass[p].todo,
           pass'[p].row \in {pass[p].row, NoRow},
           UNCHANGED <<sends, received>>, outboxFaults' \in 0..MaxOutboxFaults,
           row' \in [Rows -> [status : {"none", "pending", "failed", "delivered"},
                              attempts : Nat, lease : 0..Lease]],
           \A x \in Rows : x # pass[p].row => row'[x] = row[x],
           \A x \in Rows : \/ row'[x] = row[x]
                           \/ row'[x].status = "delivered" => pass[p].at = "sent"
    PROVE  OutboxInv'
PROOF
<1> USE DEF OutboxInv
<1>1. OutboxTypeOK'
  <2>1. \A q \in Passes :
          /\ pass'[q].at \in {"sent", "refused"} <=> pass'[q].row # NoRow
          /\ pass'[q].at = "between" => pass'[q].todo # {}
          /\ pass'[q].at = "idle" <=> pass'[q] = Idle
    BY DEF OutboxTypeOK, Elsewhere
  <2> QED BY <2>1 DEF OutboxTypeOK, Elsewhere, Record
<1>2. \A q \in Passes : Holding(q)' \subseteq Holding(q)
  BY DEF Holding, Elsewhere
<1>3. HoldsOpened'
  <2>1. \A q \in Passes : \A x \in Holding(q)' : alert'[x[1]].state # "none"
    BY <1>2 DEF HoldsOpened, Elsewhere
  <2>2. \A q \in Passes : /\ pass'[q].at = "sent" => pass'[q].row \in received'
                          /\ pass'[q].row \notin pass'[q].todo
    BY DEF HoldsOpened, Elsewhere
  <2> QED BY <2>1, <2>2 DEF HoldsOpened
<1>4. UnopenedIsBlank'
  <2>1. \A x \in Rows : x = pass[p].row => alert[x[1]].state # "none"
    BY OutboxAssumption DEF HoldsOpened, Holding
  <2> QED BY <2>1 DEF UnopenedIsBlank, Elsewhere
<1>5. DeliveredWasReceived'
  BY DEF DeliveredWasReceived, HoldsOpened
<1> QED BY <1>1, <1>3, <1>4, <1>5

(* What recording a result does: it counts the attempt and moves on.       *)
Records(p, status) ==
    /\ pass[p].row \in Rows
    /\ row' = [row EXCEPT ![pass[p].row].status = status,
                          ![pass[p].row].attempts = @ + 1]
    /\ pass' = [pass EXCEPT ![p] = NextRow(p)]
    /\ UNCHANGED <<alert, sends, received, outboxFaults>>

LEMMA RecordsRow ==
    ASSUME OutboxInv, NEW p \in Passes, NEW status \in {"delivered", "failed"},
           Records(p, status)
    PROVE  /\ row' \in [Rows -> [status : {"none", "pending", "failed", "delivered"},
                                 attempts : Nat, lease : 0..Lease]]
           /\ \A x \in Rows : x # pass[p].row => row'[x] = row[x]
           /\ row'[pass[p].row].status = status
           /\ row'[pass[p].row].attempts = row[pass[p].row].attempts + 1
           /\ row'[pass[p].row].lease = row[pass[p].row].lease
           /\ Elsewhere(p) /\ pass'[p] = NextRow(p)
PROOF
<1> USE DEF OutboxInv
<1> DEFINE x == pass[p].row
           new == [row[x] EXCEPT !.status = status, !.attempts = @ + 1]
           R == [status : {"none", "pending", "failed", "delivered"},
                 attempts : Nat, lease : 0..Lease]
<1>1. x \in Rows /\ row \in [Rows -> R] /\ row[x] \in R
  BY DEF Records, OutboxTypeOK
<1>2. new \in R /\ new.status = status /\ new.attempts = row[x].attempts + 1
      /\ new.lease = row[x].lease
  <2>1. /\ row[x].attempts + 1 \in Nat /\ row[x].lease \in 0..Lease
        /\ status \in {"none", "pending", "failed", "delivered"}
    BY <1>1
  <2> QED BY <1>1, <2>1
<1>3. row' = [row EXCEPT ![x] = new]
  BY <1>1 DEF Records
<1>4. Elsewhere(p) /\ pass'[p] = NextRow(p)
  <2>1. NextRow(p) \in Record
    BY MovesOn
  <2>2. pass \in [Passes -> Record]
    BY DEF OutboxTypeOK, Record
  <2> QED BY <2>1, <2>2 DEF Records, Elsewhere
<1> HIDE DEF new, R
<1>5. row' \in [Rows -> R] /\ row'[x] = new /\ \A y \in Rows : y # x => row'[y] = row[y]
  BY <1>1, <1>2, <1>3
<1> QED BY <1>2, <1>4, <1>5 DEF R

LEMMA RecordSteps ==
    ASSUME OutboxInv, NEW p \in Passes, NEW status \in {"delivered", "failed"},
           Records(p, status), status = "delivered" => pass[p].at = "sent"
    PROVE  OutboxInv'
PROOF
<1>1. /\ NextRow(p) \in Record
      /\ NextRow(p).row = NoRow /\ NextRow(p).todo = pass[p].todo
      /\ NextRow(p).at \in {"idle", "between"}
      /\ NextRow(p).at = "between" => NextRow(p).todo # {}
      /\ NextRow(p).at = "idle" <=> NextRow(p) = Idle
  BY MovesOn DEF OutboxInv
<1>2. /\ row' \in [Rows -> [status : {"none", "pending", "failed", "delivered"},
                            attempts : Nat, lease : 0..Lease]]
      /\ \A x \in Rows : x # pass[p].row => row'[x] = row[x]
      /\ row'[pass[p].row].status = status
      /\ Elsewhere(p) /\ pass'[p] = NextRow(p)
  BY RecordsRow
<1>3. outboxFaults' \in 0..MaxOutboxFaults /\ UNCHANGED <<sends, received>>
  BY DEF Records, OutboxInv, OutboxTypeOK
<1>4. NoRow \notin pass'[p].todo
  BY <1>1, <1>2, OutboxAssumption DEF OutboxInv, OutboxTypeOK
<1> HIDE DEF NextRow
<1> QED BY <1>1, <1>2, <1>3, <1>4, PassSteps

LEMMA DeliveredIsRecorded ==
    ASSUME OutboxInv, NEW p \in Passes, markDelivered(p)
    PROVE  Records(p, "delivered") /\ pass[p].at = "sent"
BY DEF markDelivered, Records, OutboxInv, OutboxTypeOK

LEMMA FailureIsRecorded ==
    ASSUME OutboxInv, NEW p \in Passes, markFailed(p), CheckAllowsFailing(pass[p].row)
    PROVE  Records(p, "failed")
BY DEF markFailed, Records, OutboxInv, OutboxTypeOK

(* A pass that stops lets go of all it held.                               *)
Stops(p) == /\ pass' = [pass EXCEPT ![p] = Idle]
            /\ UNCHANGED <<alert, row, sends, received>>
            /\ outboxFaults' \in 0..MaxOutboxFaults

LEMMA StopSteps ==
    ASSUME OutboxInv, NEW p \in Passes, Stops(p)
    PROVE  OutboxInv' /\ Elsewhere(p) /\ pass'[p] = Idle
PROOF
<1>1. Idle \in Record /\ pass \in [Passes -> Record]
  <2>1. 0 \in 0..MaxSend
    BY OutboxAssumption
  <2> QED BY <2>1 DEF Idle, Record, OutboxInv, OutboxTypeOK
<1>2. Elsewhere(p) /\ pass'[p] = Idle
  BY <1>1 DEF Elsewhere, Stops
<1>3. /\ Idle.at = "idle" /\ Idle.row = NoRow /\ Idle.todo = {}
  BY DEF Idle
<1>4. row' = row /\ row' \in [Rows -> [status : {"none", "pending", "failed", "delivered"},
                                        attempts : Nat, lease : 0..Lease]]
  BY DEF Stops, OutboxInv, OutboxTypeOK
<1>5. /\ UNCHANGED <<sends, received>> /\ outboxFaults' \in 0..MaxOutboxFaults
  BY DEF Stops
<1> QED BY <1>2, <1>3, <1>4, <1>5, PassSteps

LEMMA UnrecordedSteps ==
    ASSUME OutboxInv, NEW p \in Passes, MarkDeliveredFails(p)
    PROVE  /\ OutboxInv' /\ Elsewhere(p)
           /\ pass'[p].row = pass[p].row /\ pass'[p].todo = pass[p].todo
           /\ pass'[p].age = pass[p].age
           /\ UNCHANGED <<row, sends>> /\ outboxFaults' = outboxFaults + 1
PROOF
<1> DEFINE new == [pass[p] EXCEPT !.at = "refused"]
<1>1. pass[p] \in Record /\ pass \in [Passes -> Record] /\ pass[p].at = "sent"
  BY DEF OutboxInv, OutboxTypeOK, Record, MarkDeliveredFails
<1>2. new \in Record /\ new.at = "refused" /\ new.row = pass[p].row
      /\ new.todo = pass[p].todo /\ new.age = pass[p].age
  BY <1>1 DEF Record
<1>3. pass' = [pass EXCEPT ![p] = new]
  BY DEF MarkDeliveredFails
<1> HIDE DEF new
<1>4. Elsewhere(p) /\ pass'[p] = new
  BY <1>1, <1>2, <1>3 DEF Elsewhere, MarkDeliveredFails
<1>5. new # Idle
  BY <1>2 DEF Idle
<1>6. pass[p].row # NoRow /\ pass[p].row \notin pass[p].todo
  BY <1>1 DEF OutboxInv, OutboxTypeOK, HoldsOpened
<1>7. row' = row /\ row' \in [Rows -> [status : {"none", "pending", "failed", "delivered"},
                                        attempts : Nat, lease : 0..Lease]]
  BY DEF MarkDeliveredFails, OutboxInv, OutboxTypeOK
<1>8. /\ UNCHANGED <<sends, received>> /\ outboxFaults' = outboxFaults + 1
      /\ outboxFaults' \in 0..MaxOutboxFaults
  BY OutboxAssumption DEF MarkDeliveredFails, OutboxInv, OutboxTypeOK
<1> QED BY <1>2, <1>4, <1>5, <1>6, <1>7, <1>8, PassSteps

(* Time passes: leases run out and passes age, and nothing else changes.   *)
LEMMA TickSteps ==
    ASSUME OutboxInv, OutboxTick
    PROVE  /\ OutboxInv'
           /\ \A q \in Passes : Holding(q)' = Holding(q) /\ pass'[q].row = pass[q].row
           /\ \A q \in Passes :
                pass[q] # Idle => pass[q].age < MaxSend /\ pass'[q].age = pass[q].age + 1
           /\ \A r \in Rows : /\ row'[r].status = row[r].status
                              /\ row'[r].attempts = row[r].attempts
                              /\ row[r].lease > 0 => row'[r].lease = row[r].lease - 1
           /\ UNCHANGED <<sends, outboxFaults>>
PROOF
<1> USE DEF OutboxInv
<1> DEFINE R == [status : {"none", "pending", "failed", "delivered"},
                 attempts : Nat, lease : 0..Lease]
<1>1. UNCHANGED <<alert, sends, received, outboxFaults>>
  BY DEF OutboxTick
<1>2. ASSUME NEW r \in Rows
      PROVE  /\ row'[r] \in R /\ row'[r].status = row[r].status
             /\ row'[r].attempts = row[r].attempts
             /\ row[r].lease > 0 => row'[r].lease = row[r].lease - 1
             /\ row[r] = NotYet => row'[r] = NotYet
  <2> DEFINE l == IF row[r].lease > 0 THEN row[r].lease - 1 ELSE 0
  <2>1. row[r] \in R /\ l \in 0..Lease
    BY OutboxAssumption DEF OutboxTypeOK
  <2>2. row'[r] = [row[r] EXCEPT !.lease = l]
    BY DEF OutboxTick
  <2>3. row[r].lease > 0 => l = row[r].lease - 1
    OBVIOUS
  <2>4. row[r] = NotYet => l = 0 /\ row[r].lease = 0
    BY DEF NotYet
  <2> HIDE DEF l
  <2>5. row[r] = NotYet => row'[r] = row[r]
    BY <2>1, <2>2, <2>4
  <2> QED BY <2>1, <2>2, <2>3, <2>5
<1>3. ASSUME NEW q \in Passes
      PROVE  /\ pass'[q] \in Record /\ pass'[q].row = pass[q].row
             /\ pass'[q].todo = pass[q].todo /\ pass'[q].at = pass[q].at
             /\ pass'[q] = Idle <=> pass[q] = Idle
             /\ pass[q] # Idle => pass[q].age < MaxSend /\ pass'[q].age = pass[q].age + 1
  <2>1. pass[q] \in Record /\ (pass[q].at = "idle" <=> pass[q] = Idle)
    BY DEF OutboxTypeOK, Record
  <2>2. CASE pass[q] = Idle
    BY <2>1, <2>2 DEF OutboxTick
  <2>3. CASE pass[q] # Idle
    <3>1. pass'[q] = [pass[q] EXCEPT !.age = @ + 1] /\ pass[q].age < MaxSend
      BY <2>3 DEF OutboxTick
    <3>2. pass[q].age + 1 \in 0..MaxSend
      BY <3>1, <2>1, OutboxAssumption DEF Record
    <3>3. pass'[q].at = pass[q].at
      BY <3>1, <2>1 DEF Record
    <3>4. pass'[q] # Idle
      BY <3>3, <2>1, <2>3 DEF Idle
    <3> QED BY <2>1, <2>3, <3>1, <3>2, <3>3, <3>4 DEF Record
  <2> QED BY <2>2, <2>3
<1>4. row' = [r \in Rows |-> row'[r]] /\ pass' = [q \in Passes |-> pass'[q]]
  BY DEF OutboxTick
<1>5. row' \in [Rows -> R] /\ pass' \in [Passes -> Record]
  BY <1>2, <1>3, <1>4
<1>6. \A q \in Passes :
        /\ pass'[q].at \in {"sent", "refused"} <=> pass'[q].row # NoRow
        /\ pass'[q].at = "between" => pass'[q].todo # {}
        /\ pass'[q].at = "idle" <=> pass'[q] = Idle
  BY <1>3 DEF OutboxTypeOK
<1>7. OutboxTypeOK'
  BY <1>1, <1>5, <1>6 DEF OutboxTypeOK, Record
<1>8. \A q \in Passes : Holding(q)' = Holding(q)
  BY <1>3 DEF Holding
<1>9. HoldsOpened'
  BY <1>1, <1>3, <1>8 DEF HoldsOpened
<1>10. UnopenedIsBlank' /\ DeliveredWasReceived'
  BY <1>1, <1>2 DEF UnopenedIsBlank, DeliveredWasReceived
<1> QED BY <1>1, <1>2, <1>3, <1>7, <1>8, <1>9, <1>10

(* The alerts a claim leaves as they are, but for the fast path.           *)
LEMMA ClaimKeepsAlerts ==
    ASSUME OutboxInv, NEW p \in Passes,
           retryPending(p) \/ \E a \in Numbers : deliverForAlert(p, a)
    PROVE  \E scope \in SUBSET Rows :
             /\ Claim(p, scope)
             /\ \A b \in Numbers : alert'[b].state = alert[b].state
             /\ alert' \in [Numbers -> [state : {"none", "live", "resolved"},
                                         fast : BOOLEAN]]
PROOF
<1>1. CASE retryPending(p)
  BY <1>1 DEF retryPending, OutboxInv, OutboxTypeOK
<1>2. ASSUME NEW a \in Numbers, deliverForAlert(p, a)
      PROVE  \E scope \in SUBSET Rows :
             /\ Claim(p, scope)
             /\ \A b \in Numbers : alert'[b].state = alert[b].state
             /\ alert' \in [Numbers -> [state : {"none", "live", "resolved"},
                                         fast : BOOLEAN]]
  <2>1. Claim(p, RowsOf(a)) /\ alert' = [alert EXCEPT ![a].fast = FALSE]
    BY <1>2 DEF deliverForAlert
  <2>2. RowsOf(a) \subseteq Rows
    BY DEF RowsOf, Rows
  <2>3. /\ \A b \in Numbers : alert'[b].state = alert[b].state
        /\ alert' \in [Numbers -> [state : {"none", "live", "resolved"}, fast : BOOLEAN]]
    BY <2>1 DEF OutboxInv, OutboxTypeOK
  <2> QED BY <2>1, <2>2, <2>3
<1> QED BY <1>1, <1>2

LEMMA OutboxInvStep == OutboxInv /\ [OutboxNext]_outboxvars => OutboxInv'
PROOF
<1> SUFFICES ASSUME OutboxInv, [OutboxNext]_outboxvars PROVE OutboxInv'
  OBVIOUS
<1>1. ASSUME NEW a \in Numbers, openAlertRows(a) \/ resolveAlertRow(a) PROVE OutboxInv'
  BY <1>1, AlertSteps
<1>2. ASSUME NEW p \in Passes,
             retryPending(p) \/ \E a \in Numbers : deliverForAlert(p, a)
      PROVE  OutboxInv'
  BY <1>2, ClaimKeepsAlerts, ClaimSteps
<1>3. ASSUME NEW p \in Passes, Deliver(p) PROVE OutboxInv'
  <2>1. ASSUME NEW r \in Rows, NEW outcome \in {"answered", "unanswered", "refused"},
               Send(p, r, outcome)
        PROVE  OutboxInv'
    BY <2>1, SendSteps
  <2>2. CASE markDelivered(p)
    BY <2>2, DeliveredIsRecorded, RecordSteps
  <2>3. CASE markFailed(p) /\ CheckAllowsFailing(pass[p].row)
    BY <2>3, FailureIsRecorded, RecordSteps
  <2>4. CASE markFailed(p) /\ ~CheckAllowsFailing(pass[p].row)
    <3>1. Stops(p)
      BY <2>4 DEF markFailed, Stops, OutboxInv, OutboxTypeOK
    <3> QED BY <3>1, StopSteps
  <2> QED BY <1>3, <2>1, <2>2, <2>3, <2>4 DEF Deliver
<1>4. ASSUME NEW p \in Passes, MarkDeliveredFails(p) PROVE OutboxInv'
  BY <1>4, UnrecordedSteps
<1>5. ASSUME NEW p \in Passes, PassDies(p) PROVE OutboxInv'
  <2>1. Stops(p)
    BY <1>5, OutboxAssumption DEF PassDies, Stops, OutboxInv, OutboxTypeOK
  <2> QED BY <2>1, StopSteps
<1>6. CASE OutboxTick
  BY <1>6, TickSteps
<1>7. CASE UNCHANGED outboxvars
  BY <1>7 DEF outboxvars, OutboxInv, OutboxTypeOK, UnopenedIsBlank, HoldsOpened,
              Holding, DeliveredWasReceived, NotYet
<1> QED BY <1>1, <1>2, <1>3, <1>4, <1>5, <1>6, <1>7 DEF OutboxNext

(* The tables stay well formed whatever the passes and the faults do.      *)
THEOREM OutboxTypeCorrect == OutboxSpec => []OutboxInv
BY OutboxInvInit, OutboxInvStep, PTL DEF OutboxSpec

(* "Was anyone actually told?" (migration 006): a row says delivered only  *)
(* if its destination has the message, however passes overlap or die.      *)
THEOREM DeliveredIsTrue == OutboxSpec => []DeliveredWasReceived
PROOF
<1>1. OutboxInv => DeliveredWasReceived
  BY DEF OutboxInv
<1> QED BY <1>1, OutboxTypeCorrect, PTL

(* A delivered row stays delivered: the CHECK of migration 006 stops the   *)
(* slow pass whose row was taken over, and an alert's rows are written     *)
(* once.                                                                   *)
THEOREM DeliveredStays == OutboxSpec => DeliveredIsFinal
PROOF
<1> DEFINE Kept == \A r \in Rows : row[r].status = "delivered" => row'[r].status = "delivered"
<1>1. OutboxInv /\ [OutboxNext]_outboxvars => [Kept]_outboxvars
  <2> SUFFICES ASSUME OutboxInv, OutboxNext PROVE Kept
    BY DEF outboxvars
  <2>1. ASSUME NEW a \in Numbers, openAlertRows(a) \/ resolveAlertRow(a) PROVE Kept
    <3>1. CASE openAlertRows(a)
      <4>1. PICK D \in SUBSET Destinations :
              row' = [r \in Rows |-> IF r \in {a} \X D
                                    THEN [NotYet EXCEPT !.status = "pending"]
                                    ELSE row[r]]
        BY <3>1 DEF openAlertRows
      <4>2. \A r \in Rows : r \in {a} \X D => row[r].status = "none"
        BY <3>1 DEF openAlertRows, OutboxInv, UnopenedIsBlank, NotYet
      <4> QED BY <4>1, <4>2
    <3>2. CASE resolveAlertRow(a)
      BY <3>2 DEF resolveAlertRow
    <3> QED BY <2>1, <3>1, <3>2
  <2>2. ASSUME NEW p \in Passes,
               retryPending(p) \/ \E a \in Numbers : deliverForAlert(p, a)
        PROVE  Kept
    <3>1. PICK scope \in SUBSET Rows : Claim(p, scope)
      BY <2>2, ClaimKeepsAlerts
    <3>2. OutboxTypeOK
      BY DEF OutboxInv
    <3>3. PICK B \in SUBSET Rows : Claims(p, scope, B)
      BY <3>1, <3>2, ClaimRows
    <3> QED BY <3>3 DEF Claims, Claimable
  <2>3. ASSUME NEW p \in Passes, Deliver(p) PROVE Kept
    <3>1. ASSUME NEW r \in Rows, NEW outcome \in {"answered", "unanswered", "refused"},
                 Send(p, r, outcome)
          PROVE  Kept
      BY <3>1 DEF Send
    <3>2. CASE markDelivered(p)
      BY <3>2, DeliveredIsRecorded, RecordsRow
    <3>3. CASE markFailed(p) /\ CheckAllowsFailing(pass[p].row)
      BY <3>3, FailureIsRecorded, RecordsRow DEF CheckAllowsFailing
    <3>4. CASE markFailed(p) /\ ~CheckAllowsFailing(pass[p].row)
      BY <3>4 DEF markFailed
    <3> QED BY <2>3, <3>1, <3>2, <3>3, <3>4 DEF Deliver
  <2>4. ASSUME NEW p \in Passes, MarkDeliveredFails(p) \/ PassDies(p) PROVE Kept
    BY <2>4 DEF MarkDeliveredFails, PassDies
  <2>5. CASE OutboxTick
    BY <2>5, TickSteps
  <2> QED BY <2>1, <2>2, <2>3, <2>4, <2>5 DEF OutboxNext
<1> QED BY <1>1, OutboxTypeCorrect, PTL DEF OutboxSpec, DeliveredIsFinal

-----------------------------------------------------------------------------
(* The lease.  What is left of the one a pass claimed under is no more     *)
(* than what is left of the lease on any row the pass holds.               *)
LeaseInv ==
    /\ OwnTypeOK /\ OneSenderInTime
    /\ \A p \in Passes : \A r \in Holding(p) : own[p] <= row[r].lease

LEMMA HoldingRows ==
    ASSUME OutboxInv, OwnTypeOK, NEW p \in Passes
    PROVE  Holding(p) \subseteq Rows /\ own[p] \in Nat /\ (pass[p] = Idle => Holding(p) = {})
PROOF
<1>1. own[p] \in Nat
  BY OutboxAssumption DEF OwnTypeOK
<1>2. Holding(p) \subseteq Rows /\ (pass[p] = Idle => Holding(p) = {})
  BY DEF Holding, OutboxInv, OutboxTypeOK, Idle
<1> QED BY <1>1, <1>2

LEMMA OwnStays ==
    ASSUME OwnTypeOK, UNCHANGED own \/ OwnLease(0) \/ OwnLease(1)
    PROVE  OwnTypeOK'
PROOF
<1>1. CASE UNCHANGED own
  BY <1>1 DEF OwnTypeOK
<1>2. ASSUME NEW n \in {0, 1}, OwnLease(n) PROVE OwnTypeOK'
  <2>1. \A p \in Passes : own[p] \in 0..Lease
    BY DEF OwnTypeOK
  <2>2. \A i \in 0..Lease : (IF i > n THEN i - n ELSE 0) \in 0..Lease
    BY OutboxAssumption
  <2>3. Lease \in 0..Lease /\ 0 \in 0..Lease
    BY OutboxAssumption
  <2> QED BY <1>2, <2>1, <2>2, <2>3 DEF OwnTypeOK, OwnLease
<1> QED BY <1>1, <1>2

(* A step in which passes let go of rows and their leases only run down.   *)
LEMMA LeaseRunsDown ==
    ASSUME OutboxInv, LeaseInv, OutboxInv', OwnTypeOK',
           \A p \in Passes : Holding(p)' \subseteq Holding(p) /\ (Holding(p)' # {} => own'[p] <= own[p]),
           \A p \in Passes : \A r \in Holding(p)' : own'[p] <= row'[r].lease
    PROVE  LeaseInv'
PROOF
<1>1. ASSUME NEW p \in Passes, NEW q \in Passes, p # q, NEW r \in Holding(p)' \cap Holding(q)'
      PROVE  own'[p] = 0 \/ own'[q] = 0
  <2>1. own[p] = 0 \/ own[q] = 0
    BY <1>1 DEF LeaseInv, OneSenderInTime
  <2>2. own'[p] <= own[p] /\ own'[q] <= own[q]
    BY <1>1
  <2>3. own'[p] \in Nat /\ own'[q] \in Nat /\ own[p] \in Nat /\ own[q] \in Nat
    BY OutboxAssumption DEF OwnTypeOK, LeaseInv
  <2> QED BY <2>1, <2>2, <2>3
<1>2. OneSenderInTime'
  BY <1>1 DEF OneSenderInTime
<1> QED BY <1>2 DEF LeaseInv

(* A pass that goes on has what it had of its own lease, or less; one that *)
(* was idle and holds nothing has none.                                    *)
LEMMA OwnRunsDown ==
    ASSUME OutboxInv, OwnTypeOK, NEW n \in {0, 1}, OwnLease(n), NEW p \in Passes, Holding(p) # {}
    PROVE  own'[p] = (IF pass'[p] = Idle THEN 0 ELSE IF own[p] > n THEN own[p] - n ELSE 0) /\ own'[p] <= own[p]
PROOF
<1>1. pass[p] # Idle /\ own[p] \in Nat
  BY HoldingRows
<1>2. own'[p] = IF pass'[p] = Idle THEN 0 ELSE IF own[p] > n THEN own[p] - n ELSE 0
  BY <1>1 DEF OwnLease
<1> QED BY <1>1, <1>2

(* A claim takes only rows whose lease is over: whoever still holds one of *)
(* them has outlasted its own.                                             *)
LEMMA LeaseClaim ==
    ASSUME OutboxInv, LeaseInv, NEW p \in Passes, NEW scope \in SUBSET Rows,
           Claim(p, scope), OutboxInv'
    PROVE  LeaseInv'
PROOF
<1>0. OutboxTypeOK /\ OwnTypeOK
  BY DEF OutboxInv, LeaseInv
<1>9. OwnTypeOK'
  BY <1>0, OwnStays DEF Claim
<1>1. PICK B \in SUBSET Rows : Claims(p, scope, B)
  BY <1>0, ClaimRows
<1>2. Holding(p)' = B /\ \A q \in Passes \ {p} : Holding(q)' = Holding(q)
  BY <1>1, OutboxAssumption DEF Claims, Holding, Idle, Taking
<1>3. \A q \in Passes \ {p} : own'[q] = own[q] \/ Holding(q) = {}
  <2>1. OwnLease(0)
    BY DEF Claim
  <2>2. ASSUME NEW q \in Passes \ {p}, Holding(q) # {} PROVE own'[q] = own[q]
    <3>1. pass'[q] = pass[q] /\ pass[q] # Idle /\ own[q] \in Nat
      BY <1>0, <1>1, <2>2, HoldingRows DEF Claims
    <3> QED BY <1>0, <2>1, <2>2, <3>1, OwnRunsDown
  <2> QED BY <2>2
<1>4. ASSUME NEW q \in Passes \ {p}, NEW r \in Holding(q), r \in B PROVE own'[q] = 0
  <2>1. row[r].lease = 0 /\ own[q] <= row[r].lease /\ own[q] \in Nat
    BY <1>0, <1>1, <1>4, HoldingRows DEF Claims, Claimable, LeaseInv
  <2> QED BY <1>3, <1>4, <2>1
<1>5. \A r \in B : row'[r].lease = Lease
  BY <1>0, <1>1 DEF Claims, OutboxTypeOK
<1>6. ASSUME NEW q \in Passes, NEW r \in Holding(q)' PROVE own'[q] <= row'[r].lease
  <2>1. own'[q] \in 0..Lease /\ Lease \in Nat
    BY <1>9, OutboxAssumption DEF OwnTypeOK
  <2>2. CASE r \in B
    BY <1>5, <2>1, <2>2
  <2>3. CASE r \notin B
    <3>1. q # p /\ r \in Holding(q) /\ r \in Rows /\ row'[r] = row[r]
      BY <1>0, <1>1, <1>2, <1>6, <2>3, HoldingRows DEF Claims
    <3> QED BY <1>3, <3>1 DEF LeaseInv
  <2> QED BY <2>2, <2>3
<1>7. ASSUME NEW q \in Passes, NEW u \in Passes, q # u, NEW r \in Holding(q)' \cap Holding(u)'
      PROVE  own'[q] = 0 \/ own'[u] = 0
  <2>1. CASE q = p
    BY <1>2, <1>4, <1>7, <2>1
  <2>2. CASE u = p
    BY <1>2, <1>4, <1>7, <2>2
  <2>3. CASE q # p /\ u # p
    BY <1>2, <1>3, <1>7, <2>3 DEF LeaseInv, OneSenderInTime
  <2> QED BY <2>1, <2>2, <2>3
<1>8. OneSenderInTime'
  BY <1>7 DEF OneSenderInTime
<1> QED BY <1>6, <1>8, <1>9 DEF LeaseInv

(* An alert's rows are written when nobody holds them.                     *)
LEMMA LeaseAlerts ==
    ASSUME OutboxInv, LeaseInv, OutboxInv', NEW a \in Numbers, openAlertRows(a) \/ resolveAlertRow(a)
    PROVE  LeaseInv'
PROOF
<1>0. OwnTypeOK
  BY DEF LeaseInv
<1>1. UNCHANGED <<pass, own>>
  BY DEF openAlertRows, resolveAlertRow
<1>2. \A q \in Passes : Holding(q)' = Holding(q)
  BY <1>1 DEF Holding
<1>3. \A r \in Rows : row'[r] = row[r] \/ alert[r[1]].state = "none"
  <2>1. CASE openAlertRows(a)
    BY <2>1 DEF openAlertRows
  <2>2. CASE resolveAlertRow(a)
    BY <2>2 DEF resolveAlertRow
  <2> QED BY <2>1, <2>2
<1>4. \A q \in Passes : \A r \in Holding(q) : row'[r] = row[r]
  BY <1>0, <1>3, HoldingRows DEF OutboxInv, HoldsOpened
<1>5. OwnTypeOK' /\ \A q \in Passes : own[q] \in Nat
  BY <1>0, <1>1, OwnStays, HoldingRows
<1> QED BY <1>1, <1>2, <1>4, <1>5, LeaseRunsDown DEF LeaseInv

(* Sending and recording, failing to record and dying: a pass holds what   *)
(* it held or less, and no lease changes.                                  *)
Handles(p) ==
    \/ \E r \in Rows, outcome \in {"answered", "unanswered", "refused"} : Send(p, r, outcome)
    \/ markDelivered(p) \/ markFailed(p) \/ MarkDeliveredFails(p) \/ PassDies(p)

LEMMA LeaseHandles ==
    ASSUME OutboxInv, LeaseInv, OutboxInv', NEW p \in Passes, Handles(p)
    PROVE  LeaseInv'
PROOF
<1> DEFINE LetsGo ==
      /\ \A r \in Rows : row'[r].lease = row[r].lease
      /\ \A q \in Passes \ {p} : pass'[q] = pass[q]
      /\ \/ \E r \in pass[p].todo : pass'[p].row = r /\ pass'[p].todo = pass[p].todo \ {r}
         \/ pass'[p].row = NoRow /\ pass'[p].todo \subseteq pass[p].todo
         \/ pass'[p].row = pass[p].row /\ pass'[p].todo = pass[p].todo
<1>0. OwnTypeOK
  BY DEF LeaseInv
<1>1. OwnLease(0) /\ OwnTypeOK'
  BY <1>0, OwnStays DEF Handles, Send, markDelivered, markFailed, MarkDeliveredFails, PassDies
<1>2. LetsGo
  <2>0. NextRow(p).row = NoRow /\ NextRow(p).todo = pass[p].todo /\ Idle.row = NoRow /\ Idle.todo = {}
    BY MovesOn DEF OutboxInv, Idle
  <2>1. ASSUME NEW r \in Rows, NEW outcome \in {"answered", "unanswered", "refused"},
               Send(p, r, outcome)
        PROVE  LetsGo
    BY <2>1, SendSteps DEF Elsewhere
  <2>2. ASSUME NEW status \in {"delivered", "failed"}, Records(p, status) PROVE LetsGo
    <3>1. row'[pass[p].row].lease = row[pass[p].row].lease
      BY <2>2, RecordsRow
    <3>2. \A x \in Rows : x # pass[p].row => row'[x] = row[x]
      BY <2>2, RecordsRow
    <3>3. Elsewhere(p) /\ pass'[p] = NextRow(p)
      BY <2>2, RecordsRow
    <3> QED BY <2>0, <3>1, <3>2, <3>3 DEF Elsewhere
  <2>3. ASSUME Stops(p) PROVE LetsGo
    BY <2>0, <2>3, StopSteps DEF Elsewhere, Stops
  <2>4. CASE markDelivered(p)
    BY <2>2, <2>4, DeliveredIsRecorded
  <2>5. CASE markFailed(p) /\ CheckAllowsFailing(pass[p].row)
    BY <2>2, <2>5, FailureIsRecorded
  <2>6. CASE markFailed(p) /\ ~CheckAllowsFailing(pass[p].row)
    <3>1. Stops(p)
      BY <2>6 DEF markFailed, Stops, OutboxInv, OutboxTypeOK
    <3> QED BY <2>3, <3>1
  <2>7. CASE MarkDeliveredFails(p)
    BY <2>7, UnrecordedSteps DEF Elsewhere
  <2>8. CASE PassDies(p)
    <3>1. Stops(p)
      BY <2>8, OutboxAssumption DEF PassDies, Stops, OutboxInv, OutboxTypeOK
    <3> QED BY <2>3, <3>1
  <2> QED BY <2>1, <2>4, <2>5, <2>6, <2>7, <2>8 DEF Handles
<1>3. \A q \in Passes : Holding(q)' \subseteq Holding(q)
  BY <1>2 DEF Holding
<1>4. ASSUME NEW q \in Passes, Holding(q)' # {} PROVE own'[q] <= own[q]
  BY <1>0, <1>1, <1>3, <1>4, OwnRunsDown
<1>5. ASSUME NEW q \in Passes, NEW r \in Holding(q)' PROVE own'[q] <= row'[r].lease
  <2>1. r \in Holding(q) /\ r \in Rows /\ own'[q] <= own[q] /\ own[q] <= row[r].lease
    BY <1>0, <1>3, <1>4, <1>5, HoldingRows DEF LeaseInv
  <2>2. own'[q] \in Nat /\ own[q] \in Nat /\ row[r].lease \in Nat /\ row'[r].lease = row[r].lease
    BY <1>0, <1>1, <1>2, <2>1, OutboxAssumption DEF OutboxInv, OutboxTypeOK, OwnTypeOK
  <2> QED BY <2>1, <2>2
<1> QED BY <1>1, <1>3, <1>4, <1>5, LeaseRunsDown

LEMMA LeaseTick ==
    ASSUME OutboxInv, LeaseInv, OutboxTick, OutboxInv'
    PROVE  LeaseInv'
PROOF
<1>1. /\ \A q \in Passes : Holding(q)' = Holding(q)
      /\ \A r \in Rows : row[r].lease > 0 => row'[r].lease = row[r].lease - 1
  BY TickSteps
<1>0. OwnTypeOK
  BY DEF LeaseInv
<1>2. OwnLease(1) /\ OwnTypeOK'
  BY <1>0, OwnStays DEF OutboxTick
<1>3. ASSUME NEW q \in Passes, Holding(q)' # {} PROVE own'[q] <= own[q] /\ (own[q] > 0 => own'[q] <= own[q] - 1) /\ (own[q] = 0 => own'[q] = 0)
  BY <1>0, <1>1, <1>2, <1>3, OwnRunsDown, HoldingRows
<1>4. ASSUME NEW q \in Passes, NEW r \in Holding(q)' PROVE own'[q] <= row'[r].lease
  <2>1. r \in Holding(q) /\ r \in Rows /\ own[q] <= row[r].lease
    BY <1>0, <1>1, <1>4, HoldingRows DEF LeaseInv
  <2>2. own'[q] \in Nat /\ own[q] \in Nat /\ row[r].lease \in Nat /\ row'[r].lease \in Nat
    BY <1>0, <1>2, <2>1, OutboxAssumption DEF OutboxInv, OutboxTypeOK, OwnTypeOK
  <2>3. own'[q] <= own[q] /\ (own[q] > 0 => own'[q] <= own[q] - 1) /\ (own[q] = 0 => own'[q] = 0)
    BY <1>3, <1>4
  <2>4. row[r].lease > 0 => row'[r].lease = row[r].lease - 1
    BY <1>1, <2>1
  <2> QED BY <2>1, <2>2, <2>3, <2>4
<1> QED BY <1>1, <1>2, <1>3, <1>4, LeaseRunsDown

LEMMA LeaseInvStep == OutboxInv /\ OutboxInv' /\ LeaseInv /\ [OutboxNext]_outboxvars => LeaseInv'
PROOF
<1> SUFFICES ASSUME OutboxInv, OutboxInv', LeaseInv, [OutboxNext]_outboxvars PROVE LeaseInv'
  OBVIOUS
<1>1. ASSUME NEW a \in Numbers, openAlertRows(a) \/ resolveAlertRow(a) PROVE LeaseInv'
  BY <1>1, LeaseAlerts
<1>2. ASSUME NEW p \in Passes, retryPending(p) \/ \E a \in Numbers : deliverForAlert(p, a) PROVE LeaseInv'
  BY <1>2, ClaimKeepsAlerts, LeaseClaim
<1>3. ASSUME NEW p \in Passes, Handles(p) PROVE LeaseInv'
  BY <1>3, LeaseHandles
<1>4. CASE OutboxTick
  BY <1>4, LeaseTick
<1>5. CASE UNCHANGED outboxvars
  BY <1>5 DEF outboxvars, LeaseInv, OwnTypeOK, OneSenderInTime, Holding
<1> QED BY <1>1, <1>2, <1>3, <1>4, <1>5 DEF OutboxNext, Deliver, Handles

(* "So the two cannot both send the same row" (deliverForAlert), as far as *)
(* it goes: two passes hold one row only once one of them has outlasted    *)
(* the lease it claimed the row under, for any lease, batch and timeout    *)
(* and any number of alerts, destinations and passes.                      *)
THEOREM LeaseKeepsOneSender == OutboxSpec => []OneSenderInTime
PROOF
<1>1. OutboxInit => LeaseInv
  BY OutboxAssumption DEF OutboxInit, LeaseInv, OwnTypeOK, OneSenderInTime, Holding, Idle
<1>2. LeaseInv => OneSenderInTime
  BY DEF LeaseInv
<1> QED BY <1>1, <1>2, LeaseInvStep, OutboxTypeCorrect, PTL DEF OutboxSpec
=============================================================================
