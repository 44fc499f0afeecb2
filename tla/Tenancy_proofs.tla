--------------------------- MODULE Tenancy_proofs ---------------------------
(***************************************************************************)
(* Proofs about who acts for which tenant: Sessions (sign-in, tickets and  *)
(* keys) for any tenants, sign-in requests, rotations and lifetimes, and   *)
(* DbPool (the scope of a statement) for any connections and callers.      *)
(***************************************************************************)
EXTENDS Sessions, DbPool, FiniteSetTheorems, TLAPS

(* A ticket outlives the last entitlement of its user by its own life at   *)
(* most: nothing that happens after it is signed makes it older than that. *)
TicketsInv ==
    /\ moment \in Int /\ entitledAt \in [Orgs -> Int] /\ admitted.gap < TicketTTL
    /\ members \in SUBSET Orgs
    /\ \A o \in Orgs : entitledAt[o] <= moment
    /\ \A t \in tickets : /\ t.org \in Orgs /\ t.exp \in Int
                          /\ t.exp <= LastEntitled(t.org) + TicketTTL

LEMMA LastEntitledKnown ==
    ASSUME TicketsInv, NEW o \in Orgs
    PROVE  LastEntitled(o) \in Int /\ LastEntitled(o) <= moment
BY DEF TicketsInv, LastEntitled

SignInStep(p) ==
    \/ BeginLogin(p) \/ InsertSession(p)
    \/ \E b \in BOOLEAN : VerifyPassword(p, b)
    \/ SelectTenant(p, Orgs) \/ \E o \in Orgs : SelectTenant(p, {o})

LEMMA TicketsHold == SesSpec => []TicketsInv
PROOF
<1>1. SesInit => TicketsInv
  BY SessionsAssumption DEF SesInit, TicketsInv
<1>2. TicketsInv /\ [SesNext \/ KeyNext]_sesvars => TicketsInv'
  <2> SUFFICES ASSUME TicketsInv, [SesNext \/ KeyNext]_sesvars PROVE TicketsInv'
    OBVIOUS
  <2>1. ASSUME UNCHANGED <<identity, tickets, admitted, moment>> PROVE TicketsInv'
    BY <2>1 DEF TicketsInv, LastEntitled, Entitled, identity
  <2>2. CASE SignWsTicket
    <3>1. /\ session.org \in members /\ Entitled(session.org)
          /\ tickets' = tickets \cup {[org |-> session.org, exp |-> moment + TicketTTL]}
          /\ UNCHANGED <<identity, admitted, moment>>
      BY <2>2 DEF SignWsTicket, ResolveSession, Entitled
    <3>2. \A o : LastEntitled(o)' = LastEntitled(o)
      BY <3>1 DEF LastEntitled, Entitled, identity
    <3>3. session.org \in Orgs /\ LastEntitled(session.org) = moment
      BY <3>1 DEF TicketsInv, LastEntitled
    <3> DEFINE new == [org |-> session.org, exp |-> moment + TicketTTL]
    <3>4. /\ new.org \in Orgs /\ new.exp \in Int
          /\ new.exp <= LastEntitled(new.org) + TicketTTL
      BY <3>3, SessionsAssumption DEF TicketsInv
    <3> HIDE DEF new
    <3>5. \A t \in tickets' : /\ t.org \in Orgs /\ t.exp \in Int
                              /\ t.exp <= LastEntitled(t.org) + TicketTTL
      BY <3>1, <3>4 DEF TicketsInv, new
    <3> QED BY <3>1, <3>2, <3>5 DEF TicketsInv, identity
  <2>3. ASSUME NEW t \in tickets, PresentTicket(t) PROVE TicketsInv'
    <3>1. /\ t.exp > moment /\ t.org \in Orgs /\ t.exp \in Int
          /\ t.exp <= LastEntitled(t.org) + TicketTTL
          /\ admitted' = [org |-> t.org, gap |-> moment - LastEntitled(t.org)]
          /\ UNCHANGED <<identity, tickets, moment>>
      BY <2>3 DEF PresentTicket, VerifyWsTicket, TicketsInv
    <3>2. LastEntitled(t.org) \in Int /\ moment \in Int /\ TicketTTL \in Int
      BY <3>1, LastEntitledKnown, SessionsAssumption DEF TicketsInv
    <3>3. admitted'.gap < TicketTTL
      BY <3>1, <3>2
    <3> QED BY <3>1, <3>3 DEF TicketsInv, LastEntitled, Entitled, identity
  <2>4. ASSUME NEW o \in Orgs, Administer(o) PROVE TicketsInv'
    <3>1. /\ entitledAt' = [p \in Orgs |-> LastEntitled(p)]
          /\ UNCHANGED <<tickets, admitted, moment>>
          /\ members' \in SUBSET Orgs
      BY <2>4 DEF Administer, RemoveMember, TicketsInv, SymDiff
    <3>2. \A p \in Orgs : LastEntitled(p) \in Int /\ LastEntitled(p) <= moment
      BY LastEntitledKnown
    <3>3. \A p \in Orgs : LastEntitled(p)' >= LastEntitled(p)
      BY <3>1, <3>2 DEF LastEntitled, TicketsInv
    <3>4. \A p \in Orgs : LastEntitled(p)' \in Int
      BY <3>1, <3>2 DEF LastEntitled, TicketsInv
    <3> HIDE DEF LastEntitled
    <3>5. entitledAt' \in [Orgs -> Int] /\ \A p \in Orgs : entitledAt'[p] <= moment'
      BY <3>1, <3>2
    <3>6. \A t \in tickets' : t.exp <= LastEntitled(t.org)' + TicketTTL
      BY <3>1, <3>2, <3>3, <3>4, SessionsAssumption DEF TicketsInv
    <3> QED BY <3>1, <3>5, <3>6 DEF TicketsInv
  <2>5. CASE SesTick
    <3>1. moment' = moment + 1 /\ UNCHANGED <<identity, tickets, admitted>>
      BY <2>5 DEF SesTick
    <3>2. \A o \in Orgs : LastEntitled(o)' >= LastEntitled(o) /\ LastEntitled(o)' \in Int
      BY <3>1 DEF LastEntitled, Entitled, identity, TicketsInv
    <3>3. \A t \in tickets : t.exp <= LastEntitled(t.org)' + TicketTTL
      BY <3>2, LastEntitledKnown, SessionsAssumption DEF TicketsInv
    <3> QED BY <3>1, <3>3 DEF TicketsInv, identity
  <2>6. ASSUME NEW p \in Attempts, SignInStep(p) PROVE TicketsInv'
    BY <2>1, <2>6 DEF SignInStep, BeginLogin, SelectTenant, InsertSession, VerifyPassword
  <2>7. CASE SwitchTenant \/ \E o \in Orgs : BeginSwitch(o)
    BY <2>1, <2>7 DEF SwitchTenant, BeginSwitch
  <2>8. CASE DeleteSession
    BY <2>1, <2>8 DEF DeleteSession
  <2>9. CASE KeyNext
    BY <2>1, <2>9 DEF KeyNext, BeginRotation, CommitRotation, RollbackRotation,
                      RevokeApiKey, CreateApiKey
  <2>10. CASE UNCHANGED sesvars
    BY <2>1, <2>10 DEF sesvars, identity
  <2> QED BY <2>2, <2>3, <2>4, <2>5, <2>6, <2>7, <2>8, <2>9, <2>10 DEF SesNext, SignInStep
<1> QED BY <1>1, <1>2, PTL DEF SesSpec

(* Ingest checks a ticket's signature and expiry and nothing else (auth.ts *)
(* verifyWsTicket), and still admits a socket for a tenant only within a   *)
(* ticket's life of the user's last entitlement to it.                     *)
THEOREM AdmittedEntitled == SesSpec => []AdmittedWasEntitled
PROOF
<1>1. TicketsInv => AdmittedWasEntitled
  BY DEF TicketsInv, AdmittedWasEntitled
<1> QED BY <1>1, TicketsHold, PTL

(* A name has one live key or none.                                        *)
OneKey == liveKeys = {} \/ \E k : liveKeys = {k}

LEMMA KeysHold == SesSpec => []OneKey
PROOF
<1>1. SesInit => OneKey
  BY DEF SesInit, OneKey
<1>2. OneKey /\ [SesNext \/ KeyNext]_sesvars => OneKey'
  <2> SUFFICES ASSUME OneKey, [SesNext \/ KeyNext]_sesvars PROVE OneKey'
    OBVIOUS
  <2>1. CASE UNCHANGED liveKeys
    BY <2>1 DEF OneKey
  <2>2. CASE SesNext
    <3>1. UNCHANGED liveKeys
      BY <2>2 DEF SesNext, BeginLogin, SelectTenant, InsertSession, VerifyPassword, BeginSwitch, SwitchTenant,
                  DeleteSession, SignWsTicket, SesTick, PresentTicket, Administer, keys
    <3> QED BY <3>1, <2>1
  <2>3. ASSUME NEW r \in Rotators,
               BeginRotation(r) \/ CommitRotation(r) \/ RollbackRotation(r)
        PROVE  OneKey'
    BY <2>3 DEF BeginRotation, CommitRotation, RollbackRotation, OneKey
  <2>4. CASE RevokeApiKey \/ CreateApiKey
    BY <2>4 DEF RevokeApiKey, CreateApiKey, OneKey
  <2> QED BY <2>1, <2>2, <2>3, <2>4 DEF KeyNext, sesvars, keys
<1> QED BY <1>1, <1>2, PTL DEF SesSpec

(* A session row names a tenant its user is a member of.  A sign-in that   *)
(* is about to insert one chose its tenant when the user was entitled to   *)
(* it, after the password was found right.                                 *)
AttemptInv(a) ==
    /\ a.verified \in Int
    /\ a.at \in {"select", "insert"} => a.verified <= moment
    /\ a.at = "insert" => /\ a.row \in [org : Orgs, exp : Int]
                          /\ a.verified <= LastEntitled(a.row.org)
Attempting == [at : {"idle", "hash", "select", "insert"}, seenActive : BOOLEAN, verified : Int,
               row : [org : Orgs \cup {"none"}, exp : Int]]
SessionInv ==
    /\ TicketsInv
    /\ active \in BOOLEAN
    /\ session \in [org : Orgs \cup {"none"}, exp : Int]
    /\ session # NoSession => session.org \in members
    /\ login \in [Attempts -> Attempting]
    /\ \A p \in Attempts : AttemptInv(login[p])

LEMMA EntitledGrows ==
    ASSUME TicketsInv, [SesNext \/ KeyNext]_sesvars
    PROVE  moment <= moment' /\ \A o \in Orgs : LastEntitled(o) <= LastEntitled(o)'
PROOF
<1>1. CASE UNCHANGED <<identity, moment>>
  BY <1>1, LastEntitledKnown DEF LastEntitled, Entitled, identity, TicketsInv
<1>2. ASSUME NEW o \in Orgs, Administer(o) PROVE moment <= moment' /\ \A p \in Orgs : LastEntitled(p) <= LastEntitled(p)'
  <2>1. entitledAt' = [p \in Orgs |-> LastEntitled(p)] /\ moment' = moment
    BY <1>2 DEF Administer
  <2>2. \A p \in Orgs : LastEntitled(p) \in Int /\ LastEntitled(p) <= moment
    BY LastEntitledKnown
  <2>3. \A p \in Orgs : LastEntitled(p)' \in {moment', entitledAt'[p]}
    BY DEF LastEntitled
  <2> HIDE DEF LastEntitled
  <2> QED BY <2>1, <2>2, <2>3 DEF TicketsInv
<1>3. CASE SesTick
  BY <1>3, LastEntitledKnown DEF SesTick, LastEntitled, Entitled, identity, TicketsInv
<1>4. CASE KeyNext
  BY <1>1, <1>4 DEF KeyNext, BeginRotation, CommitRotation, RollbackRotation, RevokeApiKey, CreateApiKey
<1>5. CASE DeleteSession \/ SignWsTicket \/ SwitchTenant \/ (\E t \in tickets : PresentTicket(t))
           \/ (\E o \in Orgs : BeginSwitch(o))
  BY <1>1, <1>5 DEF DeleteSession, SignWsTicket, SwitchTenant, PresentTicket, BeginSwitch
<1>6. ASSUME NEW p \in Attempts, SignInStep(p) PROVE UNCHANGED <<identity, moment>>
  BY <1>6 DEF SignInStep, BeginLogin, SelectTenant, InsertSession, VerifyPassword
<1>7. CASE UNCHANGED sesvars
  BY <1>1, <1>7 DEF sesvars
<1> QED BY <1>1, <1>2, <1>3, <1>4, <1>5, <1>6, <1>7 DEF SesNext, SignInStep

LEMMA AttemptsKept ==
    ASSUME SessionInv, TicketsInv', [SesNext \/ KeyNext]_sesvars
    PROVE  login' \in [Attempts -> Attempting] /\ \A p \in Attempts : AttemptInv(login[p])'
PROOF
<1>1. \A o \in Orgs : LastEntitled(o) \in Int /\ LastEntitled(o)' \in Int /\ LastEntitled(o) <= LastEntitled(o)'
  BY EntitledGrows, LastEntitledKnown DEF SessionInv, TicketsInv, LastEntitled
<1>2. moment \in Int /\ moment' \in Int /\ moment <= moment'
  BY EntitledGrows DEF SessionInv, TicketsInv
<1>3. CASE login' = login
  BY <1>1, <1>2, <1>3 DEF SessionInv, AttemptInv
<1>4. ASSUME NEW p \in Attempts, NEW a \in Attempting, AttemptInv(a), login' = [login EXCEPT ![p] = a],
             UNCHANGED <<identity, moment>>
      PROVE  login' \in [Attempts -> Attempting] /\ \A q \in Attempts : AttemptInv(login[q])'
  <2>1. login' \in [Attempts -> Attempting]
    BY <1>4 DEF SessionInv
  <2>2. \A o : LastEntitled(o)' = LastEntitled(o)
    BY <1>4 DEF LastEntitled, Entitled, identity
  <2>3. \A q \in Attempts : login'[q] = IF q = p THEN a ELSE login[q]
    BY <1>4 DEF SessionInv
  <2>4. ASSUME NEW q \in Attempts PROVE AttemptInv(login[q])'
    <3>1. AttemptInv(login'[q])
      BY <1>4, <2>3 DEF SessionInv
    <3> QED BY <1>4, <2>2, <3>1 DEF AttemptInv
  <2> QED BY <2>1, <2>4
<1>5. Idle \in Attempting /\ AttemptInv(Idle)
  BY DEF Attempting, AttemptInv, Idle, NoSession
<1>6. ASSUME NEW p \in Attempts, SignInStep(p)
      PROVE  login' \in [Attempts -> Attempting] /\ \A q \in Attempts : AttemptInv(login[q])'
  <2>1. UNCHANGED <<identity, moment>> /\ login[p] \in Attempting /\ AttemptInv(login[p])
    BY <1>6 DEF SignInStep, BeginLogin, SelectTenant, InsertSession, VerifyPassword, SessionInv
  <2>2. CASE login' = [login EXCEPT ![p] = Idle]
    BY <2>1, <2>2, <1>4, <1>5
  <2>3. CASE BeginLogin(p)
    <3> DEFINE a == [login[p] EXCEPT !.at = "hash", !.seenActive = active]
    <3>1. login' = [login EXCEPT ![p] = a]
      BY <2>3 DEF BeginLogin, SessionInv
    <3>2. a \in Attempting /\ AttemptInv(a)
      BY <2>1 DEF Attempting, AttemptInv, SessionInv
    <3> QED BY <2>1, <3>1, <3>2, <1>4
  <2>4. CASE login' = [login EXCEPT ![p].at = "select", ![p].verified = moment]
    <3> DEFINE a == [login[p] EXCEPT !.at = "select", !.verified = moment]
    <3>1. login' = [login EXCEPT ![p] = a]
      BY <2>4 DEF SessionInv
    <3>2. a \in Attempting /\ AttemptInv(a)
      BY <2>1, <1>2 DEF Attempting, AttemptInv
    <3> QED BY <2>1, <3>1, <3>2, <1>4
  <2>5. ASSUME NEW o \in Orgs, Entitled(o), login[p].at = "select",
               login' = [login EXCEPT ![p].at = "insert", ![p].row = [org |-> o, exp |-> moment + SessionTTL]]
        PROVE  login' \in [Attempts -> Attempting] /\ \A q \in Attempts : AttemptInv(login[q])'
    <3> DEFINE row == [org |-> o, exp |-> moment + SessionTTL]
               a == [login[p] EXCEPT !.at = "insert", !.row = row]
    <3>1. login' = [login EXCEPT ![p] = a]
      BY <2>5 DEF SessionInv
    <3>2. row \in [org : Orgs, exp : Int] /\ LastEntitled(row.org) = moment
      BY <2>5, <1>2, SessionsAssumption DEF LastEntitled
    <3> HIDE DEF row
    <3>3. a \in Attempting /\ AttemptInv(a)
      BY <2>1, <2>5, <3>2, <1>2 DEF Attempting, AttemptInv
    <3> QED BY <2>1, <3>1, <3>3, <1>4
  <2>6. CASE InsertSession(p)
    BY <2>2, <2>6 DEF InsertSession
  <2>7. ASSUME NEW b \in BOOLEAN, VerifyPassword(p, b)
        PROVE  login' = [login EXCEPT ![p].at = "select", ![p].verified = moment] \/ login' = [login EXCEPT ![p] = Idle]
    BY <2>7 DEF VerifyPassword, Refused
  <2>8. ASSUME NEW slugs, SelectTenant(p, slugs)
        PROVE  \/ login' = [login EXCEPT ![p] = Idle]
               \/ login[p].at = "select" /\ \E o \in Orgs : Entitled(o) /\
                    login' = [login EXCEPT ![p].at = "insert", ![p].row = [org |-> o, exp |-> moment + SessionTTL]]
    BY <2>8 DEF SelectTenant, Refused, Memberships
  <2> QED BY <1>6, <2>2, <2>3, <2>4, <2>5, <2>6, <2>7, <2>8 DEF SignInStep
<1>7. CASE KeyNext \/ SesTick \/ DeleteSession \/ SignWsTicket \/ SwitchTenant
           \/ (\E t \in tickets : PresentTicket(t)) \/ (\E o \in Orgs : BeginSwitch(o) \/ Administer(o))
  BY <1>3, <1>7 DEF KeyNext, BeginRotation, CommitRotation, RollbackRotation, RevokeApiKey, CreateApiKey,
                    SesTick, DeleteSession, SignWsTicket, SwitchTenant, PresentTicket, BeginSwitch, Administer, signing
<1>8. CASE UNCHANGED sesvars
  BY <1>3, <1>8 DEF sesvars, signing
<1> QED BY <1>6, <1>7, <1>8 DEF SesNext, SignInStep

(* What a step does to the session row.                                    *)
Opened ==
    /\ session'.org \in members
    /\ \/ \E p \in Attempts : InsertSession(p) /\ LastEntitled(session'.org) >= login[p].verified
       \/ SwitchTenant /\ session'.exp = session.exp /\ session'.org \in orgActive

LEMMA SessionStep ==
    ASSUME SessionInv, SesNext \/ KeyNext
    PROVE  /\ session' \in [org : Orgs \cup {"none"}, exp : Int]
           /\ session' # NoSession => session'.org \in members'
           /\ session' # session /\ session' # NoSession => Opened
PROOF
<1>1. NoSession \in [org : Orgs \cup {"none"}, exp : Int]
  BY DEF NoSession
<1>2. CASE UNCHANGED <<session, members>>
  BY <1>2 DEF SessionInv
<1>3. CASE session' = NoSession
  BY <1>1, <1>3
<1>4. ASSUME NEW p \in Attempts, InsertSession(p), session' = login[p].row, login[p].row.org \in members
      PROVE  /\ session' \in [org : Orgs \cup {"none"}, exp : Int] /\ session'.org \in members' /\ Opened
  <2>1. /\ login[p].row \in [org : Orgs, exp : Int] /\ members' = members
        /\ login[p].verified \in Int /\ login[p].verified <= LastEntitled(login[p].row.org)
    BY <1>4 DEF InsertSession, SessionInv, AttemptInv, identity
  <2>2. LastEntitled(session'.org) \in Int
    BY <1>4, <2>1, LastEntitledKnown DEF SessionInv
  <2>3. LastEntitled(session'.org) >= login[p].verified
    BY <1>4, <2>1, <2>2
  <2>4. session' \in [org : Orgs \cup {"none"}, exp : Int] /\ session'.org \in members
    BY <1>4, <2>1
  <2> QED BY <1>4, <2>1, <2>3, <2>4 DEF Opened
<1>5. ASSUME NEW p \in Attempts, SignInStep(p)
      PROVE  \/ UNCHANGED <<session, members>>
             \/ InsertSession(p) /\ session' = login[p].row /\ login[p].row.org \in members
  BY <1>5 DEF SignInStep, BeginLogin, SelectTenant, InsertSession, VerifyPassword, identity, rows
<1>6. ASSUME SwitchTenant, session' # session
      PROVE  session' \in [org : Orgs \cup {"none"}, exp : Int] /\ session'.org \in members' /\ Opened
  <2>1. /\ switching.to \in members /\ switching.to \in orgActive
        /\ session' = [session EXCEPT !.org = switching.to] /\ members' = members
    BY <1>6 DEF SwitchTenant, identity
  <2>2. session \in [org : Orgs \cup {"none"}, exp : Int] /\ switching.to \in Orgs
    BY <2>1 DEF SessionInv, TicketsInv
  <2>3. session'.org = switching.to /\ session'.exp = session.exp /\ session' \in [org : Orgs \cup {"none"}, exp : Int]
    BY <2>1, <2>2
  <2> QED BY <1>6, <2>1, <2>3 DEF Opened
<1>7. ASSUME SwitchTenant, session' = session PROVE UNCHANGED <<session, members>>
  BY <1>7 DEF SwitchTenant, identity
<1>8. CASE DeleteSession
  BY <1>3, <1>8 DEF DeleteSession
<1>9. ASSUME NEW o \in Orgs, Administer(o)
      PROVE  session' = NoSession \/ (session' = session /\ (session # NoSession => session.org \in members'))
  <2>1. session \in [org : Orgs \cup {"none"}, exp : Int] /\ (session # NoSession => session.org \in members)
    BY DEF SessionInv
  <2> QED BY <1>9, <2>1 DEF Administer, RemoveMember, rows
<1>10. CASE KeyNext \/ SesTick \/ SignWsTicket \/ (\E t \in tickets : PresentTicket(t)) \/ (\E o \in Orgs : BeginSwitch(o))
  BY <1>2, <1>10 DEF KeyNext, BeginRotation, CommitRotation, RollbackRotation, RevokeApiKey, CreateApiKey,
                     SesTick, SignWsTicket, PresentTicket, BeginSwitch, identity, rows
<1>11. CASE \E o \in Orgs : Administer(o)
  BY <1>1, <1>9, <1>11 DEF SessionInv
<1>12. CASE SwitchTenant
  BY <1>2, <1>6, <1>7, <1>12
<1>13. CASE \E p \in Attempts : SignInStep(p)
  BY <1>2, <1>4, <1>5, <1>13
<1> QED BY <1>8, <1>10, <1>11, <1>12, <1>13 DEF SesNext, SignInStep

LEMMA SessionsHold == SesSpec => []SessionInv
PROOF
<1>1. SesInit /\ TicketsInv => SessionInv
  BY DEF SesInit, SessionInv, AttemptInv, Attempting, Idle, NoSession
<1>2. SessionInv /\ TicketsInv' /\ [SesNext \/ KeyNext]_sesvars => SessionInv'
  <2> SUFFICES ASSUME SessionInv, TicketsInv', [SesNext \/ KeyNext]_sesvars PROVE SessionInv'
    OBVIOUS
  <2>1. active' \in BOOLEAN
    BY DEF SessionInv, SesNext, BeginLogin, SelectTenant, InsertSession, VerifyPassword, BeginSwitch, SwitchTenant,
           DeleteSession, SignWsTicket, SesTick, PresentTicket, Administer, identity,
           KeyNext, BeginRotation, CommitRotation, RollbackRotation, RevokeApiKey, CreateApiKey, sesvars
  <2>2. session' \in [org : Orgs \cup {"none"}, exp : Int] /\ (session # NoSession => session.org \in members)'
    <3>1. CASE UNCHANGED sesvars
      BY <3>1 DEF SessionInv, sesvars, identity, rows
    <3> QED BY <3>1, SessionStep
  <2> QED BY <2>1, <2>2, AttemptsKept DEF SessionInv
<1> QED BY <1>1, <1>2, TicketsHold, PTL DEF SesSpec

(* A session row names a tenant its user is a member of; it is opened only *)
(* by a sign-in whose user was entitled to that tenant at some moment      *)
(* since the password was checked, and switched only to an active tenant   *)
(* that has the user as a member then (login, switchTenant); and rotations *)
(* that race, fail or roll back leave a device one live key and never      *)
(* without its last (rotateApiKey, revokeApiKey).                          *)
THEOREM CredentialsSound == SesSpec => CredentialsAreSound
PROOF
<1> DEFINE Fresh == session' # session /\ session' # NoSession => Opened
           Keyed == /\ Cardinality(liveKeys') <= 1
                    /\ liveKeys # {} /\ liveKeys' = {} => RevokeApiKey
           Orphanless == session # NoSession => session.org \in members
<1>1. SessionInv /\ [SesNext \/ KeyNext]_sesvars => [Fresh]_sesvars
  BY SessionStep
<1>2. OneKey' /\ [SesNext \/ KeyNext]_sesvars => [Keyed]_sesvars
  <2> SUFFICES ASSUME OneKey', SesNext \/ KeyNext PROVE Keyed
    OBVIOUS
  <2>1. Cardinality(liveKeys') <= 1
    <3>1. CASE liveKeys' = {}
      BY <3>1, FS_EmptySet
    <3>2. ASSUME NEW k, liveKeys' = {k} PROVE Cardinality(liveKeys') <= 1
      <4>1. Cardinality({k}) = 1
        BY FS_Singleton
      <4> QED BY <3>2, <4>1
    <3> QED BY <3>1, <3>2 DEF OneKey
  <2>2. CASE SesNext
    <3>1. UNCHANGED liveKeys
      BY <2>2 DEF SesNext, BeginLogin, SelectTenant, InsertSession, VerifyPassword, BeginSwitch, SwitchTenant,
                  DeleteSession, SignWsTicket, SesTick, PresentTicket, Administer, keys
    <3> QED BY <2>1, <3>1
  <2>3. ASSUME NEW r \in Rotators,
               BeginRotation(r) \/ CommitRotation(r) \/ RollbackRotation(r)
        PROVE  Keyed
    BY <2>1, <2>3 DEF BeginRotation, CommitRotation, RollbackRotation
  <2>4. CASE RevokeApiKey
    BY <2>1, <2>4
  <2>5. CASE CreateApiKey
    BY <2>1, <2>5 DEF CreateApiKey
  <2> QED BY <2>2, <2>3, <2>4, <2>5 DEF KeyNext
<1>3. SesSpec => [][Fresh]_sesvars
  BY <1>1, SessionsHold, PTL DEF SesSpec
<1>4. SesSpec => [][Keyed]_sesvars
  BY <1>2, KeysHold, PTL DEF SesSpec
<1>5. SessionInv => Orphanless
  BY DEF SessionInv
<1> HIDE DEF Orphanless
<1>6. SesSpec => []Orphanless
  BY <1>5, SessionsHold, PTL
<1> QED BY <1>3, <1>4, <1>6, PTL DEF CredentialsAreSound, NoStaleLogin, NoOrphanSession, OneLiveKey, Opened, Orphanless

-----------------------------------------------------------------------------
(* The pool.                                                               *)
Whats == {"begin", "set_config", "read", "write", "commit", "rollback"}
Message == [job : Jobs, what : Whats]
Steps == {"start", "begin", "scope", "work", "done", "release", "over"}
Scopes == {JobTenant[j] : j \in Jobs} \cup {"none"}
Connection == [local : Scopes, session : {"none"}, tx : {"none", "ro", "rw"},
               queue : Seq(Message)]
Mode(j) == IF JobReadOnly[j] THEN "ro" ELSE "rw"

PoolTyped ==
    /\ conns \in [PoolConns -> Connection]
    /\ job \in [Jobs -> [step : Steps, conn : PoolConns \cup {0}]]
    /\ seen \in [Jobs -> SUBSET Scopes] /\ wrote \in [Jobs -> BOOLEAN]
    /\ \A j \in Jobs : /\ job[j].step \in {"start", "over"} <=> job[j].conn = 0
                       /\ job[j].step \in {"begin", "scope", "release"} => Scoped(j)
    /\ \A j, k \in Jobs : j # k /\ job[j].conn = job[k].conn => job[j].conn = 0

(* What is queued on a connection: statements an unscoped caller left or   *)
(* awaits, and after them at most one of the scoped caller who has it.     *)
QueueOK(c) ==
    LET q == conns[c].queue
    IN  \A i \in 1..Len(q) :
          IF Scoped(q[i].job) THEN i = Len(q) /\ job[q[i].job].conn = c
          ELSE q[i].what \in {"read", "write"}

Single(q, j, W) == Len(q) = 1 /\ q[1].job = j /\ q[1].what \in W

(* How far the server is with the transaction of the scoped caller j: its  *)
(* tenant is set from the answer of set_config until COMMIT or ROLLBACK.   *)
PhaseAt(j, step, conn) ==
    LET q == conn.queue
        none == conn.local = "none" /\ conn.tx = "none"
        begun == conn.local = "none" /\ conn.tx = Mode(j)
        scoped == conn.local = JobTenant[j] /\ conn.tx = Mode(j)
    IN  \/ step = "begin" /\ none /\ \A i \in 1..Len(q) : ~Scoped(q[i].job)
        \/ step = "scope" /\ begun /\ Len(q) = 0
        \/ /\ step = "scope" /\ none
           /\ Len(q) > 0 /\ q[Len(q)].job = j /\ q[Len(q)].what = "begin"
        \/ step = "work" /\ begun /\ Single(q, j, {"set_config"})
        \/ step = "work" /\ scoped /\ Len(q) = 0
        \/ step = "done" /\ scoped /\ (Len(q) = 0 \/ Single(q, j, {"read", "write"}))
        \/ step = "release" /\ scoped /\ Single(q, j, {"commit", "rollback"})
        \/ step = "release" /\ none /\ Len(q) = 0

Phase(j, c) == PhaseAt(j, job[j].step, conns[c])

PoolInv ==
    /\ PoolTyped /\ ScopesHold
    /\ \A c \in PoolConns : QueueOK(c)
    /\ \A j \in Jobs, c \in PoolConns : job[j].conn = c /\ Scoped(j) => Phase(j, c)
    /\ \A c \in PoolConns :
         (\A j \in Jobs : job[j].conn = c => ~Scoped(j))
           => conns[c].local = "none" /\ conns[c].tx = "none"

LEMMA Queued ==
    ASSUME PoolTyped, NEW c \in PoolConns
    PROVE  /\ conns[c] \in Connection /\ conns[c].queue \in Seq(Message)
           /\ Len(conns[c].queue) \in Nat
           /\ DOMAIN conns[c].queue = 1..Len(conns[c].queue)
           /\ \A i \in 1..Len(conns[c].queue) :
                conns[c].queue[i].job \in Jobs /\ conns[c].queue[i].what \in Whats
PROOF
<1>1. conns[c] \in Connection
  BY DEF PoolTyped
<1>2. conns[c].queue \in Seq(Message)
  BY <1>1 DEF Connection
<1>3. \A i \in 1..Len(conns[c].queue) : conns[c].queue[i] \in Message
  BY <1>2
<1>4. \A m \in Message : m.job \in Jobs /\ m.what \in Whats
  BY DEF Message
<1>5. Len(conns[c].queue) \in Nat /\ DOMAIN conns[c].queue = 1..Len(conns[c].queue)
  BY <1>2
<1> QED BY <1>1, <1>2, <1>3, <1>4, <1>5

LEMMA PoolInvInit == PoolInit => PoolInv
PROOF
<1> SUFFICES ASSUME PoolInit PROVE PoolInv
  OBVIOUS
<1>1. Outside \in Connection /\ Outside.local = "none" /\ Outside.tx = "none"
      /\ Len(Outside.queue) = 0
  <2>1. <<>> \in Seq(Message) /\ Len(<<>>) = 0 /\ "none" \in Scopes
    BY DEF Scopes
  <2> QED BY <2>1 DEF Outside, Connection
<1>2. PoolTyped
  BY <1>1, PoolAssumption DEF PoolInit, PoolTyped, Steps
<1>3. ScopesHold
  BY PoolAssumption DEF PoolInit, ScopesHold, ScopeIsOwn, ReadersNeverWrite
<1>4. \A c \in PoolConns : QueueOK(c)
  BY <1>1 DEF PoolInit, QueueOK
<1>5. \A j \in Jobs, c \in PoolConns : job[j].conn # c
  BY PoolAssumption DEF PoolInit
<1>6. \A c \in PoolConns : conns[c].local = "none" /\ conns[c].tx = "none"
  BY <1>1 DEF PoolInit
<1> QED BY <1>2, <1>3, <1>4, <1>5, <1>6 DEF PoolInv

(* A caller's step touches the caller, its connection and nothing else.    *)
Apart(j, c) ==
    /\ c \in PoolConns
    /\ job[j].conn \in {0, c} /\ job'[j].conn \in {0, c}
    /\ \A k \in Jobs \ {j} : job'[k] = job[k] /\ job[k].conn # c
    /\ \A d \in PoolConns \ {c} : conns'[d] = conns[d]
    /\ UNCHANGED <<seen, wrote>>

LEMMA StepApart ==
    ASSUME PoolInv, NEW j \in Jobs, NEW c, Apart(j, c),
           conns' \in [PoolConns -> Connection],
           job' \in [Jobs -> [step : Steps, conn : PoolConns \cup {0}]],
           job'[j].step \in {"start", "over"} <=> job'[j].conn = 0,
           job'[j].step \in {"begin", "scope", "release"} => Scoped(j),
           QueueOK(c)',
           job'[j].conn = c /\ Scoped(j) => Phase(j, c)',
           job'[j].conn = 0 \/ ~Scoped(j) => conns'[c].local = "none" /\ conns'[c].tx = "none"
    PROVE  PoolInv'
PROOF
<1> USE DEF PoolInv
<1>1. 0 \notin PoolConns
  BY PoolAssumption
<1>2. PoolTyped'
  <2>1. \A k \in Jobs : /\ job'[k].step \in {"start", "over"} <=> job'[k].conn = 0
                        /\ job'[k].step \in {"begin", "scope", "release"} => Scoped(k)
    BY DEF PoolTyped, Apart
  <2>2. \A k, l \in Jobs : k # l /\ job'[k].conn = job'[l].conn => job'[k].conn = 0
    BY DEF PoolTyped, Apart
  <2> QED BY <2>1, <2>2 DEF PoolTyped, Apart, Scoped
<1>3. ScopesHold'
  BY DEF ScopesHold, ScopeIsOwn, ReadersNeverWrite, Apart
<1>4. ASSUME NEW d \in PoolConns PROVE QueueOK(d)'
  <2>1. CASE d = c
    BY <2>1
  <2>2. CASE d # c
    <3>1. conns'[d] = conns[d] /\ QueueOK(d)
      BY <2>2 DEF Apart
    <3>2. \A k \in Jobs : job[k].conn = d => job'[k].conn = d
      BY <1>1, <2>2 DEF Apart
    <3>3. \A i \in 1..Len(conns[d].queue) : conns[d].queue[i].job \in Jobs
      BY Queued
    <3> QED BY <3>1, <3>2, <3>3 DEF QueueOK, Scoped
  <2> QED BY <2>1, <2>2
<1>5. ASSUME NEW k \in Jobs, NEW d \in PoolConns, job'[k].conn = d, Scoped(k)
      PROVE  Phase(k, d)'
  <2>1. CASE k = j
    BY <1>1, <1>5, <2>1 DEF Apart
  <2>2. CASE k # j
    <3>1. job'[k] = job[k] /\ conns'[d] = conns[d] /\ Phase(k, d)
      BY <1>5, <2>2 DEF Apart
    <3> QED BY <3>1 DEF Phase
  <2> QED BY <2>1, <2>2
<1>6. ASSUME NEW d \in PoolConns, \A k \in Jobs : job'[k].conn = d => ~Scoped(k)
      PROVE  conns'[d].local = "none" /\ conns'[d].tx = "none"
  <2>1. CASE d = c
    BY <1>1, <1>6, <2>1 DEF Apart
  <2>2. CASE d # c
    <3>1. conns'[d] = conns[d] /\ \A k \in Jobs : job[k].conn = d => job'[k].conn = d
      BY <1>1, <2>2 DEF Apart
    <3> QED BY <1>6, <3>1
  <2> QED BY <2>1, <2>2
<1> QED BY <1>2, <1>3, <1>4, <1>5, <1>6 DEF Scoped

LEMMA Appended ==
    ASSUME NEW q \in Seq(Message), NEW m \in Message
    PROVE  /\ Append(q, m) \in Seq(Message) /\ Len(Append(q, m)) = Len(q) + 1
           /\ \A i \in 1..Len(q) : Append(q, m)[i] = q[i]
           /\ Append(q, m)[Len(q) + 1] = m /\ Len(q) \in Nat
OBVIOUS

(* A statement sent is the last of its connection's queue.                 *)
Enqueued(c, j, what) ==
    LET n == Len(conns[c].queue)
    IN  /\ conns' \in [PoolConns -> Connection]
        /\ \A d \in PoolConns \ {c} : conns'[d] = conns[d]
        /\ conns'[c].local = conns[c].local /\ conns'[c].tx = conns[c].tx
        /\ Len(conns'[c].queue) = n + 1 /\ n \in Nat
        /\ \A i \in 1..n : conns'[c].queue[i] = conns[c].queue[i]
        /\ conns'[c].queue[n + 1].job = j /\ conns'[c].queue[n + 1].what = what

LEMMA Issuing ==
    ASSUME PoolInv, NEW j \in Jobs, NEW what \in Whats, NEW c \in PoolConns,
           job[j].conn = c, Issue(j, what)
    PROVE  Enqueued(c, j, what)
PROOF
<1> DEFINE m == [job |-> j, what |-> what]
           new == [conns[c] EXCEPT !.queue = Append(@, m)]
<1>1. conns \in [PoolConns -> Connection] /\ conns[c] \in Connection /\ m \in Message
  BY DEF PoolInv, PoolTyped, Message
<1>2. conns[c].queue \in Seq(Message)
  BY <1>1 DEF Connection
<1>3. /\ Append(conns[c].queue, m) \in Seq(Message)
      /\ Len(Append(conns[c].queue, m)) = Len(conns[c].queue) + 1
      /\ \A i \in 1..Len(conns[c].queue) : Append(conns[c].queue, m)[i] = conns[c].queue[i]
      /\ Append(conns[c].queue, m)[Len(conns[c].queue) + 1] = m
      /\ Len(conns[c].queue) \in Nat
  BY <1>1, <1>2, Appended
<1>4. /\ new \in Connection /\ new.queue = Append(conns[c].queue, m)
      /\ new.local = conns[c].local /\ new.tx = conns[c].tx
  BY <1>1, <1>3 DEF Connection
<1>5. conns' = [conns EXCEPT ![c] = new]
  BY DEF Issue
<1>6. m.job = j /\ m.what = what
  OBVIOUS
<1> HIDE DEF new, m
<1>7. conns' \in [PoolConns -> Connection] /\ conns'[c] = new
      /\ \A d \in PoolConns \ {c} : conns'[d] = conns[d]
  BY <1>1, <1>4, <1>5
<1> QED BY <1>3, <1>4, <1>6, <1>7 DEF Enqueued

(* Nobody else has the connection of a caller.                             *)
LEMMA Exclusive ==
    ASSUME PoolInv, NEW j \in Jobs, NEW c \in PoolConns, job[j].conn = c
    PROVE  /\ \A k \in Jobs \ {j} : job[k].conn # c
           /\ Scoped(j) => Phase(j, c)
           /\ ~Scoped(j) => /\ conns[c].local = "none"
                            /\ conns[c].tx = "none"
           /\ \A i \in 1..Len(conns[c].queue) :
                LET m == conns[c].queue[i]
                IN  /\ m.job \in Jobs
                    /\ Scoped(m.job) => m.job = j /\ i = Len(conns[c].queue)
                    /\ ~Scoped(m.job) => m.what \in {"read", "write"}
PROOF
<1>1. \A k \in Jobs \ {j} : job[k].conn # c
  BY PoolAssumption DEF PoolInv, PoolTyped
<1>2. ~Scoped(j) => conns[c].local = "none" /\ conns[c].tx = "none"
  BY <1>1 DEF PoolInv
<1>3. \A i \in 1..Len(conns[c].queue) : conns[c].queue[i].job \in Jobs
  BY Queued DEF PoolInv
<1>4. QueueOK(c)
  BY DEF PoolInv
<1> QED BY <1>1, <1>2, <1>3, <1>4 DEF PoolInv, QueueOK

(* A caller with nothing queued finds nothing queued before its own.       *)
LEMMA Quiet ==
    ASSUME PoolInv, NEW j \in Jobs, NEW c \in PoolConns, job[j].conn = c, Scoped(j), ~Waiting(j),
           job[j].step # "begin"
    PROVE  /\ Len(conns[c].queue) = 0
           /\ job[j].step = "work" => /\ conns[c].local = JobTenant[j]
                                      /\ conns[c].tx = Mode(j)
           /\ job[j].step = "scope" => /\ conns[c].local = "none"
                                       /\ conns[c].tx = Mode(j)
           /\ job[j].step = "done" => /\ conns[c].local = JobTenant[j]
                                      /\ conns[c].tx = Mode(j)
           /\ job[j].step = "release" => /\ conns[c].local = "none"
                                         /\ conns[c].tx = "none"
PROOF
<1> DEFINE q == conns[c].queue
<1>1. q \in Seq(Message) /\ Len(q) \in Nat /\ DOMAIN q = 1..Len(q)
  BY DEF PoolInv, PoolTyped, Connection
<1>2. \A i \in 1..Len(q) : q[i].job # j
  BY <1>1 DEF Waiting
<1>3. PhaseAt(j, job[j].step, conns[c])
  BY Exclusive DEF Phase
<1>4. ~(Len(q) > 0 /\ q[Len(q)].job = j)
  BY <1>1, <1>2
<1>5. \A W : ~Single(q, j, W)
  BY <1>1, <1>2 DEF Single
<1> QED BY <1>3, <1>4, <1>5 DEF PhaseAt

LEMMA ConnectStep ==
    ASSUME PoolInv, NEW j \in Jobs, NEW c \in PoolConns, Connect(j, c)
    PROVE  PoolInv'
PROOF
<1>0. /\ conns \in [PoolConns -> Connection]
      /\ job \in [Jobs -> [step : Steps, conn : PoolConns \cup {0}]]
      /\ 0 \notin PoolConns
      /\ job[j].step \in {"start", "over"} <=> job[j].conn = 0
  BY PoolAssumption DEF PoolInv, PoolTyped
<1>1. /\ job' = [job EXCEPT ![j] = [step |-> IF Scoped(j) THEN "begin" ELSE "work", conn |-> c]]
      /\ UNCHANGED <<conns, seen, wrote>> /\ job[j].conn = 0
      /\ \A k \in Jobs : job[k].conn # c
  BY <1>0 DEF Connect, Free
<1>2. /\ job'[j] = [step |-> IF Scoped(j) THEN "begin" ELSE "work", conn |-> c]
      /\ job' \in [Jobs -> [step : Steps, conn : PoolConns \cup {0}]]
  BY <1>0, <1>1 DEF Steps
<1>3. Apart(j, c)
  BY <1>0, <1>1, <1>2 DEF Apart
<1>4. /\ conns[c].local = "none" /\ conns[c].tx = "none" /\ QueueOK(c)
  BY <1>1 DEF PoolInv
<1>5. \A i \in 1..Len(conns[c].queue) :
        /\ ~Scoped(conns[c].queue[i].job)
        /\ conns[c].queue[i].what \in {"read", "write"}
  <2>1. \A i \in 1..Len(conns[c].queue) : conns[c].queue[i].job \in Jobs
    BY Queued DEF PoolInv
  <2> QED BY <1>1, <1>4, <2>1 DEF QueueOK
<1>6. QueueOK(c)'
  BY <1>1, <1>5 DEF QueueOK, Scoped
<1>7. Scoped(j) => Phase(j, c)'
  BY <1>1, <1>2, <1>4, <1>5 DEF Phase, PhaseAt
<1> QED BY <1>0, <1>1, <1>2, <1>3, <1>4, <1>6, <1>7, StepApart

(* A caller that has a connection takes its next step on it.               *)
Onward(j, c, next) ==
    /\ job'[j].step = next /\ job'[j].conn = c
    /\ job' \in [Jobs -> [step : Steps, conn : PoolConns \cup {0}]]
    /\ \A k \in Jobs \ {j} : job'[k] = job[k]

LEMMA Moving ==
    ASSUME PoolInv, NEW j \in Jobs, NEW c \in PoolConns, job[j].conn = c,
           NEW next \in Steps, job' = [job EXCEPT ![j].step = next]
    PROVE  Onward(j, c, next)
PROOF
<1>1. job \in [Jobs -> [step : Steps, conn : PoolConns \cup {0}]]
  BY DEF PoolInv, PoolTyped
<1> QED BY <1>1 DEF Onward

LEMMA OnwardApart ==
    ASSUME PoolInv, NEW j \in Jobs, NEW c \in PoolConns, job[j].conn = c, NEW next,
           Onward(j, c, next), UNCHANGED <<seen, wrote>>,
           \A d \in PoolConns \ {c} : conns'[d] = conns[d]
    PROVE  Apart(j, c)
BY Exclusive DEF Apart, Onward

LEMMA IssuedAlone ==
    ASSUME PoolInv, NEW j \in Jobs, NEW what \in Whats, NEW c \in PoolConns,
           job[j].conn = c, Enqueued(c, j, what), Len(conns[c].queue) = 0,
           Scoped(j), job'[j].conn = c
    PROVE  Single(conns'[c].queue, j, {what}) /\ QueueOK(c)'
PROOF
<1>1. Len(conns[c].queue) + 1 = 1
  OBVIOUS
<1>2. Len(conns'[c].queue) = 1 /\ conns'[c].queue[1].job = j /\ conns'[c].queue[1].what = what
  BY <1>1 DEF Enqueued
<1>3. Single(conns'[c].queue, j, {what})
  BY <1>2 DEF Single
<1>4. QueueOK(c)'
  BY <1>2 DEF QueueOK, Scoped
<1> QED BY <1>3, <1>4

LEMMA IssuedAfter ==
    ASSUME PoolInv, NEW j \in Jobs, NEW what \in Whats, NEW c \in PoolConns,
           job[j].conn = c, Enqueued(c, j, what), job'[j].conn = c,
           Scoped(j) \/ what \in {"read", "write"},
           \A i \in 1..Len(conns[c].queue) : /\ ~Scoped(conns[c].queue[i].job)
                                             /\ conns[c].queue[i].what \in {"read", "write"}
    PROVE  QueueOK(c)'
PROOF
<1> DEFINE n == Len(conns[c].queue)
<1>1. ASSUME NEW i \in 1..n
      PROVE  /\ ~Scoped(conns'[c].queue[i].job)
             /\ conns'[c].queue[i].what \in {"read", "write"}
  BY DEF Enqueued
<1>2. /\ n \in Nat /\ Len(conns'[c].queue) = n + 1
      /\ conns'[c].queue[n + 1].job = j /\ conns'[c].queue[n + 1].what = what
  BY DEF Enqueued
<1>3. \A i \in 1..(n + 1) : i \in 1..n \/ i = n + 1
  BY <1>2
<1> HIDE DEF n
<1> QED BY <1>1, <1>2, <1>3 DEF QueueOK, Scoped

LEMMA BeginStep ==
    ASSUME PoolInv, NEW j \in Jobs, NEW c \in PoolConns, job[j].conn = c, BeginTransaction(j)
    PROVE  PoolInv'
PROOF
<1>1. /\ job[j].step = "begin" /\ Issue(j, "begin") /\ UNCHANGED <<seen, wrote>>
      /\ job' = [job EXCEPT ![j].step = "scope"] /\ "begin" \in Whats /\ "scope" \in Steps
  BY DEF BeginTransaction, Whats, Steps
<1>2. Scoped(j) /\ 0 \notin PoolConns
  BY <1>1, PoolAssumption DEF PoolInv, PoolTyped
<1>3. Onward(j, c, "scope") /\ Enqueued(c, j, "begin")
  BY <1>1, Moving, Issuing
<1>4. Apart(j, c)
  BY <1>1, <1>3, OnwardApart DEF Enqueued
<1>5. /\ conns[c].local = "none" /\ conns[c].tx = "none"
      /\ \A i \in 1..Len(conns[c].queue) : ~Scoped(conns[c].queue[i].job)
  BY <1>1, <1>2, Exclusive DEF Phase, PhaseAt
<1>6. QueueOK(c)'
  BY <1>1, <1>2, <1>3, <1>5, Exclusive, IssuedAfter DEF Onward
<1>7. Phase(j, c)'
  BY <1>3, <1>5 DEF Phase, PhaseAt, Onward, Enqueued
<1> QED BY <1>2, <1>3, <1>4, <1>6, <1>7, StepApart DEF Onward, Enqueued

LEMMA ScopeStep ==
    ASSUME PoolInv, NEW j \in Jobs, NEW c \in PoolConns, job[j].conn = c, SetScope(j)
    PROVE  PoolInv'
PROOF
<1>1. /\ job[j].step = "scope" /\ ~Waiting(j) /\ Issue(j, "set_config")
      /\ UNCHANGED <<seen, wrote>> /\ job' = [job EXCEPT ![j].step = "work"]
      /\ "set_config" \in Whats /\ "work" \in Steps
  BY DEF SetScope, Whats, Steps
<1>2. Scoped(j) /\ 0 \notin PoolConns
  BY <1>1, PoolAssumption DEF PoolInv, PoolTyped
<1>3. Onward(j, c, "work") /\ Enqueued(c, j, "set_config")
  BY <1>1, Moving, Issuing
<1>4. Apart(j, c)
  BY <1>1, <1>3, OnwardApart DEF Enqueued
<1>5. Len(conns[c].queue) = 0 /\ conns[c].local = "none" /\ conns[c].tx = Mode(j)
  BY <1>1, <1>2, Quiet
<1>6. Single(conns'[c].queue, j, {"set_config"}) /\ QueueOK(c)'
  BY <1>1, <1>2, <1>3, <1>5, IssuedAlone DEF Onward
<1>7. Phase(j, c)'
  BY <1>3, <1>5, <1>6 DEF Phase, PhaseAt, Onward, Enqueued
<1> QED BY <1>2, <1>3, <1>4, <1>6, <1>7, StepApart DEF Onward, Enqueued

LEMMA WorkStep ==
    ASSUME PoolInv, NEW j \in Jobs, NEW c \in PoolConns, job[j].conn = c,
           NEW what \in {"read", "write"}, Work(j, what)
    PROVE  PoolInv'
PROOF
<1>1. /\ job[j].step = "work" /\ ~Waiting(j) /\ Issue(j, what) /\ UNCHANGED <<seen, wrote>>
      /\ job' = [job EXCEPT ![j].step = "done"] /\ what \in Whats /\ "done" \in Steps
  BY DEF Work, Whats, Steps
<1>2. 0 \notin PoolConns
  BY PoolAssumption
<1>3. Onward(j, c, "done") /\ Enqueued(c, j, what)
  BY <1>1, Moving, Issuing
<1>4. Apart(j, c)
  BY <1>1, <1>3, OnwardApart DEF Enqueued
<1>5. CASE Scoped(j)
  <2>1. Len(conns[c].queue) = 0 /\ conns[c].local = JobTenant[j] /\ conns[c].tx = Mode(j)
    BY <1>1, <1>5, Quiet
  <2>2. Single(conns'[c].queue, j, {what}) /\ QueueOK(c)'
    BY <1>1, <1>3, <1>5, <2>1, IssuedAlone DEF Onward
  <2>3. Single(conns'[c].queue, j, {"read", "write"})
    BY <2>2 DEF Single
  <2>4. Phase(j, c)'
    BY <1>3, <2>1, <2>3 DEF Phase, PhaseAt, Onward, Enqueued
  <2> QED BY <1>2, <1>3, <1>4, <1>5, <2>2, <2>4, StepApart DEF Onward, Enqueued
<1>6. CASE ~Scoped(j)
  <2>1. conns[c].local = "none" /\ conns[c].tx = "none"
    BY <1>6, Exclusive
  <2>2. \A i \in 1..Len(conns[c].queue) : /\ ~Scoped(conns[c].queue[i].job)
                                          /\ conns[c].queue[i].what \in {"read", "write"}
    BY <1>6, Exclusive
  <2>3. QueueOK(c)'
    BY <1>1, <1>3, <2>2, IssuedAfter DEF Onward
  <2> QED BY <1>2, <1>3, <1>4, <1>6, <2>1, <2>3, StepApart DEF Onward, Enqueued
<1> QED BY <1>5, <1>6

LEMMA EndStep ==
    ASSUME PoolInv, NEW j \in Jobs, NEW c \in PoolConns, job[j].conn = c,
           NEW how \in {"commit", "rollback"}, EndTransaction(j, how)
    PROVE  PoolInv'
PROOF
<1>1. /\ job[j].step = "done" /\ ~Waiting(j) /\ Issue(j, how) /\ UNCHANGED <<seen, wrote>>
      /\ job' = [job EXCEPT ![j].step = "release"] /\ Scoped(j)
      /\ how \in Whats /\ "release" \in Steps
  BY DEF EndTransaction, Whats, Steps
<1>2. 0 \notin PoolConns
  BY PoolAssumption
<1>3. Onward(j, c, "release") /\ Enqueued(c, j, how)
  BY <1>1, Moving, Issuing
<1>4. Apart(j, c)
  BY <1>1, <1>3, OnwardApart DEF Enqueued
<1>5. Len(conns[c].queue) = 0 /\ conns[c].local = JobTenant[j] /\ conns[c].tx = Mode(j)
  BY <1>1, Quiet
<1>6. Single(conns'[c].queue, j, {how}) /\ QueueOK(c)'
  BY <1>1, <1>3, <1>5, IssuedAlone DEF Onward
<1>7. Single(conns'[c].queue, j, {"commit", "rollback"})
  BY <1>6 DEF Single
<1>8. Phase(j, c)'
  BY <1>3, <1>5, <1>7 DEF Phase, PhaseAt, Onward, Enqueued
<1> QED BY <1>1, <1>2, <1>3, <1>4, <1>6, <1>8, StepApart DEF Onward, Enqueued

LEMMA ReleaseStep ==
    ASSUME PoolInv, NEW j \in Jobs, NEW c \in PoolConns, job[j].conn = c, Release(j)
    PROVE  PoolInv'
PROOF
<1>0. /\ job \in [Jobs -> [step : Steps, conn : PoolConns \cup {0}]] /\ 0 \notin PoolConns
      /\ conns \in [PoolConns -> Connection]
  BY PoolAssumption DEF PoolInv, PoolTyped
<1>1. /\ job' = [job EXCEPT ![j] = [step |-> "over", conn |-> 0]]
      /\ UNCHANGED <<conns, seen, wrote>>
  BY DEF Release
<1>2. /\ job'[j].step = "over" /\ job'[j].conn = 0
      /\ job' \in [Jobs -> [step : Steps, conn : PoolConns \cup {0}]]
      /\ \A k \in Jobs \ {j} : job'[k] = job[k]
  BY <1>0, <1>1 DEF Release, Steps, PoolInv, PoolTyped
<1>3. Apart(j, c)
  BY <1>1, <1>2, Exclusive DEF Apart
<1>4. conns[c].local = "none" /\ conns[c].tx = "none"
  <2>1. CASE Scoped(j)
    <3>1. job[j].step = "release" /\ ~Waiting(j)
      BY <2>1 DEF Release
    <3> QED BY <1>2, <2>1, <3>1, Quiet
  <2>2. CASE ~Scoped(j)
    BY <1>2, <2>2, Exclusive
  <2> QED BY <2>1, <2>2
<1>5. \A i \in 1..Len(conns[c].queue) : ~Scoped(conns[c].queue[i].job)
  <2>1. CASE Scoped(j)
    <3>1. job[j].step = "release" /\ ~Waiting(j)
      BY <2>1 DEF Release
    <3>2. Len(conns[c].queue) = 0
      BY <1>2, <2>1, <3>1, Quiet
    <3> QED BY <3>2
  <2>2. CASE ~Scoped(j)
    BY <1>2, <2>2, Exclusive
  <2> QED BY <2>1, <2>2
<1>6. QueueOK(c)'
  <2>1. QueueOK(c)
    BY <1>2 DEF PoolInv
  <2> QED BY <1>1, <1>5, <2>1 DEF QueueOK, Scoped
<1> QED BY <1>0, <1>1, <1>2, <1>3, <1>4, <1>6, StepApart

(* The server answers the statement at the head of a connection's queue.   *)
LEMMA Served ==
    ASSUME PoolInv, NEW c \in PoolConns, ServeStatement(c)
    PROVE  /\ Len(conns[c].queue) > 0
           /\ conns' \in [PoolConns -> Connection]
           /\ \A d \in PoolConns \ {c} : conns'[d] = conns[d]
           /\ Len(conns'[c].queue) = Len(conns[c].queue) - 1
           /\ \A i \in 1..Len(conns'[c].queue) : conns'[c].queue[i] = conns[c].queue[i + 1]
           /\ Head(conns[c].queue) = conns[c].queue[1]
           /\ LET m == conns[c].queue[1]
              IN  /\ conns'[c].local = CASE m.what = "set_config" -> JobTenant[m.job]
                                         [] m.what \in {"commit", "rollback"} -> "none"
                                         [] OTHER -> conns[c].local
                  /\ conns'[c].tx = CASE m.what = "begin" -> Mode(m.job)
                                      [] m.what \in {"commit", "rollback"} -> "none"
                                      [] OTHER -> conns[c].tx
PROOF
<1> DEFINE q == conns[c].queue
           m == Head(q)
<1>1. /\ conns \in [PoolConns -> Connection] /\ conns[c] \in Connection
      /\ q \in Seq(Message) /\ Len(q) \in Nat
  BY Queued DEF PoolInv, PoolTyped
<1>2. q # <<>>
  BY DEF ServeStatement
<1>3. /\ m = q[1] /\ Len(q) > 0 /\ Tail(q) \in Seq(Message) /\ Len(Tail(q)) = Len(q) - 1
      /\ \A i \in 1..Len(Tail(q)) : Tail(q)[i] = q[i + 1]
  BY <1>1, <1>2
<1>4. m.job \in Jobs /\ m.what \in Whats
  BY <1>1, <1>3, Queued DEF PoolInv
<1> DEFINE s == Serve(c, m)
           l == CASE m.what = "set_config" -> JobTenant[m.job]
                  [] m.what \in {"commit", "rollback"} -> "none"
                  [] OTHER -> conns[c].local
           t == CASE m.what = "begin" -> Mode(m.job)
                  [] m.what \in {"commit", "rollback"} -> "none"
                  [] OTHER -> conns[c].tx
<1>5. s \in Connection /\ s.local = l /\ s.tx = t /\ s.queue = q
  <2>1. JobTenant[m.job] \in Scopes /\ "none" \in Scopes /\ Mode(m.job) \in {"ro", "rw"}
    BY <1>4 DEF Scopes, Mode
  <2> HIDE DEF m
  <2>2. CASE m.what = "begin"
    BY <1>1, <2>1, <2>2 DEF Serve, Connection, Mode
  <2>3. CASE m.what = "set_config"
    BY <1>1, <2>1, <2>3 DEF Serve, Connection
  <2>4. CASE m.what \in {"commit", "rollback"}
    BY <1>1, <2>1, <2>4 DEF Serve, Connection
  <2>5. CASE m.what \in {"read", "write"}
    BY <1>1, <2>5 DEF Serve, Connection
  <2> QED BY <1>4, <2>2, <2>3, <2>4, <2>5 DEF Whats
<1> DEFINE new == [s EXCEPT !.queue = Tail(@)]
<1>6. conns' = [conns EXCEPT ![c] = new]
  BY DEF ServeStatement
<1> HIDE DEF s, l, t
<1>7. new \in Connection /\ new.local = l /\ new.tx = t /\ new.queue = Tail(q)
  BY <1>3, <1>5 DEF Connection
<1> HIDE DEF new
<1>8. conns' \in [PoolConns -> Connection] /\ conns'[c] = new
      /\ \A d \in PoolConns \ {c} : conns'[d] = conns[d]
  BY <1>1, <1>6, <1>7
<1> QED BY <1>3, <1>7, <1>8 DEF l, t

(* What a statement saw and did: it ran under its caller's tenant, and a    *)
(* reader's transaction was read-only.                                     *)
LEMMA ServedAsOwn ==
    ASSUME PoolInv, NEW c \in PoolConns, ServeStatement(c), NEW m, m = Head(conns[c].queue),
           m.job \in Jobs,
           m.what \in {"read", "write"} => CurrentTenant(c) = JobTenant[m.job],
           m.what = "write" /\ JobReadOnly[m.job] => conns[c].tx = "ro"
    PROVE  /\ ScopesHold'
           /\ seen' \in [Jobs -> SUBSET Scopes] /\ wrote' \in [Jobs -> BOOLEAN]
PROOF
<1>1. /\ seen \in [Jobs -> SUBSET Scopes] /\ wrote \in [Jobs -> BOOLEAN]
      /\ \A j \in Jobs : seen[j] \subseteq {JobTenant[j]}
      /\ \A j \in Jobs : JobReadOnly[j] => ~wrote[j]
  BY DEF PoolInv, PoolTyped, ScopesHold, ScopeIsOwn, ReadersNeverWrite
<1>2. \/ seen' = seen
      \/ CurrentTenant(c) = JobTenant[m.job] /\ seen' = [seen EXCEPT ![m.job] = @ \cup {CurrentTenant(c)}]
  BY DEF ServeStatement
<1>3. \/ wrote' = wrote
      \/ ~JobReadOnly[m.job] /\ wrote' = [wrote EXCEPT ![m.job] = TRUE]
  BY DEF ServeStatement
<1>4. JobTenant[m.job] \in Scopes
  BY DEF Scopes
<1>5. /\ seen' \in [Jobs -> SUBSET Scopes]
      /\ \A j \in Jobs : seen'[j] \subseteq {JobTenant[j]}
  BY <1>1, <1>2, <1>4
<1>6. /\ wrote' \in [Jobs -> BOOLEAN]
      /\ \A j \in Jobs : JobReadOnly[j] => ~wrote'[j]
  BY <1>1, <1>3
<1> QED BY <1>5, <1>6 DEF ScopesHold, ScopeIsOwn, ReadersNeverWrite

LEMMA ServeStep ==
    ASSUME PoolInv, NEW c \in PoolConns, ServeStatement(c)
    PROVE  PoolInv'
PROOF
<1> DEFINE Rest(q) == /\ Len(q) = Len(conns[c].queue) - 1
                      /\ \A i \in 1..Len(q) : q[i] = conns[c].queue[i + 1]
<1>1. PICK m : m = conns[c].queue[1]
  OBVIOUS
<1>2. /\ Len(conns[c].queue) \in Nat /\ Len(conns[c].queue) > 0
      /\ conns' \in [PoolConns -> Connection] /\ UNCHANGED job
      /\ \A d \in PoolConns \ {c} : conns'[d] = conns[d]
      /\ Rest(conns'[c].queue) /\ m = Head(conns[c].queue)
  BY <1>1, Served, Queued DEF ServeStatement, PoolInv
<1>3. /\ conns'[c].local = CASE m.what = "set_config" -> JobTenant[m.job]
                               [] m.what \in {"commit", "rollback"} -> "none"
                               [] OTHER -> conns[c].local
      /\ conns'[c].tx = CASE m.what = "begin" -> Mode(m.job)
                            [] m.what \in {"commit", "rollback"} -> "none"
                            [] OTHER -> conns[c].tx
  BY <1>1, Served
<1>4. m.job \in Jobs /\ m.what \in Whats /\ conns[c].session = "none"
  BY <1>1, <1>2, Queued DEF PoolInv, Connection
<1>5. QueueOK(c)
  BY DEF PoolInv
<1>9. ASSUME NEW n \in Nat PROVE \A i \in 1..(n - 1) : i + 1 \in 1..n
  OBVIOUS
(* It is enough to look at this connection.                                *)
<1>6. ASSUME ScopesHold', seen' \in [Jobs -> SUBSET Scopes], wrote' \in [Jobs -> BOOLEAN],
             QueueOK(c)',
             \A j \in Jobs : job[j].conn = c /\ Scoped(j) => Phase(j, c)',
             (\A j \in Jobs : job[j].conn = c => ~Scoped(j))
               => conns'[c].local = "none" /\ conns'[c].tx = "none"
      PROVE  PoolInv'
  <2>1. PoolTyped'
    BY <1>2, <1>6 DEF PoolInv, PoolTyped, Scoped
  <2>2. ASSUME NEW d \in PoolConns, d # c
        PROVE  /\ QueueOK(d)'
               /\ \A j \in Jobs : job'[j].conn = d /\ Scoped(j) => Phase(j, d)'
               /\ (\A j \in Jobs : job'[j].conn = d => ~Scoped(j))
                    => conns'[d].local = "none" /\ conns'[d].tx = "none"
    <3>1. conns'[d] = conns[d]
      BY <1>2, <2>2
    <3>2. QueueOK(d)'
      BY <1>2, <3>1 DEF PoolInv, QueueOK, Scoped
    <3>3. ASSUME NEW j \in Jobs, job'[j].conn = d, Scoped(j) PROVE Phase(j, d)'
      BY <1>2, <3>1, <3>3 DEF PoolInv, Phase
    <3> QED BY <1>2, <3>1, <3>2, <3>3 DEF PoolInv
  <2> QED BY <1>2, <1>6, <2>1, <2>2 DEF PoolInv, Scoped
<1>7. CASE Scoped(m.job)
  <2>1. Len(conns[c].queue) = 1 /\ job[m.job].conn = c
    <3>1. 1 \in 1..Len(conns[c].queue)
      BY <1>2
    <3> QED BY <1>1, <1>5, <1>7, <3>1 DEF QueueOK
  <2>2. Phase(m.job, c) /\ Len(conns'[c].queue) = 0
    BY <1>2, <1>4, <1>7, <2>1 DEF PoolInv
  <2>3. /\ PhaseAt(m.job, job[m.job].step, conns'[c])
        /\ m.what \in {"read", "write"} => /\ conns[c].local = JobTenant[m.job]
                                           /\ conns[c].tx = Mode(m.job)
    <3>1. conns[c].queue[1].job = m.job /\ conns[c].queue[1].what = m.what
      BY <1>1
    <3>2. \A W : Single(conns[c].queue, m.job, W) => m.what \in W
      BY <3>1 DEF Single
    <3>3. \/ job[m.job].step = "scope" /\ m.what = "begin" /\ conns[c].local = "none"
          \/ job[m.job].step = "work" /\ m.what = "set_config" /\ conns[c].tx = Mode(m.job)
          \/ /\ job[m.job].step = "done" /\ m.what \in {"read", "write"}
             /\ conns[c].local = JobTenant[m.job] /\ conns[c].tx = Mode(m.job)
          \/ job[m.job].step = "release" /\ m.what \in {"commit", "rollback"}
      BY <1>7, <2>1, <2>2, <3>1, <3>2 DEF Phase, PhaseAt
    <3> QED BY <1>3, <2>2, <3>3 DEF PhaseAt
  <2>4. QueueOK(c)'
    BY <2>2 DEF QueueOK
  <2>5. \A j \in Jobs : job[j].conn = c => j = m.job
    BY <1>4, <2>1, Exclusive
  <2>6. m.what \in {"read", "write"} => CurrentTenant(c) = JobTenant[m.job]
    BY <1>7, <2>3 DEF CurrentTenant, Scoped
  <2>7. m.what = "write" /\ JobReadOnly[m.job] => conns[c].tx = "ro"
    BY <2>3 DEF Mode
  <2>8. /\ ScopesHold'
        /\ seen' \in [Jobs -> SUBSET Scopes] /\ wrote' \in [Jobs -> BOOLEAN]
    BY <1>2, <1>4, <2>6, <2>7, ServedAsOwn
  <2>9. Phase(m.job, c)'
    BY <1>2, <2>3 DEF Phase
  <2> QED BY <1>4, <1>6, <1>7, <2>1, <2>4, <2>5, <2>8, <2>9
<1>8. CASE ~Scoped(m.job)
  <2>1. m.what \in {"read", "write"}
    BY <1>1, <1>2, <1>5, <1>8 DEF QueueOK
  <2>2. /\ conns'[c].local = conns[c].local /\ conns'[c].tx = conns[c].tx
    BY <1>3, <2>1
  <2>3. ASSUME NEW j \in Jobs, job[j].conn = c, Scoped(j)
        PROVE  /\ conns[c].local = "none" /\ conns[c].tx = "none"
               /\ Phase(j, c)'
    <3>1. Phase(j, c) /\ j # m.job
      BY <1>8, <2>3 DEF PoolInv
    <3>2. \A W : ~Single(conns[c].queue, j, W)
      BY <1>1, <3>1 DEF Single
    <3>3. /\ conns[c].local = "none" /\ conns[c].tx = "none"
          /\ \/ job[j].step = "begin" /\ \A i \in 1..Len(conns[c].queue) : ~Scoped(conns[c].queue[i].job)
             \/ /\ job[j].step = "scope"
                /\ conns[c].queue[Len(conns[c].queue)].job = j
                /\ conns[c].queue[Len(conns[c].queue)].what = "begin"
      BY <1>2, <3>1, <3>2 DEF Phase, PhaseAt
    <3>4. CASE job[j].step = "begin" /\ \A i \in 1..Len(conns[c].queue) : ~Scoped(conns[c].queue[i].job)
      <4>1. \A i \in 1..Len(conns'[c].queue) : ~Scoped(conns'[c].queue[i].job)
        <5> SUFFICES ASSUME NEW i \in 1..Len(conns'[c].queue)
                     PROVE  ~Scoped(conns'[c].queue[i].job)
          OBVIOUS
        <5>1. i + 1 \in 1..Len(conns[c].queue) /\ conns'[c].queue[i] = conns[c].queue[i + 1]
          BY <1>2, <1>9
        <5> QED BY <3>4, <5>1
      <4> QED BY <1>2, <2>2, <3>3, <3>4, <4>1 DEF Phase, PhaseAt, Scoped
    <3>5. CASE /\ job[j].step = "scope"
               /\ conns[c].queue[Len(conns[c].queue)].job = j
               /\ conns[c].queue[Len(conns[c].queue)].what = "begin"
      <4>1. Len(conns[c].queue) # 1
        BY <1>1, <3>1, <3>5
      <4>2. /\ Len(conns'[c].queue) > 0
            /\ conns'[c].queue[Len(conns'[c].queue)] = conns[c].queue[Len(conns[c].queue)]
        <5>0. ASSUME NEW n \in Nat, NEW k, k = n - 1, n > 0, n # 1 PROVE k \in 1..k /\ k + 1 = n /\ k > 0
          BY <5>0
        <5>1. Len(conns'[c].queue) \in 1..Len(conns'[c].queue)
              /\ Len(conns'[c].queue) + 1 = Len(conns[c].queue)
          <6>1. Len(conns[c].queue) \in Nat /\ Len(conns[c].queue) > 0
                /\ Len(conns'[c].queue) = Len(conns[c].queue) - 1
            BY <1>2
          <6> HIDE <1>2
          <6> QED BY <4>1, <5>0, <6>1
        <5> QED BY <1>2, <5>1
      <4> QED BY <1>2, <2>2, <3>3, <3>5, <4>2 DEF Phase, PhaseAt
    <3> QED BY <3>3, <3>4, <3>5
  <2>4. conns[c].local = "none" /\ conns[c].tx = "none"
    BY <2>3 DEF PoolInv
  <2>5. QueueOK(c)'
    <3> SUFFICES ASSUME NEW i \in 1..Len(conns'[c].queue)
                 PROVE  IF Scoped(conns'[c].queue[i].job)
                        THEN /\ i = Len(conns'[c].queue)
                             /\ job'[conns'[c].queue[i].job].conn = c
                        ELSE conns'[c].queue[i].what \in {"read", "write"}
      BY DEF QueueOK, Scoped
    <3>1. i + 1 \in 1..Len(conns[c].queue) /\ conns'[c].queue[i] = conns[c].queue[i + 1]
      BY <1>2, <1>9
    <3>2. i + 1 = Len(conns[c].queue) => i = Len(conns'[c].queue)
      BY <1>2
    <3> QED BY <1>2, <1>5, <3>1, <3>2 DEF QueueOK
  <2>6. CurrentTenant(c) = JobTenant[m.job] /\ ~JobReadOnly[m.job]
    BY <1>4, <1>8, <2>4, PoolAssumption DEF CurrentTenant, Scoped
  <2>7. /\ ScopesHold'
        /\ seen' \in [Jobs -> SUBSET Scopes] /\ wrote' \in [Jobs -> BOOLEAN]
    BY <1>2, <1>4, <2>6, ServedAsOwn
  <2> QED BY <1>6, <2>2, <2>3, <2>4, <2>5, <2>7
<1> QED BY <1>7, <1>8

LEMMA PoolInvStep == PoolInv /\ [PoolNext]_poolvars => PoolInv'
PROOF
<1> SUFFICES ASSUME PoolInv, [PoolNext]_poolvars PROVE PoolInv'
  OBVIOUS
<1>1. ASSUME NEW j \in Jobs, ~(job[j].step \in {"start", "over"}) PROVE job[j].conn \in PoolConns
  <2>1. job[j].conn \in PoolConns \cup {0} /\ job[j].conn # 0
    BY <1>1 DEF PoolInv, PoolTyped
  <2> QED BY <2>1
<1>2. ASSUME NEW j \in Jobs, NEW c \in PoolConns, Connect(j, c) PROVE PoolInv'
  BY <1>2, ConnectStep
<1>3. ASSUME NEW j \in Jobs, BeginTransaction(j) PROVE PoolInv'
  BY <1>1, <1>3, BeginStep DEF BeginTransaction
<1>4. ASSUME NEW j \in Jobs, SetScope(j) PROVE PoolInv'
  BY <1>1, <1>4, ScopeStep DEF SetScope
<1>5. ASSUME NEW j \in Jobs, NEW w \in {"read", "write"}, Work(j, w) PROVE PoolInv'
  BY <1>1, <1>5, WorkStep DEF Work
<1>6. ASSUME NEW j \in Jobs, NEW h \in {"commit", "rollback"}, EndTransaction(j, h) PROVE PoolInv'
  BY <1>1, <1>6, EndStep DEF EndTransaction
<1>7. ASSUME NEW j \in Jobs, Release(j) PROVE PoolInv'
  BY <1>1, <1>7, ReleaseStep DEF Release
<1>8. ASSUME NEW c \in PoolConns, ServeStatement(c) PROVE PoolInv'
  BY <1>8, ServeStep
<1>9. CASE UNCHANGED poolvars
  BY <1>9 DEF poolvars, PoolInv, PoolTyped, ScopesHold, ScopeIsOwn, ReadersNeverWrite,
              QueueOK, Phase, PhaseAt, Single, Scoped
<1> QED BY <1>2, <1>3, <1>4, <1>5, <1>6, <1>7, <1>8, <1>9 DEF PoolNext

(* Whoever had a pooled connection before, a statement on it runs under its *)
(* own caller's tenant, and a read-only caller never writes (client.ts,    *)
(* withTenant and withoutTenant): for any number of connections, callers   *)
(* and tenants.                                                            *)
THEOREM ScopesKept == PoolSpec => []ScopesHold
PROOF
<1>1. PoolInv => ScopesHold
  BY DEF PoolInv
<1> QED BY <1>1, PoolInvInit, PoolInvStep, PTL DEF PoolSpec
=============================================================================
