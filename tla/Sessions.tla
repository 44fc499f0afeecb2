------------------------------ MODULE Sessions ------------------------------
(***************************************************************************)
(* Sign-in, sessions, device keys and socket tickets: login, switchTenant  *)
(* and the key functions (packages/db/src/queries/tenancy.ts), session     *)
(* and ticket resolution (packages/db/src/auth.ts), the sign-in route and  *)
(* its limits (apps/web/app/api/auth/login/route.ts, lib/login-limits.ts)  *)
(* and the ticket route.                                                   *)
(*                                                                         *)
(* One user; tenants, memberships and the account change under it at any   *)
(* moment.  The database's clock, the web service's and ingest's are one.  *)
(***************************************************************************)
EXTENDS Integers, FiniteSets, FiniteSetsExt

CONSTANTS
    Orgs,          \* tenants
    Attempts,      \* concurrent sign-in requests
    MaxInFlight,   \* LOGIN_MAX_IN_FLIGHT
    EmailBurst,    \* LOGIN_RATE_PER_EMAIL_BURST
    SessionTTL,    \* SESSION_TTL_MS
    TicketTTL,     \* signWsTicket's ttlMs
    Rotators,      \* concurrent key rotations
    MaxMoment,     \* bound on the clock
    MaxAdmin       \* bound on changes of account, membership and tenant

ASSUME SessionsAssumption == TicketTTL \in Nat \ {0} /\ SessionTTL \in Nat

NoSession == [org |-> "none", exp |-> 0]
Idle == [at |-> "idle", seenActive |-> FALSE, verified |-> 0, row |-> NoSession]
NoSwitch == [to |-> "none", newest |-> FALSE]

VARIABLES
    active,      \* users.is_active
    orgActive,   \* tenants with status 'active'
    members,     \* tenant_members of the user
    entitledAt,  \* per tenant: the last moment the user was a member, active, and it active
    login,       \* per attempt: where it is ("idle", "hash" with no connection held,
                 \* "select" or "insert"), is_active as its first step read it, the
                 \* session row it is about to insert, and, as history, when its
                 \* password was found right
    budget,      \* loginLimits.perEmail of the address, not refilling
    session,     \* the user's newest session row
    switching,   \* a switch under way: to which tenant, and whether of that row
    tickets,     \* tickets signed
    admitted,    \* the last ticket ingest accepted, and how long ago the user was entitled
    liveKeys,    \* un-revoked api_keys rows of one name
    rotating,    \* per rotation: "idle", or holding its revoked rows uncommitted
    moment, admin

signing == <<login, budget>>
rows == <<session, switching>>
keys == <<liveKeys, rotating>>
identity == <<active, orgActive, members, entitledAt>>
sesvars == <<identity, signing, rows, tickets, admitted, keys, moment, admin>>

Entitled(o) == active /\ o \in members /\ o \in orgActive
LastEntitled(o) == IF Entitled(o) THEN moment ELSE entitledAt[o]
InFlight == {p \in Attempts : login[p].at # "idle"}
-----------------------------------------------------------------------------
(* The sign-in route: the budget and a verification slot, then login()'s   *)
(* first step reads the account and gives the connection back.             *)
BeginLogin(p) ==
    /\ login[p].at = "idle" /\ budget > 0
    /\ Cardinality(InFlight) < MaxInFlight
    /\ login' = [login EXCEPT ![p].at = "hash", ![p].seenActive = active]
    /\ UNCHANGED <<identity, budget, rows, tickets, admitted, keys, moment, admin>>

(* A sign-in that ends without a session is charged, if nothing threw.     *)
Refused(p) ==
    /\ login' = [login EXCEPT ![p] = Idle]
    /\ budget' = IF budget = 0 THEN 0 ELSE budget - 1

(* The password is checked with no connection held.                        *)
VerifyPassword(p, right) ==
    /\ login[p].at = "hash"
    /\ \/ /\ right /\ login[p].seenActive
          /\ login' = [login EXCEPT ![p].at = "select", ![p].verified = moment]
          /\ UNCHANGED budget
       \/ ~(right /\ login[p].seenActive) /\ Refused(p)
    /\ UNCHANGED <<identity, rows, tickets, admitted, keys, moment, admin>>

(* The last step reads the account again with its memberships: those of    *)
(* the tenant the request names, or the one held longest.  No transaction  *)
(* joins this statement to the INSERT that follows.                        *)
TrustsTheFirstRead(p) == {o \in Orgs : login[p].seenActive /\ o \in members /\ o \in orgActive}
Memberships(p) == {o \in Orgs : Entitled(o)}
SelectTenant(p, slugs) ==
    LET found == Memberships(p) \cap slugs
    IN  /\ login[p].at = "select"
        /\ \/ /\ \E o \in found : login' = [login EXCEPT ![p].at = "insert",
                                                        ![p].row = [org |-> o, exp |-> moment + SessionTTL]]
              /\ UNCHANGED budget
           \/ found = {} /\ Refused(p)
        /\ UNCHANGED <<identity, rows, tickets, admitted, keys, moment, admin>>

(* The INSERT checks nothing but its foreign key: a membership that went   *)
(* in between makes it throw.  A row that is now the newest leaves a       *)
(* switch under way at the old one.                                        *)
InsertSession(p) ==
    /\ login[p].at = "insert" /\ login' = [login EXCEPT ![p] = Idle]
    /\ \/ /\ login[p].row.org \in members
          /\ session' = login[p].row /\ switching' = [switching EXCEPT !.newest = FALSE]
       \/ login[p].row.org \notin members /\ UNCHANGED rows
    /\ UNCHANGED <<identity, budget, tickets, admitted, keys, moment, admin>>

(* resolveSession: the row, its expiry, and the account as it is now.      *)
ResolveSession == session # NoSession /\ session.exp > moment /\ Entitled(session.org)

(* POST /api/auth/tenant resolves the session, and then reads its body.    *)
BeginSwitch(o) ==
    /\ ResolveSession /\ switching = NoSwitch
    /\ switching' = [to |-> o, newest |-> TRUE]
    /\ UNCHANGED <<identity, signing, session, tickets, admitted, keys, moment, admin>>

(* switchTenant: the membership is part of the UPDATE; the expiry and the  *)
(* account are not, nor whether the row is still there.                    *)
SwitchTenant ==
    LET o == switching.to
    IN  /\ switching # NoSwitch /\ switching' = NoSwitch
        /\ session' = IF switching.newest /\ o \in members /\ o \in orgActive
                      THEN [session EXCEPT !.org = o] ELSE session
        /\ UNCHANGED <<identity, signing, tickets, admitted, keys, moment, admin>>

(* deleteSession at sign-out, purgeExpiredSessions as housekeeping.        *)
DeleteSession ==
    /\ session # NoSession
    /\ session' = NoSession /\ switching' = [switching EXCEPT !.newest = FALSE]
    /\ UNCHANGED <<identity, signing, tickets, admitted, keys, moment, admin>>

(* GET /api/ws-ticket: signed for the session's tenant.                    *)
SignWsTicket ==
    /\ ResolveSession
    /\ tickets' = tickets \cup {[org |-> session.org, exp |-> moment + TicketTTL]}
    /\ UNCHANGED <<identity, signing, rows, admitted, keys, moment, admin>>

(* Ingest verifies a ticket by its signature and its expiry alone.         *)
IgnoresExpiry(t) == TRUE
VerifyWsTicket(t) == t.exp > moment

PresentTicket(t) ==
    /\ t \in tickets /\ VerifyWsTicket(t)
    /\ admitted' = [org |-> t.org, gap |-> moment - LastEntitled(t.org)]
    /\ UNCHANGED <<identity, signing, rows, tickets, keys, moment, admin>>
-----------------------------------------------------------------------------
(* rotateApiKey: revoke and create in one transaction.  A rotation waits   *)
(* for another one's uncommitted rows; the unique index on live names then *)
(* refuses the loser.                                                      *)
Busy(r) == \E q \in Rotators \ {r} : rotating[q].st = "revoked"

BeginRotation(r) ==
    /\ rotating[r].st = "idle" /\ admin < MaxAdmin
    /\ rotating' = [rotating EXCEPT ![r] = [st |-> "revoked", rows |-> IF Busy(r) THEN {} ELSE liveKeys]]
    /\ admin' = admin + 1
    /\ UNCHANGED <<identity, signing, rows, tickets, admitted, liveKeys, moment>>

CommitRotation(r) ==
    /\ rotating[r].st = "revoked"
    /\ rotating' = [rotating EXCEPT ![r] = [st |-> "idle", rows |-> {}]]
    /\ liveKeys' = IF liveKeys \ rotating[r].rows = {} THEN {r} ELSE liveKeys
    /\ UNCHANGED <<identity, signing, rows, tickets, admitted, moment, admin>>

RollbackRotation(r) ==
    /\ rotating[r].st = "revoked"
    /\ rotating' = [rotating EXCEPT ![r] = [st |-> "idle", rows |-> {}]]
    /\ UNCHANGED <<identity, signing, rows, tickets, admitted, liveKeys, moment, admin>>

(* revokeApiKey: it too waits for uncommitted rows, and then finds them    *)
(* revoked already.                                                        *)
RevokeApiKey ==
    /\ admin < MaxAdmin /\ admin' = admin + 1
    /\ liveKeys' = IF \E r \in Rotators : rotating[r].rows # {} THEN liveKeys ELSE {}
    /\ UNCHANGED <<identity, signing, rows, tickets, admitted, rotating, moment>>

(* createApiKey: refused by the index while the name has a live key.       *)
CreateApiKey ==
    /\ liveKeys = {} /\ liveKeys' = {0}
    /\ UNCHANGED <<identity, signing, rows, tickets, admitted, rotating, moment, admin>>
-----------------------------------------------------------------------------
(* A membership that is deleted takes the sessions for that tenant with it *)
(* (the sessions' foreign key, ON DELETE CASCADE).                         *)
RemoveMember(o) ==
    /\ members' = members \ {o}
    /\ IF session.org = o
       THEN session' = NoSession /\ switching' = [switching EXCEPT !.newest = FALSE]
       ELSE UNCHANGED rows

(* addMember, and what an administrator does in the tables directly.       *)
Administer(o) ==
    /\ admin < MaxAdmin /\ admin' = admin + 1
    /\ \/ active' = ~active /\ UNCHANGED <<members, orgActive, rows>>
       \/ members' = members \cup {o} /\ UNCHANGED <<active, orgActive, rows>>
       \/ RemoveMember(o) /\ UNCHANGED <<active, orgActive>>
       \/ orgActive' = SymDiff(orgActive, {o}) /\ UNCHANGED <<active, members, rows>>
    /\ entitledAt' = [p \in Orgs |-> LastEntitled(p)]
    /\ UNCHANGED <<signing, tickets, admitted, keys, moment>>

SesTick ==
    /\ moment < MaxMoment /\ moment' = moment + 1
    /\ UNCHANGED <<identity, signing, rows, tickets, admitted, keys, admin>>

SesInit ==
    /\ active = TRUE /\ orgActive = Orgs /\ members \in SUBSET Orgs
    /\ entitledAt = [o \in Orgs |-> -TicketTTL]
    /\ login = [p \in Attempts |-> Idle]
    /\ budget = EmailBurst /\ session = NoSession /\ switching = NoSwitch /\ tickets = {}
    /\ admitted = [org |-> "none", gap |-> 0]
    /\ liveKeys = {0} /\ rotating = [r \in Rotators |-> [st |-> "idle", rows |-> {}]]
    /\ moment = 0 /\ admin = 0

SesNext ==
    \/ \E p \in Attempts : BeginLogin(p) \/ InsertSession(p) \/ \E b \in BOOLEAN : VerifyPassword(p, b)
    \/ \E p \in Attempts : SelectTenant(p, Orgs) \/ \E o \in Orgs : SelectTenant(p, {o})
    \/ \E o \in Orgs : BeginSwitch(o)
    \/ SwitchTenant \/ DeleteSession \/ SignWsTicket \/ SesTick
    \/ \E t \in tickets : PresentTicket(t)
    \/ \E o \in Orgs : Administer(o)

(* Key operations touch only the keys and are checked on their own.        *)
KeyNext ==
    \/ \E r \in Rotators : BeginRotation(r) \/ CommitRotation(r) \/ RollbackRotation(r)
    \/ RevokeApiKey \/ CreateApiKey

SesSpec == SesInit /\ [][SesNext \/ KeyNext]_sesvars
-----------------------------------------------------------------------------
(* A session row always names a tenant its user is a member of, and comes  *)
(* about in two ways.  A sign-in opens it for a tenant the user, active,   *)
(* was entitled to at some moment since the password was found right:      *)
(* the account was read before the hash and may have been deactivated      *)
(* during it, and memberships and tenants change once more between the     *)
(* second read and the INSERT.  A switch moves it, without making it last  *)
(* longer, to a tenant that is active and has the user as a member at that *)
(* moment, though the request's session was resolved before (login,        *)
(* switchTenant).                                                          *)
NoStaleLogin ==
    [][ session' # session /\ session' # NoSession =>
          /\ session'.org \in members
          /\ \/ \E p \in Attempts : InsertSession(p) /\ LastEntitled(session'.org) >= login[p].verified
             \/ SwitchTenant /\ session'.exp = session.exp /\ session'.org \in orgActive ]_sesvars
NoOrphanSession == [](session # NoSession => session.org \in members)

(* Ingest admits a socket for a tenant only within a ticket's life of the  *)
(* user's last entitlement to it, whatever happened to the session, the    *)
(* membership, the account and the tenant since it was signed.             *)
AdmittedWasEntitled == admitted.gap < TicketTTL

(* Whatever rotations race, fail or roll back, a device name never has two *)
(* live keys, and loses its last one only by being revoked on purpose: no  *)
(* rotation leaves the device without a key.                               *)
OneLiveKey ==
    [][ /\ Cardinality(liveKeys') <= 1
        /\ liveKeys # {} /\ liveKeys' = {} => RevokeApiKey ]_sesvars

(* Neither a login decided on an account since changed nor a rotation      *)
(* beside another leaves a credential that should not be (login/route.ts,  *)
(* auth.ts, tenancy.ts).                                                   *)
CredentialsAreSound == NoStaleLogin /\ NoOrphanSession /\ OneLiveKey
=============================================================================
