------------------------------ MODULE LiveView ------------------------------
(***************************************************************************)
(* The live alert list: ingest's fan-out hub and its WebSocket handler     *)
(* (apps/ingest/src/fanout.ts, server.ts), the dashboard's socket hook     *)
(* (apps/web/lib/ws.ts), the snapshot it refetches (Dashboard.tsx,         *)
(* api/alerts/route.ts) and the merge of the two (lib/alerts.ts).          *)
(*                                                                         *)
(* One page of one tenant.  A connection is a pair of queues: up holds the *)
(* page's frames, down the server's, and each ends in a "close" frame once *)
(* a side has closed or the network has dropped it.  The frames still in   *)
(* down when the server looks are its bufferedAmount.                      *)
(***************************************************************************)
EXTENDS Naturals, Sequences, FiniteSets, SequencesExt

CONSTANTS
    LiveAlerts,      \* alerts that may open and resolve, each once
    Socks,           \* connections that can exist at once (an old one closing beside a new one)
    Backlog,         \* INGEST_CLIENT_BUFFER_MAX_BYTES, in frames
    MaxConnections,  \* WS_MAX_CONNECTIONS_PER_TENANT
    MaxAlertEvents,  \* MAX_ALERT_EVENTS
    AlertListLimit,  \* ALERT_LIST_LIMIT
    MaxLiveFaults        \* bound on dropped connections, refocusings, failed fetches

ASSUME LiveAssumption ==
    /\ MaxConnections \in Nat \ {0} /\ MaxAlertEvents \in Nat \ {0}
    /\ Backlog \in Nat /\ AlertListLimit \in Nat /\ MaxLiveFaults \in Nat

VARIABLES
    open,       \* alerts whose row is not resolved
    raised,     \* alerts that have been opened so far
    outgoing,   \* alert messages committed in the database and not yet sent
    conn,       \* the connections, by socket
    cur,        \* socketRef.current, 0 before the first one
    phase,      \* connect(): "ticket" (fetching it), "socket" (made), "retry" (timer armed)
    since,      \* listeningSince # null
    snap,       \* the alert snapshot on the page: rows and whether they were truncated
    fetch,      \* the snapshot request in flight: "none", "sent" or "read"
    events,     \* alertEvents; at: 0 before the snapshot's request, 1 after it, 2 after the newest request
    liveFaults      \* faults so far

livevars == <<open, raised, outgoing, conn, cur, phase, since, snap, fetch, events, liveFaults>>
serverSide == <<open, raised, outgoing>>
pageAlerts == <<snap, fetch, events>>

NoConn == [srv |-> "none", auth |-> FALSE, subs |-> FALSE, cli |-> "none", up |-> <<>>, down |-> <<>>]
Messages == {"raised", "acknowledged", "resolved"} \X LiveAlerts

(* A frame that carries no alert.                                          *)
Frame(kind) == <<kind, "-">>

LiveTypeOK ==
    /\ open \subseteq raised /\ raised \subseteq LiveAlerts
    /\ outgoing \subseteq Messages
    /\ conn \in [Socks -> [srv : {"none", "open", "closing"}, auth : BOOLEAN, subs : BOOLEAN,
                           cli : {"none", "open", "closing"},
                           up : Seq({"auth", "subscribe", "close"}),
                           down : Seq(Messages \cup {Frame("authenticated"), Frame("subscribed"), Frame("close")})]]
    /\ cur \in Socks \cup {0}
    /\ phase \in {"ticket", "socket", "retry"}
    /\ since \in BOOLEAN
    /\ snap \in [rows : SUBSET LiveAlerts, truncated : BOOLEAN]
    /\ fetch \in [st : {"none", "sent", "read"}, rows : SUBSET LiveAlerts, truncated : BOOLEAN]
    /\ events \in Seq([alert : LiveAlerts, kind : {"upsert", "resolved"}, at : 0..2])
    /\ Len(events) <= MaxAlertEvents
    /\ liveFaults \in 0..MaxLiveFaults
-----------------------------------------------------------------------------
(* The list on the page.                                                   *)

(* appendAlertEvent: the latest event per alert, the oldest alert first;   *)
(* so there is one earlier event about this alert at most to leave out.    *)
AppendAlertEvent(es, e) ==
    LET next == Append(RemoveFirstMatch(es, LAMBDA x : x.alert = e.alert), e)
    IN  IF Len(next) > MaxAlertEvents
        THEN SubSeq(next, Len(next) - MaxAlertEvents + 1, Len(next)) ELSE next

(* reconcileAlerts: an event older than the snapshot's request is ignored, *)
(* any other one is applied on top.                                        *)
KeepsOldEvents(rows, es) ==
    (rows \cup {es[i].alert : i \in {j \in DOMAIN es : es[j].kind = "upsert"}})
        \ {es[i].alert : i \in {j \in DOMAIN es : es[j].kind = "resolved"}}

ReconcileAlerts(rows, es) ==
    LET live(k) == {es[i].alert : i \in {j \in DOMAIN es : es[j].at > 0 /\ es[j].kind = k}}
    IN  (rows \cup live("upsert")) \ live("resolved")

Shown == ReconcileAlerts(snap.rows, events)

(* The effect that refetches the open alerts: it forgets the request in    *)
(* flight and stamps the new one now, so every event so far precedes it.   *)
Refetch ==
    /\ fetch' = [st |-> "sent", rows |-> {}, truncated |-> FALSE]
    /\ events' = [i \in DOMAIN events |-> IF events[i].at = 2 THEN [events[i] EXCEPT !.at = 1]
                                                              ELSE events[i]]
    /\ UNCHANGED snap

(* setListeningSince: the effect above depends on it.                      *)
SetListeningSince(on) ==
    /\ since' = on
    /\ IF on \/ since THEN Refetch ELSE UNCHANGED pageAlerts

SnapshotRead ==
    /\ fetch.st = "sent"
    /\ \E rows \in SUBSET open :
          /\ Cardinality(rows) = IF Cardinality(open) > AlertListLimit THEN AlertListLimit
                                                                      ELSE Cardinality(open)
          /\ fetch' = [st |-> "read", rows |-> rows, truncated |-> rows # open]
    /\ UNCHANGED <<serverSide, conn, cur, phase, since, snap, events, liveFaults>>

(* The rows land, stamped with the moment the request was sent.            *)
LandedStampedOnArrival ==
    /\ fetch.st = "read"
    /\ snap' = [rows |-> fetch.rows, truncated |-> fetch.truncated]
    /\ fetch' = [fetch EXCEPT !.st = "none"]
    /\ events' = [i \in DOMAIN events |-> [events[i] EXCEPT !.at = 0]]
    /\ UNCHANGED <<serverSide, conn, cur, phase, since, liveFaults>>

SnapshotLands ==
    /\ fetch.st = "read"
    /\ snap' = [rows |-> fetch.rows, truncated |-> fetch.truncated]
    /\ fetch' = [fetch EXCEPT !.st = "none"]
    /\ events' = [i \in DOMAIN events |-> IF events[i].at = 1 THEN [events[i] EXCEPT !.at = 0]
                                                              ELSE events[i]]
    /\ UNCHANGED <<serverSide, conn, cur, phase, since, liveFaults>>

SnapshotFails ==
    /\ fetch.st # "none" /\ liveFaults < MaxLiveFaults
    /\ fetch' = [fetch EXCEPT !.st = "none"]
    /\ liveFaults' = liveFaults + 1
    /\ UNCHANGED <<serverSide, conn, cur, phase, since, snap, events>>

(* The five-minute timer; a request is answered well within one period.    *)
AlertRefresh ==
    /\ fetch.st = "none"
    /\ Refetch
    /\ UNCHANGED <<serverSide, conn, cur, phase, since, liveFaults>>
-----------------------------------------------------------------------------
(* The hub and the server's side of a socket.                              *)

ConnectionsFor == Cardinality({s \in Socks : conn[s].srv # "none" /\ conn[s].auth})

(* socket.close(): a close frame follows what was sent; closed once only.  *)
ServerClose(c) == IF c.srv = "open" THEN [c EXCEPT !.srv = "closing", !.down = Append(@, Frame("close"))] ELSE c

(* #deliver with mustDeliver, for one subscriber of the alert topic.       *)
Deliver(c, m) ==
    IF c.srv # "open" THEN c
    ELSE IF Len(c.down) > Backlog THEN ServerClose(c)
    ELSE [c EXCEPT !.down = Append(@, m)]

SendAlert(m) ==
    /\ m \in outgoing
    /\ m[1] = "resolved" => <<"raised", m[2]>> \notin outgoing
    /\ outgoing' = outgoing \ {m}
    /\ conn' = [s \in Socks |-> IF conn[s].subs THEN Deliver(conn[s], m) ELSE conn[s]]
    /\ UNCHANGED <<open, raised, cur, phase, since, pageAlerts, liveFaults>>

(* The frame the server reads, and an auth frame accepted.                 *)
FrameRead(c) == [c EXCEPT !.up = Tail(@)]
Authenticated(c) == [c EXCEPT !.auth = TRUE, !.down = Append(@, Frame("authenticated"))]

(* The auth frame: over the tenant's connections the socket is closed.     *)
ReceiveAuth(s) ==
    /\ conn[s].srv = "open" /\ conn[s].up # <<>> /\ Head(conn[s].up) = "auth"
    /\ conn' = [conn EXCEPT ![s] =
          IF ConnectionsFor >= MaxConnections THEN ServerClose(FrameRead(@)) ELSE Authenticated(FrameRead(@))]
    /\ UNCHANGED <<serverSide, cur, phase, since, pageAlerts, liveFaults>>

(* Fanout.subscribe: an unidentified connection is refused everything; a   *)
(* tenant's own topics are granted.                                        *)
Subscribe(c) == IF c.auth THEN [c EXCEPT !.subs = TRUE, !.down = Append(@, Frame("subscribed"))] ELSE c

ReceiveSubscribe(s) ==
    /\ conn[s].srv = "open" /\ conn[s].up # <<>> /\ Head(conn[s].up) = "subscribe"
    /\ conn' = [conn EXCEPT ![s] = Subscribe(FrameRead(@))]
    /\ UNCHANGED <<serverSide, cur, phase, since, pageAlerts, liveFaults>>

(* AUTH_GRACE_MS passes with no ticket accepted.                           *)
AuthTimeout(s) ==
    /\ conn[s].srv = "open" /\ ~conn[s].auth /\ liveFaults < MaxLiveFaults
    /\ conn' = [conn EXCEPT ![s] = ServerClose(@)]
    /\ liveFaults' = liveFaults + 1
    /\ UNCHANGED <<serverSide, cur, phase, since, pageAlerts>>

(* The server's close event: cleanup() forgets the subscriber.  A closing  *)
(* socket also discards the frames that were still coming.                 *)
(* Fanout.remove.                                                          *)
RemoveSubscriber(c) == [c EXCEPT !.srv = "none", !.auth = FALSE, !.subs = FALSE]
EndHeard(c) == [RemoveSubscriber(FrameRead(c)) EXCEPT
                  !.down = IF c.srv = "open" THEN Append(@, Frame("close")) ELSE @]

ServerCleanup(s) ==
    /\ conn[s].srv # "none" /\ conn[s].up # <<>>
    /\ conn[s].srv = "closing" \/ Head(conn[s].up) = "close"
    /\ conn' = [conn EXCEPT ![s] = IF Head(@.up) # "close" THEN FrameRead(@) ELSE EndHeard(@)]
    /\ UNCHANGED <<serverSide, cur, phase, since, pageAlerts, liveFaults>>
-----------------------------------------------------------------------------
(* The alert engine and the acknowledge route, as the hub sees them: a row *)
(* commits, and the message about it is sent later.  The messages of the   *)
(* engine about one alert keep their order; an acknowledgement's does not. *)
RaiseAlert(a) ==
    /\ a \notin raised
    /\ open' = open \cup {a} /\ raised' = raised \cup {a}
    /\ outgoing' = outgoing \cup {<<"raised", a>>}
    /\ UNCHANGED <<conn, cur, phase, since, pageAlerts, liveFaults>>

AcknowledgeAlert(a) ==
    /\ a \in open /\ liveFaults < MaxLiveFaults
    /\ outgoing' = outgoing \cup {<<"acknowledged", a>>}
    /\ liveFaults' = liveFaults + 1
    /\ UNCHANGED <<open, raised, conn, cur, phase, since, pageAlerts>>

ResolveAlert(a) ==
    /\ a \in open
    /\ open' = open \ {a}
    /\ outgoing' = outgoing \cup {<<"resolved", a>>}
    /\ UNCHANGED <<raised, conn, cur, phase, since, pageAlerts, liveFaults>>
-----------------------------------------------------------------------------
(* The page's side.                                                        *)

(* The ticket arrives and the socket is made; its auth frame goes first.   *)
MakeSocket(s) ==
    /\ phase = "ticket" /\ conn[s].srv = "none" /\ conn[s].cli = "none"
    /\ conn' = [conn EXCEPT ![s] = [NoConn EXCEPT !.srv = "open", !.cli = "open", !.up = <<"auth">>]]
    /\ cur' = s /\ phase' = "socket"
    /\ UNCHANGED <<serverSide, since, pageAlerts, liveFaults>>

TicketFails ==
    /\ phase = "ticket" /\ liveFaults < MaxLiveFaults
    /\ phase' = "retry" /\ liveFaults' = liveFaults + 1
    /\ UNCHANGED <<serverSide, conn, cur, since, pageAlerts>>

RetryConnect ==
    /\ phase = "retry"
    /\ phase' = "ticket"
    /\ UNCHANGED <<serverSide, conn, cur, since, pageAlerts, liveFaults>>

(* send(subscribe), once identified.                                       *)
Subscribing(c) == [c EXCEPT !.up = Append(@, "subscribe")]

(* onmessage, for the next frame of an open socket.                        *)
OnMessage(s) ==
    /\ conn[s].cli = "open" /\ conn[s].down # <<>> /\ Head(conn[s].down)[1] # "close"
    /\ LET m == Head(conn[s].down)
           c == [conn[s] EXCEPT !.down = Tail(@)]
       IN  CASE m[1] = "authenticated" ->
                  /\ conn' = [conn EXCEPT ![s] = Subscribing(c)]
                  /\ SetListeningSince(TRUE)
             [] m[1] = "subscribed" ->
                  conn' = [conn EXCEPT ![s] = c] /\ UNCHANGED <<since, pageAlerts>>
             [] OTHER ->
                  /\ conn' = [conn EXCEPT ![s] = c]
                  /\ events' = AppendAlertEvent(events, [alert |-> m[2], at |-> 2,
                         kind |-> IF m[1] = "resolved" THEN "resolved" ELSE "upsert"])
                  /\ UNCHANGED <<since, snap, fetch>>
    /\ UNCHANGED <<serverSide, cur, phase, liveFaults>>

(* The close event on the page; it answers one it did not ask for.         *)
PageClosed(c) == [c EXCEPT !.cli = "none", !.down = Tail(@),
                           !.up = IF c.cli = "open" /\ c.srv # "none" THEN Append(@, "close") ELSE @]

(* onclose.  It belongs to the effect that made the socket: an effect that *)
(* was cleaned up no longer retries, but still clears listeningSince.      *)
OnClose(s) ==
    /\ conn[s].cli # "none" /\ conn[s].down # <<>>
    /\ Head(conn[s].down)[1] = "close" \/ conn[s].cli = "closing"
    /\ IF Head(conn[s].down)[1] # "close"
       THEN /\ conn' = [conn EXCEPT ![s].down = Tail(@)]
            /\ UNCHANGED <<phase, since, pageAlerts>>
       ELSE /\ conn' = [conn EXCEPT ![s] = PageClosed(@)]
            /\ SetListeningSince(FALSE)
            /\ phase' = IF conn[s].cli = "open" THEN "retry" ELSE phase
    /\ UNCHANGED <<serverSide, cur, liveFaults>>

(* The operator brings another floor into frame: the topics change, so the *)
(* effect is cleaned up (the socket is closed) and starts over.            *)
Refocus ==
    /\ liveFaults < MaxLiveFaults
    /\ conn' = IF cur = 0 \/ conn[cur].cli # "open" THEN conn
               ELSE [conn EXCEPT ![cur].cli = "closing",
                                 ![cur].up = IF conn[cur].srv = "none" THEN @ ELSE Append(@, "close")]
    /\ phase' = "ticket" /\ liveFaults' = liveFaults + 1
    /\ UNCHANGED <<serverSide, cur, since, pageAlerts>>

(* The connection is lost with whatever it was carrying.                   *)
DropConnection(s) ==
    /\ conn[s].srv # "none" /\ conn[s].cli # "none" /\ liveFaults < MaxLiveFaults
    /\ conn' = [conn EXCEPT ![s].up = <<"close">>, ![s].down = <<Frame("close")>>,
                            ![s].srv = "closing"]
    /\ liveFaults' = liveFaults + 1
    /\ UNCHANGED <<serverSide, cur, phase, since, pageAlerts>>
-----------------------------------------------------------------------------
LiveInit ==
    /\ open = {} /\ raised = {} /\ outgoing = {}
    /\ conn = [s \in Socks |-> NoConn]
    /\ cur = 0 /\ phase = "ticket" /\ since = FALSE
    /\ snap = [rows |-> {}, truncated |-> FALSE]
    /\ fetch = [st |-> "sent", rows |-> {}, truncated |-> FALSE]
    /\ events = <<>> /\ liveFaults = 0

ServerStep(s) == ReceiveAuth(s) \/ ReceiveSubscribe(s) \/ ServerCleanup(s)
PageStep(s) == OnMessage(s) \/ OnClose(s)

Environment ==
    \/ \E a \in LiveAlerts : RaiseAlert(a) \/ AcknowledgeAlert(a) \/ ResolveAlert(a)
    \/ \E s \in Socks : AuthTimeout(s) \/ DropConnection(s)
    \/ Refocus \/ TicketFails \/ SnapshotFails

LiveNext ==
    \/ \E m \in Messages : SendAlert(m)
    \/ \E s \in Socks : ServerStep(s) \/ PageStep(s) \/ MakeSocket(s)
    \/ RetryConnect \/ SnapshotRead \/ SnapshotLands \/ AlertRefresh
    \/ Environment

(* Timers fire, requests are answered and both ends of a connection read   *)
(* what reached them; alerts, faults and the operator owe nothing.         *)
LiveFairness ==
    /\ \A m \in Messages : WF_livevars(SendAlert(m))
    /\ \A s \in Socks : WF_livevars(ServerStep(s)) /\ WF_livevars(PageStep(s))
    /\ WF_livevars(\E s \in Socks : MakeSocket(s)) /\ WF_livevars(RetryConnect)
    /\ WF_livevars(SnapshotRead) /\ WF_livevars(SnapshotLands) /\ WF_livevars(AlertRefresh)

LiveSpec == LiveInit /\ [][LiveNext]_livevars /\ LiveFairness
-----------------------------------------------------------------------------
(* What the page has been told it shows: an alert whose latest event says  *)
(* it resolved is not on the list, and one whose latest event says it is   *)
(* open stays on it for as long as its row is open, whatever snapshots     *)
(* were requested, read and landed around the event (reconcileAlerts).     *)
KnownIsShown ==
    \A i \in DOMAIN events :
        IF events[i].kind = "resolved" THEN events[i].alert \notin Shown
        ELSE events[i].alert \in open /\ ~snap.truncated => events[i].alert \in Shown

(* What the page holds and shows while frames, refetches and snapshots     *)
(* overtake one another (ws.ts, Dashboard.tsx).                            *)
LiveIsSound == LiveTypeOK /\ KnownIsShown

(* Once alerts and faults stop, the page ends up showing exactly the open  *)
(* alerts, whatever frames were lost, refused or reordered on the way: the *)
(* snapshot is what recovers them (Dashboard.tsx, the refetch effect).     *)
ShownSettles == <>[](Shown = open \/ snap.truncated)

(* The page ends up connected and subscribed again after every fault, its  *)
(* own half-closed connections included, which the hub still counts        *)
(* against the tenant until it hears of their end.                         *)
PageReconnects == <>[](\E s \in Socks : conn[s].cli = "open" /\ conn[s].subs)
=============================================================================
