------------------------------ MODULE MCIngest ------------------------------
(***************************************************************************)
(* The ingest server's parts side by side, and the page that watches them: *)
(* in a behaviour one of them moves and the others stay as they began.     *)
(***************************************************************************)
EXTENDS TelemetryWriter, IngestGate, RateLimiter, LiveView
VARIABLE part

OwnTenant == [s \in Sensors |-> s]      \* every sensor of the writer is a tenant of its own
TwoTenants == <<"t1", "t2">>

allvars == <<writervars, gatevars, rlvars, livevars, part>>
Writing(A)  == part = "writer" /\ A /\ UNCHANGED <<gatevars, rlvars, livevars, part>>
Gating(A)   == part = "gate" /\ A /\ UNCHANGED <<writervars, rlvars, livevars, part>>
Limiting(A) == part = "limiter" /\ A /\ UNCHANGED <<writervars, gatevars, livevars, part>>
Viewing(A)  == part = "live" /\ A /\ UNCHANGED <<writervars, gatevars, rlvars, part>>

McInit ==
    /\ part \in {"writer", "gate", "limiter", "live"}
    /\ WriterInit /\ GateInit /\ RlInit /\ LiveInit
    /\ part = "gate" \/ provisioned = {}
McNext == Writing(WriterNext) \/ Gating(GateNext) \/ Limiting(RlNext) \/ Viewing(LiveNext)

\* Each component's own fairness, while it is the part that moves.
McFairness ==
    /\ WF_allvars(Writing(TimedFlush)) /\ WF_allvars(Writing(Write))
    /\ WF_allvars(Writing(Stopped)) /\ WF_allvars(Writing(Exit))
    /\ WF_allvars(Gating(LoadTenant)) /\ WF_allvars(Gating(SwapMaps)) /\ WF_allvars(Gating(RefreshTimer))
    /\ \A m \in Messages : WF_allvars(Viewing(SendAlert(m)))
    /\ \A s \in Socks : WF_allvars(Viewing(ServerStep(s))) /\ WF_allvars(Viewing(PageStep(s)))
    /\ WF_allvars(Viewing(\E s \in Socks : MakeSocket(s))) /\ WF_allvars(Viewing(RetryConnect))
    /\ WF_allvars(Viewing(SnapshotRead)) /\ WF_allvars(Viewing(SnapshotLands)) /\ WF_allvars(Viewing(AlertRefresh))
McSpec == McInit /\ [][McNext]_allvars /\ McFairness
----------------------------------------------------------------------------
(* Where the page is what moves: after every fault it ends up connected    *)
(* and subscribed (ws.ts, connect), and once alerts and faults stop it     *)
(* shows exactly the open alerts (the refetch of Dashboard.tsx).           *)
PageSettles == part = "live" => ShownSettles /\ PageReconnects
=============================================================================
