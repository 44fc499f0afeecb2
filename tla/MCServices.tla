----------------------------- MODULE MCServices -----------------------------
(***************************************************************************)
(* Parts that share nothing, side by side: in a behaviour one of them      *)
(* moves and the others stay as they began.                                *)
(***************************************************************************)
EXTENDS Sessions, Migrations, DbPool, LineReader, PanelClock, CopilotRoute, LiveReadings, GraphLayout
VARIABLE part
ChainOfFiles == <<[kind |-> "tx", statements |-> 1], [kind |-> "noTx", statements |-> 3],
                  [kind |-> "seed", statements |-> 1], [kind |-> "tx", statements |-> 1]>>
ThreeCallers == ("j1" :> "t1") @@ ("j2" :> "t2") @@ ("j3" :> "none")
OneReader == ("j1" :> FALSE) @@ ("j2" :> TRUE) @@ ("j3" :> FALSE)
ClockOffsets == -13..13
OnOneFloor == [s \in LiveSensors |-> 1]

svars == <<sesvars, migvars, poolvars, linevars, clockvars, rtvars, rdvars, layoutvars, part>>
SvInit ==
    /\ SesInit /\ MigInit /\ PoolInit /\ LineInit /\ ClockInit /\ RtInit /\ RdInit /\ LayoutInit
    /\ part \in {"sessions", "keys", "migrations", "pool", "lines", "clock", "route", "readings", "layout"}
    /\ part = "sessions" \/ members = {}
    /\ part = "clock" \/ offset = 0
Rest == <<migvars, poolvars, linevars, clockvars>>
\* Bound: no ticket bears on another, so one of those signed is followed.
OneTicket == Cardinality(tickets') <= 1
SvNext ==
    /\ UNCHANGED part
    /\ \/ part = "sessions" /\ SesNext /\ OneTicket /\ UNCHANGED <<Rest, rtvars, rdvars, layoutvars>>
       \/ part = "keys" /\ KeyNext /\ UNCHANGED <<Rest, rtvars, rdvars, layoutvars>>
       \/ part = "migrations" /\ MigNext /\ UNCHANGED <<sesvars, poolvars, linevars, clockvars, rtvars, rdvars, layoutvars>>
       \/ part = "pool" /\ PoolNext /\ UNCHANGED <<sesvars, migvars, linevars, clockvars, rtvars, rdvars, layoutvars>>
       \/ part = "lines" /\ LineNext /\ UNCHANGED <<sesvars, migvars, poolvars, clockvars, rtvars, rdvars, layoutvars>>
       \/ part = "clock" /\ ClockNext /\ UNCHANGED <<sesvars, migvars, poolvars, linevars, rtvars, rdvars, layoutvars>>
       \/ part = "route" /\ RtNext /\ UNCHANGED <<sesvars, Rest, rdvars, layoutvars>>
       \/ part = "readings" /\ RdNext /\ UNCHANGED <<sesvars, Rest, rtvars, layoutvars>>
       \/ part = "layout" /\ LayoutNext /\ UNCHANGED <<sesvars, Rest, rtvars, rdvars>>
SvSpec == SvInit /\ [][SvNext]_svars
-----------------------------------------------------------------------------
(* What the panel reads from its stream is what was sent, however it was   *)
(* cut (but for a line of the very limit cut in its \r\n), and a plan's    *)
(* card shows the time the server will hold it to, whatever the two clocks *)
(* (wire.ts, countdown.ts).                                                *)
PanelReadsTrue == CutsDoNotMatter /\ CardAgrees
=============================================================================
