----------------------------- MODULE PanelClock -----------------------------
(***************************************************************************)
(* The plan card's countdown (apps/web/lib/copilot-panel/countdown.ts): the*)
(* expiry is the server's instant, the tick is the browser's clock, and    *)
(* the Date header of the last response, whole seconds of it, gives the    *)
(* offset between them.  Time is counted in parts of a second.             *)
(***************************************************************************)
EXTENDS Integers

CONSTANTS Second,      \* parts in a second
          SkewFloor,   \* SKEW_FLOOR_MS
          Offsets,     \* how far the browser's clock is ahead of the server's
          MaxTransit,  \* bound on a response's time on the way
          PlanTTL,     \* PLAN_TTL_S
          MaxServerTime

ASSUME ClockAssumption ==
    /\ Second \in Nat \ {0} /\ SkewFloor \in Nat /\ MaxTransit \in Nat
    /\ Offsets \subseteq Int /\ PlanTTL \in Nat

VARIABLES serverTime, offset, skew, measured, cardExpiry

clockvars == <<serverTime, offset, skew, measured, cardExpiry>>

BrowserTime == serverTime + offset

(* clockSkewMs, from a header written d ago.                               *)
ClockSkew(d) ==
    LET s == ((serverTime - d) \div Second) * Second - BrowserTime
    IN  IF s < SkewFloor /\ -s < SkewFloor THEN 0 ELSE s

(* countdown: whole seconds left, never negative.                          *)
SecondsLeft(now) ==
    LET left == (cardExpiry - (now + skew)) \div Second IN IF left <= 0 THEN 0 ELSE left
Expired == SecondsLeft(BrowserTime) = 0

(* planHighlight: the building glows while the plan can be decided.        *)
Glows == cardExpiry > 0 /\ ~Expired

(* A response brings a plan and the header.                                *)
ResponseArrives(d) ==
    /\ d <= serverTime
    /\ skew' = ClockSkew(d) /\ measured' = TRUE
    /\ cardExpiry' = serverTime - d + PlanTTL
    /\ UNCHANGED <<serverTime, offset>>

SecondPasses ==
    /\ serverTime < MaxServerTime /\ serverTime' = serverTime + 1
    /\ UNCHANGED <<offset, skew, measured, cardExpiry>>

ClockInit == serverTime = 0 /\ offset \in Offsets /\ skew = 0 /\ measured = FALSE /\ cardExpiry = 0
ClockNext == SecondPasses \/ \E d \in 0..MaxTransit : ResponseArrives(d)
ClockSpec == ClockInit /\ [][ClockNext]_clockvars
-----------------------------------------------------------------------------
(* The card and the route agree but for the resolution of the header, the  *)
(* floor below which an offset is ignored and the response's time on the   *)
(* way, however wrong the laptop's clock is: past that margin a plan still *)
(* glowing is one the route would still take, and one shown as expired is  *)
(* one it refuses.                                                         *)
Margin == SkewFloor + MaxTransit + Second
CardAgrees ==
    measured => /\ Glows => cardExpiry + Margin > serverTime
                /\ Expired => serverTime >= cardExpiry - Margin
=============================================================================
