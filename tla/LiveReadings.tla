---------------------------- MODULE LiveReadings ----------------------------
(***************************************************************************)
(* Telemetry on the dashboard: what the fan-out hub batches and sends      *)
(* (apps/ingest/src/fanout.ts), what the socket hook keeps of a batch      *)
(* (apps/web/lib/ws.ts, live.ts) and what the page then draws of a zone    *)
(* and adds to the power total (Dashboard.tsx).                            *)
(*                                                                         *)
(* The connection itself is LiveView's; here it is up or down.  Every      *)
(* sensor samples once per unit of time and is both its zone's point and   *)
(* its floor's meter.                                                      *)
(***************************************************************************)
EXTENDS Integers, Sequences, FiniteSets, SequencesExt

CONSTANTS
    LiveSensors,   \* the sensors
    FloorOf,       \* the floor each one is on: what meterFloor and the tree say
    Floors,        \* the building's floors
    STALE_INTERVALS, \* samples missed before a point is stale: 3, smaller in the runs
    MaxNow,        \* bound on the clock
    MaxLate,       \* how late a gateway may deliver a reading
    MaxBatch,      \* bound on readings waiting for a tick
    MaxFrames,     \* bound on frames under way
    MaxRefocus     \* bound on changes of the floor in frame

Null == -1

ASSUME ReadingsAssumption == {STALE_INTERVALS, MaxNow, MaxLate} \subseteq Nat

VARIABLES
    now,        \* the page's clock
    spoke,      \* per sensor, the newest moment it measured and its reading got in, or Null
    pending,    \* Fanout.#pending of the topic in frame
    frames,     \* telemetry.batch frames on their way to the page
    up,         \* the page's socket is authenticated and subscribed
    stray,      \* a socket the page has closed has yet to report its onclose
    focus,      \* focusedFloorId, Null for the whole building
    listeningSince,
    readings,   \* useLiveData's map: per sensor a reading or NoReading
    refocused

rdvars == <<now, spoke, pending, frames, up, stray, focus, listeningSince, readings, refocused>>

NoReading == [ts |-> Null, quality |-> "none", receivedAt |-> Null]
Qualities == {"good", "flagged"}
InTopic(s) == focus = Null \/ FloorOf[s] = focus
LaterOf(a, b) == IF a > b THEN a ELSE b
EarlierOf(a, b) == IF a < b THEN a ELSE b
-----------------------------------------------------------------------------
(* What is drawn.                                                          *)

ReadingAge(r, since) == LaterOf(0, now - LaterOf(EarlierOf(r.ts, r.receivedAt), since))
IsStale(r, since) == ReadingAge(r, since) > STALE_INTERVALS

(* newer: the later measurement, not the later packet.                     *)
LastPacket(held, incoming) == incoming
Newer(held, incoming) == IF held # NoReading /\ held.ts > incoming.ts THEN held ELSE incoming

(* reduceZone, for a zone with the one point s: the state of that point.   *)
ReduceZone(s, since) ==
    LET r == readings[s]
    IN  IF r = NoReading THEN IF now - since > STALE_INTERVALS THEN "silent" ELSE "waiting"
        ELSE IF IsStale(r, since) THEN "stale"
        ELSE IF r.quality # "good" THEN "flagged" ELSE "used"

(* zoneSource: the baseline only while the point is still expected.        *)
ZoneSource(point, hasBaseline) ==
    CASE point = "used" -> "live"
      [] point \in {"stale", "silent"} -> "stale"
      [] point = "flagged" -> "flagged"
      [] OTHER -> IF hasBaseline THEN "baseline" ELSE "none"

(* The since a zone is judged by: silence out of frame says nothing.       *)
ZoneSince(s) == IF InTopic(s) THEN IF listeningSince = Null THEN now ELSE listeningSince ELSE now
Drawn(s) == ZoneSource(ReduceZone(s, ZoneSince(s)), TRUE)

(* reducePower: the meters whose reading enters the total.  The scope is   *)
(* each meter's own.                                                       *)
ReducePower(since) ==
    {s \in LiveSensors : /\ readings[s].quality = "good"
                         /\ ~IsStale(readings[s], IF InTopic(s) THEN since ELSE now)}

Metered == ReducePower(IF listeningSince = Null THEN now ELSE listeningSince)
-----------------------------------------------------------------------------
RdInit ==
    /\ now = 0 /\ spoke = [s \in LiveSensors |-> Null]
    /\ pending = <<>> /\ frames = <<>> /\ up = FALSE /\ stray = FALSE
    /\ focus = Null /\ listeningSince = Null /\ refocused = 0
    /\ readings = [s \in LiveSensors |-> NoReading]

(* Fanout.publish: kept only for a topic that has a subscriber.            *)
Publish(s, ts, q) ==
    /\ ts \in LaterOf(0, now - MaxLate)..now
    /\ Len(pending) < MaxBatch
    /\ pending' = IF up /\ InTopic(s) THEN Append(pending, [sensor |-> s, ts |-> ts, quality |-> q])
                                      ELSE pending
    /\ spoke' = [spoke EXCEPT ![s] = LaterOf(@, ts)]
    /\ UNCHANGED <<now, frames, up, stray, focus, listeningSince, readings, refocused>>

(* Fanout.tick: one frame per topic, skipped for a backlogged client, lost *)
(* when the last subscriber has left.                                      *)
FanoutTick(backlogged) ==
    /\ pending # <<>>
    /\ Len(frames) < MaxFrames
    /\ frames' = IF up /\ ~backlogged THEN Append(frames, pending) ELSE frames
    /\ pending' = <<>>
    /\ UNCHANGED <<now, spoke, up, stray, focus, listeningSince, readings, refocused>>

(* onmessage telemetry.batch: each reading against the map as it was       *)
(* before the batch, so the last reading of a sensor in the batch decides. *)
TelemetryBatch ==
    /\ frames # <<>>
    /\ LET batch == Head(frames)
           last(s) == SelectLastInSeq(batch, LAMBDA r : r.sensor = s)
       IN  readings' = [s \in LiveSensors |->
              IF last(s) = 0 THEN readings[s]
              ELSE Newer(readings[s], [ts |-> batch[last(s)].ts, receivedAt |-> now,
                                       quality |-> batch[last(s)].quality])]
    /\ frames' = Tail(frames)
    /\ UNCHANGED <<now, spoke, pending, up, stray, focus, listeningSince, refocused>>

(* Authenticated and subscribed: LiveView's connection is up.              *)
Listening ==
    /\ ~up
    /\ up' = TRUE /\ listeningSince' = now
    /\ UNCHANGED <<now, spoke, pending, frames, stray, focus, readings, refocused>>

ConnectionLost ==
    /\ up
    /\ up' = FALSE /\ listeningSince' = Null /\ frames' = <<>>
    /\ UNCHANGED <<now, spoke, pending, stray, focus, readings, refocused>>

(* Another floor in frame: the hook closes its socket and connects anew.   *)
SetFocusedFloor(f) ==
    /\ f # focus /\ refocused < MaxRefocus /\ ~stray
    /\ focus' = f /\ refocused' = refocused + 1
    /\ stray' = up /\ up' = FALSE /\ frames' = <<>>
    /\ UNCHANGED <<now, spoke, pending, listeningSince, readings>>

(* The closed socket's onclose, which may come after the new one listens.  *)
StrayClose ==
    /\ stray
    /\ stray' = FALSE /\ listeningSince' = Null
    /\ UNCHANGED <<now, spoke, pending, frames, up, focus, readings, refocused>>

PageClock ==
    /\ now < MaxNow
    /\ now' = now + 1
    /\ UNCHANGED <<spoke, pending, frames, up, stray, focus, listeningSince, readings, refocused>>

RdNext ==
    \/ \E s \in LiveSensors : \E ts \in 0..MaxNow, q \in Qualities : Publish(s, ts, q)
    \/ \E b \in BOOLEAN : FanoutTick(b)
    \/ \E f \in Floors \cup {Null} : SetFocusedFloor(f)
    \/ TelemetryBatch \/ Listening \/ ConnectionLost \/ StrayClose \/ PageClock

RdSpec == RdInit /\ [][RdNext]_rdvars
-----------------------------------------------------------------------------
(* A meter on the floor in frame that measured nothing for longer than its *)
(* threshold of listening is out of the power total, whichever floor is in *)
(* frame (reducePower's per-meter scope).                                  *)
DeadMeterLeaves ==
    \A s \in LiveSensors :
        (/\ listeningSince # Null /\ InTopic(s)
         /\ now - LaterOf(spoke[s], listeningSince) > STALE_INTERVALS) => s \notin Metered

(* A zone in frame is never painted from a point that stopped: live means  *)
(* a good reading measured, or listening begun, within the threshold; and  *)
(* the baseline never stands in for a point that has gone quiet.           *)
DeadZoneIsGrey ==
    \A s \in LiveSensors :
        (/\ listeningSince # Null /\ InTopic(s)
         /\ now - LaterOf(spoke[s], listeningSince) > STALE_INTERVALS) => Drawn(s) = "stale"

(* No frame takes a point back to an older measurement than the page held  *)
(* before that frame (newer, live.ts); within one batch a sensor's last    *)
(* reading decides, be it older than another of the batch (ws.ts).         *)
HeldNeverOlder == [][\A s \in LiveSensors : readings'[s].ts >= readings[s].ts]_rdvars

(* What the page counts and draws is current: a silent meter leaves the    *)
(* total, a silent zone turns grey, and no old packet replaces a newer     *)
(* reading (live.ts).                                                      *)
ReadingsAreCurrent == [](DeadMeterLeaves /\ DeadZoneIsGrey) /\ HeldNeverOlder
=============================================================================
