----------------------------- MODULE ZoneStory -----------------------------
(***************************************************************************)
(* What the copilot can read back of one zone's past: the timeline, the    *)
(* list of alerts and the control history are three queries over rows that *)
(* go on changing.  A command row keeps when it was requested and applied, *)
(* until when it holds and when it settled; an alert row when it opened    *)
(* and resolved.  Override in force is never stored: it is read off them.  *)
(***************************************************************************)
EXTENDS Integers, Sequences, FiniteSets

CONSTANTS
    Lengths,        \* how long an override may be asked for
    MaxStoryTime,   \* bound: the clock
    MaxOverrides,   \* bound: commands
    MaxAlerts       \* bound: alerts

ASSUME StoryAssumption == Lengths \subseteq Nat

Never == -1
NoOverride == 0

VARIABLES
    stNow,
    stCommands,   \* rows of control_commands, in order of request; the setpoint is the index
    stAlerts,     \* rows of alerts, on the zone's own points or its serving equipment
    stInForce     \* the override that was in force at each past instant
stvars == <<stNow, stCommands, stAlerts, stInForce>>

StoryInit == stNow = 0 /\ stCommands = <<>> /\ stAlerts = <<>> /\ stInForce = <<>>

Live == {"pending", "dispatched"}
\* activeOverrides: applied and not past its end.
ActiveIn(cs) == {i \in DOMAIN cs : cs[i].state = "applied" /\ cs[i].until > stNow}
ActiveOverride == IF ActiveIn(stCommands) = {} THEN NoOverride
                  ELSE CHOOSE i \in ActiveIn(stCommands) :
                          \A j \in ActiveIn(stCommands) : stCommands[i].until >= stCommands[j].until

\* One live command per zone.
Ask(length) ==
    /\ Len(stCommands) < MaxOverrides
    /\ ~\E i \in DOMAIN stCommands : stCommands[i].state \in Live
    /\ stCommands' = Append(stCommands, [state |-> "pending", requested |-> stNow, until |-> stNow + length,
                                          applied |-> Never, settled |-> Never])
    /\ UNCHANGED <<stNow, stAlerts, stInForce>>
\* The gateway reports: applying supersedes what is in force.
AppliedOnly(i) == [stCommands EXCEPT ![i].state = "applied", ![i].settled = stNow, ![i].applied = stNow]
Applied(i) ==
    [j \in DOMAIN stCommands |->
        IF j = i THEN [stCommands[i] EXCEPT !.state = "applied", !.settled = stNow, !.applied = stNow]
        ELSE IF j \in ActiveIn(stCommands) THEN [stCommands[j] EXCEPT !.state = "superseded", !.settled = stNow]
        ELSE stCommands[j]]
GatewayApplies(i) ==
    /\ stCommands[i].state \in Live
    /\ stCommands' = Applied(i)
    /\ UNCHANGED <<stNow, stAlerts, stInForce>>
Ends(i, how) ==
    /\ stCommands[i].state \in Live
    /\ stCommands' = [stCommands EXCEPT ![i].state = how, ![i].settled = stNow]
    /\ UNCHANGED <<stNow, stAlerts, stInForce>>
AlertOpens(own) ==
    /\ Len(stAlerts) < MaxAlerts
    /\ stAlerts' = Append(stAlerts, [own |-> own, opened |-> stNow, resolved |-> Never])
    /\ UNCHANGED <<stNow, stCommands, stInForce>>
AlertResolves(a) ==
    /\ stAlerts[a].resolved = Never
    /\ stAlerts' = [stAlerts EXCEPT ![a].resolved = stNow]
    /\ UNCHANGED <<stNow, stCommands, stInForce>>
StoryTick ==
    /\ stNow < MaxStoryTime
    /\ stNow' = stNow + 1
    /\ stInForce' = Append(stInForce, ActiveOverride)
    /\ UNCHANGED <<stCommands, stAlerts>>
StoryNext ==
    \/ StoryTick
    \/ \E d \in Lengths : Ask(d)
    \/ \E i \in DOMAIN stCommands : \/ GatewayApplies(i)
                                    \/ \E how \in {"failed", "expired", "cancelled"} : Ends(i, how)
    \/ \E own \in BOOLEAN : AlertOpens(own)
    \/ \E a \in DOMAIN stAlerts : AlertResolves(a)

StorySpec == StoryInit /\ [][StoryNext]_stvars

----------------------------------------------------------------------------
Within(t, w) == t # Never /\ t >= w[1] /\ t < w[2]
Event(at, kind, of) == [at |-> at, kind |-> kind, of |-> of]

\* zone_timeline's events of the window; `of` is what the event's detail names.
AlertEvents(w) ==
    {Event(stAlerts[a].opened, "alert_opened", a) : a \in {x \in DOMAIN stAlerts : Within(stAlerts[x].opened, w)}}
    \union {Event(stAlerts[a].resolved, "alert_resolved", a) :
               a \in {x \in DOMAIN stAlerts : Within(stAlerts[x].resolved, w)}}
SettledAs == [failed |-> "command_failed", expired |-> "command_expired",
              cancelled |-> "command_cancelled", superseded |-> "command_superseded"]
EverApplied(c) == c.applied # Never
Lapses(c) == c.state = "applied"
CommandEvents(w) ==
    LET rows(P(_)) == {i \in DOMAIN stCommands : P(stCommands[i])}
        soFar == <<w[1], IF w[2] < stNow THEN w[2] ELSE stNow>>
    IN  {Event(stCommands[i].requested, "command_requested", i) : i \in rows(LAMBDA c : Within(c.requested, w))}
        \union {Event(stCommands[i].applied, "command_applied", i) : i \in rows(LAMBDA c : Within(c.applied, w))}
        \union {Event(stCommands[i].until, "override_lapsed", i) :
                   i \in rows(LAMBDA c : Lapses(c) /\ Within(c.until, soFar))}
        \union {Event(stCommands[i].settled, SettledAs[stCommands[i].state], i) :
                   i \in rows(LAMBDA c : c.state \notin Live \union {"applied"} /\ Within(c.settled, w))}
Events(w) == AlertEvents(w) \union CommandEvents(w)

\* Newest first under the limit; within an instant, by kind (and the row).
Kinds == <<"alert_opened", "alert_resolved", "command_applied", "command_cancelled", "command_expired",
           "command_failed", "command_requested", "command_superseded", "override_lapsed">>
Rank(e) == CHOOSE k \in DOMAIN Kinds : Kinds[k] = e.kind
Before(a, b) == a.at > b.at \/ (a.at = b.at /\ (Rank(a) < Rank(b) \/ (Rank(a) = Rank(b) /\ a.of < b.of)))
OldestFirst(a, b) == Before(b, a)
ZoneTimeline(w, limit) ==
    LET all == Events(w) IN {e \in all : Cardinality({f \in all : Before(f, e)}) < limit}
\* What the tool answers: the events it kept, and how many there were.
ZoneTimelineTool(w, limit) ==
    LET items == ZoneTimeline(w, limit)
    IN  [items |-> items, truncated |-> Cardinality(items) < Cardinality(Events(w))]

\* list_alerts for the zone: open during the window, not merely opened in it.
ListAlerts(w) ==
    {a \in DOMAIN stAlerts : /\ stAlerts[a].own
                             /\ stAlerts[a].opened < w[2]
                             /\ stAlerts[a].resolved = Never \/ stAlerts[a].resolved >= w[1]}
\* control_history: commands whose life overlaps the window.
ControlHistory(w) == {i \in DOMAIN stCommands : stCommands[i].requested < w[2] /\ stCommands[i].until >= w[1]}

\* listWindow: the window of a list whose bounds may be null.
ListWindow(from, to, default) ==
    LET end == IF to = Never THEN stNow ELSE to
    IN  <<IF from = Never THEN end - default ELSE from, end>>

----------------------------------------------------------------------------
\* How a reader takes a timeline: the last override applied holds until its end.
ReadOff(items, t) ==
    LET applied == {e \in items : e.kind = "command_applied" /\ e.at <= t}
        last    == (CHOOSE e \in applied : \A f \in applied : f.at <= e.at).of
    IN  IF applied = {} \/ stCommands[last].until <= t THEN NoOverride ELSE last

StoryWindows == {w \in (0..stNow) \X (1..(stNow + 1)) : w[1] < w[2]}
\* Two gateway reports in one instant: the order of the list is not told.
OneReportAnInstant ==
    \A i, j \in DOMAIN stCommands : i # j /\ stCommands[i].applied # Never => stCommands[i].applied # stCommands[j].applied
(***************************************************************************)
(* A timeline read back later tells which override was in force at every   *)
(* instant it covers, although rows were superseded, expired and cancelled *)
(* since; and cut to its limit, it still does wherever it shows an apply.  *)
(***************************************************************************)
TimelineTellsTheOverride ==
    OneReportAnInstant =>
        LET w == <<0, stNow + 1>>
        IN  /\ \A t \in DOMAIN stInForce : ReadOff(Events(w), t - 1) = stInForce[t]
            /\ \A limit \in 1..4 :
                  LET told == ZoneTimelineTool(w, limit)
                  IN  (~told.truncated \/ \E e \in told.items : e.kind = "command_applied") =>
                          ReadOff(told.items, stNow) = ActiveOverride

(***************************************************************************)
(* The lapse on a timeline is the moment the zone went back to its         *)
(* profile: the override held until then and nothing did after - unless    *)
(* the command was applied after its own end, when the event stands before *)
(* the apply and marks nothing.                                            *)
(***************************************************************************)
LapseIsTheMoment ==
    \A e \in CommandEvents(<<0, stNow + 1>>) :
        e.kind = "override_lapsed" /\ stCommands[e.of].applied < stCommands[e.of].until =>
            /\ stInForce[e.at] = e.of
            /\ e.at + 1 \in DOMAIN stInForce => stInForce[e.at + 1] # e.of

(***************************************************************************)
(* The lists miss nothing the timeline shows: an override that was in      *)
(* force at some instant of the window is in the control history, and an   *)
(* alert on the zone's points that the timeline mentions is on the list.   *)
(***************************************************************************)
ListsAreComplete ==
    \A w \in StoryWindows :
        /\ \A t \in DOMAIN stInForce : Within(t - 1, w) /\ stInForce[t] # NoOverride
                                          => stInForce[t] \in ControlHistory(w)
        /\ \A e \in AlertEvents(w) : stAlerts[e.of].own => e.of \in ListAlerts(w)

(* The past is told whole: which override was in force, when it lapsed,    *)
(* and every override and alert of it on the lists (copilot.ts).           *)
PastIsToldWhole == TimelineTellsTheOverride /\ LapseIsTheMoment /\ ListsAreComplete
=============================================================================
