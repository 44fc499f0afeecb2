----------------------------- MODULE AlertEngine -----------------------------
(***************************************************************************)
(* The alert engine (apps/ingest/src/rules/index.ts): every ingest replica *)
(* counts breaching and clear evaluations per target, a pair of a rule and *)
(* a sensor, and opens or resolves the target's alert through a            *)
(* transaction it does not wait for.  The alerts table (rules/store.ts,    *)
(* migration 003) is all the replicas share.                               *)
(*                                                                         *)
(* What a condition computes from readings is hidden: `breaching' is what  *)
(* evaluate would answer now.  Times are remaining times: `cooling' is how *)
(* long a target must still wait, so the clock needs no bound.  Counters   *)
(* stop at ConsecutiveBreaches, the only value they are compared with.     *)
(***************************************************************************)
EXTENDS Naturals, FiniteSets

CONSTANTS
    Engines,              \* ingest replicas
    Targets,              \* rule:sensor keys
    Alerts,               \* ids for rows of alerts (bounds how many at once)
    NoAlert,              \* the code's null
    ConsecutiveBreaches,  \* rule.consecutiveBreaches
    Cooldown,             \* rule.cooldownS, in ticks
    Configurations,       \* what the enabled rules may expand to
    MaxLatency,           \* bound on the ticks a transaction may take
    MaxReads,             \* bound on the refreshes of an engine in flight
    Faults,               \* which of FaultKinds may happen
    MaxFaults             \* bound on how often

FaultKinds == {"crash", "rollback", "lostAnswer"}

ASSUME EngineAssumption ==
    /\ NoAlert \notin Alerts /\ Targets # {}
    /\ ConsecutiveBreaches \in Nat \ {0} /\ Cooldown \in Nat
    /\ Configurations \subseteq SUBSET Targets
    /\ MaxLatency \in Nat /\ MaxReads \in Nat /\ MaxFaults \in Nat
    /\ Faults \subseteq FaultKinds

VARIABLES
    alerts,         \* the rows of alerts
    sinceResolved,  \* age of the newest resolved_at of each target, capped
    breaching,      \* whether each target's condition holds now
    configured,     \* the targets the enabled rules expand to now
    phase,          \* where each engine is in its life
    targets,        \* #targets / #bySensor of each engine
    targetState,    \* #targetState of each engine
    job,            \* the #open or #close of each target, #inFlight
    reads,          \* answers of loadRules an engine has not acted on yet
    unheard,        \* history: alerts whose opening or resolving reached no entry
    faults          \* how many faults so far

db == <<alerts, sinceResolved>>
world == <<breaching, configured>>
vars == <<alerts, sinceResolved, breaching, configured, phase, targets,
          targetState, job, reads, unheard, faults>>

-----------------------------------------------------------------------------
(* A new entry of #targetState, naming an alert or none.                   *)
Naming(a) == [tracked |-> TRUE, breaches |-> 0, clears |-> 0,
              openAlertId |-> a, cooling |-> 0]

Fresh == Naming(NoAlert)

(* No entry in the map at all.                                             *)
NoEntry == [tracked |-> FALSE, breaches |-> 0, clears |-> 0,
            openAlertId |-> NoAlert, cooling |-> 0]

(* A transaction asked for now; a close knows its alert.                   *)
Ask(kind, a) == [kind |-> kind, answered |-> FALSE, alert |-> a, age |-> 0]

NoJob == Ask("none", NoAlert)

LiveStates == {"open", "acknowledged"}

LiveOn(t) ==
    {a \in Alerts : alerts[a].target = t /\ alerts[a].state \in LiveStates}

Free == [state |-> "none", target |-> CHOOSE t \in Targets : TRUE]

(* A row no engine refers to may stand for a new one: the ids of resolved  *)
(* alerts are used again, so their number does not bound the behaviour.    *)
Unreferenced(a) ==
    \A e \in Engines, t \in Targets :
        targetState[e][t].openAlertId # a /\ job[e][t].alert # a

NewIds == {a \in Alerts : alerts[a].state \notin LiveStates /\ Unreferenced(a)}

Capped(n) == IF n < ConsecutiveBreaches THEN n ELSE ConsecutiveBreaches

(* No entry takes the answer that names this alert.                        *)
Missed(a) == unheard \cup ({a} \ {NoAlert})

Entry(e, t) == IF targetState[e][t].tracked THEN targetState[e][t] ELSE Fresh

-----------------------------------------------------------------------------
(* A reading or a sweep finds the condition holding: count, and from the   *)
(* N-th time on ask for an alert unless one is open, being asked for, or   *)
(* the cooldown runs.                                                      *)
EvaluateBreach(e, t) ==
    /\ phase[e] = "running" /\ t \in targets[e] /\ breaching[t]
    /\ LET s == [Entry(e, t) EXCEPT !.clears = 0, !.breaches = Capped(@ + 1)]
       IN  /\ targetState' = [targetState EXCEPT ![e][t] = s]
           /\ job' = IF /\ s.openAlertId = NoAlert
                        /\ s.breaches >= ConsecutiveBreaches
                        /\ s.cooling = 0
                        /\ job[e][t] = NoJob
                     THEN [job EXCEPT ![e][t] = Ask("open", NoAlert)]
                     ELSE job
    /\ UNCHANGED <<db, world, phase, targets, reads, unheard, faults>>

(* It does not hold: count towards resolving the alert this engine knows.  *)
EvaluateClear(e, t) ==
    /\ phase[e] = "running" /\ t \in targets[e] /\ ~ breaching[t]
    /\ LET s == [Entry(e, t) EXCEPT !.breaches = 0,
                   !.clears = IF Entry(e, t).openAlertId = NoAlert THEN @
                              ELSE Capped(@ + 1)]
       IN  /\ targetState' = [targetState EXCEPT ![e][t] = s]
           /\ job' = IF /\ s.openAlertId # NoAlert
                        /\ s.clears >= ConsecutiveBreaches
                        /\ job[e][t] = NoJob
                     THEN [job EXCEPT ![e][t] = Ask("close", s.openAlertId)]
                     ELSE job
    /\ UNCHANGED <<db, world, phase, targets, reads, unheard, faults>>

(* Broken variant: the partial unique index is missing.                    *)
InsertAlways(t) == t \in Targets

(* alerts_one_open_per_target_uidx                                         *)
OneOpenIndexAllows(t) == LiveOn(t) = {}

(* openAlert's transaction: a row, or null when a live one is there.       *)
openAlert(e, t) ==
    /\ job[e][t].kind = "open" /\ ~ job[e][t].answered
    /\ IF OneOpenIndexAllows(t)
       THEN \E a \in NewIds :
              /\ alerts' = [alerts EXCEPT ![a] = [state |-> "open", target |-> t]]
              /\ job' = [job EXCEPT ![e][t].answered = TRUE, ![e][t].alert = a]
              /\ unheard' = unheard \ {a}
       ELSE /\ job' = [job EXCEPT ![e][t].answered = TRUE]
            /\ UNCHANGED <<alerts, unheard>>
    /\ UNCHANGED <<sinceResolved, world, phase, targets, targetState, reads,
                   faults>>

(* Broken variant: the target stays in #inFlight.                          *)
StaysInFlight(e, t) ==
    /\ job[e][t].kind = "open" /\ job[e][t].answered
    /\ job[e][t].alert # NoAlert /\ targetState[e][t].tracked
    /\ targetState' = [targetState EXCEPT ![e][t].openAlertId = job[e][t].alert,
                                          ![e][t].clears = 0]
    /\ UNCHANGED <<db, world, phase, targets, job, reads, unheard, faults>>

(* The answer reaches #open, which looks the entry up again.  A refresh    *)
(* may have dropped it: then the alert is raised, and no entry names it.   *)
OpenAnswered(e, t) ==
    /\ job[e][t].kind = "open" /\ job[e][t].answered
    /\ targetState' =
         IF job[e][t].alert # NoAlert /\ targetState[e][t].tracked
         THEN [targetState EXCEPT ![e][t].openAlertId = job[e][t].alert,
                                  ![e][t].clears = 0]
         ELSE targetState
    /\ unheard' = IF targetState[e][t].tracked THEN unheard
                  ELSE Missed(job[e][t].alert)
    /\ job' = [job EXCEPT ![e][t] = NoJob]
    /\ UNCHANGED <<db, world, phase, targets, reads, faults>>

(* resolveAlert's transaction; resolving a resolved alert changes nothing. *)
resolveAlert(e, t) ==
    /\ job[e][t].kind = "close" /\ ~ job[e][t].answered
    /\ LET a == job[e][t].alert
       IN  IF alerts[a].state \in LiveStates
           THEN /\ alerts' = [alerts EXCEPT ![a].state = "resolved"]
                /\ sinceResolved' = [sinceResolved EXCEPT ![t] = 0]
           ELSE UNCHANGED db
    /\ job' = [job EXCEPT ![e][t].answered = TRUE]
    /\ UNCHANGED <<world, phase, targets, targetState, reads, unheard, faults>>

(* Broken variant: lastResolvedAt is not set.                              *)
CloseWithoutCooldown(e, t) ==
    /\ job[e][t].kind = "close" /\ job[e][t].answered
    /\ targetState' = [targetState EXCEPT ![e][t].openAlertId = NoAlert,
                                          ![e][t].clears = 0]
    /\ job' = [job EXCEPT ![e][t] = NoJob]
    /\ UNCHANGED <<db, world, phase, targets, reads, unheard, faults>>

(* The answer reaches #close.  The cooldown runs from the evaluation that  *)
(* asked, not from the commit.                                             *)
CloseAnswered(e, t) ==
    /\ job[e][t].kind = "close" /\ job[e][t].answered
    /\ targetState' =
         [targetState EXCEPT
            ![e][t].openAlertId = NoAlert, ![e][t].clears = 0,
            ![e][t].cooling = IF job[e][t].age < Cooldown
                              THEN Cooldown - job[e][t].age ELSE 0]
    /\ job' = [job EXCEPT ![e][t] = NoJob]
    /\ UNCHANGED <<db, world, phase, targets, reads, unheard, faults>>

Fault(kind) ==
    /\ kind \in Faults
    /\ faults < MaxFaults
    /\ faults' = faults + 1

(* The transaction rolls back, or it commits and its answer is lost: either *)
(* way #open or #close lands in its catch, which only logs.                 *)
TransactionFails(e, t) ==
    /\ job[e][t].kind # "none" /\ ~ job[e][t].answered
    /\ Fault("rollback")
    /\ job' = [job EXCEPT ![e][t] = NoJob]
    /\ UNCHANGED <<db, world, phase, targets, targetState, reads, unheard>>

AnswerLost(e, t) ==
    /\ job[e][t].answered
    /\ Fault("lostAnswer")
    /\ unheard' = Missed(job[e][t].alert)
    /\ job' = [job EXCEPT ![e][t] = NoJob]
    /\ UNCHANGED <<db, world, phase, targets, targetState, reads>>

(* POST /alerts/ack: a person acknowledges an open alert.                  *)
acknowledgeAlert(a) ==
    /\ alerts[a].state = "open"
    /\ alerts' = [alerts EXCEPT ![a].state = "acknowledged"]
    /\ UNCHANGED <<sinceResolved, world, phase, targets, targetState, job,
                   reads, unheard, faults>>

-----------------------------------------------------------------------------
(* refresh(): loadRules answers; two timers call it, so calls overlap.     *)
RefreshRead(e) ==
    /\ phase[e] = "running"
    /\ Cardinality(reads[e]) < MaxReads
    /\ reads' = [reads EXCEPT ![e] = @ \cup {configured}]
    /\ UNCHANGED <<db, world, phase, targets, targetState, job, unheard, faults>>

(* Broken variant: an entry is dropped whether it names an alert or not.   *)
DropsAll(e, r) ==
    [t \in Targets |-> IF t \in r THEN targetState[e][t] ELSE NoEntry]

(* "An entry with an open alert is kept regardless", not one whose alert   *)
(* is still being opened.                                                  *)
KeptEntries(e, r) ==
    [t \in Targets |->
       IF t \in r \/ targetState[e][t].openAlertId # NoAlert
       THEN targetState[e][t] ELSE NoEntry]

(* The rest of refresh(), without an await: re-expand and drop entries.    *)
refresh(e, r) ==
    /\ r \in reads[e]
    /\ reads' = [reads EXCEPT ![e] = @ \ {r}]
    /\ targets' = [targets EXCEPT ![e] = r]
    /\ targetState' = [targetState EXCEPT ![e] = KeptEntries(e, r)]
    /\ phase' = [phase EXCEPT ![e] = IF @ = "starting" THEN "adopting" ELSE @]
    /\ UNCHANGED <<db, world, job, unheard, faults>>

(* start(): the first refresh, then the live alerts are adopted.           *)
start(e) ==
    /\ phase[e] \in {"new", "down"}
    /\ phase' = [phase EXCEPT ![e] = "starting"]
    /\ reads' = [reads EXCEPT ![e] = {configured}]
    /\ UNCHANGED <<db, world, targets, targetState, job, unheard, faults>>

(* The live alerts are read into the map, which nothing looks at yet ...   *)
loadLiveAlerts(e) ==
    /\ phase[e] = "adopting"
    /\ targetState' =
         [targetState EXCEPT ![e] =
            [t \in Targets |->
               IF LiveOn(t) = {} THEN targetState[e][t]
               ELSE Naming(CHOOSE a \in LiveOn(t) : TRUE)]]
    /\ phase' = [phase EXCEPT ![e] = "adopted"]
    /\ unheard' = {a \in unheard : alerts[a].state \notin LiveStates}
    /\ UNCHANGED <<db, world, targets, job, reads, faults>>

(* ... until the timers are set and the server listens.                    *)
StartTimers(e) ==
    /\ phase[e] = "adopted"
    /\ phase' = [phase EXCEPT ![e] = "running"]
    /\ UNCHANGED <<db, world, targets, targetState, job, reads, unheard, faults>>

(* The process dies: its maps are gone, the rows are not.                  *)
Crash(e) ==
    /\ phase[e] \notin {"new", "down"}
    /\ Fault("crash")
    /\ phase' = [phase EXCEPT ![e] = "down"]
    /\ targets' = [targets EXCEPT ![e] = {}]
    /\ targetState' = [targetState EXCEPT ![e] = [t \in Targets |-> NoEntry]]
    /\ job' = [job EXCEPT ![e] = [t \in Targets |-> NoJob]]
    /\ reads' = [reads EXCEPT ![e] = {}]
    /\ UNCHANGED <<db, world, unheard>>

-----------------------------------------------------------------------------
(* The building and its configuration.                                     *)
ConditionChanges(t) ==
    /\ breaching' = [breaching EXCEPT ![t] = ~ @]
    /\ UNCHANGED <<db, configured, phase, targets, targetState, job, reads,
                   unheard, faults>>

Reconfigure ==
    /\ configured' \in Configurations
    /\ UNCHANGED <<db, breaching, phase, targets, targetState, job, reads,
                   unheard, faults>>

Tick ==
    /\ \A e \in Engines, t \in Targets :
         job[e][t] # NoJob => job[e][t].age < MaxLatency
    /\ targetState' =
         [e \in Engines |-> [t \in Targets |->
            [targetState[e][t] EXCEPT !.cooling = IF @ > 0 THEN @ - 1 ELSE 0]]]
    /\ job' = [e \in Engines |-> [t \in Targets |->
                 IF job[e][t] = NoJob THEN NoJob
                 ELSE [job[e][t] EXCEPT !.age = @ + 1]]]
    /\ sinceResolved' =
         [t \in Targets |-> IF sinceResolved[t] < Cooldown
                            THEN sinceResolved[t] + 1 ELSE sinceResolved[t]]
    /\ UNCHANGED <<alerts, world, phase, targets, reads, unheard, faults>>

-----------------------------------------------------------------------------
Init ==
    /\ alerts = [a \in Alerts |-> Free]
    /\ sinceResolved = [t \in Targets |-> Cooldown]
    /\ breaching = [t \in Targets |-> FALSE]
    /\ configured \in Configurations
    /\ phase = [e \in Engines |-> "new"]
    /\ targets = [e \in Engines |-> {}]
    /\ targetState = [e \in Engines |-> [t \in Targets |-> NoEntry]]
    /\ job = [e \in Engines |-> [t \in Targets |-> NoJob]]
    /\ reads = [e \in Engines |-> {}]
    /\ unheard = {}
    /\ faults = 0

Evaluate(e, t) == EvaluateBreach(e, t) \/ EvaluateClear(e, t)

Job(e, t) == \/ openAlert(e, t) \/ OpenAnswered(e, t)
             \/ resolveAlert(e, t) \/ CloseAnswered(e, t)

Next ==
    \/ \E e \in Engines, t \in Targets :
         \/ Evaluate(e, t) \/ Job(e, t)
         \/ TransactionFails(e, t) \/ AnswerLost(e, t)
    \/ \E e \in Engines : \/ RefreshRead(e)
                          \/ \E r \in Configurations : refresh(e, r)
                          \/ start(e) \/ loadLiveAlerts(e)
                          \/ StartTimers(e) \/ Crash(e)
    \/ \E a \in Alerts : acknowledgeAlert(a)
    \/ \E t \in Targets : ConditionChanges(t)
    \/ Reconfigure
    \/ Tick

Spec == Init /\ [][Next]_vars

(* Readings keep arriving and the sweep keeps running, transactions end,   *)
(* the refresh timers fire, a dead process is started again, time passes.  *)
Fairness ==
    /\ WF_vars(Tick)
    /\ \A e \in Engines :
         /\ WF_vars(RefreshRead(e))
         /\ \A r \in Configurations : WF_vars(refresh(e, r))
         /\ WF_vars(start(e)) /\ WF_vars(loadLiveAlerts(e))
         /\ WF_vars(StartTimers(e))
         /\ \A t \in Targets : WF_vars(Evaluate(e, t)) /\ WF_vars(Job(e, t))

FairSpec == Spec /\ Fairness

-----------------------------------------------------------------------------
Entries == [tracked : BOOLEAN, breaches : 0..ConsecutiveBreaches,
            clears : 0..ConsecutiveBreaches,
            openAlertId : Alerts \cup {NoAlert}, cooling : 0..Cooldown]

Jobs == {NoJob}
        \cup [kind : {"open", "close"}, answered : BOOLEAN,
              alert : Alerts \cup {NoAlert}, age : 0..MaxLatency]

(* Every variable has its type; a close always knows its alert, and an     *)
(* entry that does not exist carries nothing: #close writes to the entry   *)
(* it looked up before its await, so that entry must still be the map's.   *)
TypeOK ==
    /\ alerts \in [Alerts -> [state : LiveStates \cup {"none", "resolved"},
                              target : Targets]]
    /\ sinceResolved \in [Targets -> 0..Cooldown]
    /\ breaching \in [Targets -> BOOLEAN]
    /\ configured \in Configurations
    /\ phase \in [Engines -> {"new", "down", "starting", "adopting", "adopted", "running"}]
    /\ targets \in [Engines -> SUBSET Targets]
    /\ targetState \in [Engines -> [Targets -> Entries]]
    /\ job \in [Engines -> [Targets -> Jobs]]
    /\ reads \in [Engines -> SUBSET Configurations]
    /\ unheard \subseteq Alerts
    /\ faults \in 0..MaxFaults
    /\ \A e \in Engines, t \in Targets :
         /\ job[e][t].kind = "close" => job[e][t].alert # NoAlert
         /\ ~ targetState[e][t].tracked => targetState[e][t] = NoEntry

(* No target has two live alerts, whatever the replicas, refreshes,        *)
(* crashes and lost answers do ("a second ingest replica would otherwise   *)
(* duplicate every alert", store.ts).                                      *)
OneLiveAlert == \A t \in Targets : \A a, b \in LiveOn(t) : a = b

(* No ghosts but two: while no process is on its way back, each live alert *)
(* is known to an engine that can resolve it, or is about to be (start()   *)
(* adopts "instead of leaving permanent ghosts"; refresh() keeps "an entry *)
(* with an open alert").  The two: the answer of its opening was lost, or  *)
(* found that a refresh had dropped the entry meanwhile (index.ts, #open). *)
NoGhosts ==
    (\A e \in Engines : phase[e] \in {"new", "running"}) =>
        \A t \in Targets : \A a \in LiveOn(t) \ unheard :
            \E e \in Engines :
                \/ targetState[e][t].openAlertId = a
                \/ job[e][t].kind = "open" /\ job[e][t].alert = a

(* The cooldown is the minimum gap between a target's alerts (migration    *)
(* 003), up to the time a transaction takes: the engine counts from the    *)
(* evaluation that asked to resolve, the row from its commit.              *)
CooldownKept ==
    \A t \in Targets :
        LiveOn(t) = {} /\ LiveOn(t)' # {} =>
            sinceResolved[t] + MaxLatency >= Cooldown

CooldownHolds == [][CooldownKept]_vars

(* A condition a rule watches and that stays clear ends with its alert     *)
(* resolved, over restarts, failed transactions and rules disabled and     *)
(* enabled: "a restart resolves them when conditions clear" (index.ts).    *)
(* Only an alert whose opening reached no entry stays.                     *)
ResolvesWhenClear ==
    \A t \in Targets :
        <>[](~ breaching[t] /\ t \in configured) => <>[](LiveOn(t) \subseteq unheard)

(* A condition a rule watches and that keeps breaching ends with a live    *)
(* alert, however debounce, cooldown, overlapping refreshes, restarts and  *)
(* failures fall, except that an engine may miss the answer of a #close:   *)
(* its entry then names a resolved alert, and #evaluateTarget returns      *)
(* before it asks for a new one (index.ts).                                *)
RaisesWhenBreaching ==
    \A t \in Targets :
        <>[](breaching[t] /\ t \in configured) =>
            <>[](\/ LiveOn(t) # {}
                \/ \E e \in Engines : targetState[e][t].openAlertId \in unheard)
=============================================================================
