-------------------------- MODULE AlertEngine_proofs --------------------------
(***************************************************************************)
(* Proofs about AlertEngine, for any replicas, targets, alerts, debounce,  *)
(* cooldown, configurations, latencies and faults.                         *)
(***************************************************************************)
EXTENDS AlertEngine, TLAPS

(* #close resolves the alert that its entry names: the entry cannot have   *)
(* been dropped or changed while the transaction is under way.             *)
CloseKnows ==
    \A e \in Engines, t \in Targets :
        job[e][t].kind = "close" => targetState[e][t].openAlertId = job[e][t].alert

(* A transaction is asked for by an engine that runs, and dies with it.    *)
JobsRun ==
    \A e \in Engines, t \in Targets :
        job[e][t] # NoJob => phase[e] = "running"

TypeInv == TypeOK /\ CloseKnows /\ JobsRun

(* What an engine relies on while #open or #close waits for its            *)
(* transaction: the entry of an open names no alert, only an answered open *)
(* has an alert, and an answered close has resolved its alert.             *)
JobsInOrder ==
    \A e \in Engines, t \in Targets :
        /\ job[e][t].kind = "open" =>
             /\ targetState[e][t].openAlertId = NoAlert
             /\ job[e][t].answered \/ job[e][t].alert = NoAlert
        /\ job[e][t].kind = "close" /\ job[e][t].answered =>
             alerts[job[e][t].alert].state \notin LiveStates

(* Every live alert whose opening was heard is named by an entry that was  *)
(* adopted or learnt, is on its way to one, or will be adopted by an       *)
(* engine that is on its way back and has yet to read.                     *)
Known(t, a) ==
    \/ \E e \in Engines : /\ phase[e] \in {"adopted", "running"}
                          /\ targetState[e][t].openAlertId = a
    \/ \E e \in Engines : job[e][t].kind = "open" /\ job[e][t].alert = a
    \/ \E e \in Engines : phase[e] \in {"down", "starting", "adopting"}

AllKnown == \A t \in Targets : \A a \in LiveOn(t) \ unheard : Known(t, a)

(* The entries and jobs the handlers write are of their types.             *)
LEMMA Constants ==
    /\ Fresh \in Entries /\ NoEntry \in Entries /\ NoJob \in Jobs
    /\ Free \in [state : LiveStates \cup {"none", "resolved"}, target : Targets]
    /\ NoEntry.openAlertId = NoAlert /\ ~ NoEntry.tracked
    /\ NoJob.kind = "none"
PROOF
<1>1. (CHOOSE t \in Targets : TRUE) \in Targets
  BY EngineAssumption
<1>2. Fresh \in Entries
  BY EngineAssumption DEF Fresh, Naming, Entries
<1>3. NoEntry \in Entries
  BY EngineAssumption DEF NoEntry, Entries
<1>4. Free \in [state : LiveStates \cup {"none", "resolved"}, target : Targets]
  BY <1>1 DEF Free
<1> QED BY <1>2, <1>3, <1>4 DEF NoEntry, NoJob, Ask, Jobs

(* A job that is just asked for.                                           *)
LEMMA NewJob ==
    ASSUME NEW k \in {"open", "close"}, NEW a \in Alerts \cup {NoAlert}
    PROVE  Ask(k, a) \in Jobs /\ Ask(k, a).alert = a /\ Ask(k, a).kind = k
BY EngineAssumption DEF Ask, Jobs

(* A step that writes at most one entry and one job, of their types, and   *)
(* leaves the rest alone, keeps the type invariant.                        *)
LEMMA OneEntry ==
    ASSUME TypeInv, NEW e \in Engines, NEW t \in Targets,
           NEW s \in Entries, NEW j \in Jobs,
           targetState' = [targetState EXCEPT ![e][t] = s],
           job' = [job EXCEPT ![e][t] = j],
           ~ s.tracked => s = NoEntry,
           j.kind = "close" => j.alert # NoAlert /\ s.openAlertId = j.alert,
           j # NoJob => phase[e] = "running",
           UNCHANGED <<world, phase, targets, reads>>,
           faults' \in 0..MaxFaults, unheard' \subseteq Alerts,
           alerts' \in [Alerts -> [state : LiveStates \cup {"none", "resolved"},
                                   target : Targets]],
           sinceResolved' \in [Targets -> 0..Cooldown]
    PROVE  TypeInv'
PROOF
<1> USE DEF TypeInv, TypeOK, world
<1>1. targetState' \in [Engines -> [Targets -> Entries]]
  OBVIOUS
<1>2. job' \in [Engines -> [Targets -> Jobs]]
  OBVIOUS
<1>3. ASSUME NEW f \in Engines, NEW u \in Targets
      PROVE  /\ job'[f][u].kind = "close" =>
                  /\ job'[f][u].alert # NoAlert
                  /\ targetState'[f][u].openAlertId = job'[f][u].alert
             /\ ~ targetState'[f][u].tracked => targetState'[f][u] = NoEntry
  BY DEF CloseKnows
<1>4. JobsRun'
  BY DEF JobsRun
<1> QED BY <1>1, <1>2, <1>3, <1>4 DEF CloseKnows

(* What an evaluation does to the entry and to the job of its target.      *)
LEMMA EvaluateFacts ==
    ASSUME TypeInv, NEW e \in Engines, NEW t \in Targets, Evaluate(e, t)
    PROVE  \E s \in Entries, j \in Jobs :
             /\ targetState' = [targetState EXCEPT ![e][t] = s]
             /\ job' = [job EXCEPT ![e][t] = j]
             /\ s.tracked /\ s.openAlertId = targetState[e][t].openAlertId
             /\ s.cooling = targetState[e][t].cooling
             /\ \/ j = job[e][t]
                \/ /\ job[e][t] = NoJob /\ j = Ask("open", NoAlert)
                   /\ s.openAlertId = NoAlert /\ s.cooling = 0
                \/ /\ job[e][t] = NoJob /\ j = Ask("close", s.openAlertId)
                   /\ s.openAlertId # NoAlert
             /\ phase[e] = "running" /\ t \in targets[e]
             /\ UNCHANGED <<db, world, phase, targets, reads, faults>>
PROOF
<1>0. /\ targetState[e][t] \in Entries /\ job[e][t] \in Jobs
      /\ Entry(e, t) \in Entries /\ Entry(e, t).tracked
      /\ Entry(e, t).openAlertId = targetState[e][t].openAlertId
      /\ Entry(e, t).cooling = targetState[e][t].cooling
  <2>1. /\ targetState[e][t] \in Entries /\ job[e][t] \in Jobs
        /\ ~ targetState[e][t].tracked => targetState[e][t] = NoEntry
    BY DEF TypeInv, TypeOK
  <2>2. /\ Fresh \in Entries /\ Fresh.tracked /\ Fresh.openAlertId = NoAlert
        /\ Fresh.cooling = 0 /\ NoEntry.cooling = 0
    BY Constants DEF Fresh, Naming, NoEntry
  <2> QED BY <2>1, <2>2, Constants DEF Entry
<1>1. \A n \in 0..ConsecutiveBreaches : Capped(n + 1) \in 0..ConsecutiveBreaches
  BY EngineAssumption DEF Capped
<1>2. CASE EvaluateBreach(e, t)
  <2> DEFINE s == [Entry(e, t) EXCEPT !.clears = 0, !.breaches = Capped(@ + 1)]
             j == IF /\ s.openAlertId = NoAlert
                     /\ s.breaches >= ConsecutiveBreaches
                     /\ s.cooling = 0
                     /\ job[e][t] = NoJob
                  THEN Ask("open", NoAlert) ELSE job[e][t]
  <2>1. /\ s \in Entries /\ s.tracked
        /\ s.openAlertId = Entry(e, t).openAlertId
        /\ s.cooling = Entry(e, t).cooling
    <3>1. /\ Entry(e, t).breaches \in 0..ConsecutiveBreaches
          /\ 0 \in 0..ConsecutiveBreaches
      BY <1>0, EngineAssumption DEF Entries
    <3>2. Capped(Entry(e, t).breaches + 1) \in 0..ConsecutiveBreaches
      BY <1>1, <3>1
    <3> HIDE DEF Capped
    <3> QED BY <1>0, <3>1, <3>2 DEF Entries
  <2>2. Ask("open", NoAlert) \in Jobs
    BY NewJob
  <2>3. /\ j \in Jobs
        /\ \/ j = job[e][t]
           \/ /\ job[e][t] = NoJob /\ j = Ask("open", NoAlert)
              /\ s.openAlertId = NoAlert /\ s.cooling = 0
    <3> HIDE DEF s
    <3> QED BY <1>0, <2>2
  <2>4. /\ targetState' = [targetState EXCEPT ![e][t] = s]
        /\ UNCHANGED <<db, world, phase, targets, reads, faults>>
    BY <1>2 DEF EvaluateBreach
  <2>5. job' = [job EXCEPT ![e][t] = j]
    <3>1. [job EXCEPT ![e][t] = job[e][t]] = job
      BY DEF TypeInv, TypeOK
    <3> QED BY <1>2, <3>1 DEF EvaluateBreach
  <2>6. phase[e] = "running" /\ t \in targets[e]
    BY <1>2 DEF EvaluateBreach
  <2>7. /\ s.openAlertId = targetState[e][t].openAlertId
        /\ s.cooling = targetState[e][t].cooling
    BY <1>0, <2>1
  <2> QED BY <2>1, <2>3, <2>4, <2>5, <2>6, <2>7
<1>3. CASE EvaluateClear(e, t)
  <2> DEFINE s == [Entry(e, t) EXCEPT !.breaches = 0,
                     !.clears = IF Entry(e, t).openAlertId = NoAlert THEN @
                                ELSE Capped(@ + 1)]
             k == Ask("close", s.openAlertId)
             j == IF /\ s.openAlertId # NoAlert
                     /\ s.clears >= ConsecutiveBreaches
                     /\ job[e][t] = NoJob
                  THEN k ELSE job[e][t]
  <2>1. /\ s \in Entries /\ s.tracked
        /\ s.openAlertId = Entry(e, t).openAlertId
        /\ s.cooling = Entry(e, t).cooling
    <3>1. /\ Entry(e, t).clears \in 0..ConsecutiveBreaches
          /\ 0 \in 0..ConsecutiveBreaches
      BY <1>0, EngineAssumption DEF Entries
    <3>2. Capped(Entry(e, t).clears + 1) \in 0..ConsecutiveBreaches
      BY <1>1, <3>1
    <3> DEFINE n == IF Entry(e, t).openAlertId = NoAlert THEN Entry(e, t).clears
                    ELSE Capped(Entry(e, t).clears + 1)
    <3>3. n \in 0..ConsecutiveBreaches
      BY <3>1, <3>2
    <3>4. s = [Entry(e, t) EXCEPT !.breaches = 0, !.clears = n]
      OBVIOUS
    <3> HIDE DEF n, s
    <3> QED BY <1>0, <3>1, <3>3, <3>4 DEF Entries
  <2>2. k \in Jobs /\ k.alert = s.openAlertId
    <3>1. s.openAlertId \in Alerts \cup {NoAlert}
      BY <2>1 DEF Entries
    <3> HIDE DEF s
    <3> QED BY <3>1, NewJob
  <2>3. /\ j \in Jobs
        /\ \/ j = job[e][t]
           \/ job[e][t] = NoJob /\ j = k /\ s.openAlertId # NoAlert
    <3> HIDE DEF s, k
    <3> QED BY <1>0, <2>2
  <2>4. /\ targetState' = [targetState EXCEPT ![e][t] = s]
        /\ UNCHANGED <<db, world, phase, targets, reads, faults>>
    BY <1>3 DEF EvaluateClear
  <2>5. job' = [job EXCEPT ![e][t] = j]
    <3>1. [job EXCEPT ![e][t] = job[e][t]] = job
      BY DEF TypeInv, TypeOK
    <3>2. job' = IF /\ s.openAlertId # NoAlert
                    /\ s.clears >= ConsecutiveBreaches
                    /\ job[e][t] = NoJob
                 THEN [job EXCEPT ![e][t] = k] ELSE job
      BY <1>3 DEF EvaluateClear
    <3> HIDE DEF s, k
    <3> QED BY <3>1, <3>2
  <2>6. phase[e] = "running" /\ t \in targets[e]
    BY <1>3 DEF EvaluateClear
  <2>7. /\ s.openAlertId = targetState[e][t].openAlertId
        /\ s.cooling = targetState[e][t].cooling
    BY <1>0, <2>1
  <2> QED BY <2>1, <2>3, <2>4, <2>5, <2>6, <2>7
<1> QED BY <1>2, <1>3 DEF Evaluate

(* An entry or a job written back as it is leaves the map as it is.        *)
LEMMA SameEntry ==
    ASSUME TypeInv, NEW e \in Engines, NEW t \in Targets
    PROVE  /\ targetState = [targetState EXCEPT ![e][t] = targetState[e][t]]
           /\ job = [job EXCEPT ![e][t] = job[e][t]]
           /\ targetState[e][t] \in Entries /\ job[e][t] \in Jobs
           /\ ~ targetState[e][t].tracked => targetState[e][t] = NoEntry
           /\ job[e][t].kind = "close" =>
                /\ job[e][t].alert \in Alerts
                /\ job[e][t].alert # NoAlert
                /\ targetState[e][t].openAlertId = job[e][t].alert
           /\ job[e][t] # NoJob => phase[e] = "running"
PROOF
<1>1. job[e][t] \in Jobs
  BY DEF TypeInv, TypeOK
<1>2. job[e][t].alert \in Alerts \cup {NoAlert}
  BY <1>1 DEF Jobs, NoJob, Ask
<1> QED BY <1>1, <1>2 DEF TypeInv, TypeOK, CloseKnows, JobsRun

(* A job under way is a record of the second kind, whose answer and alert  *)
(* can be written.                                                         *)
LEMMA WrittenJob ==
    ASSUME NEW k \in Jobs, k.kind # "none" \/ k.answered,
           NEW a \in Alerts \cup {NoAlert}
    PROVE  /\ k # NoJob /\ k.kind \in {"open", "close"}
           /\ LET j == [k EXCEPT !.answered = TRUE, !.alert = a]
              IN  j \in Jobs /\ j.kind = k.kind /\ j.answered /\ j.alert = a
                  /\ j # NoJob
           /\ LET j == [k EXCEPT !.answered = TRUE]
              IN  j \in Jobs /\ j.kind = k.kind /\ j.answered
                  /\ j.alert = k.alert /\ j # NoJob
PROOF
<1>1. NoJob.kind = "none" /\ NoJob.answered = FALSE
  BY DEF NoJob, Ask
<1>2. k # NoJob
  BY <1>1
<1>3. k \in [kind : {"open", "close"}, answered : BOOLEAN,
             alert : Alerts \cup {NoAlert}, age : 0..MaxLatency]
  BY <1>2 DEF Jobs
<1> HIDE DEF NoJob
<1> QED BY <1>1, <1>2, <1>3 DEF Jobs

(* What a step on one target does to the alerts that no entry heard of: a  *)
(* live one is never forgotten, and what an answer misses is added.        *)
LEMMA Heard ==
    ASSUME TypeInv, NEW e \in Engines, NEW t \in Targets,
           \/ Evaluate(e, t) \/ Job(e, t)
           \/ TransactionFails(e, t) \/ AnswerLost(e, t)
    PROVE  /\ unheard' \subseteq Alerts
           /\ \A u \in Targets : \A a \in LiveOn(u) \cap unheard : a \in unheard'
           /\ OpenAnswered(e, t) /\ ~ targetState[e][t].tracked =>
                job[e][t].alert \in unheard' \cup {NoAlert}
           /\ AnswerLost(e, t) => job[e][t].alert \in unheard' \cup {NoAlert}
PROOF
<1>1. unheard \subseteq Alerts /\ job[e][t].alert \in Alerts \cup {NoAlert}
  <2>1. job[e][t] \in Jobs /\ unheard \subseteq Alerts
    BY DEF TypeInv, TypeOK
  <2> QED BY <2>1 DEF Jobs, NoJob, Ask
<1>2. CASE UNCHANGED unheard
  <2>1. ~ AnswerLost(e, t) \/ job[e][t].alert \in unheard' \cup {NoAlert}
    BY DEF AnswerLost, Missed
  <2>2. OpenAnswered(e, t) /\ ~ targetState[e][t].tracked =>
          job[e][t].alert \in unheard' \cup {NoAlert}
    BY DEF OpenAnswered, Missed
  <2> QED BY <1>1, <1>2, <2>1, <2>2
<1>3. CASE unheard' = Missed(job[e][t].alert)
  BY <1>1, <1>3 DEF Missed
<1>4. ASSUME openAlert(e, t), NEW b \in NewIds, unheard' = unheard \ {b}
      PROVE  /\ unheard' \subseteq Alerts
             /\ \A u \in Targets : \A a \in LiveOn(u) \cap unheard : a \in unheard'
             /\ ~ OpenAnswered(e, t) /\ ~ AnswerLost(e, t)
  <2>1. \A u \in Targets : b \notin LiveOn(u)
    BY DEF NewIds, LiveOn
  <2>2. ~ job[e][t].answered
    BY <1>4 DEF openAlert
  <2> QED BY <1>1, <1>4, <2>1, <2>2 DEF OpenAnswered, AnswerLost
<1>5. \/ UNCHANGED unheard \/ unheard' = Missed(job[e][t].alert)
      \/ openAlert(e, t) /\ \E b \in NewIds : unheard' = unheard \ {b}
  <2>1. CASE Evaluate(e, t) \/ resolveAlert(e, t) \/ CloseAnswered(e, t) \/ TransactionFails(e, t)
    BY <2>1 DEF Evaluate, EvaluateBreach, EvaluateClear, resolveAlert,
                CloseAnswered, TransactionFails
  <2>2. CASE OpenAnswered(e, t) \/ AnswerLost(e, t)
    BY <2>2 DEF OpenAnswered, AnswerLost
  <2>3. CASE openAlert(e, t)
    BY <2>3 DEF openAlert
  <2> QED BY <2>1, <2>2, <2>3 DEF Job
<1> QED BY <1>2, <1>3, <1>4, <1>5

(* An evaluation keeps the type invariant.                                 *)
LEMMA EvaluateType ==
    ASSUME TypeInv, NEW e \in Engines, NEW t \in Targets, Evaluate(e, t)
    PROVE  TypeInv'
PROOF
<1>1. PICK s \in Entries, j \in Jobs :
             /\ targetState' = [targetState EXCEPT ![e][t] = s]
             /\ job' = [job EXCEPT ![e][t] = j]
             /\ s.tracked /\ s.openAlertId = targetState[e][t].openAlertId
             /\ \/ j = job[e][t]
                \/ /\ job[e][t] = NoJob /\ j = Ask("open", NoAlert)
                   /\ s.openAlertId = NoAlert
                \/ /\ job[e][t] = NoJob /\ j = Ask("close", s.openAlertId)
                   /\ s.openAlertId # NoAlert
             /\ phase[e] = "running"
             /\ UNCHANGED <<db, world, phase, targets, reads, faults>>
  BY EvaluateFacts
<1>2. j.kind = "close" => j.alert # NoAlert /\ s.openAlertId = j.alert
  <2>1. CASE j = job[e][t]
    BY <1>1, <2>1 DEF TypeInv, TypeOK, CloseKnows
  <2>2. CASE j = Ask("open", NoAlert)
    BY <2>2, NewJob
  <2>3. CASE j = Ask("close", s.openAlertId) /\ s.openAlertId # NoAlert
    <3>1. s.openAlertId \in Alerts \cup {NoAlert}
      BY <1>1 DEF Entries
    <3> QED BY <2>3, <3>1, NewJob
  <2> QED BY <1>1, <2>1, <2>2, <2>3
<1>3. UNCHANGED <<alerts, sinceResolved, faults>>
  BY <1>1 DEF db
<1>4. unheard' \subseteq Alerts
  BY Heard
<1> QED BY <1>1, <1>2, <1>3, <1>4, OneEntry DEF TypeInv, TypeOK

(* What openAlert's transaction does.                                      *)
LEMMA OpenFacts ==
    ASSUME TypeInv, NEW e \in Engines, NEW t \in Targets, openAlert(e, t)
    PROVE  \E j \in Jobs :
             /\ job' = [job EXCEPT ![e][t] = j]
             /\ job[e][t] # NoJob /\ job[e][t].kind = "open"
             /\ ~ job[e][t].answered
             /\ j.kind = "open" /\ j.answered
             /\ \/ /\ LiveOn(t) = {} /\ j.alert \in NewIds
                   /\ alerts' = [alerts EXCEPT ![j.alert] =
                                   [state |-> "open", target |-> t]]
                \/ /\ LiveOn(t) # {} /\ j.alert = job[e][t].alert
                   /\ UNCHANGED alerts
             /\ UNCHANGED <<sinceResolved, world, phase, targets, targetState,
                            reads, faults>>
PROOF
<1>1. /\ job[e][t] \in Jobs /\ job[e][t].kind = "open"
      /\ ~ job[e][t].answered
      /\ UNCHANGED <<sinceResolved, world, phase, targets, targetState,
                     reads, faults>>
  BY DEF openAlert, TypeInv, TypeOK
<1>2. CASE LiveOn(t) = {}
  <2>1. PICK a \in NewIds :
          /\ alerts' = [alerts EXCEPT ![a] = [state |-> "open", target |-> t]]
          /\ job' = [job EXCEPT ![e][t].answered = TRUE, ![e][t].alert = a]
    BY <1>2 DEF openAlert, OneOpenIndexAllows
  <2> DEFINE j == [job[e][t] EXCEPT !.answered = TRUE, !.alert = a]
  <2>2. a \in Alerts
    BY DEF NewIds
  <2>3. j \in Jobs /\ j.kind = "open" /\ j.answered /\ j.alert = a
        /\ job[e][t] # NoJob
    BY <1>1, <2>2, WrittenJob, ZenonT(30)
  <2>4. job' = [job EXCEPT ![e][t] = j]
    BY <2>1 DEF TypeInv, TypeOK
  <2> HIDE DEF j
  <2> QED BY <1>1, <1>2, <2>1, <2>3, <2>4
<1>3. CASE LiveOn(t) # {}
  <2>1. UNCHANGED alerts /\ job' = [job EXCEPT ![e][t].answered = TRUE]
    BY <1>3 DEF openAlert, OneOpenIndexAllows
  <2> DEFINE j == [job[e][t] EXCEPT !.answered = TRUE]
  <2>3. j \in Jobs /\ j.kind = "open" /\ j.answered
        /\ j.alert = job[e][t].alert /\ job[e][t] # NoJob
    BY <1>1, WrittenJob
  <2>4. job' = [job EXCEPT ![e][t] = j]
    BY <2>1 DEF TypeInv, TypeOK
  <2> HIDE DEF j
  <2> QED BY <1>1, <1>3, <2>1, <2>3, <2>4
<1> QED BY <1>2, <1>3

(* What #open does with the answer.                                        *)
LEMMA OpenAnsweredFacts ==
    ASSUME TypeInv, NEW e \in Engines, NEW t \in Targets, OpenAnswered(e, t)
    PROVE  \E s \in Entries :
             /\ targetState' = [targetState EXCEPT ![e][t] = s]
             /\ job' = [job EXCEPT ![e][t] = NoJob]
             /\ ~ s.tracked => s = NoEntry
             /\ job[e][t].kind = "open" /\ job[e][t] # NoJob
             /\ job[e][t].alert # NoAlert /\ targetState[e][t].tracked =>
                  s.openAlertId = job[e][t].alert
             /\ job[e][t].alert = NoAlert \/ ~ targetState[e][t].tracked =>
                  s = targetState[e][t]
             /\ UNCHANGED <<db, world, phase, targets, reads, faults>>
PROOF
<1>1. /\ job[e][t] \in Jobs /\ job[e][t].kind = "open"
      /\ targetState[e][t] \in Entries
      /\ ~ targetState[e][t].tracked => targetState[e][t] = NoEntry
      /\ job' = [job EXCEPT ![e][t] = NoJob]
      /\ UNCHANGED <<db, world, phase, targets, reads, faults>>
  BY DEF OpenAnswered, TypeInv, TypeOK
<1>2. job[e][t] # NoJob /\ job[e][t].alert \in Alerts \cup {NoAlert}
  BY <1>1 DEF NoJob, Ask, Jobs
<1>3. CASE job[e][t].alert # NoAlert /\ targetState[e][t].tracked
  <2> DEFINE a == job[e][t].alert
             s == [targetState[e][t] EXCEPT !.openAlertId = a, !.clears = 0]
  <2>1. targetState' = [targetState EXCEPT ![e][t] = s]
    BY <1>3 DEF OpenAnswered, TypeInv, TypeOK
  <2>2. s \in Entries /\ s.tracked /\ s.openAlertId = a
    <3> HIDE DEF a
    <3>1. a \in Alerts \cup {NoAlert} /\ 0 \in 0..ConsecutiveBreaches
      BY <1>2, EngineAssumption DEF a
    <3> QED BY <1>1, <1>3, <3>1 DEF Entries
  <2> HIDE DEF s
  <2> QED BY <1>1, <1>2, <1>3, <2>1, <2>2
<1>4. CASE ~ (job[e][t].alert # NoAlert /\ targetState[e][t].tracked)
  <2>1. targetState' = [targetState EXCEPT ![e][t] = targetState[e][t]]
    BY <1>4, SameEntry DEF OpenAnswered
  <2> QED BY <1>1, <1>2, <1>4, <2>1
<1> QED BY <1>3, <1>4

(* What resolveAlert's transaction does.                                   *)
LEMMA ResolveFacts ==
    ASSUME TypeInv, NEW e \in Engines, NEW t \in Targets, resolveAlert(e, t)
    PROVE  \E j \in Jobs :
             /\ job' = [job EXCEPT ![e][t] = j]
             /\ job[e][t].kind = "close" /\ job[e][t] # NoJob
             /\ j.kind = "close" /\ j.answered /\ j.alert = job[e][t].alert
             /\ j.alert \in Alerts
             /\ \/ /\ alerts' = [alerts EXCEPT ![j.alert].state = "resolved"]
                   /\ sinceResolved' = [sinceResolved EXCEPT ![t] = 0]
                \/ /\ alerts[j.alert].state \notin LiveStates
                   /\ UNCHANGED db
             /\ UNCHANGED <<world, phase, targets, targetState, reads, faults>>
PROOF
<1> DEFINE j == [job[e][t] EXCEPT !.answered = TRUE]
<1>1. /\ job[e][t] \in Jobs /\ job[e][t].kind = "close"
      /\ UNCHANGED <<world, phase, targets, targetState, reads, faults>>
      /\ job' = [job EXCEPT ![e][t].answered = TRUE]
  BY DEF resolveAlert, TypeInv, TypeOK
<1>2. /\ j \in Jobs /\ j.kind = "close" /\ j.answered
      /\ j.alert = job[e][t].alert /\ job[e][t] # NoJob
  BY <1>1, WrittenJob
<1>3. job' = [job EXCEPT ![e][t] = j]
  BY <1>1 DEF TypeInv, TypeOK
<1>4. job[e][t].alert \in Alerts
  BY <1>1, SameEntry
<1>5. \/ /\ alerts' = [alerts EXCEPT ![job[e][t].alert].state = "resolved"]
         /\ sinceResolved' = [sinceResolved EXCEPT ![t] = 0]
      \/ /\ alerts[job[e][t].alert].state \notin LiveStates
         /\ UNCHANGED db
  BY DEF resolveAlert
<1> HIDE DEF j
<1> QED BY <1>1, <1>2, <1>3, <1>4, <1>5

(* What #close does with the answer.                                       *)
LEMMA CloseAnsweredFacts ==
    ASSUME TypeInv, NEW e \in Engines, NEW t \in Targets, CloseAnswered(e, t)
    PROVE  \E s \in Entries :
             /\ targetState' = [targetState EXCEPT ![e][t] = s]
             /\ job' = [job EXCEPT ![e][t] = NoJob]
             /\ s.tracked /\ s.openAlertId = NoAlert
             /\ Cooldown <= s.cooling + MaxLatency
             /\ job[e][t].kind = "close" /\ job[e][t].answered
             /\ job[e][t] # NoJob
             /\ UNCHANGED <<db, world, phase, targets, reads, faults>>
PROOF
<1> DEFINE c == IF job[e][t].age < Cooldown THEN Cooldown - job[e][t].age ELSE 0
           s == [targetState[e][t] EXCEPT !.openAlertId = NoAlert,
                                          !.clears = 0, !.cooling = c]
<1>1. /\ job[e][t] \in Jobs /\ job[e][t].kind = "close" /\ job[e][t].answered
      /\ job' = [job EXCEPT ![e][t] = NoJob]
      /\ UNCHANGED <<db, world, phase, targets, reads, faults>>
  BY DEF CloseAnswered, TypeInv, TypeOK
<1>2. job[e][t] # NoJob
  BY <1>1, WrittenJob
<1>3. targetState' = [targetState EXCEPT ![e][t] = s]
  BY ZenonT(30) DEF CloseAnswered, TypeInv, TypeOK
<1>4. c \in 0..Cooldown /\ 0 \in 0..ConsecutiveBreaches /\ Cooldown <= c + MaxLatency
  <2>1. job[e][t].age \in 0..MaxLatency
    BY <1>1, <1>2 DEF Jobs
  <2> QED BY <2>1, EngineAssumption
<1>5. targetState[e][t] \in Entries /\ targetState[e][t].tracked
  <2>1. targetState[e][t].openAlertId # NoAlert
    BY <1>1, SameEntry
  <2> QED BY <2>1, SameEntry, Constants
<1> HIDE DEF c
<1>6. s \in Entries /\ s.tracked /\ s.openAlertId = NoAlert /\ s.cooling = c
  BY <1>4, <1>5 DEF Entries
<1> HIDE DEF s
<1> QED BY <1>1, <1>2, <1>3, <1>4, <1>6

(* The steps of a transaction keep the type invariant.                     *)
LEMMA JobType ==
    ASSUME TypeInv, NEW e \in Engines, NEW t \in Targets,
           Job(e, t) \/ TransactionFails(e, t) \/ AnswerLost(e, t)
    PROVE  TypeInv'
PROOF
<1> DEFINE Rows == [state : LiveStates \cup {"none", "resolved"},
                    target : Targets]
<1>0. alerts \in [Alerts -> Rows] /\ sinceResolved \in [Targets -> 0..Cooldown]
      /\ faults \in 0..MaxFaults /\ unheard' \subseteq Alerts
  BY Heard DEF TypeInv, TypeOK
<1>1. CASE openAlert(e, t)
  <2>1. PICK j \in Jobs :
             /\ job' = [job EXCEPT ![e][t] = j]
             /\ job[e][t] # NoJob
             /\ j.kind = "open"
             /\ \/ /\ j.alert \in NewIds
                   /\ alerts' = [alerts EXCEPT ![j.alert] =
                                   [state |-> "open", target |-> t]]
                \/ UNCHANGED alerts
             /\ UNCHANGED <<sinceResolved, world, phase, targets, targetState,
                            reads, faults>>
    BY <1>1, OpenFacts
  <2>2. alerts' \in [Alerts -> Rows]
    <3>1. [state |-> "open", target |-> t] \in Rows
      BY DEF LiveStates
    <3> HIDE DEF Rows
    <3> QED BY <1>0, <2>1, <3>1
  <2>3. targetState' = [targetState EXCEPT ![e][t] = targetState[e][t]]
    BY <2>1, SameEntry
  <2>4. /\ targetState[e][t] \in Entries
        /\ ~ targetState[e][t].tracked => targetState[e][t] = NoEntry
        /\ phase[e] = "running"
    BY <2>1, SameEntry
  <2>5. /\ j.kind = "close" => /\ j.alert # NoAlert
                              /\ targetState[e][t].openAlertId = j.alert
        /\ j # NoJob => phase[e] = "running"
    BY <2>1, <2>4
  <2> HIDE DEF Rows
  <2>6. /\ faults' \in 0..MaxFaults /\ sinceResolved' \in [Targets -> 0..Cooldown]
        /\ UNCHANGED <<world, phase, targets, reads>>
    BY <1>0, <2>1
  <2> QED BY <1>0, <2>1, <2>2, <2>3, <2>4, <2>5, <2>6, OneEntry DEF Rows
<1>2. CASE OpenAnswered(e, t)
  <2>1. PICK s \in Entries :
             /\ targetState' = [targetState EXCEPT ![e][t] = s]
             /\ job' = [job EXCEPT ![e][t] = NoJob]
             /\ ~ s.tracked => s = NoEntry
             /\ UNCHANGED <<db, world, phase, targets, reads, faults>>
    BY <1>2, OpenAnsweredFacts
  <2>2. NoJob \in Jobs /\ NoJob.kind # "close"
    BY Constants
  <2>3. /\ alerts' \in [Alerts -> Rows] /\ sinceResolved' \in [Targets -> 0..Cooldown]
        /\ faults' \in 0..MaxFaults
    BY <1>0, <2>1 DEF db
  <2>4. UNCHANGED <<world, phase, targets, reads>>
    BY <2>1
  <2> HIDE DEF Rows
  <2> QED BY <1>0, <2>1, <2>2, <2>3, <2>4, OneEntry DEF Rows
<1>3. CASE resolveAlert(e, t)
  <2>1. PICK j \in Jobs :
             /\ job' = [job EXCEPT ![e][t] = j]
             /\ job[e][t].kind = "close" /\ job[e][t] # NoJob
             /\ j.alert = job[e][t].alert
             /\ j.alert \in Alerts
             /\ \/ /\ alerts' = [alerts EXCEPT ![j.alert].state = "resolved"]
                   /\ sinceResolved' = [sinceResolved EXCEPT ![t] = 0]
                \/ UNCHANGED db
             /\ UNCHANGED <<world, phase, targets, targetState, reads, faults>>
    BY <1>3, ResolveFacts, ZenonT(30)
  <2>2. alerts' \in [Alerts -> Rows]
    BY <1>0, <2>1 DEF db
  <2>3. sinceResolved' \in [Targets -> 0..Cooldown]
    BY <1>0, <2>1, EngineAssumption DEF db
  <2>4. targetState' = [targetState EXCEPT ![e][t] = targetState[e][t]]
    BY <2>1, SameEntry
  <2>5. /\ targetState[e][t] \in Entries
        /\ ~ targetState[e][t].tracked => targetState[e][t] = NoEntry
        /\ phase[e] = "running"
        /\ j.alert # NoAlert /\ targetState[e][t].openAlertId = j.alert
    BY <2>1, SameEntry
  <2>6. faults' \in 0..MaxFaults /\ UNCHANGED <<world, phase, targets, reads>>
    BY <1>0, <2>1
  <2> QED BY <1>0, <2>1, <2>2, <2>3, <2>4, <2>5, <2>6, OneEntry DEF Rows
<1>4. CASE CloseAnswered(e, t)
  <2>1. PICK s \in Entries :
             /\ targetState' = [targetState EXCEPT ![e][t] = s]
             /\ job' = [job EXCEPT ![e][t] = NoJob]
             /\ s.tracked
             /\ UNCHANGED <<db, world, phase, targets, reads, faults>>
    BY <1>4, CloseAnsweredFacts
  <2>2. NoJob \in Jobs /\ NoJob.kind # "close"
    BY Constants
  <2>3. /\ alerts' \in [Alerts -> Rows] /\ sinceResolved' \in [Targets -> 0..Cooldown]
        /\ faults' \in 0..MaxFaults
    BY <1>0, <2>1 DEF db
  <2>4. UNCHANGED <<world, phase, targets, reads>>
    BY <2>1
  <2> HIDE DEF Rows
  <2> QED BY <1>0, <2>1, <2>2, <2>3, <2>4, OneEntry DEF Rows
<1>5. CASE TransactionFails(e, t) \/ AnswerLost(e, t)
  <2>1. /\ job' = [job EXCEPT ![e][t] = NoJob]
        /\ faults < MaxFaults /\ faults' = faults + 1
        /\ UNCHANGED <<db, world, phase, targets, targetState, reads>>
    BY <1>5 DEF TransactionFails, AnswerLost, Fault
  <2>2. targetState' = [targetState EXCEPT ![e][t] = targetState[e][t]]
    BY <2>1, SameEntry
  <2>3. faults' \in 0..MaxFaults
    BY <1>0, <2>1, EngineAssumption
  <2>4. /\ targetState[e][t] \in Entries /\ NoJob \in Jobs
        /\ ~ targetState[e][t].tracked => targetState[e][t] = NoEntry
        /\ NoJob.kind # "close"
    BY SameEntry, Constants
  <2>5. alerts' \in [Alerts -> Rows] /\ sinceResolved' \in [Targets -> 0..Cooldown]
    BY <1>0, <2>1 DEF db
  <2>6. UNCHANGED <<world, phase, targets, reads>>
    BY <2>1
  <2> HIDE DEF Rows
  <2> QED BY <1>0, <2>1, <2>2, <2>3, <2>4, <2>5, <2>6, OneEntry DEF Rows
<1> QED BY <1>1, <1>2, <1>3, <1>4, <1>5 DEF Job

-----------------------------------------------------------------------------
(* The type invariant holds at the start.                                  *)
LEMMA TypeInit == Init => TypeInv
PROOF
<1>1. Init => TypeOK
  BY Constants, EngineAssumption DEF Init, TypeOK
<1>2. Init => CloseKnows
  BY Constants DEF Init, CloseKnows
<1>3. Init => JobsRun
  BY DEF Init, JobsRun
<1> QED BY <1>1, <1>2, <1>3 DEF TypeInv

(* A step that writes all the entries of one engine, none of which has a   *)
(* close under way, or keeps those a close refers to.                      *)
LEMMA OneEngine ==
    ASSUME TypeInv, NEW e \in Engines, NEW S \in [Targets -> Entries],
           targetState' = [targetState EXCEPT ![e] = S],
           \A t \in Targets :
             /\ ~ S[t].tracked => S[t] = NoEntry
             /\ job[e][t].kind = "close" =>
                  S[t].openAlertId = targetState[e][t].openAlertId,
           phase' \in [Engines -> {"new", "down", "starting", "adopting", "adopted", "running"}],
           \A f \in Engines : phase[f] = "running" => phase'[f] = "running",
           targets' \in [Engines -> SUBSET Targets],
           reads' \in [Engines -> SUBSET Configurations],
           UNCHANGED <<db, world, job, faults>>, unheard' \subseteq Alerts
    PROVE  TypeInv'
PROOF
<1> USE DEF TypeInv, TypeOK, world, db
<1>1. targetState' \in [Engines -> [Targets -> Entries]]
  OBVIOUS
<1>2. ASSUME NEW f \in Engines, NEW u \in Targets
      PROVE  /\ job'[f][u].kind = "close" =>
                  /\ job'[f][u].alert # NoAlert
                  /\ targetState'[f][u].openAlertId = job'[f][u].alert
             /\ ~ targetState'[f][u].tracked => targetState'[f][u] = NoEntry
  BY DEF CloseKnows
<1>3. JobsRun'
  BY DEF JobsRun
<1>4. CloseKnows'
  BY <1>2 DEF CloseKnows
<1> QED BY <1>1, <1>2, <1>3, <1>4

(* Every step keeps the type invariant.                                    *)
LEMMA TypeStep == TypeInv /\ [Next]_vars => TypeInv'
PROOF
<1> SUFFICES ASSUME TypeInv, [Next]_vars PROVE TypeInv'
  OBVIOUS
<1> DEFINE Phases == {"new", "down", "starting", "adopting", "adopted", "running"}
<1>0. /\ phase \in [Engines -> Phases]
      /\ targets \in [Engines -> SUBSET Targets]
      /\ reads \in [Engines -> SUBSET Configurations]
      /\ configured \in Configurations /\ Configurations \subseteq SUBSET Targets
      /\ targetState \in [Engines -> [Targets -> Entries]]
      /\ job \in [Engines -> [Targets -> Jobs]]
  BY EngineAssumption DEF TypeInv, TypeOK
<1>1. ASSUME NEW e \in Engines, NEW t \in Targets,
             \/ Evaluate(e, t) \/ Job(e, t)
             \/ TransactionFails(e, t) \/ AnswerLost(e, t)
      PROVE  TypeInv'
  BY <1>1, EvaluateType, JobType
<1>2. ASSUME NEW e \in Engines, RefreshRead(e) PROVE TypeInv'
  <2>1. reads' \in [Engines -> SUBSET Configurations]
    BY <1>0, <1>2 DEF RefreshRead
  <2> QED BY <1>2, <2>1
          DEF RefreshRead, TypeInv, TypeOK, CloseKnows, JobsRun, db, world
<1>3. ASSUME NEW e \in Engines, NEW r \in Configurations, refresh(e, r)
      PROVE  TypeInv'
  <2>1. /\ reads' \in [Engines -> SUBSET Configurations]
        /\ targets' \in [Engines -> SUBSET Targets]
        /\ phase' \in [Engines -> Phases]
        /\ \A f \in Engines : phase[f] = "running" => phase'[f] = "running"
    BY <1>0, <1>3 DEF refresh
  <2>2. KeptEntries(e, r) \in [Targets -> Entries]
    BY <1>0, Constants DEF KeptEntries
  <2>3. ASSUME NEW t \in Targets
        PROVE  /\ ~ KeptEntries(e, r)[t].tracked =>
                    KeptEntries(e, r)[t] = NoEntry
               /\ job[e][t].kind = "close" =>
                    KeptEntries(e, r)[t].openAlertId =
                      targetState[e][t].openAlertId
    BY SameEntry DEF KeptEntries
  <2>4. /\ targetState' = [targetState EXCEPT ![e] = KeptEntries(e, r)]
        /\ UNCHANGED <<db, world, job, faults>> /\ unheard' \subseteq Alerts
    BY <1>3 DEF refresh, TypeInv, TypeOK
  <2> QED BY <2>1, <2>2, <2>3, <2>4, OneEngine
<1>4. ASSUME NEW e \in Engines, start(e) \/ StartTimers(e) PROVE TypeInv'
  <2>1. /\ reads' \in [Engines -> SUBSET Configurations]
        /\ phase' \in [Engines -> Phases]
        /\ \A f \in Engines : phase[f] = "running" => phase'[f] = "running"
    <3>1. CASE start(e)
      BY <1>0, <3>1 DEF start
    <3>2. CASE StartTimers(e)
      BY <1>0, <3>2 DEF StartTimers
    <3> QED BY <1>4, <3>1, <3>2
  <2> QED BY <1>4, <2>1
          DEF start, StartTimers, TypeInv, TypeOK, CloseKnows, JobsRun, db, world
<1>5. ASSUME NEW e \in Engines, loadLiveAlerts(e) PROVE TypeInv'
  <2> DEFINE S == [t \in Targets |->
                     IF LiveOn(t) = {} THEN targetState[e][t]
                     ELSE Naming(CHOOSE a \in LiveOn(t) : TRUE)]
  <2>1. /\ phase' \in [Engines -> Phases]
        /\ \A f \in Engines : phase[f] = "running" => phase'[f] = "running"
        /\ phase[e] # "running"
    BY <1>0, <1>5 DEF loadLiveAlerts
  <2>2. ASSUME NEW t \in Targets
        PROVE  /\ S[t] \in Entries
               /\ ~ S[t].tracked => S[t] = NoEntry
               /\ job[e][t].kind # "close"
    <3>1. CASE LiveOn(t) = {}
      BY <3>1, <2>1, SameEntry, Constants
    <3>2. CASE LiveOn(t) # {}
      <4> DEFINE a == CHOOSE x \in LiveOn(t) : TRUE
      <4>1. a \in Alerts
        BY <3>2 DEF LiveOn
      <4> HIDE DEF a
      <4>2. Naming(a) \in Entries /\ Naming(a).tracked
        BY <4>1, EngineAssumption DEF Naming, Entries
      <4>3. S[t] = Naming(a)
        BY <3>2 DEF a
      <4> QED BY <4>2, <4>3, <2>1, SameEntry, Constants
    <3> QED BY <3>1, <3>2
  <2>3. S \in [Targets -> Entries]
    BY <2>2
  <2>4. /\ targetState' = [targetState EXCEPT ![e] = S]
        /\ UNCHANGED <<db, world, targets, job, reads, faults>>
        /\ unheard' \subseteq Alerts
    BY <1>5 DEF loadLiveAlerts, TypeInv, TypeOK
  <2> HIDE DEF S
  <2> QED BY <1>0, <2>1, <2>2, <2>3, <2>4, OneEngine
<1>6. ASSUME NEW e \in Engines, Crash(e) PROVE TypeInv'
  <2>1. /\ reads' \in [Engines -> SUBSET Configurations]
        /\ targets' \in [Engines -> SUBSET Targets]
        /\ phase' \in [Engines -> Phases]
        /\ faults' \in 0..MaxFaults
        /\ UNCHANGED <<db, world, unheard>>
    BY <1>0, <1>6, EngineAssumption DEF Crash, Fault, TypeInv, TypeOK
  <2>2. /\ targetState' \in [Engines -> [Targets -> Entries]]
        /\ job' \in [Engines -> [Targets -> Jobs]]
    BY <1>0, <1>6, Constants DEF Crash
  <2>3. ASSUME NEW f \in Engines, NEW t \in Targets
        PROVE  /\ job'[f][t].kind = "close" =>
                    /\ job'[f][t].alert # NoAlert
                    /\ targetState'[f][t].openAlertId = job'[f][t].alert
               /\ ~ targetState'[f][t].tracked => targetState'[f][t] = NoEntry
               /\ job'[f][t] # NoJob => phase'[f] = "running"
    <3>1. CASE f = e
      <4>1. job'[f][t] = NoJob /\ targetState'[f][t] = NoEntry
        BY <1>0, <1>6, <3>1 DEF Crash
      <4> QED BY <4>1, Constants
    <3>2. CASE f # e
      <4>1. /\ job'[f][t] = job[f][t] /\ targetState'[f][t] = targetState[f][t]
            /\ phase'[f] = phase[f]
        BY <1>0, <1>6, <3>2 DEF Crash
      <4> QED BY <4>1, SameEntry
    <3> QED BY <3>1, <3>2
  <2>4. CloseKnows' /\ JobsRun'
    BY <2>3 DEF CloseKnows, JobsRun
  <2>5. TypeOK'
    BY <2>1, <2>2, <2>3 DEF TypeInv, TypeOK, db, world
  <2> QED BY <2>4, <2>5 DEF TypeInv
<1>7. ASSUME NEW a \in Alerts, acknowledgeAlert(a) PROVE TypeInv'
  <2> DEFINE Rows == [state : LiveStates \cup {"none", "resolved"},
                      target : Targets]
  <2>1. alerts' \in [Alerts -> Rows]
    <3>1. alerts[a] \in Rows /\ alerts \in [Alerts -> Rows]
      BY DEF TypeInv, TypeOK
    <3>2. [alerts[a] EXCEPT !.state = "acknowledged"] \in Rows
      BY <3>1 DEF LiveStates
    <3>3. alerts' = [alerts EXCEPT ![a] =
                       [alerts[a] EXCEPT !.state = "acknowledged"]]
      BY <1>7, <3>1 DEF acknowledgeAlert
    <3> HIDE DEF Rows
    <3> QED BY <3>1, <3>2, <3>3
  <2> QED BY <1>7, <2>1
          DEF acknowledgeAlert, TypeInv, TypeOK, CloseKnows, JobsRun, world
<1>8. ASSUME NEW t \in Targets, ConditionChanges(t) PROVE TypeInv'
  <2>1. breaching' \in [Targets -> BOOLEAN]
    BY <1>8 DEF ConditionChanges, TypeInv, TypeOK
  <2> QED BY <1>8, <2>1
          DEF ConditionChanges, TypeInv, TypeOK, CloseKnows, JobsRun, db
<1>9. ASSUME Reconfigure PROVE TypeInv'
  BY <1>9 DEF Reconfigure, TypeInv, TypeOK, CloseKnows, JobsRun, db
<1>10. ASSUME Tick PROVE TypeInv'
  <2>1. ASSUME NEW e \in Engines, NEW t \in Targets
        PROVE  /\ targetState'[e][t] \in Entries
               /\ targetState'[e][t].tracked = targetState[e][t].tracked
               /\ targetState'[e][t].openAlertId = targetState[e][t].openAlertId
               /\ ~ targetState[e][t].tracked => targetState'[e][t] = NoEntry
    <3> DEFINE c == IF targetState[e][t].cooling > 0
                    THEN targetState[e][t].cooling - 1 ELSE 0
    <3>1. targetState'[e][t] = [targetState[e][t] EXCEPT !.cooling = c]
      BY <1>10 DEF Tick
    <3>2. targetState[e][t] \in Entries
      BY SameEntry
    <3>3. c \in 0..Cooldown
      BY <3>2, EngineAssumption DEF Entries
    <3>4. ~ targetState[e][t].tracked => targetState'[e][t] = NoEntry
      <4>1. SUFFICES ASSUME targetState[e][t] = NoEntry
                     PROVE  targetState'[e][t] = NoEntry
        BY SameEntry
      <4>2. c = 0 /\ targetState[e][t].cooling = 0
        BY <4>1 DEF NoEntry
      <4>3. [targetState[e][t] EXCEPT !.cooling = 0] = targetState[e][t]
        BY <3>2, <4>2 DEF Entries
      <4> QED BY <3>1, <4>1, <4>2, <4>3
    <3> HIDE DEF c
    <3> QED BY <3>1, <3>2, <3>3, <3>4 DEF Entries
  <2>2. ASSUME NEW e \in Engines, NEW t \in Targets
        PROVE  /\ job'[e][t] \in Jobs
               /\ job'[e][t] = NoJob <=> job[e][t] = NoJob
               /\ job'[e][t].kind = job[e][t].kind
               /\ job'[e][t].alert = job[e][t].alert
    <3>1. CASE job[e][t] = NoJob
      BY <1>10, <3>1, Constants DEF Tick
    <3>2. CASE job[e][t] # NoJob
      <4>1. job'[e][t] = [job[e][t] EXCEPT !.age = job[e][t].age + 1]
        BY <1>10, <3>2 DEF Tick
      <4>2. /\ job[e][t].age < MaxLatency
            /\ job[e][t] \in [kind : {"open", "close"}, answered : BOOLEAN,
                              alert : Alerts \cup {NoAlert}, age : 0..MaxLatency]
        BY <1>0, <1>10, <3>2 DEF Tick, Jobs
      <4>3. job[e][t].age + 1 \in 0..MaxLatency
        BY <4>2, EngineAssumption
      <4>4. /\ job'[e][t] \in [kind : {"open", "close"}, answered : BOOLEAN,
                               alert : Alerts \cup {NoAlert}, age : 0..MaxLatency]
            /\ job'[e][t].kind = job[e][t].kind
            /\ job'[e][t].alert = job[e][t].alert
        BY <4>1, <4>2, <4>3
      <4>5. job'[e][t] # NoJob
        BY <4>4, Constants
      <4> QED BY <3>2, <4>4, <4>5 DEF Jobs
    <3> QED BY <3>1, <3>2
  <2>3. sinceResolved' \in [Targets -> 0..Cooldown]
    <3>1. sinceResolved \in [Targets -> 0..Cooldown]
      BY DEF TypeInv, TypeOK
    <3> QED BY <3>1, <1>10, EngineAssumption DEF Tick
  <2>4. targetState' \in [Engines -> [Targets -> Entries]]
    <3>1. DOMAIN targetState' = Engines
          /\ \A e \in Engines : DOMAIN targetState'[e] = Targets
      BY <1>10 DEF Tick
    <3>2. targetState' = [e \in Engines |-> [t \in Targets |-> targetState'[e][t]]]
      BY <1>10 DEF Tick
    <3> QED BY <2>1, <3>2
  <2>5. job' \in [Engines -> [Targets -> Jobs]]
    <3>2. job' = [e \in Engines |-> [t \in Targets |-> job'[e][t]]]
      BY <1>10 DEF Tick
    <3> QED BY <2>2, <3>2
  <2>6. UNCHANGED <<alerts, breaching, configured, phase, targets, reads, unheard, faults>>
    BY <1>10 DEF Tick, world
  <2>7. CloseKnows' /\ JobsRun'
    BY <2>1, <2>2, <2>6 DEF TypeInv, CloseKnows, JobsRun
  <2>8. ASSUME NEW e \in Engines, NEW t \in Targets
        PROVE  /\ job'[e][t].kind = "close" => job'[e][t].alert # NoAlert
               /\ ~ targetState'[e][t].tracked => targetState'[e][t] = NoEntry
    BY <2>1, <2>2, SameEntry
  <2>9. TypeOK'
    BY <2>3, <2>4, <2>5, <2>6, <2>8 DEF TypeInv, TypeOK
  <2> QED BY <2>7, <2>9 DEF TypeInv
<1>11. ASSUME UNCHANGED vars PROVE TypeInv'
  BY <1>11 DEF vars, TypeInv, TypeOK, CloseKnows, JobsRun
<1> QED BY <1>1, <1>2, <1>3, <1>4, <1>5, <1>6, <1>7, <1>8, <1>9, <1>10, <1>11
        DEF Next

(* Every variable keeps its type, a close always knows its alert and no    *)
(* entry #close or #open writes to has been dropped from under it, for any *)
(* number of replicas, refreshes, crashes and failures.                    *)
THEOREM TypeCorrect == Spec => []TypeOK
PROOF
<1>1. TypeInv => TypeOK
  BY DEF TypeInv
<1> QED BY <1>1, TypeInit, TypeStep, PTL DEF Spec

-----------------------------------------------------------------------------
(* The live alerts of a target only become fewer, except that one may be   *)
(* inserted where there is none.                                           *)
LEMMA LiveStep ==
    ASSUME TypeInv, [Next]_vars, NEW u \in Targets
    PROVE  \/ LiveOn(u)' \subseteq LiveOn(u)
           \/ LiveOn(u) = {} /\ \E a \in Alerts : LiveOn(u)' = {a}
PROOF
<1>0. ASSUME UNCHANGED alerts PROVE LiveOn(u)' = LiveOn(u)
  BY <1>0 DEF LiveOn
<1>1. ASSUME NEW e \in Engines, NEW t \in Targets, openAlert(e, t)
      PROVE  \/ LiveOn(u)' \subseteq LiveOn(u)
             \/ LiveOn(u) = {} /\ \E a \in Alerts : LiveOn(u)' = {a}
  <2>1. CASE UNCHANGED alerts
    BY <2>1, <1>0
  <2>2. CASE LiveOn(t) = {} /\ alerts' # alerts
    <3>1. PICK a \in NewIds :
            alerts' = [alerts EXCEPT ![a] = [state |-> "open", target |-> t]]
      BY <1>1, <2>2 DEF openAlert, OneOpenIndexAllows
    <3>2. a \in Alerts /\ alerts \in [Alerts -> [state : LiveStates \cup {"none", "resolved"}, target : Targets]]
      BY DEF NewIds, TypeInv, TypeOK
    <3>3. /\ alerts'[a].target = t /\ alerts'[a].state = "open"
          /\ \A b \in Alerts : b # a => alerts'[b] = alerts[b]
      BY <3>1, <3>2
    <3>4. CASE u = t
      <4>1. LiveOn(u)' = {a}
        BY <3>2, <3>3, <3>4, <2>2 DEF LiveOn, LiveStates
      <4> QED BY <4>1, <2>2, <3>2, <3>4
    <3>5. CASE u # t
      BY <3>2, <3>3, <3>5 DEF LiveOn
    <3> QED BY <3>4, <3>5
  <2>3. CASE LiveOn(t) # {}
    BY <1>1, <2>3, <1>0 DEF openAlert, OneOpenIndexAllows
  <2> QED BY <2>1, <2>2, <2>3
<1>2. ASSUME NEW e \in Engines, NEW t \in Targets, resolveAlert(e, t)
      PROVE  LiveOn(u)' \subseteq LiveOn(u)
  <2>1. CASE UNCHANGED alerts
    BY <2>1, <1>0
  <2>2. CASE alerts' # alerts
    <3>1. PICK a \in Alerts :
            alerts' = [alerts EXCEPT ![a].state = "resolved"]
      BY <1>2, <2>2, SameEntry DEF resolveAlert, db
    <3>2. alerts \in [Alerts -> [state : LiveStates \cup {"none", "resolved"}, target : Targets]]
      BY DEF TypeInv, TypeOK
    <3>3. /\ alerts'[a].state = "resolved"
          /\ \A b \in Alerts : b # a => alerts'[b] = alerts[b]
      BY <3>1, <3>2
    <3> QED BY <3>3 DEF LiveOn, LiveStates
  <2> QED BY <2>1, <2>2
<1>3. ASSUME NEW a \in Alerts, acknowledgeAlert(a)
      PROVE  LiveOn(u)' \subseteq LiveOn(u)
  <2>1. alerts \in [Alerts -> [state : LiveStates \cup {"none", "resolved"}, target : Targets]]
    BY DEF TypeInv, TypeOK
  <2>2. /\ alerts[a].state = "open" /\ alerts'[a].target = alerts[a].target
        /\ \A b \in Alerts : b # a => alerts'[b] = alerts[b]
    BY <1>3, <2>1 DEF acknowledgeAlert
  <2> QED BY <2>2 DEF LiveOn, LiveStates
<1>4. ASSUME NEW e \in Engines, NEW t \in Targets,
             \/ Evaluate(e, t) \/ OpenAnswered(e, t) \/ CloseAnswered(e, t)
             \/ TransactionFails(e, t) \/ AnswerLost(e, t)
      PROVE  UNCHANGED alerts
  BY <1>4 DEF Evaluate, EvaluateBreach, EvaluateClear, OpenAnswered,
              CloseAnswered, TransactionFails, AnswerLost, db
<1>5. ASSUME NEW e \in Engines,
             \/ RefreshRead(e) \/ (\E r \in Configurations : refresh(e, r))
             \/ start(e) \/ loadLiveAlerts(e) \/ StartTimers(e) \/ Crash(e)
      PROVE  UNCHANGED alerts
  BY <1>5 DEF RefreshRead, refresh, start, loadLiveAlerts, StartTimers, Crash, db
<1>6. ASSUME (\E t \in Targets : ConditionChanges(t)) \/ Reconfigure \/ Tick
             \/ UNCHANGED vars
      PROVE  UNCHANGED alerts
  BY <1>6 DEF ConditionChanges, Reconfigure, Tick, vars, db
<1> QED BY <1>0, <1>1, <1>2, <1>3, <1>4, <1>5, <1>6 DEF Next, Job

(* No target ever has two live alerts: the partial unique index makes      *)
(* openAlert a no-op where one is live, and nothing else makes an alert    *)
(* live, for any number of replicas, crashes and lost answers.             *)
THEOREM AtMostOneLiveAlert == Spec => []OneLiveAlert
PROOF
<1>1. Init => OneLiveAlert
  BY DEF Init, Free, OneLiveAlert, LiveOn, LiveStates
<1>2. TypeInv /\ OneLiveAlert /\ [Next]_vars => OneLiveAlert'
  <2> SUFFICES ASSUME TypeInv, OneLiveAlert, [Next]_vars,
                      NEW t \in Targets
               PROVE  \A a, b \in LiveOn(t)' : a = b
    BY DEF OneLiveAlert
  <2> QED BY LiveStep DEF OneLiveAlert
<1> QED BY <1>1, <1>2, TypeInit, TypeStep, PTL DEF Spec

-----------------------------------------------------------------------------
(* No ghosts.  The argument needs more than the property: what a job may   *)
(* rely on (JobsInOrder), and that an alert is known even while an engine  *)
(* is on its way up (AllKnown).                                            *)
GhostInv == /\ TypeInv /\ OneLiveAlert /\ JobsInOrder /\ AllKnown

(* An alert is known through the entry and the job an engine writes for    *)
(* its target, or was known and these give up nothing that named it.       *)
StaysKnown(e, t, s, j, a) ==
    \/ j.kind = "open" /\ j.alert = a
    \/ phase[e] = "running" /\ s.openAlertId = a
    \/ /\ a \in LiveOn(t) \ unheard
       /\ targetState[e][t].openAlertId = a => s.openAlertId = a
       /\ job[e][t].kind = "open" /\ job[e][t].alert = a =>
            j.kind = "open" /\ j.alert = a

(* A step that touches one entry and one job, and under which every alert  *)
(* of its target stays known, keeps every alert of every target known.     *)
LEMMA KnownElsewhere ==
    ASSUME TypeInv, AllKnown, NEW e \in Engines, NEW t \in Targets,
           NEW s \in Entries, NEW j \in Jobs,
           targetState' = [targetState EXCEPT ![e][t] = s],
           job' = [job EXCEPT ![e][t] = j],
           UNCHANGED phase,
           \A u \in Targets \ {t} : LiveOn(u)' \subseteq LiveOn(u),
           \A u \in Targets : \A a \in LiveOn(u) \cap unheard : a \in unheard',
           \A a \in LiveOn(t)' : a \in unheard' \/ StaysKnown(e, t, s, j, a)
    PROVE  AllKnown'
PROOF
<1>0. /\ targetState \in [Engines -> [Targets -> Entries]]
      /\ job \in [Engines -> [Targets -> Jobs]]
  BY DEF TypeInv, TypeOK
<1>1. /\ targetState'[e][t] = s /\ job'[e][t] = j
      /\ \A f \in Engines, u \in Targets :
           f # e \/ u # t => /\ targetState'[f][u] = targetState[f][u]
                             /\ job'[f][u] = job[f][u]
  BY <1>0
<1>2. ASSUME NEW u \in Targets, NEW a \in LiveOn(u)', a \notin unheard' PROVE Known(u, a)'
  <2>1. CASE u # t
    <3>1. Known(u, a)
      BY <1>2, <2>1 DEF AllKnown
    <3> QED BY <1>1, <1>2, <2>1, <3>1 DEF Known
  <2>2. CASE u = t
    <3>1. CASE j.kind = "open" /\ j.alert = a
      BY <1>1, <2>2, <3>1 DEF Known
    <3>2. CASE phase[e] = "running" /\ s.openAlertId = a
      BY <1>1, <2>2, <3>2 DEF Known
    <3>3. CASE /\ a \in LiveOn(t) \ unheard
               /\ targetState[e][t].openAlertId = a => s.openAlertId = a
               /\ job[e][t].kind = "open" /\ job[e][t].alert = a =>
                    j.kind = "open" /\ j.alert = a
      <4>1. Known(t, a)
        BY <3>3 DEF AllKnown
      <4>2. CASE \E f \in Engines : /\ phase[f] \in {"adopted", "running"}
                                    /\ targetState[f][t].openAlertId = a
        BY <1>1, <2>2, <3>3, <4>2 DEF Known
      <4>3. CASE \E f \in Engines : job[f][t].kind = "open" /\ job[f][t].alert = a
        BY <1>1, <2>2, <3>3, <4>3 DEF Known
      <4>4. CASE \E f \in Engines : phase[f] \in {"down", "starting", "adopting"}
        BY <4>4 DEF Known
      <4> QED BY <4>1, <4>2, <4>3, <4>4 DEF Known
    <3> QED BY <1>2, <2>2, <3>1, <3>2, <3>3 DEF StaysKnown
  <2> QED BY <2>1, <2>2
<1> QED BY <1>2 DEF AllKnown

(* A step that touches one entry and one job keeps the jobs in order when  *)
(* what it writes is in order and no alert that an answered close refers   *)
(* to becomes live.                                                        *)
LEMMA OrderElsewhere ==
    ASSUME TypeInv, JobsInOrder, NEW e \in Engines, NEW t \in Targets,
           NEW s \in Entries, NEW j \in Jobs,
           targetState' = [targetState EXCEPT ![e][t] = s],
           job' = [job EXCEPT ![e][t] = j],
           j.kind = "open" => /\ s.openAlertId = NoAlert
                              /\ j.answered \/ j.alert = NoAlert,
           j.kind = "close" /\ j.answered =>
             alerts'[j.alert].state \notin LiveStates,
           \A f \in Engines, u \in Targets :
             job[f][u].kind = "close" /\ alerts[job[f][u].alert].state \notin LiveStates =>
               alerts'[job[f][u].alert].state \notin LiveStates
    PROVE  JobsInOrder'
PROOF
<1>0. /\ targetState \in [Engines -> [Targets -> Entries]]
      /\ job \in [Engines -> [Targets -> Jobs]]
  BY DEF TypeInv, TypeOK
<1>1. /\ targetState'[e][t] = s /\ job'[e][t] = j
      /\ \A f \in Engines, u \in Targets :
           f # e \/ u # t => /\ targetState'[f][u] = targetState[f][u]
                             /\ job'[f][u] = job[f][u]
  BY <1>0
<1>2. ASSUME NEW f \in Engines, NEW u \in Targets
      PROVE  /\ job'[f][u].kind = "open" =>
                   /\ targetState'[f][u].openAlertId = NoAlert
                   /\ job'[f][u].answered \/ job'[f][u].alert = NoAlert
             /\ job'[f][u].kind = "close" /\ job'[f][u].answered =>
                  alerts'[job'[f][u].alert].state \notin LiveStates
  <2>1. CASE f = e /\ u = t
    BY <1>1, <2>1
  <2>2. CASE f # e \/ u # t
    BY <1>1, <2>2 DEF JobsInOrder
  <2> QED BY <2>1, <2>2
<1> QED BY <1>2 DEF JobsInOrder

(* An evaluation.                                                          *)
LEMMA EvaluateGhost ==
    ASSUME GhostInv, NEW e \in Engines, NEW t \in Targets, Evaluate(e, t)
    PROVE  JobsInOrder' /\ AllKnown'
PROOF
<1>1. PICK s \in Entries, j \in Jobs :
             /\ targetState' = [targetState EXCEPT ![e][t] = s]
             /\ job' = [job EXCEPT ![e][t] = j]
             /\ s.tracked /\ s.openAlertId = targetState[e][t].openAlertId
             /\ \/ j = job[e][t]
                \/ /\ job[e][t] = NoJob /\ j = Ask("open", NoAlert)
                   /\ s.openAlertId = NoAlert
                \/ /\ job[e][t] = NoJob /\ j = Ask("close", s.openAlertId)
                   /\ s.openAlertId # NoAlert
             /\ phase[e] = "running" /\ t \in targets[e]
             /\ UNCHANGED <<db, world, phase, targets, reads, faults>>
  BY EvaluateFacts DEF GhostInv
<1>2. UNCHANGED <<alerts, phase>>
  BY <1>1 DEF db
<1>3. \/ j = job[e][t]
      \/ /\ job[e][t].kind = "none" /\ j.kind = "open" /\ j.alert = NoAlert
         /\ s.openAlertId = NoAlert
      \/ job[e][t].kind = "none" /\ j.kind = "close" /\ ~ j.answered
  BY <1>1, Constants DEF Ask
<1>4. \A u \in Targets : LiveOn(u)' = LiveOn(u)
  BY <1>2 DEF LiveOn
<1>7. \A u \in Targets : \A a \in LiveOn(u) \cap unheard : a \in unheard'
  BY Heard DEF GhostInv
<1>5. JobsInOrder'
  <2>1. /\ j.kind = "open" => /\ s.openAlertId = NoAlert
                              /\ j.answered \/ j.alert = NoAlert
        /\ j.kind = "close" /\ j.answered =>
             alerts'[j.alert].state \notin LiveStates
    BY <1>1, <1>2, <1>3 DEF GhostInv, JobsInOrder
  <2> QED BY <1>1, <1>2, <2>1, OrderElsewhere DEF GhostInv
<1>6. AllKnown'
  <2>1. ASSUME NEW a \in LiveOn(t)', a \notin unheard'
        PROVE  StaysKnown(e, t, s, j, a)
    BY <1>1, <1>3, <1>4, <1>7, <2>1 DEF StaysKnown
  <2> QED BY <1>1, <1>2, <1>4, <1>7, <2>1, KnownElsewhere DEF GhostInv
<1> QED BY <1>5, <1>6

(* The steps of a transaction.                                             *)
LEMMA JobGhost ==
    ASSUME GhostInv, NEW e \in Engines, NEW t \in Targets,
           Job(e, t) \/ TransactionFails(e, t) \/ AnswerLost(e, t)
    PROVE  JobsInOrder' /\ AllKnown'
PROOF
<1> USE DEF GhostInv
<1>0. UNCHANGED phase
  BY DEF Job, TransactionFails, AnswerLost, openAlert, OpenAnswered,
         resolveAlert, CloseAnswered
<1>9. \A u \in Targets : \A a \in LiveOn(u) \cap unheard : a \in unheard'
  BY Heard
<1>1. /\ [Next]_vars
      /\ \A u \in Targets : \A a \in LiveOn(u) : a \in Alerts /\ a # NoAlert
  BY EngineAssumption DEF Next, LiveOn
<1>2. CASE openAlert(e, t)
  <2>1. PICK j \in Jobs :
             /\ job' = [job EXCEPT ![e][t] = j]
             /\ job[e][t] # NoJob /\ job[e][t].kind = "open"
             /\ ~ job[e][t].answered
             /\ j.kind = "open" /\ j.answered
             /\ \/ /\ LiveOn(t) = {} /\ j.alert \in NewIds
                   /\ alerts' = [alerts EXCEPT ![j.alert] =
                                   [state |-> "open", target |-> t]]
                \/ /\ LiveOn(t) # {} /\ j.alert = job[e][t].alert
                   /\ UNCHANGED alerts
             /\ UNCHANGED <<sinceResolved, world, phase, targets, targetState,
                            reads, faults>>
    BY <1>2, OpenFacts
  <2>2. /\ targetState' = [targetState EXCEPT ![e][t] = targetState[e][t]]
        /\ targetState[e][t] \in Entries
    BY <2>1, SameEntry
  <2>3. targetState[e][t].openAlertId = NoAlert /\ job[e][t].alert = NoAlert
    BY <2>1 DEF JobsInOrder
  <2>4. CASE LiveOn(t) = {}
    <3>1. /\ j.alert \in Alerts
          /\ \A f \in Engines, u \in Targets : job[f][u].alert # j.alert
          /\ alerts' = [alerts EXCEPT ![j.alert] = [state |-> "open", target |-> t]]
      BY <2>1, <2>4 DEF NewIds, Unreferenced
    <3>2. \A b \in Alerts : b # j.alert => alerts'[b] = alerts[b]
      BY <3>1 DEF TypeInv, TypeOK
    <3>3. /\ alerts'[j.alert].target = t
          /\ \A u \in Targets \ {t} : LiveOn(u)' \subseteq LiveOn(u)
          /\ \A a \in LiveOn(t)' : a = j.alert
      <4>1. alerts'[j.alert].target = t
        BY <3>1 DEF TypeInv, TypeOK
      <4> QED BY <2>4, <3>2, <4>1 DEF LiveOn
    <3>4. JobsInOrder'
      <4>1. ASSUME NEW f \in Engines, NEW u \in Targets,
                   job[f][u].kind = "close",
                   alerts[job[f][u].alert].state \notin LiveStates
            PROVE  alerts'[job[f][u].alert].state \notin LiveStates
        BY <3>1, <3>2, <4>1, SameEntry
      <4> QED BY <1>0, <2>1, <2>2, <2>3, <4>1, OrderElsewhere
    <3>5. AllKnown'
      <4> DEFINE s == targetState[e][t]
      <4>1. ASSUME NEW a \in LiveOn(t)' PROVE StaysKnown(e, t, s, j, a)
        BY <2>1, <3>3 DEF StaysKnown
      <4> HIDE DEF s
      <4>2. s \in Entries /\ targetState' = [targetState EXCEPT ![e][t] = s]
        BY <2>2 DEF s
      <4> QED BY <1>0, <1>9, <2>1, <3>3, <4>1, <4>2, KnownElsewhere
    <3> QED BY <1>0, <3>4, <3>5
  <2>5. CASE LiveOn(t) # {}
    <3>1. UNCHANGED alerts /\ j.alert = job[e][t].alert
      BY <2>1, <2>5
    <3>2. \A u \in Targets : LiveOn(u)' = LiveOn(u)
      BY <3>1 DEF LiveOn
    <3>3. JobsInOrder'
      BY <1>0, <2>1, <2>2, <2>3, <3>1, OrderElsewhere
    <3>4. AllKnown'
      <4> DEFINE s == targetState[e][t]
      <4>1. ASSUME NEW a \in LiveOn(t)', a \notin unheard'
            PROVE  StaysKnown(e, t, s, j, a)
        BY <1>9, <2>1, <3>1, <3>2, <4>1 DEF StaysKnown
      <4> HIDE DEF s
      <4>2. s \in Entries /\ targetState' = [targetState EXCEPT ![e][t] = s]
        BY <2>2 DEF s
      <4> QED BY <1>0, <1>9, <2>1, <3>2, <4>1, <4>2, KnownElsewhere
    <3> QED BY <1>0, <3>3, <3>4
  <2> QED BY <2>4, <2>5
<1>3. CASE OpenAnswered(e, t)
  <2>1. PICK s \in Entries :
             /\ targetState' = [targetState EXCEPT ![e][t] = s]
             /\ job' = [job EXCEPT ![e][t] = NoJob]
             /\ ~ s.tracked => s = NoEntry
             /\ job[e][t].kind = "open" /\ job[e][t] # NoJob
             /\ job[e][t].alert # NoAlert /\ targetState[e][t].tracked =>
                  s.openAlertId = job[e][t].alert
             /\ job[e][t].alert = NoAlert \/ ~ targetState[e][t].tracked =>
                  s = targetState[e][t]
             /\ UNCHANGED <<db, world, phase, targets, reads, faults>>
    BY <1>3, OpenAnsweredFacts
  <2>2. targetState[e][t].openAlertId = NoAlert /\ phase[e] = "running"
    BY <2>1, SameEntry DEF JobsInOrder
  <2>3. UNCHANGED alerts /\ \A u \in Targets : LiveOn(u)' = LiveOn(u)
    BY <2>1 DEF db, LiveOn
  <2>4. JobsInOrder'
    BY <1>0, <2>1, <2>3, Constants, OrderElsewhere
  <2>5. AllKnown'
    <3>1. ASSUME NEW a \in LiveOn(t)', a \notin unheard'
          PROVE  /\ a \in LiveOn(t) \ unheard /\ targetState[e][t].openAlertId # a
                 /\ job[e][t].alert = a => s.openAlertId = a
      <4>1. a \in LiveOn(t) \ unheard /\ a # NoAlert
        BY <1>1, <1>9, <2>3, <3>1
      <4>2. job[e][t].alert = a => targetState[e][t].tracked
        BY <1>3, <3>1, <4>1, Heard
      <4> QED BY <2>1, <2>2, <4>1, <4>2
    <3>2. ASSUME NEW a \in LiveOn(t)', a \notin unheard'
          PROVE  StaysKnown(e, t, s, NoJob, a)
      BY <2>2, <3>1, <3>2 DEF StaysKnown
    <3> QED BY <1>0, <1>9, <2>1, <2>3, <3>2, Constants, KnownElsewhere
  <2> QED BY <1>0, <2>4, <2>5
<1>4. CASE resolveAlert(e, t)
  <2>1. PICK j \in Jobs :
             /\ job' = [job EXCEPT ![e][t] = j]
             /\ job[e][t].kind = "close" /\ job[e][t] # NoJob
             /\ j.kind = "close" /\ j.answered /\ j.alert = job[e][t].alert
             /\ j.alert \in Alerts
             /\ \/ /\ alerts' = [alerts EXCEPT ![j.alert].state = "resolved"]
                   /\ sinceResolved' = [sinceResolved EXCEPT ![t] = 0]
                \/ /\ alerts[j.alert].state \notin LiveStates
                   /\ UNCHANGED db
             /\ UNCHANGED <<world, phase, targets, targetState, reads, faults>>
    BY <1>4, ResolveFacts
  <2>2. /\ targetState' = [targetState EXCEPT ![e][t] = targetState[e][t]]
        /\ targetState[e][t] \in Entries
    BY <2>1, SameEntry
  <2>3. /\ alerts'[j.alert].state \notin LiveStates
        /\ \A b \in Alerts : b # j.alert => alerts'[b] = alerts[b]
    <3>1. /\ DOMAIN alerts = Alerts
          /\ \A b \in Alerts : "state" \in DOMAIN alerts[b]
      BY DEF TypeInv, TypeOK
    <3>2. CASE alerts' = [alerts EXCEPT ![j.alert].state = "resolved"]
      BY <2>1, <3>1, <3>2 DEF LiveStates
    <3>3. CASE alerts[j.alert].state \notin LiveStates /\ UNCHANGED db
      BY <3>3 DEF db
    <3> QED BY <2>1, <3>2, <3>3
  <2>4. \A u \in Targets : LiveOn(u)' \subseteq LiveOn(u)
    BY <2>3, SMTT(30) DEF LiveOn
  <2>5. JobsInOrder'
    <3>1. ASSUME NEW f \in Engines, NEW u \in Targets,
                 job[f][u].kind = "close",
                 alerts[job[f][u].alert].state \notin LiveStates
          PROVE  alerts'[job[f][u].alert].state \notin LiveStates
      BY <2>3, <3>1, SameEntry
    <3> QED BY <1>0, <2>1, <2>2, <2>3, <3>1, OrderElsewhere
  <2>6. AllKnown'
    <3> DEFINE s == targetState[e][t]
    <3>1. ASSUME NEW a \in LiveOn(t)', a \notin unheard'
          PROVE  StaysKnown(e, t, s, j, a)
      BY <1>9, <2>1, <2>4, <3>1 DEF StaysKnown
    <3> HIDE DEF s
    <3>2. s \in Entries /\ targetState' = [targetState EXCEPT ![e][t] = s]
      BY <2>2 DEF s
    <3> QED BY <1>0, <1>9, <2>1, <2>4, <3>1, <3>2, KnownElsewhere
  <2> QED BY <1>0, <2>5, <2>6
<1>5. CASE CloseAnswered(e, t)
  <2>1. PICK s \in Entries :
             /\ targetState' = [targetState EXCEPT ![e][t] = s]
             /\ job' = [job EXCEPT ![e][t] = NoJob]
             /\ s.tracked /\ s.openAlertId = NoAlert
             /\ job[e][t].kind = "close" /\ job[e][t].answered
             /\ job[e][t] # NoJob
             /\ UNCHANGED <<db, world, phase, targets, reads, faults>>
    BY <1>5, CloseAnsweredFacts
  <2>2. UNCHANGED alerts /\ \A u \in Targets : LiveOn(u)' = LiveOn(u)
    BY <2>1 DEF db, LiveOn
  <2>3. targetState[e][t].openAlertId \notin LiveOn(t)
    <3>1. targetState[e][t].openAlertId = job[e][t].alert
      BY <2>1, SameEntry
    <3> QED BY <2>1, <3>1 DEF JobsInOrder, LiveOn
  <2>4. JobsInOrder'
    BY <1>0, <2>1, <2>2, Constants, OrderElsewhere
  <2>5. AllKnown'
    <3>1. ASSUME NEW a \in LiveOn(t)', a \notin unheard'
          PROVE  StaysKnown(e, t, s, NoJob, a)
      BY <1>9, <2>1, <2>2, <2>3, <3>1 DEF StaysKnown
    <3> QED BY <1>0, <1>9, <2>1, <2>2, <3>1, Constants, KnownElsewhere
  <2> QED BY <1>0, <2>4, <2>5
<1>6. CASE TransactionFails(e, t) \/ AnswerLost(e, t)
  <2>1. /\ job' = [job EXCEPT ![e][t] = NoJob]
        /\ UNCHANGED <<alerts, targetState>>
    BY <1>6 DEF TransactionFails, AnswerLost, db
  <2>2. /\ targetState' = [targetState EXCEPT ![e][t] = targetState[e][t]]
        /\ targetState[e][t] \in Entries
    BY <2>1, SameEntry
  <2>3. \A u \in Targets : LiveOn(u)' = LiveOn(u)
    BY <2>1 DEF LiveOn
  <2>4. job[e][t].kind = "open" => job[e][t].alert \in unheard' \cup {NoAlert}
    <3>1. CASE TransactionFails(e, t)
      BY <3>1 DEF TransactionFails, JobsInOrder
    <3>2. CASE AnswerLost(e, t)
      BY <3>2, Heard
    <3> QED BY <1>6, <3>1, <3>2
  <2>5. JobsInOrder'
    BY <1>0, <2>1, <2>2, Constants, OrderElsewhere
  <2>6. AllKnown'
    <3> DEFINE s == targetState[e][t]
    <3>1. ASSUME NEW a \in LiveOn(t)', a \notin unheard'
          PROVE  StaysKnown(e, t, s, NoJob, a)
      BY <1>1, <1>9, <2>1, <2>3, <2>4, <3>1 DEF StaysKnown
    <3> HIDE DEF s
    <3>2. s \in Entries /\ targetState' = [targetState EXCEPT ![e][t] = s]
      BY <2>2 DEF s
    <3> QED BY <1>0, <1>9, <2>1, <2>3, <3>1, <3>2, Constants, KnownElsewhere
  <2> QED BY <1>0, <2>5, <2>6
<1> QED BY <1>2, <1>3, <1>4, <1>5, <1>6 DEF Job

(* A step that leaves the rows, the jobs and the alerts that the entries   *)
(* name as they are.                                                       *)
LEMMA OrderKept ==
    ASSUME JobsInOrder, UNCHANGED alerts,
           \A e \in Engines, t \in Targets :
             /\ job'[e][t].kind = job[e][t].kind
             /\ job'[e][t].alert = job[e][t].alert
             /\ job'[e][t].answered = job[e][t].answered
             /\ job[e][t].kind = "open" =>
                  targetState'[e][t].openAlertId = targetState[e][t].openAlertId
    PROVE  JobsInOrder'
BY DEF JobsInOrder

(* The steps of an engine's life.                                          *)
LEMMA LifeGhost ==
    ASSUME GhostInv, NEW e \in Engines,
           \/ RefreshRead(e) \/ (\E r \in Configurations : refresh(e, r))
           \/ start(e) \/ loadLiveAlerts(e) \/ StartTimers(e) \/ Crash(e)
    PROVE  JobsInOrder' /\ AllKnown'
PROOF
<1> USE DEF GhostInv
<1>0. /\ targetState \in [Engines -> [Targets -> Entries]]
      /\ job \in [Engines -> [Targets -> Jobs]]
      /\ phase \in [Engines -> {"new", "down", "starting", "adopting", "adopted", "running"}]
  BY DEF TypeInv, TypeOK
<1>1. UNCHANGED alerts
  BY DEF RefreshRead, refresh, start, loadLiveAlerts, StartTimers, Crash, db
<1>2. \A u \in Targets : LiveOn(u)' = LiveOn(u)
  BY <1>1 DEF LiveOn
<1>3. CASE RefreshRead(e)
  <2>1. UNCHANGED <<phase, targetState, job, unheard>>
    BY <1>3 DEF RefreshRead
  <2> QED BY <1>1, <1>2, <2>1 DEF JobsInOrder, AllKnown, Known
<1>4. ASSUME NEW r \in Configurations, refresh(e, r)
      PROVE  JobsInOrder' /\ AllKnown'
  <2>2. /\ UNCHANGED <<job, unheard>>
        /\ targetState' = [targetState EXCEPT ![e] = KeptEntries(e, r)]
        /\ phase' = [phase EXCEPT ![e] = IF @ = "starting" THEN "adopting" ELSE @]
    BY <1>4 DEF refresh
  <2>3. ASSUME NEW f \in Engines, NEW t \in Targets
        PROVE  targetState'[f][t].openAlertId = targetState[f][t].openAlertId
    BY <1>0, <2>2, Constants DEF KeptEntries
  <2>4. ASSUME NEW f \in Engines
        PROVE  /\ phase[f] \in {"adopted", "running"} => phase'[f] = phase[f]
               /\ phase[f] \in {"down", "starting", "adopting"} =>
                    phase'[f] \in {"down", "starting", "adopting"}
    BY <1>0, <2>2
  <2>5. JobsInOrder'
    BY <1>1, <2>2, <2>3, OrderKept
  <2>7. AllKnown'
    BY <1>2, <2>2, <2>3, <2>4 DEF AllKnown, Known
  <2> QED BY <2>5, <2>7
<1>5. CASE start(e) \/ StartTimers(e)
  <2>1. UNCHANGED <<targetState, job, unheard>>
    BY <1>5 DEF start, StartTimers
  <2>2. ASSUME NEW f \in Engines
        PROVE  /\ phase[f] \in {"adopted", "running"} =>
                    phase'[f] \in {"adopted", "running"}
               /\ phase[f] \in {"down", "starting", "adopting"} =>
                    phase'[f] \in {"down", "starting", "adopting"}
    <3>1. CASE start(e)
      BY <1>0, <3>1 DEF start
    <3>2. CASE StartTimers(e)
      BY <1>0, <3>2 DEF StartTimers
    <3> QED BY <1>5, <3>1, <3>2
  <2>3. JobsInOrder'
    BY <1>1, <2>1 DEF JobsInOrder
  <2>4. AllKnown'
    BY <1>2, <2>1, <2>2 DEF AllKnown, Known
  <2> QED BY <2>3, <2>4
<1>6. CASE loadLiveAlerts(e)
  <2> DEFINE S == [t \in Targets |->
                     IF LiveOn(t) = {} THEN targetState[e][t]
                     ELSE Naming(CHOOSE a \in LiveOn(t) : TRUE)]
  <2>1. /\ phase[e] = "adopting"
        /\ targetState' = [targetState EXCEPT ![e] = S]
        /\ phase' = [phase EXCEPT ![e] = "adopted"]
        /\ UNCHANGED job
    BY <1>6 DEF loadLiveAlerts
  <2>2. ASSUME NEW t \in Targets, NEW a \in LiveOn(t)
        PROVE  S[t].openAlertId = a
    <3>1. (CHOOSE x \in LiveOn(t) : TRUE) = a
      BY DEF OneLiveAlert
    <3> QED BY <3>1 DEF Naming
  <2> HIDE DEF S
  <2>3. AllKnown'
    <3>1. phase'[e] = "adopted" /\ targetState'[e] = S
      BY <1>0, <2>1
    <3> QED BY <1>2, <2>2, <3>1 DEF AllKnown, Known
  <2>4. \A t \in Targets : job[e][t].kind # "open"
    BY <2>1, SameEntry, Constants
  <2>5. JobsInOrder'
    BY <1>0, <1>1, <2>1, <2>4, OrderKept
  <2> QED BY <2>3, <2>5
<1>7. CASE Crash(e)
  <2>1. /\ phase' = [phase EXCEPT ![e] = "down"]
        /\ targetState' = [targetState EXCEPT ![e] = [t \in Targets |-> NoEntry]]
        /\ job' = [job EXCEPT ![e] = [t \in Targets |-> NoJob]]
    BY <1>7 DEF Crash
  <2>2. phase'[e] = "down"
    BY <1>0, <2>1
  <2>3. AllKnown'
    BY <2>2 DEF AllKnown, Known
  <2>5. ASSUME NEW f \in Engines, NEW t \in Targets
        PROVE  \/ job'[f][t].kind = "none"
               \/ /\ job'[f][t] = job[f][t]
                  /\ targetState'[f][t] = targetState[f][t]
    BY <1>0, <2>1, Constants
  <2>6. JobsInOrder'
    BY <1>1, <2>5 DEF JobsInOrder
  <2> QED BY <2>3, <2>6
<1> QED BY <1>3, <1>4, <1>5, <1>6, <1>7

(* The steps of the world and of people.                                   *)
LEMMA WorldGhost ==
    ASSUME GhostInv,
           \/ \E a \in Alerts : acknowledgeAlert(a)
           \/ \E t \in Targets : ConditionChanges(t)
           \/ Reconfigure \/ Tick
    PROVE  JobsInOrder' /\ AllKnown'
PROOF
<1> USE DEF GhostInv
<1>1. ASSUME NEW a \in Alerts, acknowledgeAlert(a)
      PROVE  JobsInOrder' /\ AllKnown'
  <2>1. /\ alerts[a].state = "open"
        /\ UNCHANGED <<phase, targetState, job, unheard>>
    BY <1>1 DEF acknowledgeAlert
  <2>2. /\ \A b \in Alerts : b # a => alerts'[b] = alerts[b]
        /\ alerts'[a].target = alerts[a].target
    BY <1>1 DEF acknowledgeAlert, TypeInv, TypeOK
  <2>3. \A u \in Targets : LiveOn(u)' \subseteq LiveOn(u)
    BY <2>1, <2>2 DEF LiveOn, LiveStates
  <2>4. JobsInOrder'
    <3>1. ASSUME NEW f \in Engines, NEW u \in Targets,
                 job[f][u].kind = "close", job[f][u].answered
          PROVE  alerts'[job[f][u].alert].state \notin LiveStates
      <4>1. /\ job[f][u].alert \in Alerts
            /\ alerts[job[f][u].alert].state \notin LiveStates
        BY <3>1, SameEntry DEF JobsInOrder
      <4> QED BY <2>1, <2>2, <4>1 DEF LiveStates
    <3> QED BY <2>1, <3>1 DEF JobsInOrder
  <2>5. AllKnown'
    BY <2>1, <2>3 DEF AllKnown, Known
  <2> QED BY <2>4, <2>5
<1>2. ASSUME NEW t \in Targets, ConditionChanges(t)
      PROVE  JobsInOrder' /\ AllKnown'
  <2>1. UNCHANGED <<alerts, phase, targetState, job, unheard>>
    BY <1>2 DEF ConditionChanges, db
  <2> QED BY <2>1 DEF JobsInOrder, AllKnown, Known, LiveOn
<1>3. CASE Reconfigure
  <2>1. UNCHANGED <<alerts, phase, targetState, job, unheard>>
    BY <1>3 DEF Reconfigure, db
  <2> QED BY <2>1 DEF JobsInOrder, AllKnown, Known, LiveOn
<1>4. CASE Tick
  <2>1. UNCHANGED <<alerts, phase, unheard>>
    BY <1>4 DEF Tick
  <2>2. ASSUME NEW e \in Engines, NEW t \in Targets
        PROVE  targetState'[e][t].openAlertId = targetState[e][t].openAlertId
    <3>1. targetState[e][t] \in Entries
      BY SameEntry
    <3>2. targetState'[e][t] = [targetState[e][t] EXCEPT
             !.cooling = IF @ > 0 THEN @ - 1 ELSE 0]
      BY <1>4 DEF Tick
    <3> QED BY <3>1, <3>2 DEF Entries
  <2>3. ASSUME NEW e \in Engines, NEW t \in Targets
        PROVE  /\ job'[e][t].kind = job[e][t].kind
               /\ job'[e][t].alert = job[e][t].alert
               /\ job'[e][t].answered = job[e][t].answered
    <3>1. CASE job[e][t] = NoJob
      BY <1>4, <3>1 DEF Tick
    <3>2. CASE job[e][t] # NoJob
      <4>1. job[e][t] \in [kind : {"open", "close"}, answered : BOOLEAN,
                           alert : Alerts \cup {NoAlert}, age : 0..MaxLatency]
        BY <3>2, SameEntry DEF Jobs
      <4>2. job'[e][t] = [job[e][t] EXCEPT !.age = @ + 1]
        BY <1>4, <3>2 DEF Tick
      <4> QED BY <4>1, <4>2
    <3> QED BY <3>1, <3>2
  <2>4. JobsInOrder'
    BY <2>1, <2>2, <2>3, OrderKept
  <2>6. AllKnown'
    BY <2>1, <2>2, <2>3 DEF AllKnown, Known, LiveOn
  <2> QED BY <2>4, <2>6
<1> QED BY <1>1, <1>2, <1>3, <1>4

(* Whatever the rules become, however refreshes overlap and whatever       *)
(* crashes, rolls back or loses its answer: while no process is on its way *)
(* back, every live alert is known to an engine that can resolve it, or    *)
(* its opening reached no entry (start, refresh, #open and #close in       *)
(* rules/index.ts).                                                        *)
THEOREM GhostFree == Spec => []NoGhosts
PROOF
<1>1. Init => GhostInv
  <2>1. Init => OneLiveAlert /\ AllKnown
    BY DEF Init, Free, OneLiveAlert, AllKnown, LiveOn, LiveStates
  <2>2. Init => JobsInOrder
    BY Constants DEF Init, JobsInOrder
  <2> QED BY <2>1, <2>2, TypeInit DEF GhostInv
<1>2. GhostInv /\ [Next]_vars => GhostInv'
  <2> SUFFICES ASSUME GhostInv, [Next]_vars PROVE GhostInv'
    OBVIOUS
  <2>1. TypeInv'
    BY TypeStep DEF GhostInv
  <2>2. OneLiveAlert'
    <3>1. ASSUME NEW t \in Targets PROVE \A a, b \in LiveOn(t)' : a = b
      BY LiveStep DEF GhostInv, OneLiveAlert
    <3> QED BY <3>1 DEF OneLiveAlert
  <2>4. ASSUME UNCHANGED vars PROVE JobsInOrder' /\ AllKnown'
    BY <2>4 DEF vars, GhostInv, JobsInOrder, AllKnown, Known, LiveOn
  <2>5. JobsInOrder' /\ AllKnown'
    BY <2>4, EvaluateGhost, JobGhost, LifeGhost, WorldGhost DEF Next
  <2> QED BY <2>1, <2>2, <2>5 DEF GhostInv
<1>3. GhostInv => NoGhosts
  BY DEF GhostInv, AllKnown, Known, NoGhosts
<1> QED BY <1>1, <1>2, <1>3, PTL DEF Spec

-----------------------------------------------------------------------------
(* The configuration never changes.                                        *)
Steady == \A C, D \in Configurations : C = D

(* An engine evaluates only what the rules expand to.                      *)
Watched == \A e \in Engines : targets[e] \subseteq configured

(* The cooldown, of one engine that does not restart and whose rules do    *)
(* not change.  While its entry names no alert, what is still to wait and  *)
(* what has passed since the last resolution cover the cooldown, up to the *)
(* time a transaction takes; an open was asked for when nothing was left   *)
(* to wait; and a target the rules do not expand to has nothing a refresh  *)
(* could forget.                                                           *)
Alone == \A e, f \in Engines : e = f

Waits(e, t) ==
    /\ targetState[e][t].openAlertId = NoAlert =>
         Cooldown <= targetState[e][t].cooling + sinceResolved[t] + MaxLatency
    /\ job[e][t].kind = "open" => Cooldown <= sinceResolved[t] + MaxLatency
    /\ t \notin configured => targetState[e][t].cooling = 0 /\ job[e][t] = NoJob

CoolInv == TypeInv /\ Watched /\ \A e \in Engines, t \in Targets : Waits(e, t)

LEMMA WaitTypes ==
    ASSUME TypeInv, NEW e \in Engines, NEW t \in Targets
    PROVE  /\ targetState[e][t].cooling \in Nat /\ sinceResolved[t] \in Nat
           /\ sinceResolved[t] <= Cooldown /\ Cooldown \in Nat /\ MaxLatency \in Nat
PROOF
<1>1. targetState[e][t] \in Entries /\ sinceResolved[t] \in 0..Cooldown
  BY DEF TypeInv, TypeOK
<1>2. targetState[e][t].cooling \in 0..Cooldown
  BY <1>1 DEF Entries
<1> QED BY <1>1, <1>2, EngineAssumption

(* A step that writes one entry and one job of a watched target.           *)
LEMMA WaitElsewhere ==
    ASSUME CoolInv, NEW e \in Engines, NEW t \in Targets, t \in configured,
           NEW s, NEW j,
           targetState' = [targetState EXCEPT ![e][t] = s],
           job' = [job EXCEPT ![e][t] = j],
           UNCHANGED <<sinceResolved, configured>>,
           s.openAlertId = NoAlert => Cooldown <= s.cooling + sinceResolved[t] + MaxLatency,
           j.kind = "open" => Cooldown <= sinceResolved[t] + MaxLatency
    PROVE  \A f \in Engines, u \in Targets : Waits(f, u)'
PROOF
<1> SUFFICES ASSUME NEW f \in Engines, NEW u \in Targets PROVE Waits(f, u)'
  OBVIOUS
<1>1. /\ targetState \in [Engines -> [Targets -> Entries]]
      /\ job \in [Engines -> [Targets -> Jobs]]
  BY DEF CoolInv, TypeInv, TypeOK
<1>2. CASE f = e /\ u = t
  <2>1. targetState'[e][t] = s /\ job'[e][t] = j
    BY <1>1
  <2> QED BY <1>2, <2>1 DEF Waits
<1>3. CASE ~ (f = e /\ u = t)
  <2>1. targetState'[f][u] = targetState[f][u] /\ job'[f][u] = job[f][u]
    BY <1>1, <1>3
  <2>2. Waits(f, u)
    BY DEF CoolInv
  <2> QED BY <2>1, <2>2 DEF Waits
<1> QED BY <1>2, <1>3

LEMMA EvaluateWaits ==
    ASSUME CoolInv, NEW e \in Engines, NEW t \in Targets, Evaluate(e, t)
    PROVE  Watched' /\ \A f \in Engines, u \in Targets : Waits(f, u)'
PROOF
<1>1. PICK s \in Entries, j \in Jobs :
             /\ targetState' = [targetState EXCEPT ![e][t] = s]
             /\ job' = [job EXCEPT ![e][t] = j]
             /\ s.openAlertId = targetState[e][t].openAlertId
             /\ s.cooling = targetState[e][t].cooling
             /\ \/ j = job[e][t]
                \/ /\ job[e][t] = NoJob /\ j = Ask("open", NoAlert)
                   /\ s.openAlertId = NoAlert /\ s.cooling = 0
                \/ /\ job[e][t] = NoJob /\ j = Ask("close", s.openAlertId)
                   /\ s.openAlertId # NoAlert
             /\ phase[e] = "running" /\ t \in targets[e]
             /\ UNCHANGED <<db, world, phase, targets, reads, faults>>
  BY EvaluateFacts DEF CoolInv
<1>2. UNCHANGED <<sinceResolved, configured, targets>> /\ t \in configured
  BY <1>1 DEF db, world, CoolInv, Watched
<1>3. Waits(e, t) /\ sinceResolved[t] \in Nat /\ MaxLatency \in Nat
  BY WaitTypes DEF CoolInv
<1>4. j.kind = "open" => Cooldown <= sinceResolved[t] + MaxLatency
  <2>1. CASE j = job[e][t]
    BY <1>3, <2>1 DEF Waits
  <2>2. CASE j = Ask("open", NoAlert) /\ s.openAlertId = NoAlert /\ s.cooling = 0
    <3>1. Cooldown <= 0 + sinceResolved[t] + MaxLatency
      BY <1>1, <1>3, <2>2 DEF Waits
    <3> QED BY <1>3, <3>1
  <2>3. CASE j = Ask("close", s.openAlertId)
    BY <2>3 DEF Ask
  <2> QED BY <1>1, <2>1, <2>2, <2>3
<1>5. s.openAlertId = NoAlert => Cooldown <= s.cooling + sinceResolved[t] + MaxLatency
  BY <1>1, <1>3 DEF Waits
<1>6. \A f \in Engines, u \in Targets : Waits(f, u)'
  BY <1>1, <1>2, <1>4, <1>5, WaitElsewhere
<1> QED BY <1>2, <1>6 DEF CoolInv, Watched

LEMMA JobWaits ==
    ASSUME CoolInv, Alone, NEW e \in Engines, NEW t \in Targets,
           Job(e, t) \/ TransactionFails(e, t) \/ AnswerLost(e, t)
    PROVE  Watched' /\ \A f \in Engines, u \in Targets : Waits(f, u)'
PROOF
<1>1. UNCHANGED <<configured, targets>>
  BY DEF Job, openAlert, OpenAnswered, resolveAlert, CloseAnswered, TransactionFails, AnswerLost, world
<1>2. Watched'
  BY <1>1 DEF CoolInv, Watched
<1>3. /\ TypeInv /\ Waits(e, t) /\ sinceResolved[t] \in Nat /\ MaxLatency \in Nat /\ Cooldown \in Nat
      /\ targetState = [targetState EXCEPT ![e][t] = targetState[e][t]]
      /\ NoJob.kind = "none"
  BY WaitTypes, SameEntry, Constants DEF CoolInv
<1>4. job[e][t] # NoJob => t \in configured
  BY <1>3 DEF Waits
<1>5. CASE openAlert(e, t)
  <2>1. PICK j \in Jobs :
             /\ job' = [job EXCEPT ![e][t] = j]
             /\ job[e][t] # NoJob /\ job[e][t].kind = "open"
             /\ ~ job[e][t].answered
             /\ j.kind = "open" /\ j.answered
             /\ \/ /\ LiveOn(t) = {} /\ j.alert \in NewIds
                   /\ alerts' = [alerts EXCEPT ![j.alert] =
                                   [state |-> "open", target |-> t]]
                \/ /\ LiveOn(t) # {} /\ j.alert = job[e][t].alert
                   /\ UNCHANGED alerts
             /\ UNCHANGED <<sinceResolved, world, phase, targets, targetState,
                            reads, faults>>
    BY <1>3, <1>5, OpenFacts
  <2>2. targetState' = [targetState EXCEPT ![e][t] = targetState[e][t]] /\ UNCHANGED <<sinceResolved, configured>>
    BY <1>1, <1>3, <2>1
  <2> QED BY <1>2, <1>3, <1>4, <2>1, <2>2, WaitElsewhere DEF Waits
<1>6. CASE OpenAnswered(e, t)
  <2>1. PICK s \in Entries :
             /\ targetState' = [targetState EXCEPT ![e][t] = s]
             /\ job' = [job EXCEPT ![e][t] = NoJob]
             /\ job[e][t].kind = "open" /\ job[e][t] # NoJob
             /\ job[e][t].alert # NoAlert /\ targetState[e][t].tracked =>
                  s.openAlertId = job[e][t].alert
             /\ job[e][t].alert = NoAlert \/ ~ targetState[e][t].tracked =>
                  s = targetState[e][t]
             /\ UNCHANGED <<db, world, phase, targets, reads, faults>>
    BY <1>3, <1>6, OpenAnsweredFacts
  <2>2. s.openAlertId = NoAlert => Cooldown <= s.cooling + sinceResolved[t] + MaxLatency
    BY <1>3, <2>1 DEF Waits
  <2>3. UNCHANGED <<sinceResolved, configured>>
    BY <1>1, <2>1 DEF db
  <2> QED BY <1>2, <1>3, <1>4, <2>1, <2>2, <2>3, WaitElsewhere
<1>7. CASE CloseAnswered(e, t)
  <2>1. PICK s \in Entries :
             /\ targetState' = [targetState EXCEPT ![e][t] = s]
             /\ job' = [job EXCEPT ![e][t] = NoJob]
             /\ Cooldown <= s.cooling + MaxLatency
             /\ job[e][t] # NoJob
             /\ UNCHANGED <<db, world, phase, targets, reads, faults>>
    BY <1>3, <1>7, CloseAnsweredFacts
  <2>2. Cooldown <= s.cooling + sinceResolved[t] + MaxLatency
    <3>1. s.cooling \in 0..Cooldown
      BY <2>1 DEF Entries
    <3> QED BY <1>3, <2>1, <3>1
  <2>3. UNCHANGED <<sinceResolved, configured>>
    BY <1>1, <2>1 DEF db
  <2> QED BY <1>2, <1>3, <1>4, <2>1, <2>2, <2>3, WaitElsewhere
<1>8. CASE TransactionFails(e, t) \/ AnswerLost(e, t)
  <2>1. job' = [job EXCEPT ![e][t] = NoJob] /\ UNCHANGED <<sinceResolved, targetState>>
    BY <1>8 DEF TransactionFails, AnswerLost, db
  <2>2. job[e][t] # NoJob
    BY <1>8, Constants DEF TransactionFails, AnswerLost, NoJob, Ask
  <2>3. targetState' = [targetState EXCEPT ![e][t] = targetState[e][t]]
    BY <1>3, <2>1
  <2> QED BY <1>1, <1>2, <1>3, <1>4, <2>1, <2>2, <2>3, WaitElsewhere DEF Waits
<1>9. CASE resolveAlert(e, t)
  <2>1. PICK j \in Jobs :
             /\ job' = [job EXCEPT ![e][t] = j]
             /\ job[e][t].kind = "close" /\ job[e][t] # NoJob
             /\ j.kind = "close" /\ j.answered /\ j.alert = job[e][t].alert
             /\ j.alert \in Alerts
             /\ \/ /\ alerts' = [alerts EXCEPT ![j.alert].state = "resolved"]
                   /\ sinceResolved' = [sinceResolved EXCEPT ![t] = 0]
                \/ /\ alerts[j.alert].state \notin LiveStates
                   /\ UNCHANGED db
             /\ UNCHANGED <<world, phase, targets, targetState, reads, faults>>
    BY <1>3, <1>9, ResolveFacts
  <2>2. targetState[e][t].openAlertId # NoAlert
    BY <1>3, <2>1, SameEntry
  <2>3. ASSUME NEW f \in Engines, NEW u \in Targets PROVE Waits(f, u)'
    <3>1. f = e
      BY DEF Alone
    <3>2. job \in [Engines -> [Targets -> Jobs]] /\ sinceResolved \in [Targets -> 0..Cooldown]
      BY <1>3 DEF TypeInv, TypeOK
    <3>3. CASE u = t
      <4>1. job'[e][t] = j
        BY <2>1, <3>2
      <4> QED BY <1>1, <1>4, <2>1, <2>2, <3>1, <3>3, <4>1 DEF Waits
    <3>4. CASE u # t
      <4>1. job'[e][u] = job[e][u] /\ sinceResolved'[u] = sinceResolved[u]
        BY <2>1, <3>2, <3>4 DEF db
      <4>2. Waits(e, u)
        BY DEF CoolInv
      <4> QED BY <1>1, <2>1, <3>1, <4>1, <4>2 DEF Waits
    <3> QED BY <3>3, <3>4
  <2> QED BY <1>2, <2>3
<1> QED BY <1>5, <1>6, <1>7, <1>8, <1>9 DEF Job

LEMMA LifeWaits ==
    ASSUME CoolInv, Steady, NEW e \in Engines,
           \/ RefreshRead(e) \/ (\E r \in Configurations : refresh(e, r))
           \/ start(e) \/ loadLiveAlerts(e) \/ StartTimers(e)
    PROVE  Watched' /\ \A f \in Engines, u \in Targets : Waits(f, u)'
PROOF
<1>1. /\ targetState \in [Engines -> [Targets -> Entries]]
      /\ targets \in [Engines -> SUBSET Targets] /\ configured \in Configurations
      /\ \A f \in Engines, u \in Targets : Waits(f, u)
  BY DEF CoolInv, TypeInv, TypeOK
<1>2. UNCHANGED <<sinceResolved, configured, job>>
  BY DEF RefreshRead, refresh, start, loadLiveAlerts, StartTimers, db, world
<1>3. CASE RefreshRead(e) \/ start(e) \/ StartTimers(e)
  <2>1. UNCHANGED <<targets, targetState>>
    BY <1>3 DEF RefreshRead, start, StartTimers
  <2> QED BY <1>1, <1>2, <2>1 DEF CoolInv, Watched, Waits
<1>4. ASSUME NEW r \in Configurations, refresh(e, r)
      PROVE  Watched' /\ \A f \in Engines, u \in Targets : Waits(f, u)'
  <2>1. r = configured
    BY <1>1 DEF Steady
  <2>2. /\ targets' = [targets EXCEPT ![e] = r]
        /\ targetState' = [targetState EXCEPT ![e] = KeptEntries(e, r)]
    BY <1>4 DEF refresh
  <2>3. Watched'
    BY <1>1, <1>2, <2>1, <2>2 DEF CoolInv, Watched
  <2>4. ASSUME NEW f \in Engines, NEW u \in Targets PROVE Waits(f, u)'
    <3>1. CASE targetState'[f][u] = targetState[f][u]
      BY <1>1, <1>2, <3>1 DEF Waits
    <3>2. CASE targetState'[f][u] # targetState[f][u]
      <4>1. u \notin configured /\ targetState[f][u].openAlertId = NoAlert /\ targetState'[f][u] = NoEntry
        BY <1>1, <2>1, <2>2, <3>2 DEF KeptEntries
      <4>2. NoEntry.cooling = 0 /\ NoEntry.openAlertId = NoAlert
        BY DEF NoEntry
      <4> QED BY <1>1, <1>2, <4>1, <4>2 DEF Waits
    <3> QED BY <3>1, <3>2
  <2> QED BY <2>3, <2>4
<1>5. CASE loadLiveAlerts(e)
  <2> DEFINE S == [t \in Targets |->
                     IF LiveOn(t) = {} THEN targetState[e][t]
                     ELSE Naming(CHOOSE a \in LiveOn(t) : TRUE)]
  <2>1. targetState' = [targetState EXCEPT ![e] = S] /\ UNCHANGED targets
    BY <1>5 DEF loadLiveAlerts
  <2>2. ASSUME NEW u \in Targets
        PROVE  S[u] = targetState[e][u] \/ (S[u].openAlertId # NoAlert /\ S[u].cooling = 0)
    <3>1. CASE LiveOn(u) = {}
      BY <3>1
    <3>2. CASE LiveOn(u) # {}
      <4>1. PICK a : a = CHOOSE x \in LiveOn(u) : TRUE
        OBVIOUS
      <4>2. a \in Alerts
        BY <3>2, <4>1 DEF LiveOn
      <4>3. S[u] = Naming(a)
        BY <3>2, <4>1
      <4> HIDE DEF S
      <4> QED BY <4>2, <4>3, EngineAssumption DEF Naming
    <3> QED BY <3>1, <3>2
  <2> HIDE DEF S
  <2>3. ASSUME NEW f \in Engines, NEW u \in Targets PROVE Waits(f, u)'
    <3>1. targetState'[f][u] = targetState[f][u] \/ (targetState'[f][u].openAlertId # NoAlert /\ targetState'[f][u].cooling = 0)
      BY <1>1, <2>1, <2>2
    <3> QED BY <1>1, <1>2, <3>1 DEF Waits
  <2> QED BY <1>1, <1>2, <2>1, <2>3 DEF CoolInv, Watched
<1> QED BY <1>3, <1>4, <1>5

LEMMA WorldWaits ==
    ASSUME CoolInv, Steady,
           \/ \E a \in Alerts : acknowledgeAlert(a)
           \/ \E t \in Targets : ConditionChanges(t)
           \/ Reconfigure \/ Tick \/ UNCHANGED vars
    PROVE  Watched' /\ \A f \in Engines, u \in Targets : Waits(f, u)'
PROOF
<1>1. TypeInv /\ configured \in Configurations /\ \A f \in Engines, u \in Targets : Waits(f, u)
  BY DEF CoolInv, TypeInv, TypeOK
<1>2. UNCHANGED <<configured, targets>>
  <2>1. CASE Reconfigure
    BY <1>1, <2>1 DEF Reconfigure, Steady
  <2>2. CASE ~ Reconfigure
    BY <2>2 DEF acknowledgeAlert, ConditionChanges, Tick, vars, world
  <2> QED BY <2>1, <2>2
<1>3. Watched'
  BY <1>2 DEF CoolInv, Watched
<1>4. CASE ~ Tick
  <2>1. UNCHANGED <<sinceResolved, targetState, job>>
    BY <1>4 DEF acknowledgeAlert, ConditionChanges, Reconfigure, vars, db
  <2> QED BY <1>1, <1>2, <1>3, <2>1 DEF Waits
<1>5. CASE Tick
  <2>1. ASSUME NEW f \in Engines, NEW u \in Targets PROVE Waits(f, u)'
    <3>1. PICK s : s = targetState[f][u] /\ s \in Entries
      BY <1>1, SameEntry
    <3>2. PICK k : k = job[f][u] /\ k \in Jobs
      BY <1>1, SameEntry
    <3>3. targetState'[f][u] = [s EXCEPT !.cooling = IF s.cooling > 0 THEN s.cooling - 1 ELSE 0]
      BY <1>5, <3>1 DEF Tick
    <3>4. job'[f][u] = (IF k = NoJob THEN NoJob ELSE [k EXCEPT !.age = k.age + 1])
      BY <1>5, <3>2 DEF Tick
    <3>5. job'[f][u].kind = k.kind /\ (k = NoJob => job'[f][u] = NoJob)
      <4>1. CASE k = NoJob
        BY <3>4, <4>1
      <4>2. CASE k # NoJob
        <5>1. k \in [kind : {"open", "close"}, answered : BOOLEAN,
                     alert : Alerts \cup {NoAlert}, age : 0..MaxLatency]
          BY <3>2, <4>2 DEF Jobs
        <5> QED BY <3>4, <4>2, <5>1
      <4> QED BY <4>1, <4>2
    <3>6. PICK c : c = s.cooling
      OBVIOUS
    <3>7. PICK d : d = sinceResolved[u]
      OBVIOUS
    <3>8. c \in Nat /\ d \in Nat /\ d <= Cooldown /\ Cooldown \in Nat /\ MaxLatency \in Nat
      BY <1>1, <3>1, <3>6, <3>7, WaitTypes
    <3>9. /\ targetState'[f][u].openAlertId = s.openAlertId
          /\ targetState'[f][u].cooling = (IF c > 0 THEN c - 1 ELSE 0)
      BY <3>1, <3>3, <3>6 DEF Entries
    <3>10. sinceResolved'[u] = (IF d < Cooldown THEN d + 1 ELSE d)
      BY <1>5, <3>7 DEF Tick
    <3>11. /\ s.openAlertId = NoAlert => Cooldown <= c + d + MaxLatency
           /\ k.kind = "open" => Cooldown <= d + MaxLatency
           /\ u \notin configured => c = 0 /\ k = NoJob
      BY <1>1, <3>1, <3>2, <3>6, <3>7 DEF Waits
    <3>12. PICK c2 : c2 = IF c > 0 THEN c - 1 ELSE 0
      OBVIOUS
    <3>13. PICK d2 : d2 = IF d < Cooldown THEN d + 1 ELSE d
      OBVIOUS
    <3>14. /\ Cooldown <= c + d + MaxLatency => Cooldown <= c2 + d2 + MaxLatency
           /\ Cooldown <= d + MaxLatency => Cooldown <= d2 + MaxLatency
           /\ c = 0 => c2 = 0
      BY <3>8, <3>12, <3>13
    <3> QED BY <1>2, <3>5, <3>9, <3>10, <3>11, <3>12, <3>13, <3>14 DEF Waits
  <2> QED BY <1>3, <2>1
<1> QED BY <1>4, <1>5

(* Only openAlert's transaction gives a target a live alert.               *)
LEMMA OpensLive ==
    ASSUME CoolInv, [Next]_vars, NEW u \in Targets, LiveOn(u) = {}, LiveOn(u)' # {}
    PROVE  \E e \in Engines : job[e][u].kind = "open"
PROOF
<1>1. TypeInv /\ alerts \in [Alerts -> [state : LiveStates \cup {"none", "resolved"}, target : Targets]]
  BY DEF CoolInv, TypeInv, TypeOK
<1>2. PICK a \in Alerts : alerts'[a].target = u /\ alerts'[a].state \in LiveStates
                          /\ ~ (alerts[a].target = u /\ alerts[a].state \in LiveStates)
  BY DEF LiveOn
<1>3. alerts' # alerts
  BY <1>2
<1>4. ASSUME NEW e \in Engines, NEW t \in Targets, openAlert(e, t) PROVE \E f \in Engines : job[f][u].kind = "open"
  <2>1. PICK b \in NewIds : alerts' = [alerts EXCEPT ![b] = [state |-> "open", target |-> t]]
    BY <1>3, <1>4 DEF openAlert
  <2>2. a = b
    BY <1>1, <1>2, <2>1
  <2>3. b \in Alerts
    BY DEF NewIds
  <2>4. alerts'[a].target = t
    BY <1>1, <2>1, <2>2, <2>3
  <2> QED BY <1>2, <1>4, <2>4 DEF openAlert
<1>5. ASSUME NEW e \in Engines, NEW t \in Targets, resolveAlert(e, t) PROVE FALSE
  <2>1. PICK b \in Alerts : alerts' = [alerts EXCEPT ![b].state = "resolved"]
    BY <1>1, <1>3, <1>5, SameEntry DEF resolveAlert, db
  <2>2. alerts'[b].state = "resolved" /\ \A x \in Alerts : x # b => alerts'[x] = alerts[x]
    BY <1>1, <2>1
  <2> QED BY <1>2, <2>2 DEF LiveStates
<1>6. ASSUME NEW b \in Alerts, acknowledgeAlert(b) PROVE FALSE
  <2>1. /\ alerts[b].state = "open" /\ alerts'[b].target = alerts[b].target
        /\ \A x \in Alerts : x # b => alerts'[x] = alerts[x]
    BY <1>1, <1>6 DEF acknowledgeAlert
  <2> QED BY <1>2, <2>1 DEF LiveStates
<1>7. ASSUME NEW e \in Engines, NEW t \in Targets,
             \/ Evaluate(e, t) \/ OpenAnswered(e, t) \/ CloseAnswered(e, t)
             \/ TransactionFails(e, t) \/ AnswerLost(e, t)
      PROVE  FALSE
  BY <1>3, <1>7 DEF Evaluate, EvaluateBreach, EvaluateClear, OpenAnswered,
              CloseAnswered, TransactionFails, AnswerLost, db
<1>8. ASSUME NEW e \in Engines,
             \/ RefreshRead(e) \/ (\E r \in Configurations : refresh(e, r))
             \/ start(e) \/ loadLiveAlerts(e) \/ StartTimers(e) \/ Crash(e)
      PROVE  FALSE
  BY <1>3, <1>8 DEF RefreshRead, refresh, start, loadLiveAlerts, StartTimers, Crash, db
<1>9. ASSUME (\E t \in Targets : ConditionChanges(t)) \/ Reconfigure \/ Tick
             \/ UNCHANGED vars
      PROVE  FALSE
  BY <1>3, <1>9 DEF ConditionChanges, Reconfigure, Tick, vars, db
<1> QED BY <1>4, <1>5, <1>6, <1>7, <1>8, <1>9 DEF Next, Job

(***************************************************************************)
(* One engine that does not restart, under rules that do not change, keeps *)
(* the cooldown between a target's alerts, up to the time a transaction    *)
(* takes, however transactions roll back, answers are lost and refreshes   *)
(* overlap.  The hypotheses are needed: another replica's resolution, a    *)
(* restart and a rule disabled and enabled again each forget the cooldown  *)
(* (#open, #close and refresh in rules/index.ts).                          *)
(***************************************************************************)
THEOREM CooldownIsKept ==
    ASSUME Alone, Steady, "crash" \notin Faults
    PROVE  Spec => CooldownHolds
PROOF
<1>1. Init => CoolInv
  <2> SUFFICES ASSUME Init PROVE CoolInv
    OBVIOUS
  <2>1. TypeInv /\ Watched
    BY TypeInit DEF Init, Watched
  <2>2. ASSUME NEW e \in Engines, NEW t \in Targets PROVE Waits(e, t)
    <3>1. /\ targetState[e][t] = NoEntry /\ job[e][t] = NoJob /\ sinceResolved[t] = Cooldown
          /\ NoEntry.cooling = 0 /\ NoJob.kind = "none"
      BY DEF Init, NoEntry, NoJob, Ask
    <3>2. Cooldown <= 0 + Cooldown + MaxLatency
      BY EngineAssumption
    <3> QED BY <3>1, <3>2 DEF Waits
  <2> QED BY <2>1, <2>2 DEF CoolInv
<1>2. CoolInv /\ [Next]_vars => CoolInv'
  <2> SUFFICES ASSUME CoolInv, [Next]_vars PROVE CoolInv'
    OBVIOUS
  <2>1. TypeInv'
    BY TypeStep DEF CoolInv
  <2>2. ASSUME NEW e \in Engines PROVE ~ Crash(e)
    BY DEF Crash, Fault
  <2>3. Watched' /\ \A f \in Engines, u \in Targets : Waits(f, u)'
    BY <2>2, EvaluateWaits, JobWaits, LifeWaits, WorldWaits DEF Next
  <2> QED BY <2>1, <2>3 DEF CoolInv
<1>3. CoolInv /\ [Next]_vars => CooldownKept
  <2> SUFFICES ASSUME CoolInv, [Next]_vars, NEW t \in Targets, LiveOn(t) = {}, LiveOn(t)' # {}
               PROVE  sinceResolved[t] + MaxLatency >= Cooldown
    BY DEF CooldownKept
  <2>1. PICK e \in Engines : job[e][t].kind = "open"
    BY OpensLive
  <2>2. Cooldown <= sinceResolved[t] + MaxLatency
    BY <2>1 DEF CoolInv, Waits
  <2>3. sinceResolved[t] \in Nat /\ MaxLatency \in Nat /\ Cooldown \in Nat
    BY WaitTypes DEF CoolInv
  <2> QED BY <2>2, <2>3
<1>4. CoolInv /\ [Next]_vars => [CooldownKept]_vars
  BY <1>3
<1> QED BY <1>1, <1>2, <1>4, PTL DEF Spec, CooldownHolds
=============================================================================
