---------------------- MODULE SupervisoryControl_proofs ----------------------
(***************************************************************************)
(* Proofs about SupervisoryControl, for any number of zones, people,       *)
(* gateways and commands, any settings, any bound on time and on failures: *)
(* types, the single override, the rows and the life of a command, and the *)
(* envelope, first the check alone and then every command that passed it.  *)
(***************************************************************************)
EXTENDS SupervisoryControl, EnvelopeCheck, FiniteSetTheorems, WellFoundedInduction, TLAPS

(* A non-empty set of naturals that has a bound has a largest element.     *)
LEMMA MaxExists ==
    ASSUME NEW n \in Nat, NEW T, T \subseteq 0 .. n, T # {}
    PROVE  \E x \in T : \A y \in T : y <= x
PROOF
<1> DEFINE Above(t) == (t + 1) .. n
           F == {Above(t) : t \in T}
           R == StrictSubsetOrdering(0 .. n)
<1>1. IsFiniteSet(0 .. n)
  BY FS_Interval
<1>2. IsWellFoundedOn(R, SUBSET (0 .. n))
  <2>1. IsWellFoundedOn(R, FiniteSubsetsOf(0 .. n))
    BY FS_StrictSubsetOrderingWellFounded
  <2> QED BY <1>1, <2>1, FS_FiniteSubsetsOfFinite
<1>3. F \subseteq SUBSET (0 .. n) /\ F # {}
  <2>1. ASSUME NEW t \in T PROVE Above(t) \in SUBSET (0 .. n)
    OBVIOUS
  <2>2. PICK t \in T : TRUE
    OBVIOUS
  <2>3. Above(t) \in F
    BY <2>2
  <2> HIDE DEF Above
  <2> QED BY <2>1, <2>3
<1> HIDE DEF F, R
<1>4. PICK X \in F : \A Y \in F : <<Y, X>> \notin R
  BY <1>2, <1>3, WFMin
<1>5. PICK x \in T : X = Above(x)
  BY <1>4 DEF F
<1>6. ASSUME NEW y \in T PROVE y <= x
  <2>1. SUFFICES ASSUME y > x PROVE FALSE
    OBVIOUS
  <2>2. Above(y) \in F
    BY DEF F
  <2>3. Above(y) \subseteq Above(x) /\ y \in Above(x) /\ y \notin Above(y)
    BY <2>1
  <2>4. <<Above(y), X>> \in R
    <3>1. Above(y) \in SUBSET (0 .. n) /\ X \in SUBSET (0 .. n)
      BY <1>5
    <3>2. Above(y) # X
      BY <2>3, <1>5
    <3> HIDE DEF Above
    <3> QED BY <3>1, <3>2, <2>3, <1>5 DEF R, StrictSubsetOrdering
  <2> QED BY <2>2, <2>4, <1>4
<1> QED BY <1>6

-----------------------------------------------------------------------------
(* No command was requested in the future.                                 *)
RequestedInThePast == \A c \in Commands : cmd[c].requestedAt <= clock

TypeInv == TypeOK /\ RequestedInThePast /\ OneActiveOverride

(* The rate limiter's reading of a zone (loadZoneContext, recent) is a     *)
(* time or absent: among finitely many request times one is the latest,    *)
(* because none lies in the future.                                        *)
LEMMA LastCommandType ==
    ASSUME TypeOK, RequestedInThePast, NEW z \in Zones
    PROVE  /\ lastCommandAt(z) \in Nat \cup {Null}
           /\ RowsOf(z) # {} => /\ lastCommandAt(z) # Null
                               /\ \A c \in RowsOf(z) : cmd[c].requestedAt <= lastCommandAt(z)
PROOF
<1>1. CASE RowsOf(z) = {}
  BY <1>1 DEF lastCommandAt
<1>2. CASE RowsOf(z) # {}
  <2> DEFINE at(c) == cmd[c].requestedAt
             T == {at(c) : c \in RowsOf(z)}
  <2>1. RowsOf(z) \subseteq Commands
    BY DEF RowsOf
  <2>2. ASSUME NEW c \in Commands PROVE at(c) \in 0 .. clock
    BY DEF TypeOK, Rows, RequestedInThePast
  <2>3. T \subseteq 0 .. clock /\ T # {}
    BY <2>1, <2>2, <1>2
  <2>4. clock \in Nat
    BY DEF TypeOK
  <2> HIDE DEF T
  <2>5. PICK t \in T : \A y \in T : y <= t
    BY <2>3, <2>4, MaxExists
  <2>6. PICK m \in RowsOf(z) : at(m) = t
    BY <2>5 DEF T
  <2>7. \A d \in RowsOf(z) : at(d) <= at(m)
    BY <2>5, <2>6 DEF T
  <2>8. Latest(RowsOf(z), at) \in RowsOf(z)
    BY <2>6, <2>7 DEF Latest
  <2>9. lastCommandAt(z) = at(Latest(RowsOf(z), at))
    BY <1>2 DEF lastCommandAt
  <2>10. at(Latest(RowsOf(z), at)) \in Nat
    BY <2>8, <2>1, <2>2
  <2>11. \A d \in RowsOf(z) : at(d) <= at(Latest(RowsOf(z), at))
    BY <2>6, <2>7 DEF Latest
  <2>12. lastCommandAt(z) \in Nat /\ lastCommandAt(z) # Null
    BY <2>9, <2>10, NullAssumption
  <2>13. \A d \in RowsOf(z) : cmd[d].requestedAt <= lastCommandAt(z)
    BY <2>9, <2>11
  <2> QED BY <2>12, <2>13
<1> QED BY <1>1, <1>2

(* The override a handler reads (loadZoneContext, override) is a setpoint  *)
(* or absent: with at most one in force, the latest is that one.           *)
LEMMA ActiveOverrideType ==
    ASSUME TypeOK, OneActiveOverride, NEW z \in Zones
    PROVE  activeOverrideTempC(z) \in Int \cup {Null}
PROOF
<1>1. CASE activeOverrides(z) = {}
  BY <1>1 DEF activeOverrideTempC
<1>2. CASE activeOverrides(z) # {}
  <2> DEFINE until(c) == cmd[c].effectiveUntil
  <2>1. PICK m \in activeOverrides(z) : TRUE
    BY <1>2
  <2>2. activeOverrides(z) \subseteq Commands
    BY DEF activeOverrides, RowsOf
  <2>3. \A d \in activeOverrides(z) : until(d) <= until(m)
    BY <2>1, <2>2 DEF OneActiveOverride, TypeOK, Rows
  <2>4. Latest(activeOverrides(z), until) \in activeOverrides(z)
    BY <2>1, <2>3 DEF Latest
  <2>5. activeOverrideTempC(z)
          = cmd[Latest(activeOverrides(z), until)].setpointTempC
    BY <1>2 DEF activeOverrideTempC
  <2>6. cmd[Latest(activeOverrides(z), until)].setpointTempC \in Int
    BY <2>4, <2>2 DEF TypeOK, Rows
  <2> QED BY <2>5, <2>6
<1> QED BY <1>1, <1>2

(* What a handler reads about a zone is a well-formed context.             *)
LEMMA ZoneContextType ==
    ASSUME TypeInv, NEW z \in Zones
    PROVE  loadZoneContext(z) \in ZoneContexts
PROOF
<1>1. lastCommandAt(z) \in Nat \cup {Null}
  BY LastCommandType DEF TypeInv
<1>2. activeOverrideTempC(z) \in Int \cup {Null}
  BY ActiveOverrideType DEF TypeInv
<1>3. /\ baseline[z] \in Int \cup {Null}
      /\ equipment[z] \in SUBSET EquipmentStatuses
      /\ feedback[z] \in Feedback \cup {Null}
  BY DEF TypeInv, TypeOK
<1>4. (\E c \in RowsOf(z) : cmd[c].state \in Live) \in BOOLEAN
  OBVIOUS
<1> QED BY <1>1, <1>2, <1>3, <1>4 DEF loadZoneContext, ZoneContexts
-----------------------------------------------------------------------------
(* A step that applies nothing leaves at most one override in force.       *)
LEMMA NothingApplied ==
    ASSUME OneActiveOverride, TypeOK, TypeOK', clock <= clock',
           \A c \in Commands : cmd'[c].state = "applied" =>
               /\ cmd[c].state = "applied"
               /\ cmd'[c].zone = cmd[c].zone
               /\ cmd'[c].effectiveUntil = cmd[c].effectiveUntil
    PROVE  OneActiveOverride'
PROOF
<1> SUFFICES ASSUME NEW z \in Zones,
                    NEW c \in activeOverrides(z)', NEW d \in activeOverrides(z)'
             PROVE  c = d
  BY DEF OneActiveOverride
<1>1. c \in activeOverrides(z) /\ d \in activeOverrides(z)
  BY DEF activeOverrides, RowsOf, TypeOK, Rows
<1> QED BY <1>1 DEF OneActiveOverride

(* Neither does one that moves no row and no clock disturb anything the    *)
(* invariant says of the rows.                                             *)
LEMMA RowsUntouched ==
    ASSUME TypeInv, TypeOK', UNCHANGED <<clock, cmd>>
    PROVE  TypeInv'
PROOF
<1>1. OneActiveOverride'
  BY NothingApplied DEF TypeInv, TypeOK
<1>2. RequestedInThePast'
  BY DEF TypeInv, RequestedInThePast
<1> QED BY <1>1, <1>2 DEF TypeInv

(* The invariant holds of every state the system starts in.                *)
LEMMA TypeInit == Init => TypeInv
PROOF
<1> SUFFICES ASSUME Init PROVE TypeInv
  OBVIOUS
<1>1. IdleOp \in Ops
  BY DEF IdleOp, Ops
<1>2. IdlePoll \in Polls
  BY DEF IdlePoll, Polls
<1>3. NoRow \in Rows
  BY DEF NoRow, Rows, States
<1>4. TypeOK
  <2>1. [Zones -> [ts : {0}, quality : QualitySpace] \cup {Null}]
          \subseteq [Zones -> Feedback \cup {Null}]
    <3>0. QualitySpace \subseteq {"good", "bad"}
      BY ControlAssumption
    <3>1. ASSUME NEW r \in [ts : {0}, quality : QualitySpace]
          PROVE  r \in Feedback
      <4>1. r = [ts |-> r.ts, quality |-> r.quality]
        OBVIOUS
      <4>2. r.ts = 0 /\ r.quality \in QualitySpace
        OBVIOUS
      <4>3. r.quality \in {"good", "bad"}
        BY <3>0, <4>2, Zenon
      <4> QED BY <4>1, <4>2, <4>3 DEF Feedback
    <3> QED BY <3>1
  <2>2. feedback \in [Zones -> Feedback \cup {Null}]
    BY <2>1 DEF Init
  <2>3. \A u \in Users : op[u].pc = "idle"
    BY DEF Init, IdleOp
  <2>4. \A g \in Gateways : poll[g].pc = "idle" /\ poll[g].queue = {}
    BY DEF Init, IdlePoll
  <2>5. \A c \in Commands : cmd[c].state = "none"
    BY DEF Init, NoRow
  <2>6. /\ settings \in Settings
        /\ role \in [Users -> Roles \cup {Null}]
        /\ baseline \in [Zones -> Int \cup {Null}]
        /\ equipment \in [Zones -> SUBSET EquipmentStatuses]
    BY ControlAssumption DEF Init
  <2>7. /\ clock \in Nat /\ faults \in Nat
        /\ cmd \in [Commands -> Rows] /\ op \in [Users -> Ops]
        /\ poll \in [Gateways -> Polls]
        /\ held \in [Gateways -> SUBSET Commands]
        /\ written \in SUBSET Commands
    BY <1>1, <1>2, <1>3 DEF Init
  <2> QED BY <2>2, <2>3, <2>4, <2>5, <2>6, <2>7 DEF TypeOK
<1>5. RequestedInThePast
  BY DEF Init, RequestedInThePast, NoRow
<1>6. OneActiveOverride
  BY DEF Init, OneActiveOverride, activeOverrides, RowsOf, NoRow
<1> QED BY <1>4, <1>5, <1>6 DEF TypeInv

(* A request handler's steps, those that leave the rows alone.             *)
LEMMA OperatorType ==
    ASSUME TypeInv, NEW u \in Users,
           \/ IssueStart(u) \/ IssueSettings(u) \/ IssueZone(u)
           \/ IssueJudge(u) \/ CancelStart(u) \/ SettingsStart(u)
           \/ updateSettings(u)
    PROVE  TypeInv'
PROOF
<1> USE DEF TypeInv
<1>0. TypeOK /\ op[u] \in Ops /\ IdleOp \in Ops
  BY DEF TypeOK, IdleOp, Ops
<1>1. CASE IssueStart(u)
  <2>1. PICK z \in Zones :
          op' = [op EXCEPT ![u] = [IdleOp EXCEPT !.pc = "loading", !.zone = z,
                                                !.role = role[u]]]
    BY <1>1 DEF IssueStart
  <2>2. role[u] \in Roles
    BY <1>1, <1>0 DEF IssueStart, TypeOK
  <2>3. TypeOK'
    BY <1>1, <1>0, <2>1, <2>2, ZenonT(60) DEF IssueStart, TypeOK, IdleOp, Ops, world
  <2> QED BY <1>1, <2>3, RowsUntouched DEF IssueStart
<1>2. CASE IssueSettings(u)
  <2>1. TypeOK'
    BY <1>2, <1>0 DEF IssueSettings, TypeOK, Ops, world
  <2> QED BY <1>2, <2>1, RowsUntouched DEF IssueSettings
<1>3. CASE IssueZone(u)
  <2>1. op[u].zone \in Zones
    BY <1>3, <1>0 DEF IssueZone, TypeOK
  <2>2. loadZoneContext(op[u].zone) \in ZoneContexts
    BY <2>1, ZoneContextType
  <2>3. TypeOK'
    BY <1>3, <1>0, <2>2 DEF IssueZone, TypeOK, Ops, world
  <2> QED BY <1>3, <2>3, RowsUntouched DEF IssueZone
<1>4. CASE IssueJudge(u)
  <2>1. \E t \in Temps, e \in Int, f \in Int :
          op' = [op EXCEPT ![u] =
                   [IdleOp EXCEPT !.pc = "inserting", !.zone = op[u].zone,
                      !.setpointTempC = t, !.expiresAt = e,
                      !.effectiveUntil = f]]
        \/ op' = [op EXCEPT ![u] = IdleOp]
    <3>1. PICK t \in Temps, d \in Durations, dryRun \in BOOLEAN :
           LET s == IF op[u].settings # Null THEN op[u].settings ELSE settings
               z == IF op[u].ctx # Null THEN op[u].ctx
                                       ELSE loadZoneContext(op[u].zone)
               v == evaluate([setpointTempC |-> t, durationS |-> d],
                             s, op[u].role, z, clock)
           IN  op' = [op EXCEPT ![u] =
                        IF v.ok /\ ~ dryRun
                        THEN [IdleOp EXCEPT !.pc = "inserting",
                                !.zone = op[u].zone, !.setpointTempC = t,
                                !.expiresAt = v.expiresAt,
                                !.effectiveUntil = v.effectiveUntil]
                        ELSE IdleOp]
      BY <1>4 DEF IssueJudge
    <3> DEFINE s == IF op[u].settings # Null THEN op[u].settings ELSE settings
               z == IF op[u].ctx # Null THEN op[u].ctx
                                       ELSE loadZoneContext(op[u].zone)
               q == [setpointTempC |-> t, durationS |-> d]
               v == evaluate(q, s, op[u].role, z, clock)
    <3>2. s \in Settings
      BY <1>0 DEF TypeOK, Ops
    <3>3. v.expiresAt = clock + s.commandTtlS
          /\ v.effectiveUntil = clock + durationOf(q, s)
      BY DEF evaluate
    <3>4. clock \in Nat /\ s.commandTtlS \in Int /\ durationOf(q, s) \in Int
      BY <1>0, <3>2, ControlAssumption DEF TypeOK, Settings, durationOf
    <3>5. v.expiresAt \in Int /\ v.effectiveUntil \in Int
      BY <3>3, <3>4, SMTT(30)
    <3> HIDE DEF s, z, q, v
    <3> QED BY <3>1, <3>5, ZenonT(60) DEF s, z, q, v
  <2>2. op[u].zone \in Zones
    BY <1>4, <1>0 DEF IssueJudge, TypeOK
  <2>3. Temps \subseteq Int
    BY ControlAssumption
  <2>4. PICK o \in Ops : /\ op' = [op EXCEPT ![u] = o]
                         /\ o.pc \in {"idle", "inserting"}
                         /\ o.pc = "inserting" => o.zone \in Zones
    <3>1. CASE op' = [op EXCEPT ![u] = IdleOp]
      BY <3>1, <1>0 DEF IdleOp
    <3>2. CASE ~ (op' = [op EXCEPT ![u] = IdleOp])
      <4>1. PICK t \in Temps, e \in Int, f \in Int :
              op' = [op EXCEPT ![u] =
                       [IdleOp EXCEPT !.pc = "inserting", !.zone = op[u].zone,
                          !.setpointTempC = t, !.expiresAt = e,
                          !.effectiveUntil = f]]
        BY <2>1, <3>2
      <4> DEFINE o == [IdleOp EXCEPT !.pc = "inserting", !.zone = op[u].zone,
                          !.setpointTempC = t, !.expiresAt = e,
                          !.effectiveUntil = f]
      <4>2. o \in Ops /\ o.pc = "inserting" /\ o.zone = op[u].zone
        BY <2>2, <2>3 DEF IdleOp, Ops
      <4> QED BY <4>1, <4>2, <2>2
    <3> QED BY <3>1, <3>2
  <2>5. TypeOK'
    BY <1>4, <1>0, <2>4 DEF IssueJudge, TypeOK, world
  <2> QED BY <1>4, <2>5, RowsUntouched DEF IssueJudge
<1>5. CASE CancelStart(u)
  <2>1. TypeOK'
    BY <1>5, <1>0 DEF CancelStart, TypeOK, Ops, world
  <2> QED BY <1>5, <2>1, RowsUntouched DEF CancelStart
<1>6. CASE SettingsStart(u)
  <2>1. TypeOK'
    BY <1>6, <1>0 DEF SettingsStart, TypeOK, Ops, world
  <2> QED BY <1>6, <2>1, RowsUntouched DEF SettingsStart
<1>7. CASE updateSettings(u)
  <2>1. settings' \in Settings
    BY <1>7, ControlAssumption DEF updateSettings
  <2>2. TypeOK'
    BY <1>7, <1>0, <2>1 DEF updateSettings, TypeOK, IdleOp, Ops
  <2> QED BY <1>7, <2>2, RowsUntouched DEF updateSettings
<1> QED BY <1>1, <1>2, <1>3, <1>4, <1>5, <1>6, <1>7
(* A claim call that moves on to another well-formed record of its own.    *)
LEMMA PollMoves ==
    ASSUME TypeInv, NEW g \in Gateways, NEW p \in Polls,
           poll' = [poll EXCEPT ![g] = p],
           p.pc \in {"judging", "releasing"} => p.cur \in p.queue,
           \A c \in p.queue : cmd[c].state # "none",
           held' \in [Gateways -> SUBSET Commands], faults' \in Nat,
           UNCHANGED <<clock, world, cmd, op, written>>
    PROVE  TypeInv'
PROOF
<1>1. /\ poll' \in [Gateways -> Polls]
      /\ poll'[g] = p
      /\ \A h \in Gateways \ {g} : poll'[h] = poll[h]
  BY DEF TypeInv, TypeOK
<1>2. \A h \in Gateways :
        /\ poll'[h].pc \in {"judging", "releasing"} =>
             poll'[h].cur \in poll'[h].queue
        /\ \A c \in poll'[h].queue : cmd'[c].state # "none"
  <2> SUFFICES ASSUME NEW h \in Gateways
               PROVE  /\ poll'[h].pc \in {"judging", "releasing"} =>
                           poll'[h].cur \in poll'[h].queue
                      /\ \A c \in poll'[h].queue : cmd'[c].state # "none"
    OBVIOUS
  <2>1. CASE h = g
    BY <1>1, <2>1
  <2>2. CASE h # g
    BY <1>1, <2>2 DEF TypeInv, TypeOK
  <2> QED BY <2>1, <2>2
<1>3. TypeOK'
  BY <1>1, <1>2 DEF TypeInv, TypeOK, world
<1> QED BY <1>3, RowsUntouched

(* The steps of a claim call that leave the rows alone.                    *)
LEMMA PollType ==
    ASSUME TypeInv, NEW g \in Gateways,
           \/ PollSettings(g) \/ PollZone(g) \/ PollJudge(g)
           \/ PollAnswer(g) \/ PollFails(g) \/ GatewayWrite(g)
           \/ GatewayCrash(g)
    PROVE  TypeInv'
PROOF
<1> USE DEF TypeInv
<1>0. TypeOK /\ poll[g] \in Polls /\ IdlePoll \in Polls
  BY DEF TypeOK, IdlePoll, Polls
<1>1. CASE PollSettings(g)
  <2>1. settings \in Settings
    BY <1>0 DEF TypeOK
  <2>2. TypeOK'
    BY <1>1, <1>0, <2>1 DEF PollSettings, TypeOK, IdlePoll, Polls, world
  <2> QED BY <1>1, <2>2, RowsUntouched DEF PollSettings
<1>2. CASE PollZone(g)
  <2>1. PICK c \in poll[g].queue :
          poll' = [poll EXCEPT ![g].pc = "judging", ![g].cur = c,
                               ![g].ctx = loadZoneContext(cmd[c].zone)]
    BY <1>2 DEF PollZone
  <2>2. c \in Commands /\ cmd[c].zone \in Zones
    BY <1>0 DEF TypeOK, Polls
  <2>3. loadZoneContext(cmd[c].zone) \in ZoneContexts
    BY <2>2, ZoneContextType
  <2> DEFINE p == [poll[g] EXCEPT !.pc = "judging", !.cur = c,
                                  !.ctx = loadZoneContext(cmd[c].zone)]
  <2>4. /\ p \in Polls /\ p.cur \in p.queue /\ p.queue = poll[g].queue
        /\ poll' = [poll EXCEPT ![g] = p]
    BY <1>0, <2>1, <2>2, <2>3 DEF TypeOK, Polls
  <2> HIDE DEF p
  <2>5. \A d \in p.queue : cmd[d].state # "none"
    BY <1>0, <2>4 DEF TypeOK
  <2>6. held' \in [Gateways -> SUBSET Commands] /\ faults' \in Nat
        /\ UNCHANGED <<clock, world, cmd, op, written>>
    BY <1>2, <1>0 DEF PollZone, TypeOK
  <2> QED BY <2>4, <2>5, <2>6, PollMoves
<1>3. CASE PollJudge(g)
  <2>1. poll[g].cur \in poll[g].queue /\ poll[g].queue \subseteq Commands
    BY <1>3, <1>0 DEF PollJudge, TypeOK, Polls
  <2> DEFINE yes == [poll[g] EXCEPT !.pc = "checking", !.cur = Null,
                       !.ctx = Null, !.queue = @ \ {poll[g].cur},
                       !.out = @ \cup {poll[g].cur}]
             no == [poll[g] EXCEPT !.pc = "releasing", !.ctx = Null]
  <2>2. poll' = [poll EXCEPT ![g] = yes] \/ poll' = [poll EXCEPT ![g] = no]
    BY <1>3 DEF PollJudge
  <2>3. /\ yes \in Polls /\ yes.pc = "checking"
        /\ yes.queue \subseteq poll[g].queue
    BY <1>0, <2>1 DEF Polls
  <2>4. /\ no \in Polls /\ no.queue = poll[g].queue /\ no.cur = poll[g].cur
    BY <1>0 DEF Polls
  <2> HIDE DEF yes, no
  <2>5. PICK p \in Polls :
          /\ poll' = [poll EXCEPT ![g] = p]
          /\ p.pc \in {"judging", "releasing"} => p.cur \in p.queue
          /\ p.queue \subseteq poll[g].queue
    BY <2>1, <2>2, <2>3, <2>4
  <2>6. \A c \in p.queue : cmd[c].state # "none"
    BY <1>0, <2>5 DEF TypeOK
  <2>7. held' \in [Gateways -> SUBSET Commands] /\ faults' \in Nat
        /\ UNCHANGED <<clock, world, cmd, op, written>>
    BY <1>3, <1>0 DEF PollJudge, TypeOK
  <2> QED BY <2>5, <2>6, <2>7, PollMoves
<1>4. CASE PollAnswer(g)
  <2>1. poll[g].out \subseteq Commands
    BY <1>0 DEF Polls
  <2>2. TypeOK'
    BY <1>4, <1>0, <2>1 DEF PollAnswer, TypeOK, IdlePoll, world
  <2> QED BY <1>4, <2>2, RowsUntouched DEF PollAnswer
<1>5. CASE PollFails(g)
  <2>1. TypeOK'
    BY <1>5, <1>0 DEF PollFails, TypeOK, IdlePoll, world
  <2> QED BY <1>5, <2>1, RowsUntouched DEF PollFails
<1>6. CASE GatewayWrite(g)
  <2>1. TypeOK'
    BY <1>6, <1>0 DEF GatewayWrite, TypeOK, world
  <2> QED BY <1>6, <2>1, RowsUntouched DEF GatewayWrite
<1>7. CASE GatewayCrash(g)
  <2>1. TypeOK'
    BY <1>7, <1>0 DEF GatewayCrash, TypeOK, world
  <2> QED BY <1>7, <2>1, RowsUntouched DEF GatewayCrash
<1> QED BY <1>1, <1>2, <1>3, <1>4, <1>5, <1>6, <1>7

(* The world's steps and the crash of the ingest process.                  *)
LEMMA WorldType ==
    ASSUME TypeInv, World \/ IngestCrash
    PROVE  TypeInv'
PROOF
<1> USE DEF TypeInv
<1>0. TypeOK
  OBVIOUS
<1>1. CASE Tick
  <2>1. TypeOK'
    BY <1>1, <1>0 DEF Tick, TypeOK, world
  <2>2. clock <= clock' /\ UNCHANGED cmd
    BY <1>1, <1>0 DEF Tick, TypeOK
  <2>3. OneActiveOverride'
    BY <1>0, <2>1, <2>2, NothingApplied
  <2>4. RequestedInThePast'
    BY <1>0, <2>1, <2>2 DEF RequestedInThePast, TypeOK, Rows
  <2> QED BY <2>1, <2>3, <2>4
<1>2. ASSUME NEW z \in Zones, SensorReports(z) PROVE TypeInv'
  <2>1. PICK q \in QualitySpace :
          feedback' = [feedback EXCEPT ![z] = [ts |-> clock, quality |-> q]]
    BY <1>2 DEF SensorReports
  <2>2. QualitySpace \subseteq {"good", "bad"}
    BY ControlAssumption
  <2>3. [ts |-> clock, quality |-> q] \in Feedback
    BY <1>0, <2>2 DEF TypeOK, Feedback
  <2>4. TypeOK'
    BY <1>2, <1>0, <2>1, <2>3 DEF SensorReports, TypeOK
  <2> QED BY <1>2, <2>4, RowsUntouched DEF SensorReports
<1>3. ASSUME NEW z \in Zones, EquipmentChanges(z) PROVE TypeInv'
  <2>1. EquipmentSpace \subseteq SUBSET EquipmentStatuses
    BY ControlAssumption
  <2>2. TypeOK'
    BY <1>3, <1>0, <2>1 DEF EquipmentChanges, TypeOK
  <2> QED BY <1>3, <2>2, RowsUntouched DEF EquipmentChanges
<1>4. ASSUME NEW z \in Zones, ProfileChanges(z) PROVE TypeInv'
  <2>1. BaselineSpace \subseteq Int \cup {Null}
    BY ControlAssumption
  <2>2. TypeOK'
    BY <1>4, <1>0, <2>1 DEF ProfileChanges, TypeOK
  <2> QED BY <1>4, <2>2, RowsUntouched DEF ProfileChanges
<1>5. ASSUME NEW u \in Users, RoleChanges(u) PROVE TypeInv'
  <2>1. RoleSpace \subseteq Roles \cup {Null}
    BY ControlAssumption
  <2>2. TypeOK'
    BY <1>5, <1>0, <2>1 DEF RoleChanges, TypeOK
  <2> QED BY <1>5, <2>2, RowsUntouched DEF RoleChanges
<1>6. CASE IngestCrash
  <2>1. IdleOp \in Ops /\ IdlePoll \in Polls
    BY DEF IdleOp, Ops, IdlePoll, Polls
  <2>2. TypeOK'
    BY <1>6, <1>0, <2>1 DEF IngestCrash, TypeOK, IdleOp, IdlePoll, world
  <2> QED BY <1>6, <2>2, RowsUntouched DEF IngestCrash
<1> QED BY <1>1, <1>2, <1>3, <1>4, <1>5, <1>6 DEF World
-----------------------------------------------------------------------------
(* A step that moves rows and lets every claim call keep the commands it   *)
(* has in its queue, or take up others that exist.                         *)
LEMMA RowsMove ==
    ASSUME TypeInv,
           cmd' \in [Commands -> Rows], op' \in [Users -> Ops],
           poll' \in [Gateways -> Polls],
           held' \in [Gateways -> SUBSET Commands], faults' \in Nat,
           \A c \in Commands :
             /\ cmd[c].state # "none" =>
                  /\ cmd'[c].state # "none"
                  /\ cmd'[c].zone = cmd[c].zone
                  /\ cmd'[c].requestedAt = cmd[c].requestedAt
                  /\ cmd'[c].effectiveUntil = cmd[c].effectiveUntil
             /\ cmd[c].state = "none" /\ cmd'[c].state # "none" =>
                  /\ cmd'[c].zone \in Zones
                  /\ cmd'[c].requestedAt = clock
             /\ cmd[c].state = "none" /\ cmd'[c].state = "none" =>
                  cmd'[c] = cmd[c],
           \A u \in Users : op'[u] = op[u] \/ op'[u].pc = "idle",
           \A g \in Gateways :
             /\ poll'[g].pc \in {"judging", "releasing"} =>
                  poll'[g].cur \in poll'[g].queue
             /\ \A c \in poll'[g].queue : cmd'[c].state # "none",
           UNCHANGED <<clock, world, written>>
    PROVE  TypeOK' /\ RequestedInThePast'
PROOF
<1>1. \A c \in Commands : cmd'[c].state # "none" => cmd'[c].zone \in Zones
  BY DEF TypeInv, TypeOK
<1>2. \A u \in Users :
        /\ op'[u].pc \in {"loading", "inserting"} => op'[u].zone \in Zones
        /\ op'[u].pc = "loading" => op'[u].role \in Roles
  BY DEF TypeInv, TypeOK
<1>3. TypeOK'
  BY <1>1, <1>2 DEF TypeInv, TypeOK, world
<1>4. RequestedInThePast'
  BY DEF TypeInv, TypeOK, RequestedInThePast
<1> QED BY <1>3, <1>4

(* A new row keeps the invariant (insertCommand): it is requested now, and *)
(* pending rather than applied.                                            *)
LEMMA InsertType ==
    ASSUME TypeInv, NEW u \in Users, insertCommand(u)
    PROVE  TypeInv'
PROOF
<1>0. TypeOK /\ op[u] \in Ops /\ op[u].zone \in Zones /\ IdleOp \in Ops
      /\ IdleOp.pc = "idle"
  BY DEF TypeInv, TypeOK, insertCommand, IdleOp, Ops
<1>1. op' \in [Users -> Ops]
      /\ \A w \in Users : op'[w] = op[w] \/ op'[w].pc = "idle"
  BY <1>0 DEF insertCommand, TypeOK
<1>2. CASE UNCHANGED cmd
  <2>1. TypeOK'
    BY <1>0, <1>1, <1>2 DEF insertCommand, TypeOK, world
  <2> QED BY <1>2, <2>1, RowsUntouched DEF insertCommand
<1>3. CASE cmd' # cmd
  <2> DEFINE new == [state |-> "pending", zone |-> op[u].zone,
                     setpointTempC |-> op[u].setpointTempC,
                     requestedBy |-> u, requestedAt |-> clock,
                     expiresAt |-> op[u].expiresAt,
                     effectiveUntil |-> op[u].effectiveUntil,
                     claimedBy |-> Null]
  <2>1. PICK c \in Commands :
          cmd[c].state = "none" /\ cmd' = [cmd EXCEPT ![c] = new]
    BY <1>3 DEF insertCommand
  <2>2. /\ new \in Rows /\ new.state = "pending" /\ new.zone \in Zones
        /\ new.requestedAt = clock
    BY <1>0 DEF Rows, Ops, TypeOK, States
  <2> HIDE DEF new
  <2>3. cmd' \in [Commands -> Rows] /\ cmd'[c] = new
        /\ \A d \in Commands \ {c} : cmd'[d] = cmd[d]
    BY <2>1, <2>2, <1>0 DEF TypeOK
  <2>4. \A g \in Gateways :
             /\ poll'[g].pc \in {"judging", "releasing"} =>
                  poll'[g].cur \in poll'[g].queue
             /\ \A d \in poll'[g].queue : cmd'[d].state # "none"
    BY <1>0, <2>2, <2>3 DEF insertCommand, TypeOK, Polls
  <2>5. poll' \in [Gateways -> Polls]
        /\ held' \in [Gateways -> SUBSET Commands] /\ faults' \in Nat
        /\ UNCHANGED <<clock, world, written>>
    BY <1>0 DEF insertCommand, TypeOK
  <2>6. \A d \in Commands :
             /\ cmd[d].state # "none" =>
                  /\ cmd'[d].state # "none"
                  /\ cmd'[d].zone = cmd[d].zone
                  /\ cmd'[d].requestedAt = cmd[d].requestedAt
                  /\ cmd'[d].effectiveUntil = cmd[d].effectiveUntil
             /\ cmd[d].state = "none" /\ cmd'[d].state # "none" =>
                  /\ cmd'[d].zone \in Zones
                  /\ cmd'[d].requestedAt = clock
             /\ cmd[d].state = "none" /\ cmd'[d].state = "none" =>
                  cmd'[d] = cmd[d]
    BY <2>1, <2>2, <2>3
  <2>7. TypeOK' /\ RequestedInThePast'
    BY <1>1, <2>3, <2>4, <2>5, <2>6, RowsMove
  <2>8. OneActiveOverride'
    <3>1. \A d \in Commands : cmd'[d].state = "applied" => cmd'[d] = cmd[d]
      BY <2>2, <2>3
    <3> QED BY <3>1, <2>5, <2>7, <1>0, NothingApplied DEF TypeInv, TypeOK
  <2> QED BY <2>7, <2>8 DEF TypeInv
<1> QED BY <1>2, <1>3
(* Rows that change at most their state and their claimant, and that exist *)
(* afterwards if and only if they did before.                              *)
Relabelled(c) ==
    /\ cmd'[c].state = "none" <=> cmd[c].state = "none"
    /\ cmd[c].state = "none" => cmd'[c] = cmd[c]
    /\ cmd'[c].zone = cmd[c].zone
    /\ cmd'[c].requestedAt = cmd[c].requestedAt
    /\ cmd'[c].expiresAt = cmd[c].expiresAt
    /\ cmd'[c].setpointTempC = cmd[c].setpointTempC
    /\ cmd'[c].effectiveUntil = cmd[c].effectiveUntil

(* Changing a row's state and claimant leaves its other columns alone.     *)
LEMMA RelabelledRow ==
    ASSUME NEW r \in Rows, NEW s \in States, NEW g \in Gateways \cup {Null}
    PROVE  /\ [r EXCEPT !.state = s] \in Rows
           /\ [r EXCEPT !.state = s, !.claimedBy = g] \in Rows
           /\ [r EXCEPT !.state = s].state = s
           /\ [r EXCEPT !.state = s, !.claimedBy = g].state = s
           /\ [r EXCEPT !.state = s, !.claimedBy = g].claimedBy = g
           /\ \A t \in {[r EXCEPT !.state = s],
                        [r EXCEPT !.state = s, !.claimedBy = g]} :
                /\ t.zone = r.zone /\ t.requestedAt = r.requestedAt
                /\ t.expiresAt = r.expiresAt
                /\ t.setpointTempC = r.setpointTempC
                /\ t.effectiveUntil = r.effectiveUntil
PROOF
BY DEF Rows

(* What cancelCommand does, row by row.                                    *)
LEMMA CancelRows ==
    ASSUME TypeOK, NEW u \in Users, cancelCommand(u)
    PROVE  /\ cmd' \in [Commands -> Rows]
           /\ \A c \in Commands : Relabelled(c)
           /\ \A c \in Commands :
                \/ cmd'[c] = cmd[c]
                \/ cmd[c].state \in Live /\ cmd'[c].state = "cancelled"
PROOF
<1>1. PICK c \in Commands :
        cmd' = IF cmd[c].state \in Live
               THEN [cmd EXCEPT ![c].state = "cancelled"] ELSE cmd
  BY DEF cancelCommand
<1>2. CASE cmd[c].state \notin Live
  BY <1>1, <1>2 DEF TypeOK, Relabelled
<1>3. CASE cmd[c].state \in Live
  <2> DEFINE new == [cmd[c] EXCEPT !.state = "cancelled"]
  <2>1. /\ new \in Rows /\ new.state = "cancelled"
        /\ new.zone = cmd[c].zone /\ new.requestedAt = cmd[c].requestedAt
        /\ new.expiresAt = cmd[c].expiresAt
        /\ new.setpointTempC = cmd[c].setpointTempC
        /\ new.effectiveUntil = cmd[c].effectiveUntil
    BY DEF TypeOK, Rows, States
  <2>2. cmd' = [cmd EXCEPT ![c] = new]
    BY <1>1, <1>3
  <2> HIDE DEF new
  <2> QED BY <1>3, <2>1, <2>2 DEF TypeOK, Relabelled, Live
<1> QED BY <1>2, <1>3

(* What expireStale does, row by row.                                      *)
LEMMA ExpireRows ==
    ASSUME TypeOK, NEW g \in Gateways, expireStale(g)
    PROVE  /\ cmd' \in [Commands -> Rows]
           /\ \A c \in Commands : Relabelled(c)
           /\ \A c \in Commands :
                \/ cmd'[c] = cmd[c]
                \/ /\ cmd[c].state = "pending" /\ cmd[c].expiresAt <= clock
                   /\ cmd'[c].state = "expired"
                   /\ cmd'[c] = [cmd[c] EXCEPT !.state = "expired"]
PROOF
<1>1. cmd' = [c \in Commands |->
                IF cmd[c].state = "pending" /\ cmd[c].expiresAt <= clock
                THEN [cmd[c] EXCEPT !.state = "expired"] ELSE cmd[c]]
  BY DEF expireStale
<1>2. ASSUME NEW c \in Commands
      PROVE  /\ [cmd[c] EXCEPT !.state = "expired"] \in Rows
             /\ [cmd[c] EXCEPT !.state = "expired"].state = "expired"
             /\ LET t == [cmd[c] EXCEPT !.state = "expired"]
                IN  /\ t.zone = cmd[c].zone
                    /\ t.requestedAt = cmd[c].requestedAt
                    /\ t.expiresAt = cmd[c].expiresAt
                    /\ t.setpointTempC = cmd[c].setpointTempC
                    /\ t.effectiveUntil = cmd[c].effectiveUntil
  BY SMTT(30) DEF TypeOK, Rows, States
<1>3. ASSUME NEW c \in Commands
      PROVE  \/ cmd'[c] = cmd[c]
             \/ /\ cmd[c].state = "pending" /\ cmd[c].expiresAt <= clock
                /\ cmd'[c] = [cmd[c] EXCEPT !.state = "expired"]
  BY <1>1
<1>4. cmd' \in [Commands -> Rows]
  BY <1>1, <1>2 DEF TypeOK
<1>5. ASSUME NEW c \in Commands
      PROVE  Relabelled(c)
             /\ (cmd'[c] = cmd[c] \/ cmd'[c].state = "expired")
  BY <1>2, <1>3, ZenonT(30) DEF Relabelled
<1> QED BY <1>3, <1>4, <1>5

(* What claimCommands does, row by row and to the call that claims.        *)
LEMMA ClaimRows ==
    ASSUME TypeOK, NEW g \in Gateways, claimCommands(g)
    PROVE  \E S \in SUBSET Collectable :
             /\ cmd' \in [Commands -> Rows]
             /\ \A c \in Commands : Relabelled(c)
             /\ \A c \in Commands \ S : cmd'[c] = cmd[c]
             /\ \A c \in S : /\ cmd'[c].state = "dispatched"
                             /\ cmd'[c].claimedBy = g
             /\ poll' = [poll EXCEPT ![g] =
                           [poll[g] EXCEPT !.pc = "checking", !.queue = S]]
PROOF
<1>1. PICK S \in SUBSET Collectable :
        /\ cmd' = [c \in Commands |->
                     IF c \in S THEN [cmd[c] EXCEPT !.state = "dispatched",
                                                    !.claimedBy = g]
                     ELSE cmd[c]]
        /\ poll' = [poll EXCEPT ![g].pc = "checking", ![g].queue = S]
  BY DEF claimCommands
<1>2. S \subseteq Commands /\ \A c \in S : cmd[c].state = "pending"
  BY DEF Collectable
<1>3. ASSUME NEW c \in Commands
      PROVE  LET t == [cmd[c] EXCEPT !.state = "dispatched",
                                     !.claimedBy = g]
             IN  /\ t \in Rows /\ t.state = "dispatched"
                 /\ t.claimedBy = g /\ t.zone = cmd[c].zone
                 /\ t.requestedAt = cmd[c].requestedAt
                 /\ t.expiresAt = cmd[c].expiresAt
                 /\ t.setpointTempC = cmd[c].setpointTempC
                 /\ t.effectiveUntil = cmd[c].effectiveUntil
  BY ZenonT(30) DEF TypeOK, Rows, States
<1>4. cmd' \in [Commands -> Rows]
  BY <1>1, <1>3 DEF TypeOK
<1>5. ASSUME NEW c \in S
      PROVE  /\ Relabelled(c) /\ cmd'[c].state = "dispatched"
             /\ cmd'[c].claimedBy = g
  BY <1>1, <1>2, <1>3 DEF Relabelled
<1>6. ASSUME NEW c \in Commands \ S PROVE Relabelled(c) /\ cmd'[c] = cmd[c]
  BY <1>1 DEF Relabelled
<1>7. poll' = [poll EXCEPT ![g] =
                 [poll[g] EXCEPT !.pc = "checking", !.queue = S]]
  BY <1>1 DEF TypeOK, Polls
<1> QED BY <1>4, <1>5, <1>6, <1>7

(* What releaseCommand does, row by row and to the call that releases.     *)
LEMMA ReleaseRows ==
    ASSUME TypeOK, NEW g \in Gateways, releaseCommand(g)
    PROVE  /\ cmd' \in [Commands -> Rows]
           /\ \A c \in Commands : Relabelled(c)
           /\ \A c \in Commands \ {poll[g].cur} : cmd'[c] = cmd[c]
           /\ LET c == poll[g].cur
              IN  \/ cmd'[c] = cmd[c] /\ cmd[c].state # "dispatched"
                  \/ cmd[c].state = "dispatched" /\ cmd'[c].state = "pending"
           /\ poll' = [poll EXCEPT ![g] =
                         [poll[g] EXCEPT !.pc = "checking", !.cur = Null,
                            !.queue = @ \ {poll[g].cur}]]
           /\ poll[g].cur \in poll[g].queue
PROOF
<1> DEFINE c == poll[g].cur
<1>1. c \in poll[g].queue /\ c \in Commands
  BY DEF releaseCommand, TypeOK, Polls
<1>2. poll' = [poll EXCEPT ![g] =
                 [poll[g] EXCEPT !.pc = "checking", !.cur = Null,
                    !.queue = @ \ {poll[g].cur}]]
  BY DEF releaseCommand, TypeOK, Polls
<1>3. cmd' = IF cmd[c].state = "dispatched"
             THEN [cmd EXCEPT ![c].state = "pending", ![c].claimedBy = Null]
             ELSE cmd
  BY DEF releaseCommand
<1>4. CASE cmd[c].state # "dispatched"
  BY <1>1, <1>2, <1>3, <1>4 DEF TypeOK, Relabelled
<1>5. CASE cmd[c].state = "dispatched"
  <2> DEFINE new == [cmd[c] EXCEPT !.state = "pending", !.claimedBy = Null]
  <2>1. /\ new \in Rows /\ new.state = "pending"
        /\ new.zone = cmd[c].zone /\ new.requestedAt = cmd[c].requestedAt
        /\ new.expiresAt = cmd[c].expiresAt
        /\ new.setpointTempC = cmd[c].setpointTempC
        /\ new.effectiveUntil = cmd[c].effectiveUntil
    <3>1. cmd[c] \in Rows
      BY <1>1 DEF TypeOK
    <3>2. new \in Rows
      BY <3>1 DEF Rows, States
    <3> QED BY <3>1, <3>2 DEF Rows
  <2>2. cmd' = [cmd EXCEPT ![c] = new]
    BY <1>1, <1>3, <1>5 DEF TypeOK, Rows
  <2> HIDE DEF new
  <2>3. /\ cmd' \in [Commands -> Rows] /\ cmd'[c] = new
        /\ \A d \in Commands \ {c} : cmd'[d] = cmd[d]
    BY <1>1, <2>1, <2>2 DEF TypeOK
  <2>4. \A d \in Commands : Relabelled(d)
    BY <1>5, <2>1, <2>3 DEF Relabelled
  <2> QED BY <1>1, <1>2, <1>5, <2>1, <2>3, <2>4
<1> QED BY <1>4, <1>5

(* What a gateway's report does (settleCommand): nothing, or the row is    *)
(* settled, and when it is applied the overrides in force on its zone are  *)
(* superseded in the same step.                                            *)
LEMMA ReportRows ==
    ASSUME TypeOK, NEW g \in Gateways, GatewayReport(g)
    PROVE  \E c \in held[g] :
             /\ c \in Commands
             /\ cmd' \in [Commands -> Rows]
             /\ \A d \in Commands : Relabelled(d)
             /\ \/ UNCHANGED cmd
                \/ /\ cmd[c].state = "dispatched" /\ c \in written
                   /\ cmd'[c].state = "applied"
                   /\ \A d \in activeOverrides(cmd[c].zone) :
                        cmd'[d].state = "superseded"
                   /\ \A d \in Commands \ {c} :
                        \/ cmd'[d] = cmd[d]
                        \/ d \in activeOverrides(cmd[c].zone)
                \/ /\ cmd[c].state = "dispatched" /\ cmd'[c].state = "failed"
                   /\ \A d \in Commands \ {c} : cmd'[d] = cmd[d]
             /\ held' = held \/ held' = [held EXCEPT ![g] = @ \ {c}]
             /\ faults' \in Nat
PROOF
<1>1. PICK c \in held[g] :
        /\ settleCommand(c, IF c \in written THEN "applied" ELSE "failed")
        /\ held' = held \/ held' = [held EXCEPT ![g] = @ \ {c}]
        /\ faults' = faults \/ faults' = faults + 1
  BY DEF GatewayReport
<1>2. c \in Commands /\ faults' \in Nat
  BY <1>1 DEF TypeOK
<1>3. CASE cmd[c].state # "dispatched"
  <2>1. cmd' = cmd
    BY <1>1, <1>3 DEF settleCommand
  <2> QED BY <1>1, <1>2, <2>1 DEF TypeOK, Relabelled
<1>4. CASE cmd[c].state = "dispatched" /\ c \in written
  <2> DEFINE A == activeOverrides(cmd[c].zone)
             applied == [cmd[c] EXCEPT !.state = "applied"]
             over(d) == [cmd[d] EXCEPT !.state = "superseded"]
  <2>1. cmd' = [d \in Commands |->
                  IF d = c THEN [cmd[d] EXCEPT !.state = "applied"]
                  ELSE IF d \in A THEN over(d) ELSE cmd[d]]
    BY <1>1, <1>4 DEF settleCommand
  <2>2. A \subseteq Commands /\ c \notin A
        /\ \A d \in A : cmd[d].state = "applied"
    BY <1>4 DEF activeOverrides, RowsOf
  <2>3. "applied" \in States /\ "superseded" \in States
    BY DEF States
  <2>4. ASSUME NEW d \in Commands
        PROVE  /\ over(d) \in Rows /\ over(d).state = "superseded"
               /\ over(d).zone = cmd[d].zone
               /\ over(d).requestedAt = cmd[d].requestedAt
               /\ over(d).expiresAt = cmd[d].expiresAt
               /\ over(d).setpointTempC = cmd[d].setpointTempC
               /\ over(d).effectiveUntil = cmd[d].effectiveUntil
    <3>1. cmd[d] \in Rows
      BY DEF TypeOK
    <3> QED BY <3>1, <2>3, RelabelledRow
  <2>5. /\ applied \in Rows /\ applied.state = "applied"
        /\ applied.zone = cmd[c].zone
        /\ applied.requestedAt = cmd[c].requestedAt
        /\ applied.expiresAt = cmd[c].expiresAt
        /\ applied.setpointTempC = cmd[c].setpointTempC
        /\ applied.effectiveUntil = cmd[c].effectiveUntil
    <3>1. cmd[c] \in Rows
      BY <1>2 DEF TypeOK
    <3> QED BY <3>1, <2>3, RelabelledRow
  <2>6. cmd'[c] = applied
    BY <2>1, <1>2
  <2>7. \A d \in A : cmd'[d] = over(d)
    BY <2>1, <2>2
  <2>8. \A d \in Commands \ {c} : d \in A \/ cmd'[d] = cmd[d]
    BY <2>1
  <2> HIDE DEF applied, over, A
  <2>9. cmd' \in [Commands -> Rows]
    <3>1. DOMAIN cmd' = Commands /\ cmd' = [d \in Commands |-> cmd'[d]]
      BY <2>1
    <3>2. ASSUME NEW d \in Commands PROVE cmd'[d] \in Rows
      BY <2>4, <2>5, <2>6, <2>7, <2>8 DEF TypeOK
    <3> QED BY <3>1, <3>2
  <2>10. ASSUME NEW d \in Commands PROVE Relabelled(d)
    <3>1. CASE d = c
      BY <3>1, <2>5, <2>6, <1>4 DEF Relabelled
    <3>2. CASE d \in A
      BY <3>2, <2>2, <2>4, <2>7 DEF Relabelled
    <3>3. CASE d # c /\ d \notin A
      BY <3>3, <2>8 DEF Relabelled
    <3> QED BY <3>1, <3>2, <3>3
  <2>11. \A d \in A : cmd'[d].state = "superseded"
    BY <2>2, <2>4, <2>7
  <2> QED BY <1>1, <1>2, <1>4, <2>5, <2>6, <2>8, <2>9, <2>10, <2>11 DEF A
<1>5. CASE cmd[c].state = "dispatched" /\ c \notin written
  <2> DEFINE new == [cmd[c] EXCEPT !.state = "failed"]
  <2>1. cmd' = [d \in Commands |-> IF d = c THEN new ELSE cmd[d]]
    BY <1>1, <1>5 DEF settleCommand
  <2>2. /\ new \in Rows /\ new.state = "failed"
        /\ new.zone = cmd[c].zone /\ new.requestedAt = cmd[c].requestedAt
        /\ new.expiresAt = cmd[c].expiresAt
        /\ new.setpointTempC = cmd[c].setpointTempC
        /\ new.effectiveUntil = cmd[c].effectiveUntil
    <3>1. cmd[c] \in Rows /\ "failed" \in States
      BY <1>2 DEF TypeOK, States
    <3> QED BY <3>1, RelabelledRow
  <2> HIDE DEF new
  <2>3. /\ cmd' \in [Commands -> Rows] /\ cmd'[c] = new
        /\ \A d \in Commands \ {c} : cmd'[d] = cmd[d]
    BY <1>2, <2>1, <2>2 DEF TypeOK
  <2>4. \A d \in Commands : Relabelled(d)
    BY <1>5, <2>2, <2>3 DEF Relabelled
  <2> QED BY <1>1, <1>2, <1>5, <2>2, <2>3, <2>4
<1> QED BY <1>3, <1>4, <1>5

(* The invariant through a step that relabels existing rows.               *)
LEMMA RelabelType ==
    ASSUME TypeInv, \A c \in Commands : Relabelled(c),
           cmd' \in [Commands -> Rows], op' \in [Users -> Ops],
           poll' \in [Gateways -> Polls],
           held' \in [Gateways -> SUBSET Commands], faults' \in Nat,
           \A u \in Users : op'[u] = op[u] \/ op'[u].pc = "idle",
           \A g \in Gateways :
             /\ poll'[g].pc \in {"judging", "releasing"} =>
                  poll'[g].cur \in poll'[g].queue
             /\ \A c \in poll'[g].queue : cmd[c].state # "none",
           UNCHANGED <<clock, world, written>>
    PROVE  TypeOK' /\ RequestedInThePast'
PROOF
<1>1. \A g \in Gateways : \A c \in poll'[g].queue : cmd'[c].state # "none"
  BY DEF Relabelled, Polls
<1> QED BY <1>1, RowsMove DEF Relabelled
(* The steps that relabel rows keep the invariant.                         *)
LEMMA RelabelStepType ==
    ASSUME TypeInv,
           \/ \E u \in Users : cancelCommand(u)
           \/ \E g \in Gateways : \/ expireStale(g) \/ claimCommands(g)
                                  \/ releaseCommand(g) \/ GatewayReport(g)
    PROVE  TypeInv'
PROOF
<1> USE DEF TypeInv
<1>0. TypeOK /\ clock \in Nat
  BY DEF TypeOK
<1>1. ASSUME NEW u \in Users, cancelCommand(u) PROVE TypeInv'
  <2>1. /\ cmd' \in [Commands -> Rows]
        /\ \A c \in Commands : Relabelled(c)
        /\ \A c \in Commands :
             cmd'[c] = cmd[c] \/ cmd'[c].state = "cancelled"
    BY <1>0, <1>1, CancelRows
  <2>2. op' \in [Users -> Ops]
        /\ \A w \in Users : op'[w] = op[w] \/ op'[w].pc = "idle"
    BY <1>0, <1>1 DEF cancelCommand, TypeOK, IdleOp, Ops
  <2>3. UNCHANGED <<clock, world, poll, held, written, faults>>
    BY <1>1 DEF cancelCommand
  <2>4. TypeOK' /\ RequestedInThePast'
    BY <1>0, <2>1, <2>2, <2>3, RelabelType DEF TypeOK
  <2>5. OneActiveOverride'
    BY <1>0, <2>1, <2>3, <2>4, NothingApplied
  <2> QED BY <2>4, <2>5
<1>2. ASSUME NEW g \in Gateways, expireStale(g) PROVE TypeInv'
  <2>1. /\ cmd' \in [Commands -> Rows]
        /\ \A c \in Commands : Relabelled(c)
        /\ \A c \in Commands :
             cmd'[c] = cmd[c] \/ cmd'[c].state = "expired"
    BY <1>0, <1>2, ExpireRows
  <2> DEFINE p == [poll[g] EXCEPT !.pc = "settings"]
  <2>2. p \in Polls /\ p.pc = "settings" /\ p.queue = poll[g].queue
        /\ poll' = [poll EXCEPT ![g] = p]
    BY <1>0, <1>2, ZenonT(30) DEF expireStale, TypeOK, Polls
  <2> HIDE DEF p
  <2>3. /\ poll' \in [Gateways -> Polls]
        /\ \A h \in Gateways :
             /\ poll'[h].pc \in {"judging", "releasing"} =>
                  poll'[h].cur \in poll'[h].queue
             /\ \A c \in poll'[h].queue : cmd[c].state # "none"
    BY <1>0, <2>2 DEF TypeOK
  <2>4. UNCHANGED <<clock, world, op, held, written, faults>>
    BY <1>2 DEF expireStale
  <2>5. TypeOK' /\ RequestedInThePast'
    BY <1>0, <2>1, <2>3, <2>4, RelabelType DEF TypeOK
  <2>6. OneActiveOverride'
    BY <1>0, <2>1, <2>4, <2>5, NothingApplied
  <2> QED BY <2>5, <2>6
<1>3. ASSUME NEW g \in Gateways, claimCommands(g) PROVE TypeInv'
  <2>1. PICK S \in SUBSET Collectable :
             /\ cmd' \in [Commands -> Rows]
             /\ \A c \in Commands : Relabelled(c)
             /\ \A c \in Commands \ S : cmd'[c] = cmd[c]
             /\ \A c \in S : /\ cmd'[c].state = "dispatched"
                             /\ cmd'[c].claimedBy = g
             /\ poll' = [poll EXCEPT ![g] =
                           [poll[g] EXCEPT !.pc = "checking", !.queue = S]]
    BY <1>0, <1>3, ClaimRows
  <2>2. S \subseteq Commands /\ \A c \in S : cmd[c].state # "none"
    BY DEF Collectable
  <2> DEFINE p == [poll[g] EXCEPT !.pc = "checking", !.queue = S]
  <2>3. p \in Polls /\ p.pc = "checking" /\ p.queue = S
        /\ poll' = [poll EXCEPT ![g] = p]
    <3>1. poll[g] \in Polls /\ S \in SUBSET Commands
      BY <1>0, <2>2 DEF TypeOK
    <3>2. p \in Polls /\ p.pc = "checking" /\ p.queue = S
      BY <3>1 DEF Polls
    <3> QED BY <2>1, <3>2
  <2> HIDE DEF p
  <2>4. /\ poll' \in [Gateways -> Polls]
        /\ \A h \in Gateways :
             /\ poll'[h].pc \in {"judging", "releasing"} =>
                  poll'[h].cur \in poll'[h].queue
             /\ \A c \in poll'[h].queue : cmd[c].state # "none"
    BY <1>0, <2>2, <2>3 DEF TypeOK
  <2>5. UNCHANGED <<clock, world, op, held, written, faults>>
    BY <1>3 DEF claimCommands
  <2>6. TypeOK' /\ RequestedInThePast'
    BY <1>0, <2>1, <2>4, <2>5, RelabelType DEF TypeOK
  <2>7. OneActiveOverride'
    <3>1. \A c \in Commands :
            cmd'[c] = cmd[c] \/ cmd'[c].state = "dispatched"
      BY <2>1, SMTT(30)
    <3> QED BY <1>0, <2>5, <2>6, <3>1, NothingApplied
  <2> QED BY <2>6, <2>7
<1>4. ASSUME NEW g \in Gateways, releaseCommand(g) PROVE TypeInv'
  <2> DEFINE p == [poll[g] EXCEPT !.pc = "checking", !.cur = Null,
                                  !.queue = @ \ {poll[g].cur}]
  <2>1. /\ cmd' \in [Commands -> Rows]
        /\ \A c \in Commands : Relabelled(c)
        /\ \A c \in Commands :
             cmd'[c] = cmd[c] \/ cmd'[c].state = "pending"
        /\ poll' = [poll EXCEPT ![g] = p]
    BY <1>0, <1>4, ReleaseRows
  <2>2. p \in Polls /\ p.pc = "checking" /\ p.queue \subseteq poll[g].queue
    BY <1>0, ZenonT(30) DEF TypeOK, Polls
  <2> HIDE DEF p
  <2>3. /\ poll' \in [Gateways -> Polls]
        /\ \A h \in Gateways :
             /\ poll'[h].pc \in {"judging", "releasing"} =>
                  poll'[h].cur \in poll'[h].queue
             /\ \A c \in poll'[h].queue : cmd[c].state # "none"
    BY <1>0, <2>1, <2>2 DEF TypeOK
  <2>4. UNCHANGED <<clock, world, op, held, written, faults>>
    BY <1>4 DEF releaseCommand
  <2>5. TypeOK' /\ RequestedInThePast'
    BY <1>0, <2>1, <2>3, <2>4, RelabelType DEF TypeOK
  <2>6. OneActiveOverride'
    BY <1>0, <2>1, <2>4, <2>5, NothingApplied
  <2> QED BY <2>5, <2>6
<1>5. ASSUME NEW g \in Gateways, GatewayReport(g) PROVE TypeInv'
  <2>1. PICK c \in held[g] :
             /\ c \in Commands
             /\ cmd' \in [Commands -> Rows]
             /\ \A d \in Commands : Relabelled(d)
             /\ \/ UNCHANGED cmd
                \/ /\ cmd[c].state = "dispatched" /\ c \in written
                   /\ cmd'[c].state = "applied"
                   /\ \A d \in activeOverrides(cmd[c].zone) :
                        cmd'[d].state = "superseded"
                   /\ \A d \in Commands \ {c} :
                        \/ cmd'[d] = cmd[d]
                        \/ d \in activeOverrides(cmd[c].zone)
                \/ /\ cmd[c].state = "dispatched" /\ cmd'[c].state = "failed"
                   /\ \A d \in Commands \ {c} : cmd'[d] = cmd[d]
             /\ held' = held \/ held' = [held EXCEPT ![g] = @ \ {c}]
             /\ faults' \in Nat
    BY <1>0, <1>5, ReportRows
  <2>2. UNCHANGED <<clock, world, op, poll, written>>
    BY <1>5 DEF GatewayReport
  <2>3. held' \in [Gateways -> SUBSET Commands]
    BY <1>0, <2>1 DEF TypeOK
  <2>4. TypeOK' /\ RequestedInThePast'
    BY <1>0, <2>1, <2>2, <2>3, RelabelType DEF TypeOK
  <2>5. CASE cmd'[c].state # "applied" \/ UNCHANGED cmd
    <3>1. \A d \in Commands : cmd'[d].state = "applied" => cmd'[d] = cmd[d]
      BY <2>1, <2>5
    <3>2. OneActiveOverride'
      BY <1>0, <2>2, <2>4, <3>1, NothingApplied
    <3> QED BY <2>4, <3>2
  <2>6. CASE /\ cmd'[c].state = "applied"
             /\ \A d \in activeOverrides(cmd[c].zone) :
                  cmd'[d].state = "superseded"
             /\ \A d \in Commands \ {c} :
                  cmd'[d] = cmd[d] \/ d \in activeOverrides(cmd[c].zone)
    <3>1. ASSUME NEW z \in Zones, NEW a \in activeOverrides(z)',
                 NEW b \in activeOverrides(z)'
          PROVE  a = b
      <4>1. /\ a \in Commands /\ b \in Commands
            /\ cmd'[a].state = "applied" /\ cmd'[b].state = "applied"
            /\ cmd'[a].zone = z /\ cmd'[b].zone = z
            /\ cmd'[a].effectiveUntil > clock /\ cmd'[b].effectiveUntil > clock
        BY <2>2 DEF activeOverrides, RowsOf
      <4>2. ASSUME NEW d \in {a, b}, d # c PROVE d \in activeOverrides(z)
        <5>1. cmd'[d] = cmd[d]
          BY <2>6, <4>1, <4>2
        <5> QED BY <4>1, <5>1 DEF activeOverrides, RowsOf
      <4>3. CASE a # c /\ b # c
        BY <4>2, <4>3 DEF OneActiveOverride
      <4>4. CASE a = c \/ b = c
        <5>1. cmd[c].zone = z
          BY <4>1, <4>4, <2>1 DEF Relabelled
        <5>2. \A d \in {a, b} : d # c => FALSE
          BY <4>1, <4>2, <5>1, <2>6
        <5> QED BY <5>2
      <4> QED BY <4>3, <4>4
    <3>2. OneActiveOverride'
      BY <3>1 DEF OneActiveOverride
    <3> QED BY <2>4, <3>2
  <2> QED BY <2>1, <2>5, <2>6
<1> QED BY <1>1, <1>2, <1>3, <1>4, <1>5

(* Every step of every handler, gateway and failure keeps the invariant.   *)
LEMMA TypeStep == TypeInv /\ [Next]_vars => TypeInv'
PROOF
<1> SUFFICES ASSUME TypeInv, [Next]_vars PROVE TypeInv'
  OBVIOUS
<1>1. ASSUME NEW u \in Users, Operator(u) PROVE TypeInv'
  BY <1>1, OperatorType, InsertType, RelabelStepType DEF Operator
<1>2. ASSUME NEW g \in Gateways, Gateway(g) PROVE TypeInv'
  BY <1>2, PollType, RelabelStepType DEF Gateway, claimForGateway
<1>3. CASE Failure
  BY <1>3, PollType, WorldType DEF Failure
<1>4. CASE World
  BY <1>4, WorldType
<1>5. CASE UNCHANGED vars
  <2>1. TypeOK'
    BY <1>5 DEF TypeInv, TypeOK, vars
  <2> QED BY <1>5, <2>1, RowsUntouched DEF vars
<1> QED BY <1>1, <1>2, <1>3, <1>4, <1>5 DEF Next

(* Every variable keeps its type, and each handler what its next step      *)
(* needs (control/service.ts, control/store.ts).                           *)
THEOREM TypeCorrect == Spec => []TypeOK
PROOF
<1>1. TypeInv => TypeOK
  BY DEF TypeInv
<1> QED BY TypeInit, TypeStep, <1>1, PTL DEF Spec

(* "The `currently active override' query cannot find two" (store.ts       *)
(* settleCommand): at most one override in force on a zone, at any time.   *)
THEOREM OneOverrideInForce == Spec => []OneActiveOverride
PROOF
<1>1. TypeInv => OneActiveOverride
  BY DEF TypeInv
<1> QED BY TypeInit, TypeStep, <1>1, PTL DEF Spec


-----------------------------------------------------------------------------
(* A row in one of these states has never been handed to a gateway by a    *)
(* claim that still stands.                                                *)
Unclaimed == {"none", "pending", "expired"}

(* The invariant behind OneHolder and ExpiredNeverApplied: what a gateway  *)
(* works on was claimed by it and by nobody else; a command is still       *)
(* waiting for its check or has passed it, never both; and only a command  *)
(* that has passed its check is written.                                   *)
HolderInv ==
    /\ \A g \in Gateways : \A c \in Work(g) :
         /\ \A h \in Gateways \ {g} : c \notin Work(h)
         /\ cmd[c].state \notin Unclaimed
         /\ cmd[c].state = "dispatched" => cmd[c].claimedBy = g
    /\ \A g \in Gateways : poll[g].queue \cap (poll[g].out \cup held[g]) = {}
    /\ \A c \in written : /\ cmd[c].state \notin Unclaimed
                          /\ \A g \in Gateways : c \notin poll[g].queue

(* A step that claims nothing, queues nothing and writes nothing keeps it. *)
LEMMA HoldersKept ==
    ASSUME HolderInv, TypeOK,
           \A c \in Commands :
             /\ cmd'[c].state \in Unclaimed => cmd[c].state \in Unclaimed
             /\ cmd'[c].state = "dispatched" =>
                  cmd[c].state = "dispatched" /\ cmd'[c].claimedBy = cmd[c].claimedBy,
           \A g \in Gateways :
             /\ poll'[g].queue \subseteq poll[g].queue
             /\ Work(g)' \subseteq Work(g)
             /\ poll'[g].queue \cap (poll'[g].out \cup held'[g]) = {},
           written' = written
    PROVE  HolderInv'
PROOF
<1>1. \A g \in Gateways : Work(g) \subseteq Commands
  BY DEF Work, TypeOK, Polls
<1>2. written \subseteq Commands
  BY DEF TypeOK
<1>3. \A g \in Gateways : \A c \in Work(g)' :
        /\ \A h \in Gateways \ {g} : c \notin Work(h)'
        /\ cmd'[c].state \notin Unclaimed
        /\ cmd'[c].state = "dispatched" => cmd'[c].claimedBy = g
  BY <1>1 DEF HolderInv
<1>4. \A c \in written' : /\ cmd'[c].state \notin Unclaimed
                          /\ \A g \in Gateways : c \notin poll'[g].queue
  BY <1>2 DEF HolderInv
<1> QED BY <1>3, <1>4 DEF HolderInv

(* The handlers' steps that leave rows, calls and gateways alone.          *)
LEMMA HoldersUntouched ==
    ASSUME HolderInv, UNCHANGED <<cmd, poll, held, written>>
    PROVE  HolderInv'
PROOF
BY DEF HolderInv, Work

(* A new row is pending, and an id that had no row is nobody's.            *)
LEMMA HoldersInsert ==
    ASSUME HolderInv, TypeInv, NEW u \in Users, insertCommand(u)
    PROVE  HolderInv'
PROOF
<1>1. CASE UNCHANGED cmd
  BY <1>1, HoldersUntouched DEF insertCommand
<1>2. CASE cmd' # cmd
  <2>1. PICK c \in Commands :
          /\ cmd[c].state = "none"
          /\ cmd' = [cmd EXCEPT ![c] =
               [state |-> "pending", zone |-> op[u].zone,
                setpointTempC |-> op[u].setpointTempC,
                requestedBy |-> u, requestedAt |-> clock,
                expiresAt |-> op[u].expiresAt,
                effectiveUntil |-> op[u].effectiveUntil,
                claimedBy |-> Null]]
    BY <1>2 DEF insertCommand
  <2>2. \A d \in Commands : d # c => cmd'[d] = cmd[d]
    BY <2>1 DEF TypeInv, TypeOK
  <2>3. cmd'[c].state = "pending"
    BY <2>1 DEF TypeInv, TypeOK
  <2>4. UNCHANGED <<poll, held, written>>
    BY DEF insertCommand
  <2>5. \A d \in Commands :
          /\ cmd'[d].state \in Unclaimed => cmd[d].state \in Unclaimed
          /\ cmd'[d].state = "dispatched" =>
               cmd[d].state = "dispatched" /\ cmd'[d].claimedBy = cmd[d].claimedBy
    BY <2>1, <2>2, <2>3 DEF Unclaimed
  <2> QED BY <2>4, <2>5, HoldersKept DEF TypeInv, HolderInv, Work
<1> QED BY <1>1, <1>2

(* Cancelling and expiring settle rows, and hand none to anybody.          *)
LEMMA HoldersSettle ==
    ASSUME HolderInv, TypeInv,
           \/ \E u \in Users : cancelCommand(u)
           \/ \E g \in Gateways : expireStale(g)
    PROVE  HolderInv'
PROOF
<1>0. TypeOK
  BY DEF TypeInv
<1>1. ASSUME NEW u \in Users, cancelCommand(u) PROVE HolderInv'
  <2>1. \A c \in Commands : cmd'[c] = cmd[c] \/ cmd'[c].state = "cancelled"
    BY <1>0, <1>1, CancelRows
  <2>2. UNCHANGED <<poll, held, written>>
    BY <1>1 DEF cancelCommand
  <2>3. \A c \in Commands :
          /\ cmd'[c].state \in Unclaimed => cmd[c].state \in Unclaimed
          /\ cmd'[c].state = "dispatched" =>
               cmd[c].state = "dispatched" /\ cmd'[c].claimedBy = cmd[c].claimedBy
    BY <2>1 DEF Unclaimed
  <2> QED BY <1>0, <2>2, <2>3, HoldersKept DEF HolderInv, Work
<1>2. ASSUME NEW g \in Gateways, expireStale(g) PROVE HolderInv'
  <2>1. \A c \in Commands :
          \/ cmd'[c] = cmd[c]
          \/ cmd[c].state = "pending" /\ cmd'[c].state = "expired"
    BY <1>0, <1>2, ExpireRows
  <2>2. UNCHANGED <<held, written>>
        /\ \A h \in Gateways : /\ poll'[h].queue = poll[h].queue
                               /\ poll'[h].out = poll[h].out
    BY <1>0, <1>2 DEF expireStale, TypeOK, Polls
  <2>3. \A c \in Commands :
          /\ cmd'[c].state \in Unclaimed => cmd[c].state \in Unclaimed
          /\ cmd'[c].state = "dispatched" =>
               cmd[c].state = "dispatched" /\ cmd'[c].claimedBy = cmd[c].claimedBy
    BY <2>1 DEF Unclaimed
  <2> QED BY <1>0, <2>2, <2>3, HoldersKept DEF HolderInv, Work
<1> QED BY <1>1, <1>2

(* A claim takes pending rows only, and nobody works on a pending one.     *)
LEMMA HoldersClaim ==
    ASSUME HolderInv, TypeInv, NEW g \in Gateways, claimCommands(g)
    PROVE  HolderInv'
PROOF
<1>0. TypeOK
  BY DEF TypeInv
<1>1. PICK S \in SUBSET Collectable :
        /\ \A c \in Commands \ S : cmd'[c] = cmd[c]
        /\ \A c \in S : /\ cmd'[c].state = "dispatched"
                        /\ cmd'[c].claimedBy = g
        /\ poll' = [poll EXCEPT ![g] =
                      [poll[g] EXCEPT !.pc = "checking", !.queue = S]]
  BY <1>0, ClaimRows
<1>2. UNCHANGED <<held, written>>
  BY DEF claimCommands
<1>3. S \subseteq Commands /\ \A c \in S : cmd[c].state \in Unclaimed
  BY DEF Collectable, Unclaimed
<1>4. /\ poll'[g].queue = S /\ poll'[g].out = poll[g].out
      /\ \A h \in Gateways \ {g} : poll'[h] = poll[h]
  BY <1>0, <1>1 DEF TypeOK, Polls
<1>5. \A h \in Gateways : Work(h) \subseteq Commands /\ Work(h) \cap S = {}
  BY <1>0, <1>3 DEF HolderInv, Work, TypeOK, Polls
<1>6. /\ Work(g)' = S \cup poll[g].out \cup held[g]
      /\ \A h \in Gateways \ {g} : Work(h)' = Work(h)
  BY <1>2, <1>4 DEF Work
<1>7. Work(g)' \subseteq S \cup Work(g)
  BY <1>6 DEF Work
<1>8. \A c \in Commands \ S : cmd'[c].state = cmd[c].state
                              /\ cmd'[c].claimedBy = cmd[c].claimedBy
  BY <1>1
<1>9. \A c \in S : cmd'[c].state \notin Unclaimed
  BY <1>1 DEF Unclaimed
<1>10. ASSUME NEW h \in Gateways, NEW c \in Work(h)'
       PROVE  /\ \A k \in Gateways \ {h} : c \notin Work(k)'
              /\ cmd'[c].state \notin Unclaimed
              /\ cmd'[c].state = "dispatched" => cmd'[c].claimedBy = h
  <2>1. CASE c \in S
    <3>1. h = g
      BY <2>1, <1>5, <1>6
    <3> QED BY <2>1, <3>1, <1>1, <1>5, <1>6, <1>9
  <2>2. CASE c \notin S
    <3>1. c \in Work(h) /\ \A k \in Gateways : c \in Work(k)' => c \in Work(k)
      BY <2>2, <1>6, <1>7
    <3> QED BY <2>2, <3>1, <1>5, <1>8 DEF HolderInv
  <2> QED BY <2>1, <2>2
<1>11. \A h \in Gateways : poll'[h].queue \cap (poll'[h].out \cup held'[h]) = {}
  BY <1>2, <1>4, <1>5 DEF HolderInv, Work
<1>12. ASSUME NEW c \in written'
       PROVE  /\ cmd'[c].state \notin Unclaimed
              /\ \A h \in Gateways : c \notin poll'[h].queue
  <2>1. c \in Commands /\ c \in written /\ cmd[c].state \notin Unclaimed /\ c \notin S
    BY <1>0, <1>2, <1>3 DEF HolderInv, TypeOK
  <2> QED BY <2>1, <1>4, <1>8 DEF HolderInv
<1> QED BY <1>10, <1>11, <1>12 DEF HolderInv

(* A released row leaves the queue in the step in which it becomes pending *)
(* again, and it was in no other hands.                                    *)
LEMMA HoldersRelease ==
    ASSUME HolderInv, TypeInv, NEW g \in Gateways, releaseCommand(g)
    PROVE  HolderInv'
PROOF
<1>0. TypeOK
  BY DEF TypeInv
<1> DEFINE r == poll[g].cur
<1>1. /\ \A c \in Commands \ {r} : cmd'[c] = cmd[c]
      /\ r \in poll[g].queue
      /\ poll' = [poll EXCEPT ![g] =
                    [poll[g] EXCEPT !.pc = "checking", !.cur = Null,
                                    !.queue = @ \ {r}]]
  BY <1>0, ReleaseRows
<1>2. UNCHANGED <<held, written>>
  BY DEF releaseCommand
<1>3. /\ poll'[g].queue = poll[g].queue \ {r} /\ poll'[g].out = poll[g].out
      /\ \A h \in Gateways \ {g} : poll'[h] = poll[h]
  BY <1>0, <1>1 DEF TypeOK, Polls
<1> HIDE DEF r
<1>4. r \notin poll[g].out \cup held[g] /\ r \in Work(g)
  BY <1>1 DEF HolderInv, Work
<1>5. /\ Work(g)' = Work(g) \ {r}
      /\ \A h \in Gateways \ {g} : Work(h)' = Work(h) /\ r \notin Work(h)
  BY <1>2, <1>3, <1>4 DEF Work, HolderInv
<1>6. \A h \in Gateways : Work(h) \subseteq Commands
  BY <1>0 DEF Work, TypeOK, Polls
<1>7. r \notin written /\ written \subseteq Commands
  BY <1>0, <1>1 DEF HolderInv, TypeOK
<1>8. ASSUME NEW h \in Gateways, NEW c \in Work(h)'
      PROVE  /\ \A k \in Gateways \ {h} : c \notin Work(k)'
             /\ cmd'[c].state \notin Unclaimed
             /\ cmd'[c].state = "dispatched" => cmd'[c].claimedBy = h
  <2>1. c \in Work(h) /\ c # r /\ c \in Commands
    BY <1>5, <1>6
  <2>2. \A k \in Gateways \ {h} : c \notin Work(k) /\ (c \in Work(k)' => c \in Work(k))
    BY <2>1, <1>5 DEF HolderInv
  <2> QED BY <2>1, <2>2, <1>1 DEF HolderInv
<1>9. \A h \in Gateways : poll'[h].queue \cap (poll'[h].out \cup held'[h]) = {}
  BY <1>2, <1>3 DEF HolderInv
<1>10. \A c \in written' : /\ cmd'[c].state \notin Unclaimed
                           /\ \A h \in Gateways : c \notin poll'[h].queue
  BY <1>1, <1>2, <1>3, <1>7 DEF HolderInv
<1> QED BY <1>8, <1>9, <1>10 DEF HolderInv

(* The steps of a claim call that move no row, and the gateway's own.      *)
LEMMA HoldersPoll ==
    ASSUME HolderInv, TypeInv, NEW g \in Gateways,
           \/ PollSettings(g) \/ PollZone(g) \/ PollJudge(g)
           \/ PollAnswer(g) \/ PollFails(g) \/ GatewayCrash(g)
    PROVE  HolderInv'
PROOF
<1>0. TypeOK /\ poll[g] \in Polls
  BY DEF TypeInv, TypeOK
<1>1. UNCHANGED <<cmd, written>>
  BY DEF PollSettings, PollZone, PollJudge, PollAnswer, PollFails, GatewayCrash
<1>2. \A h \in Gateways \ {g} : poll'[h] = poll[h] /\ held'[h] = held[h]
  <2>1. CASE PollSettings(g)
    BY <1>0, <2>1 DEF PollSettings, TypeOK
  <2>2. CASE PollZone(g)
    BY <1>0, <2>2 DEF PollZone, TypeOK
  <2>3. CASE PollJudge(g)
    BY <1>0, <2>3 DEF PollJudge, TypeOK
  <2>4. CASE PollAnswer(g) \/ PollFails(g) \/ GatewayCrash(g)
    BY <1>0, <2>4 DEF PollAnswer, PollFails, GatewayCrash, TypeOK
  <2> QED BY <2>1, <2>2, <2>3, <2>4
<1>3. /\ poll'[g].queue \subseteq poll[g].queue
      /\ Work(g)' \subseteq Work(g)
      /\ poll'[g].queue \cap (poll'[g].out \cup held'[g]) = {}
  <2>1. CASE PollSettings(g)
    <3>1. poll'[g].queue = {} /\ poll'[g].out = {} /\ held' = held
      BY <1>0, <2>1 DEF PollSettings, IdlePoll, TypeOK
    <3> QED BY <3>1 DEF Work
  <2>2. CASE PollZone(g)
    <3>1. poll'[g].queue = poll[g].queue /\ poll'[g].out = poll[g].out /\ held' = held
      <4>1. PICK c \in poll[g].queue :
              poll' = [poll EXCEPT ![g].pc = "judging", ![g].cur = c,
                                   ![g].ctx = loadZoneContext(cmd[c].zone)]
        BY <2>2 DEF PollZone
      <4> DEFINE p == [poll[g] EXCEPT !.pc = "judging", !.cur = c,
                                      !.ctx = loadZoneContext(cmd[c].zone)]
      <4>2. /\ p.queue = poll[g].queue /\ p.out = poll[g].out
            /\ poll' = [poll EXCEPT ![g] = p]
        BY <1>0, <4>1 DEF Polls
      <4>3. held' = held
        BY <2>2 DEF PollZone
      <4> HIDE DEF p
      <4> QED BY <1>0, <4>2, <4>3 DEF TypeOK
    <3> QED BY <3>1 DEF Work, HolderInv
  <2>3. CASE PollJudge(g)
    <3>1. poll[g].cur \in poll[g].queue
      BY <1>0, <2>3 DEF PollJudge, TypeOK
    <3>2. held' = held
          /\ \/ /\ poll'[g].queue = poll[g].queue \ {poll[g].cur}
                /\ poll'[g].out = poll[g].out \cup {poll[g].cur}
             \/ poll'[g].queue = poll[g].queue /\ poll'[g].out = poll[g].out
      <4> DEFINE yes == [poll[g] EXCEPT !.pc = "checking", !.cur = Null,
                       !.ctx = Null, !.queue = @ \ {poll[g].cur},
                       !.out = @ \cup {poll[g].cur}]
                 no == [poll[g] EXCEPT !.pc = "releasing", !.ctx = Null]
      <4>1. held' = held
            /\ (poll' = [poll EXCEPT ![g] = yes] \/ poll' = [poll EXCEPT ![g] = no])
        BY <2>3 DEF PollJudge
      <4>2. /\ yes.queue = poll[g].queue \ {poll[g].cur}
            /\ yes.out = poll[g].out \cup {poll[g].cur}
            /\ no.queue = poll[g].queue /\ no.out = poll[g].out
        BY <1>0 DEF Polls
      <4> HIDE DEF yes, no
      <4> QED BY <4>1, <4>2, <1>0 DEF TypeOK
    <3> QED BY <3>1, <3>2 DEF Work, HolderInv
  <2>4. CASE PollAnswer(g)
    <3>1. /\ poll'[g].queue = {} /\ poll'[g].out = {}
          /\ held'[g] = held[g] \cup poll[g].out
      BY <1>0, <2>4 DEF PollAnswer, IdlePoll, TypeOK
    <3> QED BY <3>1 DEF Work
  <2>5. CASE PollFails(g)
    <3>1. poll'[g].queue = {} /\ poll'[g].out = {} /\ held' = held
      BY <1>0, <2>5 DEF PollFails, IdlePoll, TypeOK
    <3> QED BY <3>1 DEF Work
  <2>6. CASE GatewayCrash(g)
    <3>1. poll' = poll /\ held'[g] = {}
      BY <1>0, <2>6 DEF GatewayCrash, TypeOK
    <3> QED BY <3>1 DEF Work, HolderInv
  <2> QED BY <2>1, <2>2, <2>3, <2>4, <2>5, <2>6
<1>4. \A h \in Gateways :
        /\ poll'[h].queue \subseteq poll[h].queue
        /\ Work(h)' \subseteq Work(h)
        /\ poll'[h].queue \cap (poll'[h].out \cup held'[h]) = {}
  BY <1>2, <1>3 DEF Work, HolderInv
<1> QED BY <1>0, <1>1, <1>4, HoldersKept

(* Only what a gateway holds is written, and what it holds has passed its  *)
(* check and is in nobody's queue.                                         *)
LEMMA HoldersWrite ==
    ASSUME HolderInv, TypeInv, NEW g \in Gateways, GatewayWrite(g)
    PROVE  HolderInv'
PROOF
<1>1. PICK c \in held[g] : written' = written \cup {c}
  BY DEF GatewayWrite
<1>2. UNCHANGED <<cmd, poll, held>>
  BY DEF GatewayWrite
<1>3. c \in Work(g)
  BY <1>1 DEF Work
<1>4. \A h \in Gateways : c \notin poll[h].queue
  BY <1>1, <1>3 DEF HolderInv, Work
<1> QED BY <1>1, <1>2, <1>3, <1>4 DEF HolderInv, Work

(* A report settles a row that its gateway was handed.                     *)
LEMMA HoldersReport ==
    ASSUME HolderInv, TypeInv, NEW g \in Gateways, GatewayReport(g)
    PROVE  HolderInv'
PROOF
<1>0. TypeOK
  BY DEF TypeInv
<1>1. PICK c \in held[g] :
        /\ \/ UNCHANGED cmd
           \/ /\ cmd'[c].state = "applied"
              /\ \A d \in activeOverrides(cmd[c].zone) :
                   cmd'[d].state = "superseded"
              /\ \A d \in Commands \ {c} :
                   \/ cmd'[d] = cmd[d]
                   \/ d \in activeOverrides(cmd[c].zone)
           \/ /\ cmd'[c].state = "failed"
              /\ \A d \in Commands \ {c} : cmd'[d] = cmd[d]
        /\ held' = held \/ held' = [held EXCEPT ![g] = @ \ {c}]
  BY <1>0, ReportRows
<1>2. UNCHANGED <<poll, written>>
  BY DEF GatewayReport
<1>3. \A d \in Commands :
        \/ cmd'[d] = cmd[d]
        \/ cmd'[d].state \in {"applied", "superseded", "failed"}
  BY <1>1
<1>4. \A d \in Commands :
        /\ cmd'[d].state \in Unclaimed => cmd[d].state \in Unclaimed
        /\ cmd'[d].state = "dispatched" =>
             cmd[d].state = "dispatched" /\ cmd'[d].claimedBy = cmd[d].claimedBy
  BY <1>3 DEF Unclaimed
<1>5. \A h \in Gateways : held'[h] \subseteq held[h]
  BY <1>0, <1>1 DEF TypeOK
<1>6. \A h \in Gateways :
        /\ poll'[h].queue \subseteq poll[h].queue
        /\ Work(h)' \subseteq Work(h)
        /\ poll'[h].queue \cap (poll'[h].out \cup held'[h]) = {}
  BY <1>2, <1>5 DEF HolderInv, Work
<1> QED BY <1>0, <1>2, <1>4, <1>6, HoldersKept

(* The ingest process restarts: every call is gone, the gateways keep      *)
(* what they were handed.                                                  *)
LEMMA HoldersRestart ==
    ASSUME HolderInv, TypeInv, IngestCrash
    PROVE  HolderInv'
PROOF
<1>1. UNCHANGED <<cmd, held, written>>
      /\ \A g \in Gateways : poll'[g].queue = {} /\ poll'[g].out = {}
  BY DEF IngestCrash, IdlePoll
<1> QED BY <1>1, HoldersKept DEF TypeInv, HolderInv, Work

(* Nobody works on anything at the start.                                  *)
LEMMA HolderInit == Init => HolderInv
PROOF
BY DEF Init, HolderInv, Work, IdlePoll

(* Every step of every handler, gateway and failure keeps the invariant.   *)
LEMMA HolderStep == TypeInv /\ HolderInv /\ [Next]_vars => HolderInv'
PROOF
<1> SUFFICES ASSUME TypeInv, HolderInv, [Next]_vars PROVE HolderInv'
  OBVIOUS
<1>1. ASSUME NEW u \in Users, Operator(u) PROVE HolderInv'
  <2>1. CASE insertCommand(u)
    BY <2>1, HoldersInsert
  <2>2. CASE cancelCommand(u)
    BY <2>2, HoldersSettle
  <2>3. CASE UNCHANGED <<cmd, poll, held, written>>
    BY <2>3, HoldersUntouched
  <2> QED BY <1>1, <2>1, <2>2, <2>3 DEF Operator, IssueStart, IssueSettings,
        IssueZone, IssueJudge, CancelStart, SettingsStart, updateSettings
<1>2. ASSUME NEW g \in Gateways, Gateway(g) PROVE HolderInv'
  BY <1>2, HoldersSettle, HoldersPoll, HoldersClaim, HoldersRelease,
     HoldersWrite, HoldersReport DEF Gateway, claimForGateway
<1>3. CASE Failure
  BY <1>3, HoldersPoll, HoldersRestart DEF Failure
<1>4. CASE World
  BY <1>4, HoldersUntouched DEF World, Tick, SensorReports, EquipmentChanges,
     ProfileChanges, RoleChanges
<1>5. CASE UNCHANGED vars
  BY <1>5, HoldersUntouched DEF vars
<1> QED BY <1>1, <1>2, <1>3, <1>4, <1>5 DEF Next

-----------------------------------------------------------------------------
(* A row that is live after a step that relabels rows was live before it.  *)
LEMMA LiveKept ==
    ASSUME OneLivePerZone, TypeOK,
           \A c \in Commands : cmd'[c].state \in Live =>
               cmd[c].state \in Live /\ cmd'[c].zone = cmd[c].zone
    PROVE  OneLivePerZone'
PROOF
<1> SUFFICES ASSUME NEW z \in Zones, NEW c \in Commands, NEW d \in Commands,
                    c \in RowsOf(z)', cmd'[c].state \in Live,
                    d \in RowsOf(z)', cmd'[d].state \in Live
             PROVE  c = d
  BY DEF OneLivePerZone
<1>1. \A e \in {c, d} : e \in RowsOf(z) /\ cmd[e].state \in Live
  BY DEF RowsOf, Live
<1> QED BY <1>1 DEF OneLivePerZone

(* The index lets a new row in only where none is live (insertCommand).    *)
LEMMA LiveInsert ==
    ASSUME OneLivePerZone, TypeInv, NEW u \in Users, insertCommand(u)
    PROVE  OneLivePerZone'
PROOF
<1>0. TypeOK
  BY DEF TypeInv
<1>1. CASE UNCHANGED cmd
  BY <1>0, <1>1, LiveKept
<1>2. CASE cmd' # cmd
  <2>1. PICK c \in Commands :
          /\ cmd[c].state = "none"
          /\ cmd' = [cmd EXCEPT ![c] =
               [state |-> "pending", zone |-> op[u].zone,
                setpointTempC |-> op[u].setpointTempC,
                requestedBy |-> u, requestedAt |-> clock,
                expiresAt |-> op[u].expiresAt,
                effectiveUntil |-> op[u].effectiveUntil,
                claimedBy |-> Null]]
    BY <1>2 DEF insertCommand
  <2>2. OneLiveIndexAllows(op[u].zone)
    BY <1>2 DEF insertCommand
  <2>3. /\ \A d \in Commands : d # c => cmd'[d] = cmd[d]
        /\ cmd'[c].state = "pending" /\ cmd'[c].zone = op[u].zone
    BY <1>0, <2>1 DEF TypeOK
  <2>4. ASSUME NEW z \in Zones, NEW d \in Commands, NEW e \in Commands,
               d \in RowsOf(z)', cmd'[d].state \in Live,
               e \in RowsOf(z)', cmd'[e].state \in Live
        PROVE  d = e
    <3>1. \A f \in {d, e} : f # c => f \in RowsOf(z) /\ cmd[f].state \in Live
      <4>1. ASSUME NEW f \in {d, e}, f # c PROVE cmd'[f] = cmd[f]
        BY <2>3, <4>1
      <4> QED BY <4>1, <2>4 DEF RowsOf
    <3>2. \A f \in {d, e} : f # c => z # op[u].zone
      BY <2>2, <3>1 DEF OneLiveIndexAllows
    <3>3. \A f \in {d, e} : f = c => z = op[u].zone
      BY <2>3, <2>4 DEF RowsOf
    <3>4. CASE d # c /\ e # c
      BY <3>1, <3>4 DEF OneLivePerZone
    <3> QED BY <3>2, <3>3, <3>4
  <2> QED BY <2>4 DEF OneLivePerZone
<1> QED BY <1>1, <1>2

(* No step of the system makes a second row of a zone live.                *)
LEMMA LiveStep == TypeInv /\ OneLivePerZone /\ [Next]_vars => OneLivePerZone'
PROOF
<1> SUFFICES ASSUME TypeInv, OneLivePerZone, [Next]_vars PROVE OneLivePerZone'
  OBVIOUS
<1>0. TypeOK
  BY DEF TypeInv
<1>1. CASE UNCHANGED cmd
  BY <1>0, <1>1, LiveKept
<1>2. ASSUME NEW u \in Users, cancelCommand(u) PROVE OneLivePerZone'
  <2>1. \A c \in Commands : cmd'[c] = cmd[c] \/ cmd'[c].state = "cancelled"
    BY <1>0, <1>2, CancelRows
  <2> QED BY <1>0, <2>1, LiveKept DEF Live
<1>3. ASSUME NEW g \in Gateways, expireStale(g) PROVE OneLivePerZone'
  <2>1. \A c \in Commands : cmd'[c] = cmd[c] \/ cmd'[c].state = "expired"
    BY <1>0, <1>3, ExpireRows
  <2> QED BY <1>0, <2>1, LiveKept DEF Live
<1>4. ASSUME NEW g \in Gateways, claimCommands(g) PROVE OneLivePerZone'
  <2>1. PICK S \in SUBSET Collectable :
          /\ \A c \in Commands : Relabelled(c)
          /\ \A c \in Commands \ S : cmd'[c] = cmd[c]
    BY <1>0, <1>4, ClaimRows
  <2>2. \A c \in S : cmd[c].state = "pending"
    BY DEF Collectable
  <2>3. \A c \in Commands : cmd'[c].state \in Live =>
          cmd[c].state \in Live /\ cmd'[c].zone = cmd[c].zone
    BY <2>1, <2>2, ZenonT(30) DEF Live, Relabelled
  <2> QED BY <1>0, <2>3, LiveKept
<1>5. ASSUME NEW g \in Gateways, releaseCommand(g) PROVE OneLivePerZone'
  <2>1. /\ \A c \in Commands : Relabelled(c)
        /\ \A c \in Commands :
             cmd'[c] = cmd[c] \/ cmd[c].state = "dispatched"
    BY <1>0, <1>5, ReleaseRows
  <2> QED BY <1>0, <2>1, LiveKept DEF Live, Relabelled
<1>6. ASSUME NEW g \in Gateways, GatewayReport(g) PROVE OneLivePerZone'
  <2>1. \A c \in Commands :
          \/ cmd'[c] = cmd[c]
          \/ cmd'[c].state \in {"applied", "superseded", "failed"}
    BY <1>0, <1>6, ReportRows
  <2> QED BY <1>0, <2>1, LiveKept DEF Live
<1>7. ASSUME NEW u \in Users, Operator(u) PROVE OneLivePerZone'
  BY <1>1, <1>2, <1>7, LiveInsert DEF Operator, IssueStart, IssueSettings,
     IssueZone, IssueJudge, CancelStart, SettingsStart, updateSettings
<1>8. ASSUME NEW g \in Gateways, Gateway(g) PROVE OneLivePerZone'
  BY <1>1, <1>3, <1>4, <1>5, <1>6, <1>8 DEF Gateway, claimForGateway,
     PollSettings, PollZone, PollJudge, PollAnswer, GatewayWrite
<1>9. CASE Failure \/ World \/ UNCHANGED vars
  BY <1>1, <1>9 DEF Failure, World, vars, IngestCrash, GatewayCrash, PollFails,
     Tick, SensorReports, EquipmentChanges, ProfileChanges, RoleChanges
<1> QED BY <1>7, <1>8, <1>9 DEF Next

(* However handlers, gateways and failures interleave, one command per     *)
(* zone is live, no two gateways work on one command, and none that is     *)
(* expired or still queued has been written to the equipment               *)
(* (control/service.ts claimForGateway, control/store.ts).                 *)
THEOREM CommandsSound == Spec => []CommandsAreSound
PROOF
<1>1. Init => OneLivePerZone
  BY DEF Init, OneLivePerZone, RowsOf, NoRow
<1>2. HolderInv => OneHolder /\ ExpiredNeverApplied
  BY DEF HolderInv, OneHolder, ExpiredNeverApplied, Unclaimed
<1>3. OneLivePerZone /\ HolderInv => CommandsAreSound
  BY <1>2 DEF CommandsAreSound
<1> QED BY TypeInit, TypeStep, HolderInit, HolderStep, LiveStep, <1>1, <1>3, PTL
        DEF Spec

-----------------------------------------------------------------------------
(* What the lifecycle sees of a row, and of all rows.                      *)
Seen(r) == [state |-> r.state, zone |-> r.zone, expiresAt |-> r.expiresAt,
            effectiveUntil |-> r.effectiveUntil]

AllSeen == [c \in Commands |-> Seen(cmd[c])]

(* Two rows the lifecycle tells apart only by their state.                 *)
LEMMA SeenRelabelled ==
    ASSUME NEW c \in Commands, Relabelled(c)
    PROVE  Seen(cmd'[c]) = [Seen(cmd[c]) EXCEPT !.state = cmd'[c].state]
PROOF
BY DEF Seen, Relabelled

(* A step that relabels rows, seen from the lifecycle: the rows of one set *)
(* move to one state and the others stay.                                  *)
LEMMA SeenMove ==
    ASSUME NEW S \in SUBSET Commands, NEW to,
           \A c \in Commands : Relabelled(c),
           \A c \in S : cmd'[c].state = to,
           \A c \in Commands \ S : cmd'[c] = cmd[c],
           clock' = clock
    PROVE  Lifecycle!Move(S, to)
PROOF
<1>1. \A c \in Commands :
        Seen(cmd'[c]) = IF c \in S THEN [Seen(cmd[c]) EXCEPT !.state = to]
                                   ELSE Seen(cmd[c])
  BY SeenRelabelled
<1>2. AllSeen' = [c \in Commands |->
                   IF c \in S THEN [AllSeen[c] EXCEPT !.state = to]
                              ELSE AllSeen[c]]
  BY <1>1 DEF AllSeen
<1> QED BY <1>2 DEF Lifecycle!Move, AllSeen, Seen

(* A step that moves neither clock nor rows is none of the lifecycle's.    *)
LEMMA SeenSame ==
    ASSUME UNCHANGED <<clock, cmd>>
    PROVE  UNCHANGED <<clock, AllSeen>>
PROOF
BY DEF AllSeen

(* Time passes for both (Tick).                                            *)
LEMMA TickPasses ==
    ASSUME TypeOK, Tick
    PROVE  Lifecycle!Passes
PROOF
BY DEF TypeOK, Tick, Lifecycle!Passes

(* An accepted command appears in a zone without a live one                *)
(* (insertCommand).                                                        *)
LEMMA InsertAccepts ==
    ASSUME TypeOK, NEW u \in Users, insertCommand(u), cmd' # cmd
    PROVE  \E c \in Commands : Lifecycle!Accept(c)
PROOF
<1> DEFINE new == [state |-> "pending", zone |-> op[u].zone,
                   setpointTempC |-> op[u].setpointTempC,
                   requestedBy |-> u, requestedAt |-> clock,
                   expiresAt |-> op[u].expiresAt,
                   effectiveUntil |-> op[u].effectiveUntil,
                   claimedBy |-> Null]
<1>1. PICK c \in Commands : cmd[c].state = "none" /\ cmd' = [cmd EXCEPT ![c] = new]
  BY DEF insertCommand
<1>2. /\ op[u].effectiveUntil > op[u].expiresAt
      /\ \A d \in RowsOf(op[u].zone) : cmd[d].state \notin Live
      /\ op[u].zone \in Zones /\ clock' = clock
  BY DEF insertCommand, WindowOk, OneLiveIndexAllows, TypeOK
<1>3. /\ new.state = "pending" /\ new.zone = op[u].zone
      /\ new.expiresAt = op[u].expiresAt
      /\ new.effectiveUntil = op[u].effectiveUntil
  OBVIOUS
<1> HIDE DEF new
<1>4. cmd'[c] = new /\ \A d \in Commands \ {c} : cmd'[d] = cmd[d]
  BY <1>1 DEF TypeOK
<1>5. \A d \in Commands \ {c} :
        /\ cmd[d].zone = op[u].zone => cmd[d].state \notin Lifecycle!LiveStates
        /\ Seen(cmd'[d]) = Seen(cmd[d])
  BY <1>2, <1>4 DEF RowsOf, Live, Lifecycle!LiveStates
<1> DEFINE row == AllSeen
<1>6. /\ row[c].state = "none" /\ row'[c].state = "pending"
      /\ row'[c].zone = op[u].zone
      /\ row'[c].expiresAt = op[u].expiresAt
      /\ row'[c].effectiveUntil = op[u].effectiveUntil
  BY <1>1, <1>3, <1>4 DEF AllSeen, Seen
<1>7. \A d \in Commands \ {c} :
        /\ row[d].zone = op[u].zone => row[d].state \notin Lifecycle!LiveStates
        /\ row'[d] = row[d]
  BY <1>5 DEF AllSeen, Seen
<1>8. /\ row[c].state = "none"
      /\ row'[c].state = "pending"
      /\ row'[c].zone \in Zones
      /\ row'[c].effectiveUntil > row'[c].expiresAt
      /\ \A d \in Commands \ {c} :
           /\ row[d].zone = row'[c].zone => row[d].state \notin Lifecycle!LiveStates
           /\ row'[d] = row[d]
  BY <1>2, <1>6, <1>7
<1>9. Lifecycle!Accept(c)
  BY <1>2, <1>8 DEF Lifecycle!Accept, AllSeen, Seen
<1> QED BY <1>9

(* Cancelling withdraws a live command, or changes nothing.                *)
LEMMA CancelWithdraws ==
    ASSUME TypeOK, NEW u \in Users, cancelCommand(u), cmd' # cmd
    PROVE  \E c \in Commands : Lifecycle!Withdraw(c)
PROOF
<1>1. PICK c \in Commands :
        cmd' = IF cmd[c].state \in Live
               THEN [cmd EXCEPT ![c].state = "cancelled"] ELSE cmd
  BY DEF cancelCommand
<1>2. cmd[c].state \in Live
  BY <1>1
<1>3. \A d \in Commands : Relabelled(d)
  BY CancelRows
<1>4. cmd'[c].state = "cancelled" /\ \A d \in Commands \ {c} : cmd'[d] = cmd[d]
  BY <1>1, <1>2 DEF TypeOK, Rows
<1>5. clock' = clock
  BY DEF cancelCommand
<1>6. Lifecycle!Move({c}, "cancelled")
  BY <1>3, <1>4, <1>5, SeenMove
<1>7. Lifecycle!Withdraw(c)
  BY <1>2, <1>6 DEF Lifecycle!Withdraw, Lifecycle!LiveStates, Live
<1> QED BY <1>7

(* Expiring moves every pending command that is out of date.               *)
LEMMA ExpireExpires ==
    ASSUME TypeOK, NEW g \in Gateways, expireStale(g)
    PROVE  \E S \in SUBSET Commands : Lifecycle!Expire(S)
PROOF
<1>0. PICK S \in SUBSET Commands : S = {c \in Commands : cmd'[c] # cmd[c]}
  OBVIOUS
<1>1. /\ \A c \in Commands : Relabelled(c)
      /\ \A c \in S : /\ cmd[c].state = "pending" /\ cmd[c].expiresAt <= clock
                      /\ cmd'[c].state = "expired"
      /\ \A c \in Commands \ S : cmd'[c] = cmd[c]
  BY <1>0, ExpireRows
<1>2. clock' = clock
  BY DEF expireStale
<1>3. Lifecycle!Move(S, "expired")
  BY <1>1, <1>2, SeenMove
<1>4. Lifecycle!Expire(S)
  BY <1>1, <1>3 DEF Lifecycle!Expire, AllSeen, Seen
<1> QED BY <1>4

(* A claim collects pending commands that are in date.                     *)
LEMMA ClaimCollects ==
    ASSUME TypeOK, NEW g \in Gateways, claimCommands(g)
    PROVE  \E S \in SUBSET Commands : Lifecycle!Collect(S)
PROOF
<1>1. PICK S \in SUBSET Collectable :
        /\ \A c \in Commands : Relabelled(c)
        /\ \A c \in Commands \ S : cmd'[c] = cmd[c]
        /\ \A c \in S : cmd'[c].state = "dispatched"
  BY ClaimRows
<1>2. /\ S \in SUBSET Commands
      /\ \A c \in S : cmd[c].state = "pending" /\ cmd[c].expiresAt > clock
  BY DEF Collectable
<1>3. clock' = clock
  BY DEF claimCommands
<1>4. Lifecycle!Move(S, "dispatched")
  BY <1>1, <1>2, <1>3, SeenMove
<1>5. Lifecycle!Collect(S)
  BY <1>2, <1>4 DEF Lifecycle!Collect, AllSeen, Seen
<1> QED BY <1>2, <1>5

(* A release hands a dispatched command back, or changes nothing.          *)
LEMMA ReleaseHandsBack ==
    ASSUME TypeOK, NEW g \in Gateways, releaseCommand(g), cmd' # cmd
    PROVE  \E c \in Commands : Lifecycle!HandBack(c)
PROOF
<1>0. poll[g].cur \in Commands
  BY ReleaseRows DEF TypeOK, Polls
<1> PICK c \in Commands : c = poll[g].cur
  BY <1>0
<1>1. /\ \A d \in Commands : Relabelled(d)
      /\ \A d \in Commands \ {c} : cmd'[d] = cmd[d]
      /\ cmd' \in [Commands -> Rows]
      /\ \/ cmd'[c] = cmd[c]
         \/ cmd[c].state = "dispatched" /\ cmd'[c].state = "pending"
  BY ReleaseRows
<1>2. cmd[c].state = "dispatched" /\ cmd'[c].state = "pending"
  <2>1. CASE cmd'[c] = cmd[c]
    <3>1. \A d \in Commands : cmd'[d] = cmd[d]
      BY <1>1, <2>1
    <3>2. cmd' = cmd
      BY <1>1, <3>1 DEF TypeOK
    <3> QED BY <3>2
  <2> QED BY <1>1, <2>1
<1>3. clock' = clock
  BY DEF releaseCommand
<1>4. Lifecycle!Move({c}, "pending")
  BY <1>1, <1>2, <1>3, SeenMove
<1>5. Lifecycle!HandBack(c)
  BY <1>1, <1>2, <1>4 DEF Lifecycle!HandBack, AllSeen, Seen
<1> QED BY <1>1, <1>5

(* A report applies or fails a dispatched command, or changes nothing.     *)
LEMMA ReportSettles ==
    ASSUME TypeOK, NEW g \in Gateways, GatewayReport(g), cmd' # cmd
    PROVE  \E c \in Commands : Lifecycle!Apply(c) \/ Lifecycle!Fail(c)
PROOF
<1>1. PICK c \in held[g] :
        /\ c \in Commands
        /\ \A d \in Commands : Relabelled(d)
        /\ \/ /\ cmd[c].state = "dispatched"
              /\ cmd'[c].state = "applied"
              /\ \A d \in activeOverrides(cmd[c].zone) :
                   cmd'[d].state = "superseded"
              /\ \A d \in Commands \ {c} :
                   cmd'[d] = cmd[d] \/ d \in activeOverrides(cmd[c].zone)
           \/ /\ cmd[c].state = "dispatched" /\ cmd'[c].state = "failed"
              /\ \A d \in Commands \ {c} : cmd'[d] = cmd[d]
  BY ReportRows
<1>2. clock' = clock
  BY DEF GatewayReport
<1>3. CASE cmd'[c].state = "failed"
  <2>1. cmd[c].state = "dispatched" /\ \A d \in Commands \ {c} : cmd'[d] = cmd[d]
    BY <1>1, <1>3
  <2>2. Lifecycle!Move({c}, "failed")
    BY <1>1, <1>2, <1>3, <2>1, SeenMove
  <2>3. Lifecycle!Fail(c)
    BY <1>1, <2>1, <2>2 DEF Lifecycle!Fail
  <2> QED BY <1>1, <2>3
<1>4. CASE cmd'[c].state = "applied"
  <2> DEFINE A == activeOverrides(cmd[c].zone)
  <2>1. /\ cmd[c].state = "dispatched"
        /\ \A d \in A : cmd'[d].state = "superseded"
        /\ \A d \in Commands \ {c} : cmd'[d] = cmd[d] \/ d \in A
    BY <1>1, <1>4
  <2>2. \A d \in Commands :
          d \in A <=> /\ cmd[d].state = "applied" /\ cmd[d].effectiveUntil > clock
                      /\ cmd[d].zone = cmd[c].zone
    BY DEF activeOverrides, RowsOf
  <2>3. c \notin A
    BY <1>1, <2>1, <2>2
  <2> HIDE DEF A
  <2> DEFINE row == AllSeen
  <2>4. \A d \in Commands :
          row'[d] = IF d = c THEN [row[d] EXCEPT !.state = "applied"]
                    ELSE IF d \in A THEN [row[d] EXCEPT !.state = "superseded"]
                    ELSE row[d]
    BY <1>1, <1>4, <2>1, <2>3, SeenRelabelled DEF AllSeen
  <2>5. \A d \in Commands : d \in A <=> Lifecycle!InForce(d) /\ row[d].zone = row[c].zone
    BY <1>1, <2>2 DEF Lifecycle!InForce, AllSeen, Seen
  <2>6. row' = [d \in Commands |->
                  IF d = c THEN [row[d] EXCEPT !.state = "applied"]
                  ELSE IF Lifecycle!InForce(d) /\ row[d].zone = row[c].zone
                  THEN [row[d] EXCEPT !.state = "superseded"]
                  ELSE row[d]]
    BY <2>4, <2>5 DEF AllSeen
  <2>7. row[c].state = "dispatched"
    BY <1>1, <2>1 DEF AllSeen, Seen
  <2>8. Lifecycle!Apply(c)
    BY <1>2, <2>6, <2>7 DEF Lifecycle!Apply, AllSeen, Seen
  <2> QED BY <1>1, <2>8
<1> QED BY <1>1, <1>3, <1>4

(* Every step of the system is a step of the lifecycle or leaves it alone. *)
LEMMA StepIsLifecycle ==
    ASSUME TypeOK, [Next]_vars
    PROVE  Lifecycle!ANext \/ UNCHANGED <<clock, AllSeen>>
PROOF
<1>1. CASE UNCHANGED <<clock, cmd>>
  BY <1>1, SeenSame
<1>2. ASSUME NEW u \in Users, Operator(u)
      PROVE  Lifecycle!ANext \/ UNCHANGED <<clock, cmd>>
  <2>1. clock' = clock
    BY <1>2 DEF Operator, IssueStart, IssueSettings, IssueZone, IssueJudge,
       insertCommand, CancelStart, cancelCommand, SettingsStart, updateSettings
  <2>2. insertCommand(u) \/ cancelCommand(u) \/ UNCHANGED cmd
    BY <1>2 DEF Operator, IssueStart, IssueSettings, IssueZone, IssueJudge,
       CancelStart, SettingsStart, updateSettings
  <2> QED BY <2>1, <2>2, InsertAccepts, CancelWithdraws DEF Lifecycle!ANext
<1>3. ASSUME NEW g \in Gateways, Gateway(g)
      PROVE  Lifecycle!ANext \/ UNCHANGED <<clock, cmd>>
  <2>1. CASE UNCHANGED <<clock, cmd>>
    BY <2>1
  <2>2. CASE expireStale(g)
    BY <2>2, ExpireExpires DEF Lifecycle!ANext
  <2>3. CASE claimCommands(g)
    BY <2>3, ClaimCollects DEF Lifecycle!ANext
  <2>4. CASE releaseCommand(g) /\ cmd' # cmd
    BY <2>4, ReleaseHandsBack DEF Lifecycle!ANext
  <2>5. CASE GatewayReport(g) /\ cmd' # cmd
    BY <2>5, ReportSettles DEF Lifecycle!ANext
  <2> QED BY <1>3, <2>1, <2>2, <2>3, <2>4, <2>5 DEF Gateway, claimForGateway,
        PollSettings, PollZone, PollJudge, PollAnswer, GatewayWrite,
        releaseCommand, GatewayReport
<1>4. CASE Failure \/ World \/ UNCHANGED vars
  <2>1. Tick \/ UNCHANGED <<clock, cmd>>
    BY <1>4 DEF Failure, World, vars, IngestCrash, GatewayCrash, PollFails,
       SensorReports, EquipmentChanges, ProfileChanges, RoleChanges
  <2> QED BY <1>1, <2>1, TickPasses DEF Lifecycle!ANext
<1> QED BY <1>1, <1>2, <1>3, <1>4 DEF Next

(* The handlers, the gateways and the failures together implement the      *)
(* lifecycle migration 017 promises of a command (control/store.ts).       *)
THEOREM LifecycleImplemented == Spec => ImplementsLifecycle
PROOF
<1>1. Init => Lifecycle!AInit
  BY DEF Init, NoRow, Lifecycle!AInit, Lifecycle!Absent
<1>2. TypeInv /\ [Next]_vars =>
        [Lifecycle!ANext]_<<clock, AllSeen>>
  BY StepIsLifecycle DEF TypeInv
<1> QED BY TypeInit, TypeStep, <1>1, <1>2, PTL
        DEF Spec, ImplementsLifecycle, Lifecycle!ASpec, AllSeen, Seen
-----------------------------------------------------------------------------
Request == [setpointTempC : Int, durationS : (Nat \ {0}) \cup {Null}]

(* The distance of two setpoints is that of the reals.                     *)
LEMMA AbsDiffIsDistance ==
    ASSUME NEW a \in Int, NEW b \in Int
    PROVE  /\ AbsDiff(a, b) \in Nat
           /\ \A d \in Int : AbsDiff(a, b) <= d <=> a - b \in -d .. d
BY DEF AbsDiff

(* The checks that come before those of the number and the rate.           *)
Commandable(l, w) ==
    /\ mayCommand(w.role) /\ l.enabled /\ w.zone.baselineTempC # Null
    /\ ~ blocked(w.zone) /\ usableFeedback(w.zone.feedback, Now)

(* What the first check that refuses says of the ones before it.           *)
LEMMA FirstRefusal ==
    ASSUME NEW q, NEW l, NEW w
    PROVE  LET r == refusalOf(q, l, w.role, w.zone, Now)
           IN  /\ r \in {"none", "outside_envelope", "step_too_large", "no_change",
                         "command_in_flight", "too_soon", "duration_too_long"}
                    => Commandable(l, w)
               /\ r = "none" <=>
                    /\ Commandable(l, w)
                    /\ ~(deviation(q, w.zone) > l.maxDeviationK)
                    /\ ~(step(q, w.zone) > l.maxStepK)
                    /\ ~(step(q, w.zone) <= SETPOINT_EPSILON_K)
                    /\ ~w.zone.commandInFlight
                    /\ ~tooSoon(w.zone, l, Now)
                    /\ ~tooLong(q, l)
BY DEF refusalOf, Commandable

(* What a verdict is made of.                                              *)
LEMMA VerdictOf ==
    ASSUME NEW q, NEW l, NEW r, NEW z
    PROVE  LET v == evaluate(q, l, r, z, Now)
           IN  /\ v.refusal = refusalOf(q, l, r, z, Now)
               /\ v.ok = (v.refusal = "none")
BY DEF evaluate

(* The verdict of the re-check, which is not shown the command itself.     *)
Rechecked == evaluate([request EXCEPT !.durationS = Null], limits, site.role,
                      [site.zone EXCEPT !.commandInFlight = FALSE,
                                         !.lastCommandAt = Null], Now)

(* The inductive invariant: a verdict is what evaluate said of this        *)
(* request in this world, and so is the verdict of the re-check.           *)
VerdictsInv ==
    /\ request \in Requests /\ limits \in EnvelopeSettings /\ site \in Worlds
    /\ verdict \in {Null, evaluate(request, limits, site.role, site.zone, Now)}
    /\ recheck = Null \/ (verdict # Null /\ recheck = Rechecked)

LEMMA VerdictsInvHolds == ESpec => []VerdictsInv
PROOF
<1>1. EInit => VerdictsInv
  BY DEF EInit, VerdictsInv
<1>2. VerdictsInv /\ [ENext]_evars => VerdictsInv'
  <2> SUFFICES ASSUME VerdictsInv, [ENext]_evars PROVE VerdictsInv'
    OBVIOUS
  <2>1. CASE Issue
    BY <2>1 DEF Issue, VerdictsInv, Rechecked
  <2>2. CASE Recheck
    BY <2>2 DEF Recheck, VerdictsInv, Rechecked
  <2>3. CASE UNCHANGED evars
    BY <2>3 DEF evars, VerdictsInv, Rechecked
  <2> QED BY <2>1, <2>2, <2>3 DEF ENext
<1> QED BY <1>1, <1>2, PTL DEF ESpec

(* Each check of evaluate fails exactly where the reference finds fault.   *)
LEMMA ChecksAreTheReference ==
    ASSUME VerdictsInv
    PROVE  /\ Wrong("forbidden_role") <=> ~mayCommand(site.role)
           /\ Wrong("control_disabled") <=> ~limits.enabled
           /\ Wrong("no_baseline") <=> site.zone.baselineTempC = Null
           /\ Wrong("equipment_unavailable") <=> blocked(site.zone)
           /\ Wrong("feedback_unusable") <=> ~usableFeedback(site.zone.feedback, Now)
           /\ site.zone.baselineTempC = Null =>
                 ~Wrong("outside_envelope") /\ ~Wrong("step_too_large") /\ ~Wrong("no_change")
           /\ site.zone.baselineTempC # Null =>
                 /\ Wrong("outside_envelope") <=> deviation(request, site.zone) > limits.maxDeviationK
                 /\ Wrong("step_too_large") <=> step(request, site.zone) > limits.maxStepK
                 /\ Wrong("no_change") <=> step(request, site.zone) <= SETPOINT_EPSILON_K
           /\ Wrong("command_in_flight") <=> site.zone.commandInFlight
           /\ Wrong("too_soon") <=> tooSoon(site.zone, limits, Now)
           /\ Wrong("duration_too_long") <=> tooLong(request, limits)
PROOF
<1>1. /\ site.role \in Roles /\ site.zone \in ZoneContexts /\ limits \in Settings /\ request \in Request /\ Now \in Nat
  BY EnvelopeCheckAssumption DEF VerdictsInv, Request
<1>2. /\ site.zone.baselineTempC \in Int \cup {Null} /\ site.zone.activeOverrideTempC \in Int \cup {Null}
      /\ site.zone.equipment \in SUBSET EquipmentStatuses /\ site.zone.feedback \in Feedback \cup {Null}
      /\ site.zone.lastCommandAt \in Nat \cup {Null} /\ site.zone.commandInFlight \in BOOLEAN
  BY <1>1 DEF ZoneContexts
<1>3. /\ limits.maxDeviationK \in Int /\ limits.maxStepK \in Int /\ limits.minIntervalS \in Int /\ limits.enabled \in BOOLEAN
      /\ limits.defaultDurationS \in Int /\ limits.maxDurationS \in Int
  BY <1>1 DEF Settings
<1>4. request.setpointTempC \in Int /\ request.durationS \in (Nat \ {0}) \cup {Null}
  BY <1>1 DEF Request
<1>5. Wrong("forbidden_role") <=> ~mayCommand(site.role)
  BY <1>1 DEF Wrong, mayCommand, Roles, CONTROL_ROLES
<1>6. (Wrong("control_disabled") <=> ~limits.enabled) /\ (Wrong("command_in_flight") <=> site.zone.commandInFlight)
  BY <1>2, <1>3 DEF Wrong, zone
<1>7. Wrong("no_baseline") <=> site.zone.baselineTempC = Null
  BY DEF Wrong, zone
<1>8. Wrong("equipment_unavailable") <=> blocked(site.zone)
  <2>1. Wrong("equipment_unavailable") <=> ~(site.zone.equipment \subseteq {"operational", "degraded"})
    BY DEF Wrong, zone
  <2> QED BY <1>2, <2>1 DEF blocked, EquipmentStatuses, BLOCKING_STATUSES
<1>9. Wrong("feedback_unusable") <=> ~usableFeedback(site.zone.feedback, Now)
  <2> DEFINE r == site.zone.feedback
  <2>1. Wrong("feedback_unusable") <=> (r = Null \/ r.quality # "good" \/ Now > r.ts + StaleAfter)
    BY DEF Wrong, zone
  <2>2. r \in Feedback \cup {Null}
    BY <1>2
  <2> HIDE DEF r
  <2>3. ASSUME r # Null PROVE isReadingStale(r.ts, Now) <=> Now > r.ts + StaleAfter
    <3>1. r.ts \in Nat /\ StaleAfter \in Nat /\ Now \in Nat
      BY <1>1, <2>2, <2>3, StaleAfterAssumption DEF Feedback
    <3> QED BY <3>1 DEF isReadingStale, readingAge
  <2> QED BY <2>1, <2>3 DEF usableFeedback, r
<1>10. site.zone.baselineTempC = Null => ~Wrong("outside_envelope") /\ ~Wrong("step_too_large") /\ ~Wrong("no_change")
  BY DEF Wrong, zone
<1>11. ASSUME site.zone.baselineTempC # Null
       PROVE  /\ Wrong("outside_envelope") <=> deviation(request, site.zone) > limits.maxDeviationK
              /\ Wrong("step_too_large") <=> step(request, site.zone) > limits.maxStepK
              /\ Wrong("no_change") <=> step(request, site.zone) <= SETPOINT_EPSILON_K
  <2> DEFINE a == request.setpointTempC
             b == site.zone.baselineTempC
             c == currentTempC(site.zone)
  <2>1. /\ Wrong("outside_envelope") <=> a - b \notin -limits.maxDeviationK .. limits.maxDeviationK
        /\ Wrong("step_too_large") <=> a - From \notin -limits.maxStepK .. limits.maxStepK
        /\ Wrong("no_change") <=> a - From \in -1 .. 1
    BY <1>11 DEF Wrong, zone
  <2>2. From = c
    BY DEF From, currentTempC, zone
  <2>3. a \in Int /\ b \in Int /\ c \in Int
    BY <1>2, <1>4, <1>11 DEF currentTempC
  <2>4. deviation(request, site.zone) = AbsDiff(a, b) /\ step(request, site.zone) = AbsDiff(a, c)
    BY DEF deviation, step
  <2> HIDE DEF a, b, c
  <2>5. AbsDiff(a, b) \in Nat /\ \A d \in Int : AbsDiff(a, b) <= d <=> a - b \in -d .. d
    BY <2>3, AbsDiffIsDistance
  <2>6. AbsDiff(a, c) \in Nat /\ \A d \in Int : AbsDiff(a, c) <= d <=> a - c \in -d .. d
    BY <2>3, AbsDiffIsDistance
  <2> QED BY <1>3, <2>1, <2>2, <2>4, <2>5, <2>6 DEF SETPOINT_EPSILON_K
<1>12. Wrong("too_soon") <=> tooSoon(site.zone, limits, Now)
  <2>1. Wrong("too_soon") <=> site.zone.lastCommandAt # Null /\ Now < site.zone.lastCommandAt + limits.minIntervalS
    BY DEF Wrong, zone
  <2>2. site.zone.lastCommandAt # Null => site.zone.lastCommandAt \in Nat
    BY <1>2
  <2> QED BY <1>1, <1>3, <2>1, <2>2 DEF tooSoon
<1>13. Wrong("duration_too_long") <=> tooLong(request, limits)
  BY DEF Wrong, Asked, tooLong, durationOf
<1> QED BY <1>5, <1>6, <1>7, <1>8, <1>9, <1>10, <1>11, <1>12, <1>13

(* The first check that refuses names what is wrong, and what is checked   *)
(* before it is not.                                                       *)
LEMMA FirstIsReal ==
    ASSUME VerdictsInv
    PROVE  LET r == refusalOf(request, limits, site.role, site.zone, Now)
           IN  /\ r = "none" => Problems = {}
               /\ r # "none" => /\ r \in Problems
                                /\ \A p \in Problems : Group[r] <= Group[p]
PROOF
<1> DEFINE r == refusalOf(request, limits, site.role, site.zone, Now)
           bl == site.zone.baselineTempC = Null
           dev == deviation(request, site.zone) > limits.maxDeviationK
           st == step(request, site.zone) > limits.maxStepK
           nc == step(request, site.zone) <= SETPOINT_EPSILON_K
<1>1. r = IF Wrong("forbidden_role") THEN "forbidden_role"
          ELSE IF Wrong("control_disabled") THEN "control_disabled"
          ELSE IF Wrong("no_baseline") THEN "no_baseline"
          ELSE IF Wrong("equipment_unavailable") THEN "equipment_unavailable"
          ELSE IF Wrong("feedback_unusable") THEN "feedback_unusable"
          ELSE IF Wrong("outside_envelope") THEN "outside_envelope"
          ELSE IF Wrong("step_too_large") THEN "step_too_large"
          ELSE IF Wrong("no_change") THEN "no_change"
          ELSE IF Wrong("command_in_flight") THEN "command_in_flight"
          ELSE IF Wrong("too_soon") THEN "too_soon"
          ELSE IF Wrong("duration_too_long") THEN "duration_too_long"
          ELSE "none"
  BY ChecksAreTheReference DEF refusalOf
<1>2. \A p : p \in Problems <=>
         Wrong(p) /\ p \in {"forbidden_role", "control_disabled", "no_baseline", "equipment_unavailable", "feedback_unusable",
                            "outside_envelope", "step_too_large", "no_change", "command_in_flight", "too_soon", "duration_too_long"}
  BY DEF Problems, Group
<1>3. /\ Group["forbidden_role"] = 1 /\ Group["control_disabled"] = 2 /\ Group["no_baseline"] = 2
      /\ Group["equipment_unavailable"] = 3 /\ Group["feedback_unusable"] = 3
      /\ Group["outside_envelope"] = 4 /\ Group["step_too_large"] = 4 /\ Group["no_change"] = 4
      /\ Group["command_in_flight"] = 5 /\ Group["too_soon"] = 5 /\ Group["duration_too_long"] = 5
  BY DEF Group
<1> HIDE DEF r
<1>4. r = "none" => Problems = {}
  BY <1>1, <1>2
<1>5. r # "none" => r \in Problems
  BY <1>1, <1>2
<1>6. r # "none" => \A p \in Problems : Group[r] <= Group[p]
  <2> SUFFICES ASSUME r # "none", NEW p \in Problems PROVE Group[r] <= Group[p]
    OBVIOUS
  <2>1. Wrong(p)
    BY <1>2
  <2>2. CASE p = "forbidden_role"
    BY <1>1, <1>3, <2>1, <2>2
  <2>3. CASE p \in {"control_disabled", "no_baseline"}
    <3>1. r \in {"forbidden_role", "control_disabled", "no_baseline"}
      BY <1>1, <2>1, <2>3
    <3> QED BY <1>3, <2>3, <3>1
  <2>4. CASE p \in {"equipment_unavailable", "feedback_unusable"}
    <3>1. r \in {"forbidden_role", "control_disabled", "no_baseline", "equipment_unavailable", "feedback_unusable"}
      BY <1>1, <2>1, <2>4
    <3> QED BY <1>3, <2>4, <3>1
  <2>5. CASE p \in {"outside_envelope", "step_too_large", "no_change"}
    <3>1. r \in {"forbidden_role", "control_disabled", "no_baseline", "equipment_unavailable", "feedback_unusable",
                  "outside_envelope", "step_too_large", "no_change"}
      BY <1>1, <2>1, <2>5
    <3> QED BY <1>3, <2>5, <3>1
  <2>6. CASE p \in {"command_in_flight", "too_soon", "duration_too_long"}
    <3>1. Group[r] <= 5
      BY <1>1, <1>3
    <3> QED BY <1>3, <2>6, <3>1
  <2> QED BY <1>2, <2>2, <2>3, <2>4, <2>5, <2>6
<1> QED BY <1>4, <1>5, <1>6 DEF r

(* What is accepted is inside every limit of the site.                     *)
LEMMA AcceptedInside == VerdictsInv => AcceptedIsSafe
PROOF
<1> SUFFICES ASSUME VerdictsInv, verdict # Null, verdict.ok
             PROVE  /\ Problems = {} /\ verdict.effectiveUntil = Now + Asked
                    /\ verdict.effectiveUntil <= Now + limits.maxDurationS
  BY DEF AcceptedIsSafe
<1>1. verdict = evaluate(request, limits, site.role, site.zone, Now)
  BY DEF VerdictsInv
<1>2. refusalOf(request, limits, site.role, site.zone, Now) = "none"
  BY <1>1, VerdictOf
<1>3. Problems = {}
  BY <1>2, FirstIsReal
<1>4. verdict.effectiveUntil = Now + Asked
  BY <1>1 DEF evaluate, durationOf, Asked
<1>5. ~(Asked > limits.maxDurationS)
  <2>1. ~tooLong(request, limits)
    BY <1>2, FirstRefusal
  <2> QED BY <2>1 DEF tooLong, durationOf, Asked
<1>6. Asked \in Int /\ limits.maxDurationS \in Int /\ Now \in Int
  BY EnvelopeCheckAssumption DEF VerdictsInv, Settings, Asked
<1> QED BY <1>3, <1>4, <1>5, <1>6

LEMMA RefusalReal == VerdictsInv => RefusalNamesTheRealProblem
PROOF
<1> SUFFICES ASSUME VerdictsInv, verdict # Null, ~verdict.ok
             PROVE  verdict.refusal \in Problems /\ \A p \in Problems : Group[verdict.refusal] <= Group[p]
  BY DEF RefusalNamesTheRealProblem
<1>1. verdict.refusal = refusalOf(request, limits, site.role, site.zone, Now) /\ verdict.ok = (verdict.refusal = "none")
  BY VerdictOf DEF VerdictsInv
<1> QED BY <1>1, FirstIsReal

(* The re-check sees the same world, and neither the command nor the rate  *)
(* limit nor a duration that the schema keeps within its bound.            *)
LEMMA RecheckSame == VerdictsInv => RecheckAgrees
PROOF
<1> SUFFICES ASSUME VerdictsInv, recheck # Null, verdict.ok PROVE recheck.ok
  BY DEF RecheckAgrees
<1> DEFINE q == [request EXCEPT !.durationS = Null]
           z == [site.zone EXCEPT !.commandInFlight = FALSE, !.lastCommandAt = Null]
           w == [role |-> site.role, zone |-> z]
<1>1. /\ verdict = evaluate(request, limits, site.role, site.zone, Now)
      /\ recheck = evaluate(q, limits, site.role, z, Now)
  BY DEF VerdictsInv, Rechecked
<1>2. /\ Commandable(limits, site)
      /\ ~(deviation(request, site.zone) > limits.maxDeviationK)
      /\ ~(step(request, site.zone) > limits.maxStepK)
      /\ ~(step(request, site.zone) <= SETPOINT_EPSILON_K)
  <2>1. refusalOf(request, limits, site.role, site.zone, Now) = "none"
    BY <1>1, VerdictOf
  <2> QED BY <2>1, FirstRefusal
<1>3. /\ request \in Request /\ limits \in Settings /\ site.zone \in ZoneContexts
  BY EnvelopeCheckAssumption DEF VerdictsInv, Request
<1>4. /\ z.baselineTempC = site.zone.baselineTempC
      /\ z.activeOverrideTempC = site.zone.activeOverrideTempC
      /\ z.equipment = site.zone.equipment /\ z.feedback = site.zone.feedback
      /\ z.commandInFlight = FALSE /\ z.lastCommandAt = Null
  BY <1>3 DEF ZoneContexts
<1>5. q.setpointTempC = request.setpointTempC /\ q.durationS = Null
  BY <1>3 DEF Request
<1>6. w.role = site.role /\ w.zone = z
  OBVIOUS
<1> HIDE DEF q, z, w
<1>7. Commandable(limits, w)
  BY <1>2, <1>4, <1>6 DEF Commandable, blocked
<1>8. deviation(q, z) = deviation(request, site.zone) /\ step(q, z) = step(request, site.zone)
  BY <1>4, <1>5 DEF deviation, step, currentTempC
<1>9. ~tooSoon(z, limits, Now)
  BY <1>4 DEF tooSoon
<1>10. ~tooLong(q, limits)
  <2>1. limits.defaultDurationS \in Int /\ limits.maxDurationS \in Int
        /\ limits.maxDurationS >= limits.defaultDurationS
    BY <1>3 DEF Settings, SaneSettings
  <2>2. durationOf(q, limits) = limits.defaultDurationS
    BY <1>5 DEF durationOf
  <2> QED BY <2>1, <2>2 DEF tooLong
<1>11. refusalOf(q, limits, w.role, w.zone, Now) = "none"
  BY <1>2, <1>4, <1>6, <1>7, <1>8, <1>9, <1>10, FirstRefusal
<1>12. refusalOf(q, limits, site.role, z, Now) = "none"
  BY <1>6, <1>11
<1>13. evaluate(q, limits, site.role, z, Now).ok = TRUE
  BY <1>12 DEF evaluate
<1> QED BY <1>1, <1>13

(* What evaluate owes its two callers (issueCommand and claimForGateway):  *)
(* for every request, setting and zone, what it accepts is within every    *)
(* limit, its maximum duration included; what it refuses is refused for a  *)
(* reason that holds, with nothing of an earlier group wrong; and the      *)
(* re-check at dispatch refuses nothing accepted in the same world.        *)
THEOREM VerdictsRight == ESpec => []VerdictsAreRight
PROOF
<1>1. VerdictsInv => VerdictsAreRight
  BY AcceptedInside, RefusalReal, RecheckSame DEF VerdictsAreRight
<1> QED BY <1>1, VerdictsInvHolds, PTL
-----------------------------------------------------------------------------
(* Under limits that stay as they are, with one request at a time.         *)
Steady == settings' = settings /\ baseline' = baseline
Asking(u) == op[u].pc \in {"loading", "inserting"}
OneAsks == \A u, v \in Users : Asking(u) /\ Asking(v) => u = v

Within(t, z) == baseline[z] # Null /\ AbsDiff(t, baseline[z]) <= settings.maxDeviationK
LastSeen(t, z) == RowsOf(z) # {} => t # Null /\ \A c \in RowsOf(z) : cmd[c].requestedAt <= t

(* What a request knows is still so: the limits it read, the design of its *)
(* zone, the latest command there; and once accepted it may be inserted.   *)
AskInv(u) ==
    /\ op[u].pc = "inserting" =>
         /\ Within(op[u].setpointTempC, op[u].zone)
         /\ \A c \in RowsOf(op[u].zone) : clock - cmd[c].requestedAt >= settings.minIntervalS
    /\ op[u].pc = "loading" =>
         /\ op[u].settings \in {Null, settings}
         /\ op[u].ctx # Null => /\ op[u].ctx.baselineTempC = baseline[op[u].zone]
                                /\ LastSeen(op[u].ctx.lastCommandAt, op[u].zone)

(* Every row, in force or not, is inside the envelope.                     *)
LimitsInv ==
    /\ \A c \in Commands : cmd[c].state # "none" => Within(cmd[c].setpointTempC, cmd[c].zone)
    /\ RateLimited
    /\ \A u \in Users : AskInv(u)

(* A step that accepts and inserts nothing keeps the limits.               *)
LEMMA LimitsStand ==
    ASSUME LimitsInv, TypeInv, TypeInv', Steady, clock <= clock',
           \A c \in Commands : Relabelled(c),
           \A u \in Users : op'[u] = op[u] \/ AskInv(u)'
    PROVE  LimitsInv'
PROOF
<1>1. \A z : RowsOf(z)' = RowsOf(z)
  BY DEF RowsOf, Relabelled
<1>2. \A c \in Commands : /\ cmd'[c].requestedAt = cmd[c].requestedAt /\ cmd'[c].zone = cmd[c].zone
                          /\ cmd'[c].setpointTempC = cmd[c].setpointTempC
                          /\ (cmd'[c].state = "none") = (cmd[c].state = "none")
  BY DEF Relabelled
<1>3. settings' = settings /\ baseline' = baseline
  BY DEF Steady
<1>4. \A z : RowsOf(z) \subseteq Commands
  BY DEF RowsOf
<1>5. RateLimited'
  BY <1>1, <1>2, <1>3, <1>4 DEF LimitsInv, RateLimited
<1>6. \A c \in Commands : cmd'[c].state # "none" => Within(cmd[c].setpointTempC, cmd[c].zone)'
  BY <1>2, <1>3 DEF LimitsInv, Within
<1>7. ASSUME NEW u \in Users, op'[u] = op[u] PROVE AskInv(u)'
  <2>1. AskInv(u) /\ settings.minIntervalS \in Int /\ clock \in Nat /\ clock' \in Nat
    BY DEF LimitsInv, TypeInv, TypeOK, Settings
  <2>2. \A c \in Commands : cmd[c].requestedAt \in Nat
    BY DEF TypeInv, TypeOK, Rows
  <2>3. op'[u].pc = "inserting" => AskInv(u)'
    <3>1. \A c \in RowsOf(op[u].zone) : clock - cmd[c].requestedAt >= settings.minIntervalS
            => clock' - cmd'[c].requestedAt >= settings.minIntervalS
      BY <1>2, <1>4, <2>1, <2>2
    <3> QED BY <1>1, <1>3, <1>7, <2>1, <3>1 DEF AskInv, Within
  <2>4. op'[u].pc = "loading" => AskInv(u)'
    BY <1>1, <1>2, <1>3, <1>4, <1>7, <2>1 DEF AskInv, LastSeen
  <2> QED BY <2>3, <2>4 DEF AskInv
<1> QED BY <1>2, <1>5, <1>6, <1>7 DEF LimitsInv, Within

(* What an accepted verdict says of the value and of the rate.             *)
LEMMA AcceptedWithin ==
    ASSUME NEW q, NEW s, NEW r, NEW z, NEW n, evaluate(q, s, r, z, n).ok
    PROVE  /\ z.baselineTempC # Null /\ ~(deviation(q, z) > s.maxDeviationK)
           /\ ~ tooSoon(z, s, n)
BY DEF evaluate, refusalOf

LEMMA JudgeKeepsLimits ==
    ASSUME LimitsInv, TypeInv, TypeInv', Steady, NEW u \in Users, IssueJudge(u)
    PROVE  AskInv(u)'
PROOF
<1>1. PICK t \in Temps, d \in Durations, dryRun \in BOOLEAN :
           LET s == IF op[u].settings # Null THEN op[u].settings ELSE settings
               z == IF op[u].ctx # Null THEN op[u].ctx
                                       ELSE loadZoneContext(op[u].zone)
               v == evaluate([setpointTempC |-> t, durationS |-> d],
                             s, op[u].role, z, clock)
           IN  op' = [op EXCEPT ![u] =
                        IF v.ok /\ ~ dryRun
                        THEN [IdleOp EXCEPT !.pc = "inserting",
                                !.zone = op[u].zone, !.setpointTempC = t,
                                !.expiresAt = v.expiresAt,
                                !.effectiveUntil = v.effectiveUntil]
                        ELSE IdleOp]
  BY DEF IssueJudge
<1> DEFINE s == IF op[u].settings # Null THEN op[u].settings ELSE settings
           z == IF op[u].ctx # Null THEN op[u].ctx
                                   ELSE loadZoneContext(op[u].zone)
           q == [setpointTempC |-> t, durationS |-> d]
           v == evaluate(q, s, op[u].role, z, clock)
<1>2. /\ op \in [Users -> Ops] /\ op[u].zone \in Zones /\ op[u].pc = "loading"
      /\ baseline[op[u].zone] \in Int \cup {Null} /\ clock \in Nat /\ settings \in Settings
      /\ UNCHANGED <<clock, cmd>>
  BY DEF TypeInv, TypeOK, IssueJudge
<1>3. s = settings
  BY <1>2 DEF LimitsInv, AskInv
<1>4. z.baselineTempC = baseline[op[u].zone] /\ LastSeen(z.lastCommandAt, op[u].zone)
  <2>1. CASE op[u].ctx # Null
    BY <1>2, <2>1 DEF LimitsInv, AskInv
  <2>2. CASE op[u].ctx = Null
    <3>1. z = loadZoneContext(op[u].zone)
      BY <2>2
    <3>2. z.baselineTempC = baseline[op[u].zone] /\ z.lastCommandAt = lastCommandAt(op[u].zone)
      BY <3>1 DEF loadZoneContext
    <3>3. LastSeen(lastCommandAt(op[u].zone), op[u].zone)
      BY <1>2, LastCommandType DEF LastSeen, TypeInv
    <3> QED BY <3>2, <3>3
  <2> QED BY <2>1, <2>2
<1>5. z.lastCommandAt \in Nat \cup {Null}
  <2>1. loadZoneContext(op[u].zone) \in ZoneContexts
    BY <1>2, ZoneContextType
  <2>2. z \in ZoneContexts
    BY <1>2, <2>1 DEF Ops
  <2> QED BY <2>2 DEF ZoneContexts
<1>6. v.ok => /\ Within(t, op[u].zone)
              /\ \A c \in RowsOf(op[u].zone) : clock - cmd[c].requestedAt >= settings.minIntervalS
  <2> SUFFICES ASSUME v.ok
               PROVE  /\ Within(t, op[u].zone)
                      /\ \A c \in RowsOf(op[u].zone) : clock - cmd[c].requestedAt >= settings.minIntervalS
    OBVIOUS
  <2>1. z.baselineTempC # Null /\ ~(deviation(q, z) > s.maxDeviationK) /\ ~ tooSoon(z, s, clock)
    <3> HIDE DEF s, z, q
    <3> QED BY AcceptedWithin
  <2>2. Within(t, op[u].zone)
    <3>1. deviation(q, z) = AbsDiff(t, baseline[op[u].zone])
      BY <1>4 DEF deviation
    <3>2. AbsDiff(t, baseline[op[u].zone]) \in Int /\ settings.maxDeviationK \in Int
      BY <1>2, <1>4, <2>1, ControlAssumption DEF AbsDiff, Settings
    <3> HIDE DEF s, z, q
    <3> QED BY <1>3, <1>4, <2>1, <3>1, <3>2 DEF Within
  <2>3. ASSUME NEW c \in RowsOf(op[u].zone) PROVE clock - cmd[c].requestedAt >= settings.minIntervalS
    <3>1. z.lastCommandAt \in Nat /\ cmd[c].requestedAt <= z.lastCommandAt
      BY <1>4, <1>5, <2>3 DEF LastSeen
    <3>2. cmd[c].requestedAt \in Nat /\ settings.minIntervalS \in Int
      BY <1>2, <2>3 DEF RowsOf, TypeInv, TypeOK, Rows, Settings
    <3>3. ~(clock - z.lastCommandAt < settings.minIntervalS)
      <4>1. z.lastCommandAt # Null
        BY <3>1, NullAssumption
      <4> HIDE DEF s, z
      <4> QED BY <1>3, <2>1, <4>1 DEF tooSoon
    <3> HIDE DEF z
    <3> QED BY <1>2, <3>1, <3>2, <3>3
  <2> QED BY <2>2, <2>3
<1>7. CASE v.ok /\ ~ dryRun
  <2> DEFINE o == [IdleOp EXCEPT !.pc = "inserting", !.zone = op[u].zone, !.setpointTempC = t,
                                 !.expiresAt = v.expiresAt, !.effectiveUntil = v.effectiveUntil]
  <2>1. op' = [op EXCEPT ![u] = o]
    BY <1>1, <1>7
  <2>2. o.pc = "inserting" /\ o.zone = op[u].zone /\ o.setpointTempC = t
    BY DEF IdleOp
  <2>3. op'[u].pc = "inserting" /\ op'[u].zone = op[u].zone /\ op'[u].setpointTempC = t
    <3> HIDE DEF o
    <3> QED BY <1>2, <2>1, <2>2
  <2>4. RowsOf(op[u].zone)' = RowsOf(op[u].zone)
    BY <1>2, <2>3 DEF RowsOf
  <2> HIDE DEF s, z, q, v, o
  <2>5. Within(op[u].setpointTempC, op[u].zone)'
    BY <1>6, <1>7, <2>3 DEF Within, Steady
  <2>6. \A c \in RowsOf(op[u].zone) : clock' - cmd'[c].requestedAt >= settings'.minIntervalS
    BY <1>2, <1>6, <1>7 DEF Steady
  <2> QED BY <2>3, <2>4, <2>5, <2>6 DEF AskInv
<1>8. CASE ~(v.ok /\ ~ dryRun)
  <2>1. op'[u] = IdleOp
    BY <1>1, <1>2, <1>8
  <2> QED BY <2>1 DEF AskInv, IdleOp
<1> QED BY <1>7, <1>8

LEMMA LoadKeepsLimits ==
    ASSUME LimitsInv, TypeInv, TypeInv', Steady, NEW u \in Users,
           IssueStart(u) \/ IssueSettings(u) \/ IssueZone(u)
    PROVE  AskInv(u)'
PROOF
<1>1. op \in [Users -> Ops] /\ AskInv(u) /\ UNCHANGED <<clock, cmd>>
  BY DEF LimitsInv, TypeInv, TypeOK, IssueStart, IssueSettings, IssueZone
<1>2. CASE IssueStart(u)
  <2>1. op'[u].pc = "loading" /\ op'[u].settings = Null /\ op'[u].ctx = Null
    BY <1>1, <1>2 DEF IssueStart, IdleOp
  <2> QED BY <2>1 DEF AskInv
<1>3. CASE IssueSettings(u)
  <2>1. op'[u].pc = "loading" /\ op'[u].settings = settings /\ op'[u].ctx = Null
    BY <1>1, <1>3 DEF IssueSettings, Ops
  <2> QED BY <2>1 DEF AskInv, Steady
<1>4. CASE IssueZone(u)
  <2>1. /\ op'[u].pc = "loading" /\ op'[u].settings = Null /\ op'[u].zone = op[u].zone
        /\ op'[u].ctx = loadZoneContext(op[u].zone) /\ op[u].zone \in Zones
    BY <1>1, <1>4 DEF IssueZone, Ops, TypeInv, TypeOK
  <2>2. /\ loadZoneContext(op[u].zone).baselineTempC = baseline[op[u].zone]
        /\ loadZoneContext(op[u].zone).lastCommandAt = lastCommandAt(op[u].zone)
    BY DEF loadZoneContext
  <2>3. LastSeen(lastCommandAt(op[u].zone), op[u].zone)
    BY <2>1, LastCommandType DEF LastSeen, TypeInv
  <2>4. LastSeen(op[u].ctx.lastCommandAt, op[u].zone)'
    BY <1>1, <2>1, <2>2, <2>3 DEF LastSeen, RowsOf
  <2> QED BY <2>1, <2>2, <2>4 DEF AskInv, Steady
<1> QED BY <1>2, <1>3, <1>4

(* The row inserted keeps its distance from every other of its zone, and   *)
(* no other request is under way that could have read without it.          *)
LEMMA InsertKeepsLimits ==
    ASSUME LimitsInv, TypeInv, TypeInv', Steady, OneAsks, NEW u \in Users, insertCommand(u)
    PROVE  LimitsInv'
PROOF
<1>1. /\ op \in [Users -> Ops] /\ cmd \in [Commands -> Rows] /\ op' = [op EXCEPT ![u] = IdleOp]
      /\ op[u].pc = "inserting" /\ op[u].zone \in Zones /\ UNCHANGED <<clock, settings, baseline>>
      /\ clock \in Nat /\ settings.minIntervalS \in Int
  BY DEF TypeInv, TypeOK, insertCommand, Steady, Settings
<1>2. ASSUME NEW w \in Users PROVE AskInv(w)'
  <2>1. op'[w].pc \notin {"loading", "inserting"}
    BY <1>1 DEF OneAsks, Asking, IdleOp
  <2> QED BY <2>1 DEF AskInv
<1>3. CASE cmd' = cmd
  <2>1. \A c \in Commands : Relabelled(c)
    BY <1>3 DEF Relabelled
  <2> QED BY <1>1, <1>2, <2>1, LimitsStand
<1>4. CASE cmd' # cmd
  <2> DEFINE new == [state |-> "pending", zone |-> op[u].zone,
                     setpointTempC |-> op[u].setpointTempC,
                     requestedBy |-> u, requestedAt |-> clock,
                     expiresAt |-> op[u].expiresAt,
                     effectiveUntil |-> op[u].effectiveUntil,
                     claimedBy |-> Null]
  <2>1. PICK n \in Commands : cmd[n].state = "none" /\ cmd' = [cmd EXCEPT ![n] = new]
    BY <1>4 DEF insertCommand
  <2>2. /\ new.zone = op[u].zone /\ new.setpointTempC = op[u].setpointTempC
        /\ new.requestedAt = clock
    OBVIOUS
  <2> HIDE DEF new
  <2>3. cmd'[n] = new /\ \A c \in Commands \ {n} : cmd'[c] = cmd[c]
    BY <1>1, <2>1
  <2>4. AskInv(u)
    BY DEF LimitsInv
  <2>5. \A c \in Commands : cmd'[c].state # "none" => Within(cmd[c].setpointTempC, cmd[c].zone)'
    <3>1. Within(op[u].setpointTempC, op[u].zone)
      BY <1>1, <2>4 DEF AskInv
    <3>2. Within(cmd[n].setpointTempC, cmd[n].zone)'
      BY <1>1, <2>2, <2>3, <3>1 DEF Within
    <3>3. ASSUME NEW c \in Commands \ {n}, cmd'[c].state # "none"
          PROVE  Within(cmd[c].setpointTempC, cmd[c].zone)'
      <4>1. Within(cmd[c].setpointTempC, cmd[c].zone)
        BY <2>3, <3>3 DEF LimitsInv
      <4> QED BY <1>1, <2>3, <4>1 DEF Within
    <3> QED BY <3>2, <3>3
  <2>6. \A c \in RowsOf(op[u].zone) : clock - cmd[c].requestedAt >= settings.minIntervalS
    BY <1>1, <2>4 DEF AskInv
  <2>7. RateLimited'
    <3> SUFFICES ASSUME NEW z \in Zones, NEW c \in RowsOf(z)', NEW d \in RowsOf(z)', c # d
                 PROVE  AbsDiff(cmd'[c].requestedAt, cmd'[d].requestedAt) >= settings.minIntervalS
      BY <1>1 DEF RateLimited
    <3>1. \A e \in RowsOf(z)' : e \in Commands /\ (e # n => e \in RowsOf(z) /\ cmd'[e] = cmd[e])
      BY <2>3 DEF RowsOf
    <3>2. n \in RowsOf(z)' => z = op[u].zone /\ cmd'[n].requestedAt = clock
      BY <2>2, <2>3 DEF RowsOf
    <3>3. \A e \in Commands : cmd[e].requestedAt \in Nat /\ cmd[e].requestedAt <= clock
      BY <1>1 DEF Rows, TypeInv, RequestedInThePast
    <3>4. CASE c # n /\ d # n
      BY <3>1, <3>4 DEF LimitsInv, RateLimited
    <3>5. CASE c = n
      <4>1. d \in RowsOf(op[u].zone) /\ cmd'[d] = cmd[d] /\ cmd'[c].requestedAt = clock /\ d \in Commands
        BY <3>1, <3>2, <3>5
      <4>2. clock - cmd[d].requestedAt >= settings.minIntervalS
        BY <2>6, <4>1
      <4> QED BY <1>1, <3>3, <4>1, <4>2 DEF AbsDiff
    <3>6. CASE d = n
      <4>1. c \in RowsOf(op[u].zone) /\ cmd'[c] = cmd[c] /\ cmd'[d].requestedAt = clock /\ c \in Commands
        BY <3>1, <3>2, <3>6
      <4>2. clock - cmd[c].requestedAt >= settings.minIntervalS
        BY <2>6, <4>1
      <4> QED BY <1>1, <3>3, <4>1, <4>2 DEF AbsDiff
    <3> QED BY <3>4, <3>5, <3>6
  <2> QED BY <1>2, <2>5, <2>7 DEF LimitsInv
<1> QED BY <1>3, <1>4

LEMMA LimitsStep == TypeInv /\ LimitsInv /\ OneAsks /\ [Next]_vars /\ [Steady]_vars => LimitsInv'
PROOF
<1> SUFFICES ASSUME TypeInv, LimitsInv, OneAsks, [Next]_vars, [Steady]_vars PROVE LimitsInv'
  OBVIOUS
<1>0. TypeOK /\ TypeInv' /\ clock \in Nat /\ op \in [Users -> Ops]
  BY TypeStep DEF TypeInv, TypeOK
<1>1. Steady
  BY DEF Steady, vars
<1>2. ASSUME UNCHANGED <<cmd, op>>, clock <= clock' PROVE LimitsInv'
  <2>1. \A c \in Commands : Relabelled(c)
    BY <1>2 DEF Relabelled
  <2> QED BY <1>0, <1>1, <1>2, <2>1, LimitsStand
<1>3. ASSUME UNCHANGED <<cmd, clock>>, NEW u \in Users, AskInv(u)', \A w \in Users \ {u} : op'[w] = op[w]
      PROVE  LimitsInv'
  <2>1. \A c \in Commands : Relabelled(c)
    BY <1>3 DEF Relabelled
  <2>2. clock <= clock'
    BY <1>0, <1>3
  <2>3. \A w \in Users : op'[w] = op[w] \/ AskInv(w)'
    BY <1>3
  <2> QED BY <1>0, <1>1, <2>1, <2>2, <2>3, LimitsStand
<1>4. ASSUME NEW u \in Users, IssueStart(u) \/ IssueSettings(u) \/ IssueZone(u) \/ IssueJudge(u)
      PROVE  LimitsInv'
  <2>1. AskInv(u)'
    BY <1>0, <1>1, <1>4, LoadKeepsLimits, JudgeKeepsLimits
  <2>2. UNCHANGED <<cmd, clock>> /\ \A w \in Users \ {u} : op'[w] = op[w]
    BY <1>0, <1>4 DEF IssueStart, IssueSettings, IssueZone, IssueJudge
  <2> QED BY <1>3, <2>1, <2>2
<1>5. ASSUME NEW u \in Users, CancelStart(u) \/ SettingsStart(u) \/ updateSettings(u) PROVE LimitsInv'
  <2>1. op'[u].pc \in {"cancelling", "configuring", "idle"}
    BY <1>0, <1>5 DEF CancelStart, SettingsStart, updateSettings, IdleOp, Ops
  <2>2. AskInv(u)'
    BY <2>1 DEF AskInv
  <2>3. UNCHANGED <<cmd, clock>> /\ \A w \in Users \ {u} : op'[w] = op[w]
    BY <1>0, <1>5 DEF CancelStart, SettingsStart, updateSettings
  <2> QED BY <1>3, <2>2, <2>3
<1>6. ASSUME NEW u \in Users, cancelCommand(u) PROVE LimitsInv'
  <2>1. \A c \in Commands : Relabelled(c)
    BY <1>0, <1>6, CancelRows
  <2>2. \A w \in Users : op'[w] = op[w] \/ op'[w].pc = "idle"
    BY <1>0, <1>6 DEF cancelCommand, IdleOp
  <2>3. \A w \in Users : op'[w] = op[w] \/ AskInv(w)'
    BY <2>2 DEF AskInv
  <2>4. clock <= clock'
    BY <1>0, <1>6 DEF cancelCommand
  <2> QED BY <1>0, <1>1, <2>1, <2>3, <2>4, LimitsStand
<1>7. ASSUME NEW g \in Gateways, expireStale(g) \/ claimCommands(g) \/ releaseCommand(g) \/ GatewayReport(g)
      PROVE  LimitsInv'
  <2>1. \A c \in Commands : Relabelled(c)
    <3>1. CASE expireStale(g) \/ claimCommands(g)
      BY <1>0, <3>1, ExpireRows, ClaimRows
    <3>2. CASE releaseCommand(g)
      BY <1>0, <3>2, ReleaseRows
    <3>3. CASE GatewayReport(g)
      BY <1>0, <3>3, ReportRows
    <3> QED BY <1>7, <3>1, <3>2, <3>3
  <2>2. op' = op /\ clock <= clock'
    <3>1. UNCHANGED <<op, clock>>
      BY <1>7 DEF expireStale, claimCommands, releaseCommand, GatewayReport
    <3> QED BY <1>0, <3>1
  <2> QED BY <1>0, <1>1, <2>1, <2>2, LimitsStand
<1>8. CASE IngestCrash
  <2>1. \A c \in Commands : Relabelled(c)
    BY <1>8 DEF IngestCrash, Relabelled
  <2>2. \A w \in Users : op'[w].pc = "idle"
    BY <1>8 DEF IngestCrash, IdleOp
  <2>3. \A w \in Users : op'[w] = op[w] \/ AskInv(w)'
    BY <2>2 DEF AskInv
  <2>4. clock <= clock'
    BY <1>0, <1>8 DEF IngestCrash
  <2> QED BY <1>0, <1>1, <2>1, <2>3, <2>4, LimitsStand
<1>9. ASSUME NEW u \in Users, Operator(u) PROVE LimitsInv'
  BY <1>0, <1>1, <1>4, <1>5, <1>6, <1>9, InsertKeepsLimits DEF Operator
<1>10. ASSUME NEW g \in Gateways, Gateway(g) PROVE LimitsInv'
  <2>1. CASE PollSettings(g) \/ PollZone(g) \/ PollJudge(g) \/ PollAnswer(g) \/ GatewayWrite(g)
    <3>1. UNCHANGED <<cmd, op>> /\ clock <= clock'
      <4>1. UNCHANGED <<cmd, op, clock>>
        BY <2>1 DEF PollSettings, PollZone, PollJudge, PollAnswer, GatewayWrite
      <4> QED BY <1>0, <4>1
    <3> QED BY <1>2, <3>1
  <2> QED BY <1>7, <1>10, <2>1 DEF Gateway, claimForGateway
<1>11. CASE Failure \/ World \/ UNCHANGED vars
  <2>1. ~ IngestCrash => UNCHANGED <<cmd, op>> /\ clock <= clock'
    BY <1>0, <1>11 DEF Failure, World, vars, GatewayCrash, PollFails,
       Tick, SensorReports, EquipmentChanges, ProfileChanges, RoleChanges
  <2> QED BY <1>2, <1>8, <2>1
<1> QED BY <1>9, <1>10, <1>11 DEF Next

(* While nobody changes the limits or the design and requests come one at  *)
(* a time, whatever else happens: no series of commands walks a zone out   *)
(* of its envelope or goes faster than the interval (envelope.ts evaluate, *)
(* control/service.ts issueCommand).                                       *)
THEOREM LimitsKept == Spec /\ [][Steady]_vars /\ []OneAsks => []KeepsToItsLimits
PROOF
<1>1. Init => LimitsInv
  BY DEF Init, LimitsInv, RateLimited, AskInv, RowsOf, NoRow, IdleOp
<1>2. LimitsInv => KeepsToItsLimits
  <2> SUFFICES ASSUME LimitsInv PROVE NeverWalkedOut
    BY DEF KeepsToItsLimits, LimitsInv
  <2>1. \A z \in Zones : \A c \in activeOverrides(z) :
          c \in Commands /\ cmd[c].state = "applied" /\ cmd[c].zone = z
    BY DEF activeOverrides, RowsOf
  <2> QED BY <2>1 DEF LimitsInv, Within, NeverWalkedOut
<1> QED BY TypeInit, TypeStep, LimitsStep, <1>1, <1>2, PTL DEF Spec

-----------------------------------------------------------------------------
(* The kill switch.                                                        *)
LEMMA StaysQuiet ==
    ASSUME TypeInv, [Next]_vars, ~ settings.enabled, Quiet
    PROVE  Quiet'
PROOF
<1>1. /\ poll \in [Gateways -> Polls] /\ held \in [Gateways -> SUBSET Commands]
      /\ \A g \in Gateways : /\ poll[g].pc \in {"idle", "settings"} /\ held[g] = {}
                             /\ poll[g].queue = {} /\ poll[g].out = {}
  BY DEF TypeInv, TypeOK, Quiet, Work
<1>2. IdlePoll.pc = "idle" /\ IdlePoll.queue = {} /\ IdlePoll.out = {}
  BY DEF IdlePoll
<1>3. ASSUME NEW f \in Gateways,
             \A g \in Gateways : held'[g] = {},
             poll' = [poll EXCEPT ![f].pc = "settings"] \/ poll' = [poll EXCEPT ![f] = IdlePoll]
      PROVE  Quiet'
  <2> SUFFICES ASSUME NEW g \in Gateways
               PROVE  poll'[g].pc \in {"idle", "settings"} /\ poll'[g].queue \cup poll'[g].out \cup held'[g] = {}
    BY DEF Quiet, Work
  <2>1. poll'[g].pc \in {"idle", "settings"} /\ poll'[g].queue = {} /\ poll'[g].out = {}
    <3>1. CASE poll' = [poll EXCEPT ![f].pc = "settings"]
      <4>1. PICK p : p = poll[g] /\ p \in Polls
        BY <1>1
      <4>2. poll'[g] = p \/ poll'[g] = [p EXCEPT !.pc = "settings"]
        BY <1>1, <3>1, <4>1
      <4>3. p.pc \in {"idle", "settings"} /\ p.queue = {} /\ p.out = {}
        BY <1>1, <4>1
      <4> QED BY <4>1, <4>2, <4>3 DEF Polls
    <3>2. CASE poll' = [poll EXCEPT ![f] = IdlePoll]
      BY <1>1, <1>2, <3>2
    <3> QED BY <1>3, <3>1, <3>2
  <2> QED BY <1>3, <2>1
<1>4. ASSUME UNCHANGED <<poll, held>> PROVE Quiet'
  BY <1>4 DEF Quiet, Work
<1>5. ASSUME NEW u \in Users, Operator(u) PROVE Quiet'
  BY <1>4, <1>5 DEF Operator, IssueStart, IssueSettings, IssueZone, IssueJudge, insertCommand,
                    CancelStart, cancelCommand, SettingsStart, updateSettings
<1>6. ASSUME NEW g \in Gateways, claimForGateway(g) PROVE Quiet'
  <2>1. expireStale(g) \/ PollSettings(g)
    BY <1>1, <1>6 DEF claimForGateway, claimCommands, PollZone, PollJudge, releaseCommand, PollAnswer
  <2>2. held' = held
    BY <2>1 DEF expireStale, PollSettings
  <2>3. poll' = [poll EXCEPT ![g].pc = "settings"] \/ poll' = [poll EXCEPT ![g] = IdlePoll]
    BY <2>1 DEF expireStale, PollSettings
  <2> QED BY <1>1, <1>3, <2>2, <2>3
<1>7. ASSUME NEW g \in Gateways, GatewayWrite(g) \/ GatewayReport(g) PROVE Quiet'
  BY <1>1, <1>7 DEF GatewayWrite, GatewayReport
<1>8. CASE Failure
  <2>1. CASE IngestCrash
    BY <1>1, <1>2, <2>1 DEF IngestCrash, Quiet, Work
  <2>2. ASSUME NEW g \in Gateways, GatewayCrash(g) PROVE FALSE
    BY <1>1, <2>2 DEF GatewayCrash
  <2>3. ASSUME NEW g \in Gateways, PollFails(g) PROVE Quiet'
    BY <1>1, <1>3, <2>3 DEF PollFails
  <2> QED BY <1>8, <2>1, <2>2, <2>3 DEF Failure
<1>9. CASE World \/ UNCHANGED vars
  BY <1>4, <1>9 DEF World, Tick, SensorReports, EquipmentChanges, ProfileChanges, RoleChanges, vars
<1> QED BY <1>5, <1>6, <1>7, <1>8, <1>9 DEF Next, Gateway

(***************************************************************************)
(* The switch reaches every later claim: once it is off and the calls that *)
(* began before have drained, no gateway gets hold of a command while it   *)
(* stays off, whatever people, gateways and failures do                    *)
(* (claimForGateway in service.ts).                                        *)
(***************************************************************************)
THEOREM SwitchHolds == Spec => KillSwitchHolds
PROOF
<1>1. TypeInv /\ [Next]_vars => (~ settings.enabled /\ Quiet => Quiet')
  BY StaysQuiet
<1>2. TypeInv /\ [Next]_vars => [~ settings.enabled /\ Quiet => Quiet']_vars
  BY <1>1
<1> QED BY <1>2, TypeInit, TypeStep, PTL DEF Spec, KillSwitchHolds
=============================================================================
