--------------------------- MODULE Services_proofs ---------------------------
(***************************************************************************)
(* Proofs about services of the copilot and of the web, each for any       *)
(* values of its bounds: the migration runner, over any chain of files and *)
(* runs that crash anywhere; the copilot's route, over any people, threads *)
(* and lengths of time; the live alert list of one page, over any alerts   *)
(* and subscriptions, and its readings, over any sensors and delays; the   *)
(* tool calls of tasks side by side on one request; and the plan card's    *)
(* clock.  Each has an inductive invariant of its own: MigInv, RtInv,      *)
(* LvInv, RdInv, ToolInv, ClockInv.                                        *)
(***************************************************************************)
EXTENDS Migrations, CopilotRoute, LiveView, LiveReadings, ToolTurn, PanelClock,
        FiniteSetTheorems, SequenceTheorems, WellFoundedInduction, TLAPS

Recorded == {"none", "applied", "skipped"}

MigTypes ==
    /\ recorded \in [DOMAIN Files -> Recorded]
    /\ DOMAIN executed = DOMAIN Files
    /\ \A f \in DOMAIN Files : executed[f] \in [Statements(f) -> Nat]
    /\ file \in 0..Len(Files) /\ stmt \in Nat \ {0} /\ broken \in BOOLEAN

(* What the record and the effects of one file say of each other.  A file  *)
(* that is pending has done nothing, except the one a run is at, up to its *)
(* next statement; once a run has broken inside a file outside a           *)
(* transaction, files of that kind may have done anything.                 *)
FileInv(f) ==
    /\ recorded[f] = "applied" => \A s \in Statements(f) : executed[f][s] > 0
    /\ recorded[f] = "skipped" => \A s \in Statements(f) : executed[f][s] = 0
    /\ \A s \in Statements(f) : executed[f][s] > 0 =>
          \A g \in DOMAIN Files : g < f => recorded[g] # "none"
    /\ recorded[f] = "none" /\ Kind(f) # "noTx" => \A s \in Statements(f) : executed[f][s] = 0
    /\ f < file => recorded[f] # "none"
    /\ f = file /\ recorded[f] = "none" => \A s \in Statements(f) : s < stmt => executed[f][s] > 0
    /\ ~broken => \A s \in Statements(f) :
          /\ executed[f][s] <= 1
          /\ recorded[f] = "none" /\ executed[f][s] > 0 => f = file /\ s < stmt

MigInv == MigTypes /\ \A f \in DOMAIN Files : FileInv(f)

LEMMA FilesNumbered == DOMAIN Files = 1..Len(Files) /\ Len(Files) \in Nat \ {0}
BY MigrationsAssumption

LEMMA StatementsNumbered == \A f \in DOMAIN Files : Files[f].statements \in Nat /\ Statements(f) \subseteq Nat \ {0}
<1>1. PICK S : S = [kind : {"tx", "noTx", "seed"}, statements : Nat]
  OBVIOUS
<1>2. Files \in Seq(S) /\ DOMAIN Files = 1..Len(Files)
  BY <1>1, MigrationsAssumption
<1>3. \A f \in DOMAIN Files : Files[f] \in S
  BY <1>2
<1> QED BY <1>1, <1>3 DEF Statements

(* A run that goes past a file it leaves recorded keeps the invariant.     *)
LEMMA AdvanceKeeps ==
    ASSUME MigInv, file # 0, Advance, broken' = broken,
           recorded' \in [DOMAIN Files -> Recorded], DOMAIN executed' = DOMAIN Files,
           executed'[file] \in [Statements(file) -> Nat],
           \A f \in DOMAIN Files \ {file} : recorded'[f] = recorded[f] /\ executed'[f] = executed[f],
           recorded'[file] # "none",
           recorded'[file] = "applied" => \A s \in Statements(file) : executed'[file][s] > 0,
           recorded'[file] = "skipped" => \A s \in Statements(file) : executed'[file][s] = 0,
           ~broken => \A s \in Statements(file) : executed'[file][s] <= 1
    PROVE  MigInv'
<1>1. file \in DOMAIN Files /\ DOMAIN Files = 1..Len(Files) /\ Len(Files) \in Nat \ {0}
  BY FilesNumbered DEF MigInv, MigTypes
<1>2. file' \in 0..Len(Files) /\ (file' = 0 \/ file' = file + 1) /\ stmt' = 1
  BY <1>1 DEF Advance
<1>3. MigTypes'
  BY <1>1, <1>2 DEF MigInv, MigTypes, Statements
<1>4. \A g \in DOMAIN Files : recorded[g] # "none" => recorded'[g] # "none"
  OBVIOUS
<1>5. ASSUME NEW f \in DOMAIN Files PROVE FileInv(f)'
  <2>1. FileInv(f) /\ (f < file => recorded[f] # "none") /\ \A g \in DOMAIN Files : g < file => recorded[g] # "none"
    BY DEF MigInv, FileInv
  <2>2. f < file' => recorded'[f] # "none"
    BY <1>1, <1>2, <2>1
  <2>3. \A s \in Statements(f) : ~ s < 1
    BY StatementsNumbered
  <2>4. CASE f = file
    BY <1>1, <1>2, <1>4, <2>1, <2>2, <2>4 DEF FileInv, Statements, Kind
  <2>5. CASE f # file
    <3>1. recorded'[f] = recorded[f] /\ executed'[f] = executed[f]
      BY <2>5
    <3>2. ~broken => \A s \in Statements(f) : executed[f][s] <= 1 /\ ~(recorded[f] = "none" /\ executed[f][s] > 0)
      BY <2>1, <2>5 DEF FileInv
    <3> QED BY <1>2, <1>4, <2>1, <2>2, <2>3, <3>1, <3>2 DEF FileInv, Statements, Kind
  <2> QED BY <2>4, <2>5
<1> QED BY <1>3, <1>5 DEF MigInv

LEMMA MigStart == MigInit => MigInv
<1> SUFFICES ASSUME MigInit PROVE MigInv
  OBVIOUS
<1>1. MigTypes
  <2>1. /\ DOMAIN executed = DOMAIN Files
        /\ \A f \in DOMAIN Files : executed[f] = [s \in Statements(f) |-> 0]
    BY DEF MigInit
  <2>2. \A f \in DOMAIN Files : executed[f] \in [Statements(f) -> Nat]
    BY <2>1
  <2>3. recorded \in [DOMAIN Files -> Recorded]
    BY DEF MigInit, Recorded
  <2>4. file \in 0..Len(Files) /\ stmt \in Nat \ {0} /\ broken \in BOOLEAN
    <3>1. file = 0 /\ stmt = 1 /\ broken = FALSE
      BY DEF MigInit
    <3>2. 0 \in 0..Len(Files)
      BY FilesNumbered
    <3>3. broken \in BOOLEAN
      BY <3>1, Zenon
    <3>4. file \in 0..Len(Files) /\ stmt \in Nat \ {0}
      BY <3>1, <3>2
    <3> QED BY <3>3, <3>4
  <2> QED BY <2>1, <2>2, <2>3, <2>4 DEF MigTypes
<1>2. \A f \in DOMAIN Files : \A s \in Statements(f) : executed[f][s] = 0
  BY DEF MigInit
<1>3. \A f \in DOMAIN Files : recorded[f] = "none" /\ ~ f < file /\ f # file
  BY FilesNumbered DEF MigInit
<1> QED BY <1>1, <1>2, <1>3 DEF MigInv, FileInv

LEMMA MigStep == MigInv /\ [MigNext]_migvars => MigInv'
<1> SUFFICES ASSUME MigInv, [MigNext]_migvars PROVE MigInv'
  OBVIOUS
<1>0. /\ MigTypes /\ \A f \in DOMAIN Files : FileInv(f)
      /\ DOMAIN Files = 1..Len(Files) /\ Len(Files) \in Nat \ {0}
      /\ file # 0 => file \in DOMAIN Files
  BY FilesNumbered DEF MigInv, MigTypes
<1>1. ASSUME NEW seed \in BOOLEAN, StartRun(seed) PROVE MigInv'
  <2>1. file = 0 /\ file' = 1 /\ stmt' = 1 /\ UNCHANGED <<recorded, executed, broken>>
    BY <1>1 DEF StartRun
  <2>2. MigTypes'
    BY <1>0, <2>1 DEF MigTypes, Statements
  <2>3. ASSUME NEW f \in DOMAIN Files PROVE FileInv(f)'
    <3>1. FileInv(f) /\ ~ f < file' /\ f # file /\ \A s \in Statements(f) : ~ s < stmt'
      BY <1>0, <2>1, StatementsNumbered
    <3> QED BY <2>1, <3>1 DEF FileInv, Statements, Kind
  <2> QED BY <2>2, <2>3 DEF MigInv
<1>2. CASE PassOver
  <2>1. file \in DOMAIN Files /\ recorded[file] # "none" /\ Advance /\ UNCHANGED <<recorded, executed, broken>>
    BY <1>0, <1>2 DEF PassOver, Pending
  <2>2. FileInv(file)
    BY <1>0, <2>1
  <2> QED BY <1>0, <1>2, <2>1, <2>2, AdvanceKeeps DEF PassOver, FileInv, MigTypes
<1>3. CASE RecordSkipped
  <2>1. /\ file \in DOMAIN Files /\ recorded[file] = "none" /\ Kind(file) = "seed" /\ Advance
        /\ recorded' = [recorded EXCEPT ![file] = "skipped"] /\ UNCHANGED <<executed, broken>>
    BY <1>0, <1>3 DEF RecordSkipped, Pending
  <2>2. \A s \in Statements(file) : executed[file][s] = 0
    BY <1>0, <2>1 DEF FileInv
  <2> QED BY <1>0, <1>3, <2>1, <2>2, AdvanceKeeps DEF RecordSkipped, MigTypes, Recorded
<1>4. CASE ApplyInTransaction
  <2>1. /\ file \in DOMAIN Files /\ recorded[file] = "none" /\ Kind(file) # "noTx" /\ Advance /\ file # 0
        /\ executed' = [executed EXCEPT ![file] = [s \in Statements(file) |-> executed[file][s] + 1]]
        /\ recorded' = [recorded EXCEPT ![file] = "applied"] /\ broken' = broken
    BY <1>0, <1>4 DEF ApplyInTransaction, Pending
  <2>2. \A s \in Statements(file) : executed[file][s] = 0
    BY <1>0, <2>1 DEF FileInv
  <2>3. executed'[file] = [s \in Statements(file) |-> executed[file][s] + 1] /\ DOMAIN executed' = DOMAIN Files
    BY <1>0, <2>1 DEF MigTypes
  <2>4. executed'[file] \in [Statements(file) -> Nat] /\ \A s \in Statements(file) : executed'[file][s] = 1
    BY <2>2, <2>3
  <2>5. /\ recorded' \in [DOMAIN Files -> Recorded] /\ recorded'[file] = "applied"
        /\ \A f \in DOMAIN Files \ {file} : recorded'[f] = recorded[f] /\ executed'[f] = executed[f]
    BY <1>0, <2>1 DEF MigTypes, Recorded
  <2> QED BY <2>1, <2>3, <2>4, <2>5, AdvanceKeeps
<1>5. CASE ExecuteStatement
  <2>1. /\ file \in DOMAIN Files /\ recorded[file] = "none" /\ Kind(file) = "noTx" /\ stmt \in Statements(file)
        /\ executed' = [executed EXCEPT ![file][stmt] = executed[file][stmt] + 1]
        /\ stmt' = stmt + 1 /\ UNCHANGED <<recorded, file, broken>>
    BY <1>0, <1>5 DEF ExecuteStatement, AtStatement, Pending
  <2>2. PICK e \in [Statements(file) -> Nat] : e = executed[file]
    BY <1>0, <2>1 DEF MigTypes
  <2>3. /\ DOMAIN executed' = DOMAIN Files /\ executed'[file] = [e EXCEPT ![stmt] = e[stmt] + 1]
        /\ \A f \in DOMAIN Files \ {file} : executed'[f] = executed[f]
    BY <1>0, <2>1, <2>2 DEF MigTypes
  <2>4. /\ executed'[file] \in [Statements(file) -> Nat]
        /\ executed'[file][stmt] = e[stmt] + 1
        /\ \A s \in Statements(file) \ {stmt} : executed'[file][s] = e[s]
    BY <2>1, <2>2, <2>3
  <2>5. MigTypes'
    BY <1>0, <2>1, <2>3, <2>4 DEF MigTypes, Statements
  <2>6. FileInv(file)'
    <3>1. FileInv(file) /\ stmt \in Nat /\ \A s \in Statements(file) : s \in Nat
      BY <1>0, <2>1, StatementsNumbered DEF MigTypes
    <3>2. \A s \in Statements(file) : e[s] \in Nat
      BY <2>2
    <3>3. \A g \in DOMAIN Files : g < file => recorded[g] # "none"
      BY <1>0 DEF FileInv
    <3>4. \A s \in Statements(file) : s < stmt + 1 => executed'[file][s] > 0
      BY <2>1, <2>2, <2>4, <3>1, <3>2 DEF FileInv
    <3>5. ~broken => e[stmt] = 0
      BY <2>1, <2>2, <3>1, <3>2 DEF FileInv
    <3>6. ~broken => \A s \in Statements(file) : executed'[file][s] <= 1 /\ (executed'[file][s] > 0 => s < stmt + 1)
      BY <2>1, <2>2, <2>4, <3>1, <3>2, <3>5 DEF FileInv
    <3> QED BY <2>1, <3>1, <3>3, <3>4, <3>6 DEF FileInv, Statements, Kind
  <2>7. ASSUME NEW f \in DOMAIN Files \ {file} PROVE FileInv(f)'
    <3>1. FileInv(f) /\ executed'[f] = executed[f]
      BY <1>0, <2>3
    <3> QED BY <2>1, <3>1 DEF FileInv, Statements, Kind
  <2> QED BY <2>1, <2>5, <2>6, <2>7 DEF MigInv
<1>6. CASE RetryStatement
  BY <1>0, <1>6 DEF RetryStatement, MigInv, MigTypes, FileInv, Statements, Kind
<1>7. CASE RecordApplied
  <2>1. /\ file \in DOMAIN Files /\ recorded[file] = "none" /\ stmt = Files[file].statements + 1 /\ Advance /\ file # 0
        /\ recorded' = [recorded EXCEPT ![file] = "applied"] /\ UNCHANGED <<executed, broken>>
    BY <1>0, <1>7 DEF RecordApplied, Pending
  <2>2. FileInv(file) /\ executed[file] \in [Statements(file) -> Nat]
    BY <1>0, <2>1 DEF MigTypes
  <2>3. \A s \in Statements(file) : s < stmt
    BY <2>1, StatementsNumbered DEF Statements
  <2>4. \A s \in Statements(file) : executed[file][s] > 0
    BY <2>1, <2>2, <2>3 DEF FileInv
  <2>5. /\ recorded' \in [DOMAIN Files -> Recorded] /\ recorded'[file] = "applied"
        /\ \A f \in DOMAIN Files \ {file} : recorded'[f] = recorded[f]
    BY <1>0, <2>1 DEF MigTypes, Recorded
  <2>6. ~broken => \A s \in Statements(file) : executed[file][s] <= 1
    BY <2>2 DEF FileInv
  <2>7. DOMAIN executed' = DOMAIN Files /\ executed' = executed
    BY <1>0, <2>1 DEF MigTypes
  <2> QED BY <2>1, <2>2, <2>4, <2>5, <2>6, <2>7, AdvanceKeeps
<1>8. CASE MigrationFails
  <2>1. /\ file \in DOMAIN Files /\ file' = 0 /\ UNCHANGED <<recorded, executed, stmt>>
        /\ broken' = (broken \/ (Kind(file) = "noTx" /\ recorded[file] = "none" /\ stmt > 1))
    BY <1>0, <1>8 DEF MigrationFails, Pending
  <2>2. MigTypes'
    BY <1>0, <2>1 DEF MigTypes, Statements
  <2>3. ASSUME NEW f \in DOMAIN Files PROVE FileInv(f)'
    <3>1. FileInv(f) /\ ~ f < 0 /\ f # 0 /\ stmt \in Nat \ {0}
      BY <1>0 DEF MigTypes
    <3>2. ASSUME ~broken', NEW s \in Statements(f), executed[f][s] > 0, recorded[f] = "none" PROVE FALSE
      <4>1. ~broken /\ f = file /\ s < stmt
        BY <2>1, <3>1, <3>2 DEF FileInv
      <4>2. Kind(f) = "noTx"
        BY <3>1, <3>2 DEF FileInv
      <4>3. stmt > 1
        BY <3>1, <4>1, StatementsNumbered
      <4> QED BY <2>1, <3>2, <4>1, <4>2, <4>3
    <3>3. ~broken' => ~broken
      BY <2>1
    <3> QED BY <2>1, <3>1, <3>2, <3>3 DEF FileInv, Statements, Kind
  <2> QED BY <2>2, <2>3 DEF MigInv
<1>9. CASE UNCHANGED migvars
  BY <1>9 DEF migvars, MigInv, MigTypes, FileInv, Statements, Kind
<1> QED BY <1>1, <1>2, <1>3, <1>4, <1>5, <1>6, <1>7, <1>8, <1>9 DEF MigNext

(* Wherever a run of the migrations crashes or fails, and however often it *)
(* is started again: what schema_migrations says of a file is what the     *)
(* file has done to the schema, and no statement takes effect twice unless *)
(* a run broke inside a file outside a transaction (migrate.ts, applyOne). *)
THEOREM MigrationsTrue == MigSpec => []MigrationsAreTrue
<1>1. MigInv => MigrationsAreTrue
  BY DEF MigInv, FileInv, MigrationsAreTrue, RecordIsTrue, OnceUnlessBroken
<1> QED BY <1>1, MigStart, MigStep, PTL DEF MigSpec
-----------------------------------------------------------------------------
(* A non-empty set of naturals that has a bound has a least element.       *)
LEMMA MinExists ==
    ASSUME NEW n \in Nat, NEW T, T \subseteq 0 .. n, T # {}
    PROVE  \E x \in T : \A y \in T : x <= y
PROOF
<1> DEFINE Below(t) == 0 .. (t - 1)
           F == {Below(t) : t \in T}
           R == StrictSubsetOrdering(0 .. n)
<1>1. IsFiniteSet(0 .. n)
  BY FS_Interval
<1>2. IsWellFoundedOn(R, SUBSET (0 .. n))
  <2>1. IsWellFoundedOn(R, FiniteSubsetsOf(0 .. n))
    BY FS_StrictSubsetOrderingWellFounded
  <2> QED BY <1>1, <2>1, FS_FiniteSubsetsOfFinite
<1>3. F \subseteq SUBSET (0 .. n) /\ F # {}
  <2>1. ASSUME NEW t \in T PROVE Below(t) \in SUBSET (0 .. n)
    OBVIOUS
  <2>2. PICK t \in T : TRUE
    OBVIOUS
  <2>3. Below(t) \in F
    BY <2>2
  <2> HIDE DEF Below
  <2> QED BY <2>1, <2>3
<1> HIDE DEF F, R
<1>4. PICK X \in F : \A Y \in F : <<Y, X>> \notin R
  BY <1>2, <1>3, WFMin
<1>5. PICK x \in T : X = Below(x)
  BY <1>4 DEF F
<1>6. ASSUME NEW y \in T PROVE x <= y
  <2>1. SUFFICES ASSUME y < x PROVE FALSE
    OBVIOUS
  <2>2. Below(y) \in F
    BY DEF F
  <2>3. Below(y) \subseteq Below(x) /\ y \in Below(x) /\ y \notin Below(y)
    BY <2>1
  <2>4. <<Below(y), X>> \in R
    <3>1. Below(y) \in SUBSET (0 .. n) /\ X \in SUBSET (0 .. n)
      BY <1>5
    <3>2. Below(y) # X
      BY <2>3, <1>5
    <3> HIDE DEF Below
    <3> QED BY <3>1, <3>2, <2>3, <1>5 DEF R, StrictSubsetOrdering
  <2> QED BY <2>2, <2>4, <1>4
<1> QED BY <1>6

(* Induction up to a bound, on the set of the numbers reached.             *)
LEMMA ReachesAll ==
    ASSUME NEW n \in Nat, NEW T, T \subseteq 0 .. n, 0 \in T,
           \A i \in 0 .. n : i < n /\ i \in T => i + 1 \in T
    PROVE  n \in T
PROOF
<1> DEFINE Missed == (0 .. n) \ T
<1>1. SUFFICES ASSUME Missed # {} PROVE FALSE
  OBVIOUS
<1>2. PICK x \in Missed : \A y \in Missed : x <= y
  BY <1>1, MinExists
<1>3. x # 0 /\ x - 1 \in 0 .. n /\ x - 1 < n /\ ~ (x <= x - 1)
  BY <1>2
<1>4. x - 1 \in T
  BY <1>2, <1>3
<1>5. (x - 1) + 1 \in T
  BY <1>3, <1>4
<1> QED BY <1>2, <1>5

(* Removing a position or an element takes away nothing else.              *)
LEMMA RemoveAtKeeps ==
    ASSUME NEW S, NEW s \in Seq(S), NEW i \in 1..Len(s)
    PROVE  /\ RemoveAt(s, i) \in Seq(S)
           /\ ToSet(s) \ {s[i]} \subseteq ToSet(RemoveAt(s, i))
           /\ ToSet(RemoveAt(s, i)) \subseteq ToSet(s)
           /\ Len(RemoveAt(s, i)) = Len(s) - 1
           /\ \A j \in 1..(Len(s) - 1) : RemoveAt(s, i)[j] = IF j < i THEN s[j] ELSE s[j + 1]
PROOF
<1> DEFINE a == SubSeq(s, 1, i - 1)
           b == SubSeq(s, i + 1, Len(s))
<1>0. Len(s) \in Nat /\ i \in Nat /\ i >= 1 /\ i <= Len(s) /\ DOMAIN s = 1..Len(s) /\ \A j \in 1..Len(s) : s[j] \in S
  OBVIOUS
<1>1. a \in Seq(S) /\ Len(a) = i - 1 /\ \A j \in 1..(i - 1) : a[j] = s[j]
  <2>1. 1 \in Int /\ i - 1 \in Int /\ \A j \in 1..(i - 1) : s[j] \in S
    BY <1>0
  <2>2. /\ a \in Seq(S) /\ Len(a) = IF 1 <= i - 1 THEN i - 1 - 1 + 1 ELSE 0
        /\ \A j \in 1..(i - 1 - 1 + 1) : a[j] = s[1 + j - 1]
    BY <2>1, SubSeqProperties
  <2> QED BY <1>0, <2>2
<1>2. b \in Seq(S) /\ Len(b) = Len(s) - i /\ \A j \in 1..(Len(s) - i) : b[j] = s[i + j]
  <2>1. i + 1 \in Int /\ Len(s) \in Int /\ \A j \in (i + 1)..Len(s) : s[j] \in S
    BY <1>0
  <2>2. /\ b \in Seq(S) /\ Len(b) = IF i + 1 <= Len(s) THEN Len(s) - (i + 1) + 1 ELSE 0
        /\ \A j \in 1..(Len(s) - (i + 1) + 1) : b[j] = s[i + 1 + j - 1]
    BY <2>1, SubSeqProperties
  <2> HIDE DEF b
  <2>3. Len(s) - (i + 1) + 1 = Len(s) - i /\ (~ (i + 1 <= Len(s)) => Len(s) - i = 0)
    <3>1. \A n, k \in Nat : k <= n => n - (k + 1) + 1 = n - k /\ (~ (k + 1 <= n) => n - k = 0)
      OBVIOUS
    <3> QED BY <1>0, <3>1
  <2>5. Len(b) = Len(s) - i
    BY <2>2, <2>3
  <2>4. ASSUME NEW j \in 1..(Len(s) - i) PROVE b[j] = s[i + j]
    <3>1. i + 1 + j - 1 = i + j
      BY <1>0
    <3> QED BY <2>2, <2>3, <3>1
  <2> QED BY <2>2, <2>4, <2>5
<1>3. RemoveAt(s, i) = a \o b
  BY DEF RemoveAt
<1> HIDE DEF a, b
<1> DEFINE c == a \o b
<1>4. /\ c \in Seq(S) /\ Len(c) = Len(a) + Len(b)
      /\ \A j \in 1..Len(a) + Len(b) : c[j] = IF j <= Len(a) THEN a[j] ELSE b[j - Len(a)]
  BY <1>1, <1>2, ConcatProperties
<1> HIDE DEF c
<1>5. Len(c) = Len(s) - 1 /\ \A j \in 1..(Len(s) - 1) : c[j] = IF j < i THEN s[j] ELSE s[j + 1]
  <2>1. Len(a) + Len(b) = Len(s) - 1
    BY <1>0, <1>1, <1>2
  <2>2. ASSUME NEW j \in 1..(Len(s) - 1) PROVE c[j] = IF j < i THEN s[j] ELSE s[j + 1]
    <3>1. CASE j < i
      <4>1. j \in 1..(i - 1) /\ j <= Len(a)
        BY <1>0, <1>1, <3>1
      <4> QED BY <1>1, <1>4, <2>1, <3>1, <4>1
    <3>2. CASE ~ (j < i)
      <4>1. ~ (j <= Len(a)) /\ j - Len(a) \in 1..(Len(s) - i) /\ i + (j - Len(a)) = j + 1
        BY <1>0, <1>1, <3>2
      <4>2. c[j] = b[j - Len(a)]
        BY <1>4, <2>1, <4>1
      <4>3. b[j - Len(a)] = s[i + (j - Len(a))]
        BY <1>2, <4>1
      <4> QED BY <3>2, <4>1, <4>2, <4>3
    <3> QED BY <3>1, <3>2
  <2> QED BY <1>4, <2>1, <2>2
<1>6. DOMAIN c = 1..(Len(s) - 1)
  BY <1>4, <1>5
<1>7. ASSUME NEW j \in 1..Len(s), s[j] # s[i] PROVE s[j] \in ToSet(c)
  <2>1. CASE j < i
    <3>1. j \in DOMAIN c /\ c[j] = s[j]
      BY <1>0, <1>5, <1>6, <2>1
    <3> QED BY <3>1 DEF ToSet
  <2>2. CASE j > i
    <3>1. j - 1 \in DOMAIN c /\ c[j - 1] = s[j]
      BY <1>0, <1>5, <1>6, <2>2
    <3> QED BY <3>1 DEF ToSet
  <2> QED BY <1>0, <1>7, <2>1, <2>2
<1>8. ASSUME NEW j \in DOMAIN c PROVE c[j] \in ToSet(s)
  <2>1. j \in DOMAIN s /\ j + 1 \in DOMAIN s /\ j \in 1..(Len(s) - 1)
    BY <1>0, <1>6
  <2>2. c[j] = IF j < i THEN s[j] ELSE s[j + 1]
    BY <1>5, <2>1
  <2>3. \E k \in DOMAIN s : c[j] = s[k]
    BY <2>1, <2>2
  <2> QED BY <2>3 DEF ToSet
<1>9. ToSet(s) \ {s[i]} \subseteq ToSet(c) /\ ToSet(c) \subseteq ToSet(s)
  <2>1. ToSet(s) = {s[j] : j \in 1..Len(s)} /\ ToSet(c) = {c[j] : j \in DOMAIN c}
    BY <1>0 DEF ToSet
  <2> QED BY <1>7, <1>8, <2>1
<1> QED BY <1>3, <1>4, <1>5, <1>9 DEF c

(* Of the positions in a set that has one, there is a first.               *)
LEMMA FirstOf ==
    ASSUME NEW n \in Nat, NEW I, I \subseteq 1..n, I # {}
    PROVE  (CHOOSE i \in I : \A j \in I : i <= j) \in I
PROOF
<1>1. I \subseteq 0 .. n
  OBVIOUS
<1> QED BY <1>1, MinExists

LEMMA RemoveFirstKeeps ==
    ASSUME NEW S, NEW s \in Seq(S), NEW x
    PROVE  /\ RemoveFirst(s, x) \in Seq(S)
           /\ ToSet(s) \ {x} \subseteq ToSet(RemoveFirst(s, x))
           /\ ToSet(RemoveFirst(s, x)) \subseteq ToSet(s)
PROOF
<1>1. CASE ~ \E i \in 1..Len(s) : s[i] = x
  BY <1>1 DEF RemoveFirst
<1>2. CASE \E i \in 1..Len(s) : s[i] = x
  <2> DEFINE I == {i \in 1..Len(s) : s[i] = x}
             m == SelectInSeq(s, LAMBDA v : v = x)
  <2>1. I # {} /\ I \subseteq 1..Len(s) /\ Len(s) \in Nat
    BY <1>2
  <2>2. m = CHOOSE i \in I : \A j \in I : i <= j
    BY <2>1 DEF SelectInSeq, Min
  <2>3. m \in I
    <3> HIDE DEF I, m
    <3> QED BY <2>1, <2>2, FirstOf
  <2>5. RemoveFirst(s, x) = RemoveAt(s, m)
    BY <1>2 DEF RemoveFirst
  <2>6. m \in 1..Len(s) /\ s[m] = x
    BY <2>3
  <2> HIDE DEF m, I
  <2> QED BY <2>5, <2>6, RemoveAtKeeps
<1> QED BY <1>1, <1>2

LEMMA MovedToBackSet ==
    ASSUME NEW S, NEW s \in Seq(S), NEW x \in S
    PROVE  /\ MovedToBack(s, x) \in Seq(S)
           /\ ToSet(MovedToBack(s, x)) = ToSet(s) \cup {x}
PROOF
<1> DEFINE r == RemoveFirst(s, x)
<1>1. r \in Seq(S) /\ ToSet(s) \ {x} \subseteq ToSet(r) /\ ToSet(r) \subseteq ToSet(s)
  BY RemoveFirstKeeps
<1> HIDE DEF r
<1>2. /\ Append(r, x) \in Seq(S) /\ Len(Append(r, x)) = Len(r) + 1
      /\ \A i \in 1..Len(r) : Append(r, x)[i] = r[i]
      /\ Append(r, x)[Len(r) + 1] = x
  BY <1>1, AppendProperties
<1>3. ToSet(Append(r, x)) = ToSet(r) \cup {x}
  <2>1. DOMAIN Append(r, x) = 1..(Len(r) + 1) /\ DOMAIN r = 1..Len(r) /\ Len(r) \in Nat
    BY <1>1, <1>2
  <2> QED BY <1>2, <2>1 DEF ToSet
<1> QED BY <1>1, <1>2, <1>3 DEF MovedToBack, r

-----------------------------------------------------------------------------
Marks == [ThreadIds -> Nat \cup {None}]

(* One look of the eviction at a thread, and what a pass over i of them    *)
(* has come to.                                                            *)
Passed(e, c, t) == IF Len(c) <= MaxThreads \/ e[t] # None THEN c ELSE RemoveFirst(c, t)
PassTo(s, e, i, f) ==
    /\ f \in [0..i -> Seq(ThreadIds)]
    /\ f[0] = s
    /\ \A j \in 1..i : f[j] = Passed(e, f[j - 1], s[j])
    /\ \A j \in 0..i : \A t \in ToSet(s) : e[t] # None => t \in ToSet(f[j])

(* A pass over the threads of a graph exists and keeps the threads with an *)
(* open request.                                                           *)
LEMMA PassExists ==
    ASSUME NEW s \in Seq(ThreadIds), NEW e \in Marks
    PROVE  \E f : PassTo(s, e, Len(s), f)
PROOF
<1> DEFINE T == {i \in 0..Len(s) : \E f : PassTo(s, e, i, f)}
<1>0. Len(s) \in Nat /\ \A i \in 1..Len(s) : s[i] \in ThreadIds
  OBVIOUS
<1>1. 0 \in T
  <2> DEFINE f == [j \in {0} |-> s]
  <2>1. 0..0 = {0} /\ 1..0 = {}
    OBVIOUS
  <2>2. PassTo(s, e, 0, f)
    BY <2>1 DEF PassTo
  <2> HIDE DEF f
  <2> QED BY <1>0, <2>2
<1>2. ASSUME NEW i \in 0..Len(s), i < Len(s), i \in T PROVE i + 1 \in T
  <2>1. PICK f : PassTo(s, e, i, f)
    BY <1>2
  <2> DEFINE c == f[i]
             d == Passed(e, c, s[i + 1])
             h == [j \in 0..(i + 1) |-> IF j = i + 1 THEN d ELSE f[j]]
  <2>2. i \in Nat /\ i \in 0..i /\ i + 1 \in 1..Len(s) /\ s[i + 1] \in ThreadIds
    BY <1>0, <1>2
  <2>3. c \in Seq(ThreadIds)
    BY <2>1, <2>2 DEF PassTo
  <2> HIDE DEF c
  <2>4. d \in Seq(ThreadIds) /\ ToSet(c) \ {s[i + 1]} \subseteq ToSet(d)
        /\ (e[s[i + 1]] # None => d = c)
    <3>1. RemoveFirst(c, s[i + 1]) \in Seq(ThreadIds) /\ ToSet(c) \ {s[i + 1]} \subseteq ToSet(RemoveFirst(c, s[i + 1]))
      BY <2>3, RemoveFirstKeeps
    <3> QED BY <2>3, <3>1 DEF Passed
  <2> HIDE DEF d
  <2>5. h \in [0..(i + 1) -> Seq(ThreadIds)]
    <3>1. \A j \in 0..(i + 1) : j # i + 1 => j \in 0..i
      BY <2>2
    <3>2. \A j \in 0..i : f[j] \in Seq(ThreadIds)
      BY <2>1 DEF PassTo
    <3> QED BY <2>4, <3>1, <3>2
  <2>6. h[0] = s /\ h[i + 1] = d /\ \A j \in 0..i : h[j] = f[j]
    <3>1. 0 # i + 1 /\ 0 \in 0..(i + 1) /\ i + 1 \in 0..(i + 1) /\ \A j \in 0..i : j # i + 1 /\ j \in 0..(i + 1)
      BY <2>2
    <3>2. f[0] = s
      BY <2>1 DEF PassTo
    <3> QED BY <2>2, <3>1, <3>2
  <2> HIDE DEF h
  <2>7. ASSUME NEW j \in 1..(i + 1) PROVE h[j] = Passed(e, h[j - 1], s[j])
    <3>1. CASE j = i + 1
      <4>1. j - 1 = i /\ h[i] = c
        BY <2>2, <2>6, <3>1 DEF c
      <4> QED BY <2>6, <3>1, <4>1 DEF d
    <3>2. CASE j # i + 1
      <4>1. j \in 1..i /\ j - 1 \in 0..i /\ j \in 0..i
        BY <2>2, <3>2
      <4>2. f[j] = Passed(e, f[j - 1], s[j])
        BY <2>1, <4>1 DEF PassTo
      <4> QED BY <2>6, <4>1, <4>2
    <3> QED BY <3>1, <3>2
  <2>8. ASSUME NEW j \in 0..(i + 1), NEW t \in ToSet(s), e[t] # None PROVE t \in ToSet(h[j])
    <3>1. \A k \in 0..i : t \in ToSet(f[k])
      BY <2>1, <2>8 DEF PassTo
    <3>2. CASE j = i + 1
      <4>1. t \in ToSet(c)
        BY <2>2, <3>1 DEF c
      <4>2. t \in ToSet(d)
        BY <2>4, <2>8, <4>1
      <4> QED BY <2>6, <3>2, <4>2
    <3>3. CASE j # i + 1
      <4>1. j \in 0..i
        BY <2>2, <3>3
      <4> QED BY <2>6, <3>1, <4>1
    <3> QED BY <3>2, <3>3
  <2>9. PassTo(s, e, i + 1, h)
    BY <2>5, <2>6, <2>7, <2>8 DEF PassTo
  <2> QED BY <2>2, <2>9
<1> HIDE DEF T
<1>3. T \subseteq 0..Len(s)
  BY DEF T
<1>4. Len(s) \in T
  BY <1>0, <1>1, <1>2, <1>3, ReachesAll
<1> QED BY <1>4 DEF T

(* The bound on the threads of a graph never takes one with a request open. *)
LEMMA EvictKeeps ==
    ASSUME NEW s \in Seq(ThreadIds), NEW e \in Marks
    PROVE  /\ Evict(s, e) \in Seq(ThreadIds)
           /\ \A t \in ToSet(s) : e[t] # None => t \in ToSet(Evict(s, e))
PROOF
<1> DEFINE Rec(f) == f = [i \in 0..Len(s) |->
             IF i = 0 THEN s
             ELSE IF Len(f[i - 1]) <= MaxThreads \/ e[s[i]] # None THEN f[i - 1]
             ELSE RemoveFirst(f[i - 1], s[i])]
<1>0. Len(s) \in Nat /\ 0 \in 0..Len(s) /\ Len(s) \in 0..Len(s) /\ \A i \in 1..Len(s) : i \in 0..Len(s) /\ i # 0
  OBVIOUS
<1>1. \E f : Rec(f)
  <2>1. PICK f : PassTo(s, e, Len(s), f)
    BY PassExists
  <2>2. ASSUME NEW i \in 0..Len(s)
        PROVE  f[i] = IF i = 0 THEN s
             ELSE IF Len(f[i - 1]) <= MaxThreads \/ e[s[i]] # None THEN f[i - 1]
             ELSE RemoveFirst(f[i - 1], s[i])
    <3>1. CASE i = 0
      BY <2>1, <3>1 DEF PassTo
    <3>2. CASE i # 0
      <4>1. i \in 1..Len(s)
        BY <1>0, <3>2
      <4> QED BY <2>1, <3>2, <4>1 DEF PassTo, Passed
    <3> QED BY <3>1, <3>2
  <2>3. f \in [0..Len(s) -> Seq(ThreadIds)]
    BY <2>1 DEF PassTo
  <2> QED BY <2>2, <2>3
<1>2. ASSUME NEW f, Rec(f)
      PROVE  f[Len(s)] \in Seq(ThreadIds) /\ \A t \in ToSet(s) : e[t] # None => t \in ToSet(f[Len(s)])
  <2> DEFINE T == {i \in 0..Len(s) : f[i] \in Seq(ThreadIds) /\ \A t \in ToSet(s) : e[t] # None => t \in ToSet(f[i])}
  <2>1. f[0] = s /\ \A i \in 1..Len(s) : f[i] = Passed(e, f[i - 1], s[i])
    BY <1>0, <1>2 DEF Passed
  <2>2. 0 \in T
    BY <1>0, <2>1
  <2>3. ASSUME NEW i \in 0..Len(s), i < Len(s), i \in T PROVE i + 1 \in T
    <3> DEFINE c == f[i]
               d == f[i + 1]
    <3>1. i + 1 \in 1..Len(s) /\ (i + 1) - 1 = i /\ i + 1 \in 0..Len(s)
      BY <1>0, <2>3
    <3>2. d = Passed(e, c, s[i + 1])
      BY <2>1, <3>1
    <3>3. c \in Seq(ThreadIds) /\ \A t \in ToSet(s) : e[t] # None => t \in ToSet(c)
      BY <2>3
    <3> HIDE DEF c, d
    <3>4. RemoveFirst(c, s[i + 1]) \in Seq(ThreadIds) /\ ToSet(c) \ {s[i + 1]} \subseteq ToSet(RemoveFirst(c, s[i + 1]))
      BY <3>3, RemoveFirstKeeps
    <3>5. d \in Seq(ThreadIds) /\ ToSet(c) \ {s[i + 1]} \subseteq ToSet(d) /\ (e[s[i + 1]] # None => d = c)
      BY <3>2, <3>3, <3>4 DEF Passed
    <3>6. \A t \in ToSet(s) : e[t] # None => t \in ToSet(d)
      BY <3>3, <3>5
    <3> QED BY <3>1, <3>5, <3>6 DEF d
  <2> HIDE DEF T
  <2>4. T \subseteq 0..Len(s)
    BY DEF T
  <2>5. Len(s) \in T
    BY <1>0, <2>2, <2>3, <2>4, ReachesAll
  <2> QED BY <2>5 DEF T
<1>3. Evict(s, e) = (CHOOSE f : Rec(f))[Len(s)]
  BY DEF Evict
<1> HIDE DEF Rec
<1>4. Rec(CHOOSE f : Rec(f))
  BY <1>1
<1> QED BY <1>2, <1>3, <1>4

(* Saving a step keeps what was open, and the thread saved if it is open.  *)
LEMMA PutKeeps ==
    ASSUME NEW s \in Seq(ThreadIds), NEW t \in ThreadIds, NEW e \in Marks
    PROVE  /\ Put(s, t, e) \in Seq(ThreadIds)
           /\ \A u \in ToSet(s) \cup {t} : e[u] # None => u \in ToSet(Put(s, t, e))
PROOF
<1> DEFINE m == MovedToBack(s, t)
<1>1. m \in Seq(ThreadIds) /\ ToSet(m) = ToSet(s) \cup {t}
  BY MovedToBackSet
<1> HIDE DEF m
<1>2. Evict(m, e) \in Seq(ThreadIds) /\ \A u \in ToSet(m) : e[u] # None => u \in ToSet(Evict(m, e))
  BY <1>1, EvictKeeps
<1> QED BY <1>1, <1>2 DEF Put, m

-----------------------------------------------------------------------------
Requests == [g : Nat, t : ThreadIds, kind : {"message", "decision"},
             st : {"begin", "going", "gate", "recheck"}, since : Nat \cup {None}]

RtTypes ==
    /\ rtClock \in Nat
    /\ held \in Seq(Nat) /\ owner \in Seq(People)
    /\ locks \in [Built -> SUBSET ThreadIds]
    /\ entries \in [Built -> Marks] /\ plans \in [Built -> Marks]
    /\ recent \in [Built -> Seq(ThreadIds)]
    /\ rtRuns \subseteq Requests
    /\ offered \subseteq [p : People, t : ThreadIds, until : Nat, inTime : BOOLEAN]

(* A person has one graph held at most.                                    *)
HeldInv == \A g \in ToSet(held) : g \in Built /\ \A h \in ToSet(held) : owner[h] = owner[g] => h = g

(* A request under way works on a graph that is held, alone on its thread; *)
(* no plan of that thread waits while its run goes on, and the registry    *)
(* still has the request of a run younger than what it retains.            *)
Accounted(r) ==
    /\ r.g \in ToSet(held) /\ r.t \in locks[r.g]
    /\ \A q \in rtRuns : q.g = r.g /\ q.t = r.t => q = r
    /\ r.st \in {"gate", "recheck"} => r.kind = "decision"
    /\ r.st = "going" => \A o \in offered : ~ (o.p = owner[r.g] /\ o.t = r.t)
    /\ r.st = "going" /\ r.kind = "message" =>
          /\ r.since \in Nat /\ r.since <= rtClock
          /\ rtClock - r.since < Retain => entries[r.g][r.t] = r.since

LocksInv == \A g \in Built : \A t \in locks[g] : \E r \in rtRuns : r.g = g /\ r.t = t

(* A plan that can still be decided is in the graph its person has, on a   *)
(* thread whose request is open at least as long as the plan is in date.   *)
KeptIn(o, g) ==
    /\ owner[g] = o.p /\ plans[g][o.t] = o.until /\ o.t \in ToSet(recent[g])
    /\ entries[g][o.t] \in Nat /\ o.until <= entries[g][o.t] + Retain
Kept(o) == o.inTime /\ o.until > rtClock => \E g \in ToSet(held) : KeptIn(o, g)

RtInv ==
    /\ RtTypes /\ HeldInv /\ LocksInv
    /\ \A r \in rtRuns : Accounted(r)
    /\ \A o \in offered : Kept(o)

-----------------------------------------------------------------------------
LEMMA AppendSet ==
    ASSUME NEW S, NEW s \in Seq(S), NEW x \in S
    PROVE  Append(s, x) \in Seq(S) /\ ToSet(Append(s, x)) = ToSet(s) \cup {x}
PROOF
<1>1. /\ Append(s, x) \in Seq(S) /\ Len(Append(s, x)) = Len(s) + 1
      /\ \A i \in 1..Len(s) : Append(s, x)[i] = s[i]
      /\ Append(s, x)[Len(s) + 1] = x
  BY AppendProperties
<1>2. DOMAIN Append(s, x) = 1..(Len(s) + 1) /\ DOMAIN s = 1..Len(s) /\ Len(s) \in Nat
  BY <1>1
<1> QED BY <1>1, <1>2 DEF ToSet

(* A table over the graphs built, with one more.                           *)
LEMMA AppendTo ==
    ASSUME NEW n \in Nat, NEW S, NEW f \in [1..n -> S], NEW x \in S
    PROVE  /\ Append(f, x) \in [1..(n + 1) -> S]
           /\ \A i \in 1..n : Append(f, x)[i] = f[i]
           /\ Append(f, x)[n + 1] = x
PROOF
<1>1. f \in Seq(S) /\ Len(f) = n
  OBVIOUS
<1>2. /\ Append(f, x) \in Seq(S) /\ Len(Append(f, x)) = Len(f) + 1
      /\ \A i \in 1..Len(f) : Append(f, x)[i] = f[i]
      /\ Append(f, x)[Len(f) + 1] = x
  BY <1>1, AppendProperties
<1> DEFINE a == Append(f, x)
<1>3. a \in Seq(S) /\ Len(a) = n + 1 /\ (\A i \in 1..n : a[i] = f[i]) /\ a[n + 1] = x
  BY <1>1, <1>2
<1> HIDE DEF a
<1>4. a \in [1..(n + 1) -> S]
  BY <1>3
<1> QED BY <1>3, <1>4 DEF a

(* The sweep leaves a request younger than what is retained.               *)
LEMMA SweptKeeps ==
    ASSUME rtClock \in Nat, NEW e \in Marks
    PROVE  /\ Swept(e) \in Marks
           /\ \A t \in ThreadIds : e[t] \in Nat /\ rtClock - e[t] < Retain => Swept(e)[t] = e[t]
PROOF
<1>1. Retain \in Nat
  BY RouteAssumption DEF Retain
<1>2. \A t \in ThreadIds : e[t] \in Nat \cup {None}
  BY DEF Marks
<1>3. ASSUME NEW t \in ThreadIds, e[t] \in Nat, rtClock - e[t] < Retain PROVE Swept(e)[t] = e[t]
  <2>1. ~ (rtClock - e[t] >= Retain)
    BY <1>1, <1>3
  <2> QED BY <2>1 DEF Swept
<1>4. Swept(e) \in Marks
  <2>1. \A t \in ThreadIds : (IF e[t] # None /\ rtClock - e[t] >= Retain THEN None ELSE e[t]) \in Nat \cup {None}
    BY <1>2
  <2> QED BY <2>1 DEF Swept, Marks
<1> QED BY <1>3, <1>4

(* The graph a POST works on: the person's own, or a new one in the place  *)
(* of one that was not busy.                                               *)
GraphGot(p, g) ==
    /\ held' \in Seq(Nat) /\ owner' \in Seq(People)
    /\ entries' \in [DOMAIN owner' -> Marks] /\ plans' \in [DOMAIN owner' -> Marks]
    /\ recent' \in [DOMAIN owner' -> Seq(ThreadIds)]
    /\ LocksWith(g) \in [DOMAIN owner' -> SUBSET ThreadIds]
    /\ g \in ToSet(held') /\ g \in DOMAIN owner' /\ owner'[g] = p /\ g \in Nat
    /\ Built \subseteq DOMAIN owner' /\ DOMAIN owner' \subseteq Built \cup {g}
    /\ g \notin Built => LocksWith(g)[g] = {}
    /\ \A h \in Built :
          /\ owner'[h] = owner[h] /\ plans'[h] = plans[h] /\ recent'[h] = recent[h]
          /\ LocksWith(g)[h] = locks[h]
          /\ \A t \in ThreadIds : entries[h][t] \in Nat /\ rtClock - entries[h][t] < Retain => entries'[h][t] = entries[h][t]
    /\ \A h \in ToSet(held) : GraphBusy(h) => h \in ToSet(held')
    /\ \A h \in ToSet(held') : h \in DOMAIN owner' /\ \A k \in ToSet(held') : owner'[k] = owner'[h] => k = h

LEMMA GraphUsed ==
    ASSUME RtTypes, HeldInv, NEW p \in People, NEW g, GraphFor(p, g)
    PROVE  GraphGot(p, g)
PROOF
<1>1. DOMAIN owner = 1..Len(owner) /\ Len(owner) \in Nat /\ Built = 1..Len(owner)
  BY DEF RtTypes, Built
<1>2. CASE UseHeld(p, g)
  <2>1. g \in ToSet(held) /\ owner[g] = p /\ g \in Built /\ g \in Nat
    BY <1>1, <1>2 DEF UseHeld, HeldBy, HeldInv
  <2>2. held' = MovedToBack(held, g) /\ held \in Seq(Nat)
    BY <1>2 DEF UseHeld, RtTypes
  <2>3. held' \in Seq(Nat) /\ ToSet(held') = ToSet(held)
    <3>1. MovedToBack(held, g) \in Seq(Nat) /\ ToSet(MovedToBack(held, g)) = ToSet(held) \cup {g}
      BY <2>1, <2>2, MovedToBackSet
    <3> QED BY <2>1, <2>2, <3>1
  <2>4. UNCHANGED <<owner, entries, recent, plans>>
    BY <1>2 DEF UseHeld
  <2>5. LocksWith(g) = locks
    BY <2>1 DEF LocksWith
  <2> QED BY <2>1, <2>3, <2>4, <2>5 DEF GraphGot, RtTypes, HeldInv, Built
<1>3. CASE Build(p, g)
  <2> DEFINE n == Len(owner)
  <2>1. g = n + 1 /\ g \in Nat /\ g \notin Built
    <3>1. Cardinality(1..n) = n
      <4>1. Cardinality(1..n) = IF 1 > n THEN 0 ELSE n - 1 + 1
        BY <1>1, FS_Interval
      <4> QED BY <1>1, <4>1
    <3> QED BY <1>1, <1>3, <3>1 DEF Build
  <2>2. HeldBy(p) = {} /\ owner' = Append(owner, p) /\ recent' = Append(recent, <<>>) /\ plans' = Append(plans, Fresh)
    BY <1>3 DEF Build
  <2>3. owner' \in Seq(People) /\ DOMAIN owner' = 1..(n + 1) /\ owner'[g] = p /\ \A h \in Built : owner'[h] = owner[h]
    <3>1. owner \in Seq(People)
      BY DEF RtTypes
    <3>2. /\ Append(owner, p) \in Seq(People) /\ Len(Append(owner, p)) = Len(owner) + 1
          /\ \A i \in 1..Len(owner) : Append(owner, p)[i] = owner[i]
          /\ Append(owner, p)[Len(owner) + 1] = p
      BY <3>1, AppendProperties
    <3> QED BY <1>1, <2>1, <2>2, <3>2
  <2> HIDE DEF n
  <2>4. DOMAIN owner' = Built \cup {g} /\ n \in Nat /\ Built = 1..n
    BY <1>1, <2>1, <2>3 DEF n
  <2>5. recent' \in [1..(n + 1) -> Seq(ThreadIds)] /\ \A h \in Built : recent'[h] = recent[h]
    <3> DEFINE none == <<>>
    <3>1. recent \in [1..n -> Seq(ThreadIds)] /\ none \in Seq(ThreadIds)
      BY <2>4 DEF RtTypes
    <3>2. n \in Nat
      BY <2>4
    <3>3. recent' = Append(recent, none)
      BY <2>2
    <3> HIDE DEF none
    <3>4. recent' \in [1..(n + 1) -> Seq(ThreadIds)] /\ \A i \in 1..n : recent'[i] = recent[i]
      BY <3>1, <3>2, <3>3, AppendTo
    <3> QED BY <2>4, <3>4
  <2>6. Fresh \in Marks
    BY DEF Fresh, Marks
  <2>7. plans' \in [1..(n + 1) -> Marks] /\ \A h \in Built : plans'[h] = plans[h]
    <3>1. plans \in [1..n -> Marks]
      BY <2>4 DEF RtTypes
    <3>2. n \in Nat
      BY <2>4
    <3>3. plans' = Append(plans, Fresh)
      BY <2>2
    <3>4. plans' \in [1..(n + 1) -> Marks] /\ \A i \in 1..n : plans'[i] = plans[i]
      BY <2>6, <3>1, <3>2, <3>3, AppendTo
    <3> QED BY <2>4, <3>4
  <2>8. LocksWith(g) \in [1..(n + 1) -> SUBSET ThreadIds] /\ LocksWith(g)[g] = {} /\ \A h \in Built : LocksWith(g)[h] = locks[h]
    <3>1. locks \in [1..n -> SUBSET ThreadIds] /\ {} \in SUBSET ThreadIds
      BY <2>4 DEF RtTypes
    <3>2. LocksWith(g) = Append(locks, {})
      BY <2>1 DEF LocksWith
    <3> QED BY <2>1, <2>4, <3>1, <3>2, AppendTo
  <2>9. ASSUME NEW f \in [1..n -> Marks], entries' = Append(f, Fresh),
               \A h \in Built : f[h] = entries[h] \/ f[h] = Swept(entries[h])
        PROVE  /\ entries' \in [1..(n + 1) -> Marks]
               /\ \A h \in Built : \A t \in ThreadIds :
                     entries[h][t] \in Nat /\ rtClock - entries[h][t] < Retain => entries'[h][t] = entries[h][t]
    <3>1. entries' \in [1..(n + 1) -> Marks] /\ \A h \in Built : entries'[h] = f[h]
      BY <2>4, <2>6, <2>9, AppendTo
    <3>2. ASSUME NEW h \in Built, NEW t \in ThreadIds, entries[h][t] \in Nat, rtClock - entries[h][t] < Retain
          PROVE  entries'[h][t] = entries[h][t]
      <4>1. entries[h] \in Marks /\ rtClock \in Nat
        BY DEF RtTypes
      <4>2. Swept(entries[h])[t] = entries[h][t]
        BY <3>2, <4>1, SweptKeeps
      <4> QED BY <2>9, <3>1, <4>2
    <3> QED BY <3>1, <3>2
  <2>10. held \in Seq(Nat) /\ ToSet(held) \subseteq Built /\ \A h \in ToSet(held) : owner[h] # p
    BY <2>2 DEF RtTypes, HeldInv, HeldBy
  <2>11. ASSUME held' \in Seq(Nat), ToSet(held') \subseteq ToSet(held) \cup {g}, g \in ToSet(held')
         PROVE  \A h \in ToSet(held') : h \in DOMAIN owner' /\ \A k \in ToSet(held') : owner'[k] = owner'[h] => k = h
    BY <2>3, <2>4, <2>10, <2>11 DEF HeldInv
  <2>12. CASE ~Full /\ held' = Append(held, g) /\ entries' = Append(entries, Fresh)
    <3>1. held' \in Seq(Nat) /\ ToSet(held') = ToSet(held) \cup {g}
      BY <2>1, <2>10, <2>12, AppendSet
    <3>2. entries \in [1..n -> Marks] /\ \A h \in Built : entries[h] = entries[h] \/ entries[h] = Swept(entries[h])
      BY <2>4 DEF RtTypes
    <3>3. /\ entries' \in [1..(n + 1) -> Marks]
          /\ \A h \in Built : \A t \in ThreadIds :
                     entries[h][t] \in Nat /\ rtClock - entries[h][t] < Retain => entries'[h][t] = entries[h][t]
      BY <2>9, <2>12, <3>2
    <3> QED BY <2>1, <2>3, <2>4, <2>5, <2>7, <2>8, <2>11, <3>1, <3>3 DEF GraphGot
  <2>13. ASSUME NEW i \in FirstIdle, held' = Append(RemoveAt(held, i), g),
                entries' = Append([h \in Built |-> IF h \in Examined THEN Swept(entries[h]) ELSE entries[h]], Fresh)
         PROVE  GraphGot(p, g)
    <3> DEFINE f == [h \in Built |-> IF h \in Examined THEN Swept(entries[h]) ELSE entries[h]]
               s == RemoveAt(held, i)
    <3>1. i \in 1..Len(held) /\ ~ GraphBusy(held[i])
      BY <2>13 DEF FirstIdle
    <3>2. s \in Seq(Nat) /\ ToSet(held) \ {held[i]} \subseteq ToSet(s) /\ ToSet(s) \subseteq ToSet(held)
      BY <2>10, <3>1, RemoveAtKeeps
    <3>3. f \in [1..n -> Marks] /\ \A h \in Built : f[h] = entries[h] \/ f[h] = Swept(entries[h])
      <4>1. \A h \in Built : entries[h] \in Marks /\ Swept(entries[h]) \in Marks
        <5>1. rtClock \in Nat /\ \A h \in Built : entries[h] \in Marks
          BY DEF RtTypes
        <5> QED BY <5>1, SweptKeeps
      <4> QED BY <2>4, <4>1
    <3>4. held' = Append(s, g) /\ entries' = Append(f, Fresh)
      BY <2>13
    <3> HIDE DEF f, s
    <3>5. held' \in Seq(Nat) /\ ToSet(held') = ToSet(s) \cup {g}
      BY <2>1, <3>2, <3>4, AppendSet
    <3>6. /\ entries' \in [1..(n + 1) -> Marks]
          /\ \A h \in Built : \A t \in ThreadIds :
                     entries[h][t] \in Nat /\ rtClock - entries[h][t] < Retain => entries'[h][t] = entries[h][t]
      BY <2>9, <3>3, <3>4
    <3>7. \A h \in ToSet(held) : GraphBusy(h) => h \in ToSet(held')
      BY <3>1, <3>2, <3>5
    <3>8. \A h \in ToSet(held') : h \in DOMAIN owner' /\ \A k \in ToSet(held') : owner'[k] = owner'[h] => k = h
      BY <2>11, <3>2, <3>5
    <3> QED BY <2>1, <2>3, <2>4, <2>5, <2>7, <2>8, <3>5, <3>6, <3>7, <3>8 DEF GraphGot
  <2> QED BY <1>3, <2>12, <2>13 DEF Build
<1> QED BY <1>2, <1>3 DEF GraphFor

-----------------------------------------------------------------------------
(* What a plan that can still be decided rests on keeps its graph busy.    *)
LEMMA KeptIsOpen ==
    ASSUME RtTypes, NEW o \in offered, NEW g \in Built, KeptIn(o, g), o.until > rtClock
    PROVE  /\ o.t \in ThreadIds /\ entries[g][o.t] \in Nat /\ rtClock - entries[g][o.t] < Retain
           /\ GraphBusy(g)
PROOF
<1>1. o.t \in ThreadIds /\ o.until \in Nat /\ rtClock \in Nat /\ entries[g] \in Marks
  BY DEF RtTypes
<1>2. entries[g][o.t] \in Nat /\ o.until <= entries[g][o.t] + Retain
  BY DEF KeptIn
<1>3. Retain \in Nat
  BY RouteAssumption DEF Retain
<1>4. rtClock - entries[g][o.t] < Retain
  BY <1>1, <1>2, <1>3
<1>5. Swept(entries[g])[o.t] = entries[g][o.t]
  BY <1>1, <1>2, <1>4, SweptKeeps
<1>6. entries[g][o.t] # None
  BY <1>2 DEF None
<1> QED BY <1>1, <1>2, <1>4, <1>5, <1>6 DEF GraphBusy

LEMMA PostStep ==
    ASSUME RtInv, NEW p \in People, NEW t \in ThreadIds, NEW k \in {"message", "decision"}, Post(p, t, k)
    PROVE  RtInv'
PROOF
<1> DEFINE new(g) == [g |-> g, t |-> t, kind |-> k, st |-> IF k = "message" THEN "begin" ELSE "gate", since |-> None]
<1>1. PICK g : /\ GraphFor(p, g)
               /\ IF t \in LocksWith(g)[g] THEN UNCHANGED <<locks, rtRuns>>
                  ELSE /\ locks' = [LocksWith(g) EXCEPT ![g] = @ \union {t}]
                       /\ rtRuns' = rtRuns \union {new(g)}
  BY DEF Post
<1>2. GraphGot(p, g)
  BY <1>1, GraphUsed DEF RtInv
<1>3. UNCHANGED <<rtClock, offered>>
  BY DEF Post
<1>4. RtTypes /\ HeldInv /\ LocksInv /\ (\A r \in rtRuns : Accounted(r)) /\ (\A o \in offered : Kept(o))
  BY DEF RtInv
<1>5. ToSet(held) \subseteq Built /\ Retain \in Nat /\ rtClock \in Nat
  BY <1>4, RouteAssumption DEF HeldInv, RtTypes, Retain
<1>6. ASSUME NEW r \in rtRuns
      PROVE  /\ r.g \in Built /\ r.g \in ToSet(held') /\ r.t \in ThreadIds /\ r.t \in LocksWith(g)[r.g]
             /\ owner'[r.g] = owner[r.g]
             /\ r.st = "going" /\ r.kind = "message" /\ rtClock - r.since < Retain =>
                   entries'[r.g][r.t] = r.since
             /\ ~ (r.g = g /\ r.t = t) \/ t \in LocksWith(g)[g]
  <2>1. Accounted(r) /\ r \in Requests
    BY <1>4 DEF RtTypes
  <2>2. r.g \in ToSet(held) /\ r.g \in Built /\ r.t \in ThreadIds /\ r.t \in locks[r.g]
    BY <1>5, <2>1 DEF Accounted, Requests
  <2>3. GraphBusy(r.g)
    BY <2>2 DEF GraphBusy
  <2>4. r.g \in ToSet(held') /\ owner'[r.g] = owner[r.g] /\ LocksWith(g)[r.g] = locks[r.g]
    BY <1>2, <2>2, <2>3 DEF GraphGot
  <2>5. ASSUME r.st = "going", r.kind = "message", rtClock - r.since < Retain
        PROVE  entries'[r.g][r.t] = r.since
    <3>1. r.since \in Nat /\ entries[r.g][r.t] = r.since
      BY <2>1, <2>5 DEF Accounted
    <3> QED BY <1>2, <2>2, <2>5, <3>1 DEF GraphGot
  <2> QED BY <2>2, <2>4, <2>5
<1>7. ASSUME NEW o \in offered PROVE Kept(o)'
  <2>1. SUFFICES ASSUME o.inTime, o.until > rtClock PROVE \E h \in ToSet(held') : KeptIn(o, h)'
    BY <1>3 DEF Kept
  <2>2. PICK h \in ToSet(held) : KeptIn(o, h)
    BY <1>4, <2>1 DEF Kept
  <2>3. h \in Built /\ o.t \in ThreadIds /\ entries[h][o.t] \in Nat /\ rtClock - entries[h][o.t] < Retain /\ GraphBusy(h)
    BY <1>4, <1>5, <2>1, <2>2, KeptIsOpen
  <2>4. h \in ToSet(held') /\ owner'[h] = owner[h] /\ plans'[h] = plans[h] /\ recent'[h] = recent[h]
        /\ entries'[h][o.t] = entries[h][o.t]
    BY <1>2, <2>2, <2>3 DEF GraphGot
  <2> QED BY <2>2, <2>4 DEF KeptIn
<1>8. /\ rtClock' \in Nat /\ held' \in Seq(Nat) /\ owner' \in Seq(People)
      /\ entries' \in [Built' -> Marks] /\ plans' \in [Built' -> Marks] /\ recent' \in [Built' -> Seq(ThreadIds)]
      /\ offered' \subseteq [p : People, t : ThreadIds, until : Nat, inTime : BOOLEAN]
      /\ HeldInv'
  BY <1>2, <1>3, <1>4 DEF GraphGot, RtTypes, HeldInv, Built
<1>9. \A o \in offered' : Kept(o)'
  BY <1>3, <1>7
<1>10. CASE t \in LocksWith(g)[g]
  <2>1. UNCHANGED <<locks, rtRuns>>
    BY <1>1, <1>10
  <2>2. g \in Built /\ Built' = Built /\ LocksWith(g) = locks
    BY <1>2, <1>10 DEF GraphGot, Built, LocksWith
  <2>3. \A r \in rtRuns : Accounted(r)'
    BY <1>3, <1>4, <1>6, <2>1, <2>2 DEF Accounted
  <2>4. LocksInv'
    BY <1>4, <2>1, <2>2 DEF LocksInv
  <2>5. RtTypes'
    BY <1>4, <1>8, <2>1, <2>2 DEF RtTypes
  <2> QED BY <1>8, <1>9, <2>1, <2>3, <2>4, <2>5 DEF RtInv
<1>11. CASE t \notin LocksWith(g)[g]
  <2> DEFINE n == new(g)
  <2>1. locks' = [LocksWith(g) EXCEPT ![g] = @ \union {t}] /\ rtRuns' = rtRuns \union {n}
    BY <1>1, <1>11
  <2>2. g \in Nat /\ g \in Built' /\ g \in ToSet(held') /\ Built' \subseteq Built \cup {g} /\ Built \subseteq Built'
        /\ LocksWith(g) \in [Built' -> SUBSET ThreadIds] /\ \A h \in Built : LocksWith(g)[h] = locks[h]
    BY <1>2 DEF GraphGot, Built
  <2>3. n \in Requests /\ n.g = g /\ n.t = t /\ n.st # "going" /\ (n.st \in {"gate", "recheck"} => n.kind = "decision")
    BY <2>2 DEF Requests, None
  <2> HIDE DEF n
  <2>4. locks' \in [Built' -> SUBSET ThreadIds] /\ locks'[g] = LocksWith(g)[g] \cup {t}
        /\ \A h \in Built' : h # g => locks'[h] = LocksWith(g)[h]
    BY <2>1, <2>2
  <2>5. RtTypes'
    BY <1>4, <1>8, <2>1, <2>3, <2>4 DEF RtTypes
  <2>6. ASSUME NEW r \in rtRuns PROVE Accounted(r)'
    <3>1. Accounted(r)
      BY <1>4
    <3>2. r.t \in locks'[r.g]
      BY <1>6, <2>2, <2>4
    <3>3. ~ (n.g = r.g /\ n.t = r.t)
      BY <1>6, <1>11, <2>3
    <3> QED BY <1>3, <1>6, <2>1, <3>1, <3>2, <3>3 DEF Accounted
  <2>7. Accounted(n)'
    <3>1. t \in locks'[g]
      BY <2>4
    <3>2. \A q \in rtRuns : ~ (q.g = g /\ q.t = t)
      BY <1>6, <1>11
    <3> QED BY <2>1, <2>2, <2>3, <3>1, <3>2 DEF Accounted
  <2>8. ASSUME NEW h \in Built', NEW u \in locks'[h] PROVE \E r \in rtRuns' : r.g = h /\ r.t = u
    <3>1. CASE h = g /\ u = t
      BY <2>1, <2>3, <3>1
    <3>2. CASE ~ (h = g /\ u = t)
      <4>1. u \in LocksWith(g)[h]
        BY <2>2, <2>4, <2>8, <3>2
      <4>2. h \in Built
        <5>1. g \notin Built => LocksWith(g)[g] = {}
          BY <1>2 DEF GraphGot
        <5> QED BY <2>2, <4>1, <5>1
      <4>3. u \in locks[h]
        BY <2>2, <4>1, <4>2
      <4> QED BY <1>4, <2>1, <4>2, <4>3 DEF LocksInv
    <3> QED BY <3>1, <3>2
  <2>9. LocksInv'
    BY <2>8 DEF LocksInv
  <2> QED BY <1>8, <1>9, <2>1, <2>5, <2>6, <2>7, <2>9 DEF RtInv
<1> QED BY <1>10, <1>11

-----------------------------------------------------------------------------
(* Using a graph or a thread, a sweep and the clock: none of them changes  *)
(* who holds what.                                                         *)
SameGraphs ==
    /\ UNCHANGED <<owner, locks, plans, rtRuns, offered>>
    /\ rtClock' \in Nat /\ rtClock' >= rtClock
    /\ held' \in Seq(Nat) /\ ToSet(held') = ToSet(held)
    /\ recent' \in [Built -> Seq(ThreadIds)] /\ \A h \in Built : ToSet(recent'[h]) = ToSet(recent[h])
    /\ entries' \in [Built -> Marks]
    /\ \A h \in Built : \A t \in ThreadIds :
          entries[h][t] \in Nat /\ rtClock - entries[h][t] < Retain => entries'[h][t] = entries[h][t]

LEMMA SameGraphsStep ==
    ASSUME RtInv, SameGraphs PROVE RtInv'
PROOF
<1>1. RtTypes /\ HeldInv /\ LocksInv /\ (\A r \in rtRuns : Accounted(r)) /\ (\A o \in offered : Kept(o))
  BY DEF RtInv
<1>2. ToSet(held) \subseteq Built /\ Retain \in Nat /\ rtClock \in Nat /\ rtClock' \in Nat /\ rtClock' >= rtClock
  BY <1>1, RouteAssumption DEF HeldInv, RtTypes, Retain, SameGraphs
<1>3. RtTypes' /\ HeldInv' /\ LocksInv'
  BY <1>1 DEF RtTypes, HeldInv, LocksInv, SameGraphs, Built
<1>4. ASSUME NEW r \in rtRuns PROVE Accounted(r)'
  <2>1. Accounted(r) /\ r.g \in Built /\ r.t \in ThreadIds
    BY <1>1, <1>2 DEF Accounted, RtTypes, Requests
  <2>2. ASSUME r.st = "going", r.kind = "message"
        PROVE  /\ r.since \in Nat /\ r.since <= rtClock'
               /\ rtClock' - r.since < Retain => entries'[r.g][r.t] = r.since
    <3>1. r.since \in Nat /\ r.since <= rtClock /\ (rtClock - r.since < Retain => entries[r.g][r.t] = r.since)
      BY <2>1, <2>2 DEF Accounted
    <3>2. r.since <= rtClock' /\ (rtClock' - r.since < Retain => rtClock - r.since < Retain)
      BY <1>2, <3>1
    <3>3. ASSUME rtClock - r.since < Retain PROVE entries'[r.g][r.t] = r.since
      BY <2>1, <3>1, <3>3 DEF SameGraphs
    <3> QED BY <3>1, <3>2, <3>3
  <2> QED BY <2>1, <2>2 DEF Accounted, SameGraphs
<1>5. ASSUME NEW o \in offered PROVE Kept(o)'
  <2>1. o.until \in Nat
    BY <1>1 DEF RtTypes
  <2>2. SUFFICES ASSUME o.inTime, o.until > rtClock' PROVE \E h \in ToSet(held) : KeptIn(o, h)'
    BY DEF Kept, SameGraphs
  <2>3. o.until > rtClock
    BY <1>2, <2>1, <2>2
  <2>4. PICK h \in ToSet(held) : KeptIn(o, h)
    BY <1>1, <2>2, <2>3 DEF Kept
  <2>5. h \in Built /\ o.t \in ThreadIds /\ entries[h][o.t] \in Nat /\ rtClock - entries[h][o.t] < Retain
    BY <1>1, <1>2, <2>3, <2>4, KeptIsOpen
  <2>6. entries'[h][o.t] = entries[h][o.t] /\ ToSet(recent'[h]) = ToSet(recent[h])
    BY <2>5 DEF SameGraphs
  <2> QED BY <2>4, <2>6 DEF KeptIn, SameGraphs
<1> QED BY <1>3, <1>4, <1>5 DEF RtInv, SameGraphs

LEMMA BusyStep ==
    ASSUME RtInv, NEW p \in People, GraphsBusy(p) PROVE RtInv'
PROOF
<1>1. RtTypes
  BY DEF RtInv
<1>2. entries' = [h \in Built |-> IF h \in ToSet(held) THEN Swept(entries[h]) ELSE entries[h]]
      /\ UNCHANGED <<rtClock, held, owner, locks, recent, plans, rtRuns, offered>>
  BY DEF GraphsBusy
<1>3. ASSUME NEW h \in Built
      PROVE  /\ entries'[h] \in Marks
             /\ \A t \in ThreadIds : entries[h][t] \in Nat /\ rtClock - entries[h][t] < Retain => entries'[h][t] = entries[h][t]
  <2>1. entries[h] \in Marks /\ rtClock \in Nat
    BY <1>1 DEF RtTypes
  <2>2. /\ Swept(entries[h]) \in Marks
        /\ \A t \in ThreadIds : entries[h][t] \in Nat /\ rtClock - entries[h][t] < Retain => Swept(entries[h])[t] = entries[h][t]
    BY <2>1, SweptKeeps
  <2> QED BY <1>2, <2>1, <2>2
<1>4. entries' \in [Built -> Marks]
  BY <1>2, <1>3
<1>5. SameGraphs
  BY <1>1, <1>2, <1>3, <1>4 DEF SameGraphs, RtTypes
<1> QED BY <1>5, SameGraphsStep

(* The graph of a person who has one, used: the same graphs are held.      *)
LEMMA UsedIsHeld ==
    ASSUME RtTypes, HeldInv, NEW p, NEW g \in HeldBy(p), held' = MovedToBack(held, g)
    PROVE  held' \in Seq(Nat) /\ ToSet(held') = ToSet(held) /\ g \in Built
PROOF
<1>1. g \in ToSet(held) /\ g \in Built /\ g \in Nat /\ held \in Seq(Nat)
  BY DEF HeldBy, HeldInv, RtTypes, Built
<1>2. MovedToBack(held, g) \in Seq(Nat) /\ ToSet(MovedToBack(held, g)) = ToSet(held) \cup {g}
  BY <1>1, MovedToBackSet
<1> QED BY <1>1, <1>2

(* A thread read is the most recent; none comes or goes.                   *)
LEMMA ReadKeeps ==
    ASSUME RtTypes, NEW g \in Built, NEW t \in ThreadIds,
           recent' = IF t \in ToSet(recent[g]) THEN [recent EXCEPT ![g] = MovedToBack(@, t)] ELSE recent
    PROVE  recent' \in [Built -> Seq(ThreadIds)] /\ \A h \in Built : ToSet(recent'[h]) = ToSet(recent[h])
PROOF
<1>1. recent \in [Built -> Seq(ThreadIds)] /\ recent[g] \in Seq(ThreadIds)
  BY DEF RtTypes
<1> DEFINE m == MovedToBack(recent[g], t)
<1>2. m \in Seq(ThreadIds) /\ ToSet(m) = ToSet(recent[g]) \cup {t}
  BY <1>1, MovedToBackSet
<1>3. recent' = IF t \in ToSet(recent[g]) THEN [recent EXCEPT ![g] = m] ELSE recent
  OBVIOUS
<1> HIDE DEF m
<1> QED BY <1>1, <1>2, <1>3

LEMMA LookStep ==
    ASSUME RtInv, NEW p \in People, NEW t \in ThreadIds, Look(p, t) PROVE RtInv'
PROOF
<1>1. RtTypes /\ HeldInv
  BY DEF RtInv
<1>2. PICK g \in HeldBy(p) : /\ held' = MovedToBack(held, g)
                             /\ recent' = IF t \in ToSet(recent[g]) THEN [recent EXCEPT ![g] = MovedToBack(@, t)] ELSE recent
  BY DEF Look
<1>3. UNCHANGED <<rtClock, owner, locks, entries, plans, rtRuns, offered>>
  BY DEF Look
<1>4. held' \in Seq(Nat) /\ ToSet(held') = ToSet(held) /\ g \in Built
  BY <1>1, <1>2, UsedIsHeld
<1>5. recent' \in [Built -> Seq(ThreadIds)] /\ \A h \in Built : ToSet(recent'[h]) = ToSet(recent[h])
  BY <1>1, <1>2, <1>4, ReadKeeps
<1>6. SameGraphs
  BY <1>1, <1>3, <1>4, <1>5 DEF SameGraphs, RtTypes
<1> QED BY <1>6, SameGraphsStep

LEMMA PressStopStep ==
    ASSUME RtInv, NEW p \in People, PressStop(p) PROVE RtInv'
PROOF
<1>1. RtTypes /\ HeldInv
  BY DEF RtInv
<1>2. PICK g \in HeldBy(p) : held' = MovedToBack(held, g)
  BY DEF PressStop
<1>3. UNCHANGED <<rtClock, owner, locks, entries, recent, plans, rtRuns, offered>>
  BY DEF PressStop
<1>4. held' \in Seq(Nat) /\ ToSet(held') = ToSet(held)
  BY <1>1, <1>2, UsedIsHeld
<1>5. SameGraphs
  BY <1>1, <1>3, <1>4 DEF SameGraphs, RtTypes
<1> QED BY <1>5, SameGraphsStep

LEMMA RtTickStep ==
    ASSUME RtInv, RtTick PROVE RtInv'
PROOF
<1>1. RtTypes
  BY DEF RtInv
<1>2. UNCHANGED <<held, owner, locks, entries, recent, plans, rtRuns, offered>>
  BY DEF RtTick
<1>3. rtClock' \in Nat /\ rtClock' >= rtClock
  BY <1>1 DEF RtTick, RtTypes
<1>4. SameGraphs
  BY <1>1, <1>2, <1>3 DEF SameGraphs, RtTypes
<1> QED BY <1>4, SameGraphsStep

-----------------------------------------------------------------------------
(* A step of the request r: it touches its own thread of its own graph,    *)
(* and leaves what the other threads have open.                            *)
Offers == [p : People, t : ThreadIds, until : Nat, inTime : BOOLEAN]
OwnThread(r, o) == o.p = owner[r.g] /\ o.t = r.t
OneThread(r) ==
    /\ UNCHANGED <<rtClock, held, owner>>
    /\ entries' \in [Built -> Marks] /\ plans' \in [Built -> Marks] /\ recent' \in [Built -> Seq(ThreadIds)]
    /\ \A h \in Built : h # r.g => entries'[h] = entries[h] /\ plans'[h] = plans[h] /\ recent'[h] = recent[h]
    /\ \A u \in ThreadIds : u # r.t /\ entries[r.g][u] \in Nat /\ rtClock - entries[r.g][u] < Retain =>
          /\ entries'[r.g][u] = entries[r.g][u]
          /\ u \in ToSet(recent[r.g]) => u \in ToSet(recent'[r.g]) /\ plans'[r.g][u] = plans[r.g][u]
    /\ offered' \subseteq Offers
    /\ \A o \in offered' : /\ o \in offered \/ OwnThread(r, o)
                           /\ OwnThread(r, o) => Kept(o)'
Ended(r) ==
    /\ rtRuns' = rtRuns \ {r}
    /\ locks' = [locks EXCEPT ![r.g] = @ \ {r.t}]
GoesOn(r, x) ==
    /\ rtRuns' = (rtRuns \ {r}) \cup {x} /\ locks' = locks
    /\ x \in Requests /\ x.g = r.g /\ x.t = r.t
    /\ x.st \in {"gate", "recheck"} => x.kind = "decision"
    /\ x.st = "going" => \A o \in offered' : ~ OwnThread(r, o)
    /\ x.st = "going" /\ x.kind = "message" => x.since = rtClock /\ entries'[r.g][r.t] = rtClock

LEMMA RunStep ==
    ASSUME RtInv, NEW r \in rtRuns, OneThread(r), Ended(r) \/ \E x : GoesOn(r, x)
    PROVE  RtInv'
PROOF
<1>1. RtTypes /\ HeldInv /\ LocksInv /\ (\A q \in rtRuns : Accounted(q)) /\ (\A o \in offered : Kept(o))
  BY DEF RtInv
<1>2. ToSet(held) \subseteq Built /\ Retain \in Nat /\ rtClock \in Nat
  BY <1>1, RouteAssumption DEF HeldInv, RtTypes, Retain
<1>3. UNCHANGED <<rtClock, held, owner>> /\ Built' = Built
  BY DEF OneThread, Built
<1>4. r.g \in ToSet(held) /\ r.g \in Built /\ r.t \in ThreadIds /\ r.t \in locks[r.g] /\ r \in Requests
  BY <1>1, <1>2 DEF Accounted, RtTypes, Requests
<1>5. HeldInv'
  BY <1>1, <1>3 DEF HeldInv
<1>6. ASSUME NEW o \in offered' PROVE Kept(o)'
  <2>1. CASE OwnThread(r, o)
    BY <2>1 DEF OneThread
  <2>2. CASE ~ OwnThread(r, o)
    <3>1. o \in offered
      BY <2>2 DEF OneThread
    <3>2. SUFFICES ASSUME o.inTime, o.until > rtClock PROVE \E h \in ToSet(held) : KeptIn(o, h)'
      BY <1>3 DEF Kept
    <3>3. PICK h \in ToSet(held) : KeptIn(o, h)
      BY <1>1, <3>1, <3>2 DEF Kept
    <3>4. h \in Built /\ o.t \in ThreadIds /\ entries[h][o.t] \in Nat /\ rtClock - entries[h][o.t] < Retain
      BY <1>1, <1>2, <3>1, <3>2, <3>3, KeptIsOpen
    <3>5. CASE h # r.g
      BY <1>3, <3>3, <3>4, <3>5 DEF KeptIn, OneThread
    <3>6. CASE h = r.g
      <4>1. o.t # r.t
        BY <2>2, <3>3, <3>6 DEF KeptIn, OwnThread
      <4>2. o.t \in ToSet(recent[h])
        BY <3>3 DEF KeptIn
      <4>3. entries'[h][o.t] = entries[h][o.t] /\ o.t \in ToSet(recent'[h]) /\ plans'[h][o.t] = plans[h][o.t]
        BY <3>4, <3>6, <4>1, <4>2 DEF OneThread
      <4> QED BY <1>3, <3>3, <4>3 DEF KeptIn
    <3> QED BY <3>5, <3>6
  <2> QED BY <2>1, <2>2
<1>7. ASSUME NEW q \in rtRuns, q # r, q.t \in locks'[q.g], \A y \in rtRuns' : y \in rtRuns \/ (y.g = r.g /\ y.t = r.t)
      PROVE  Accounted(q)'
  <2>1. Accounted(q) /\ q.g \in Built /\ q.t \in ThreadIds /\ q \in Requests
    BY <1>1, <1>2 DEF Accounted, RtTypes, Requests
  <2>2. ~ (q.g = r.g /\ q.t = r.t)
    BY <1>7, <2>1 DEF Accounted
  <2>3. ASSUME NEW y \in rtRuns', y.g = q.g, y.t = q.t PROVE y = q
    BY <1>7, <2>1, <2>2, <2>3 DEF Accounted
  <2>4. ASSUME q.st = "going", NEW o \in offered' PROVE ~ (o.p = owner[q.g] /\ o.t = q.t)
    <3>1. CASE o \in offered
      BY <2>1, <2>4, <3>1 DEF Accounted
    <3>2. CASE OwnThread(r, o)
      <4>1. owner[q.g] = owner[r.g] => q.g = r.g
        BY <1>1, <1>4, <2>1 DEF HeldInv, Accounted
      <4> QED BY <2>2, <3>2, <4>1 DEF OwnThread
    <3> QED BY <2>4, <3>1, <3>2 DEF OneThread
  <2>5. ASSUME q.st = "going", q.kind = "message"
        PROVE  r.g \in Built /\ q.since \in Nat /\ q.since <= rtClock /\ (rtClock - q.since < Retain => entries'[q.g][q.t] = q.since)
    <3>1. q.since \in Nat /\ q.since <= rtClock /\ (rtClock - q.since < Retain => entries[q.g][q.t] = q.since)
      BY <2>1, <2>5 DEF Accounted
    <3>2. ASSUME rtClock - q.since < Retain PROVE entries'[q.g][q.t] = q.since
      <4>1. CASE q.g # r.g
        BY <2>1, <3>1, <3>2, <4>1 DEF OneThread
      <4>2. CASE q.g = r.g
        BY <2>1, <2>2, <3>1, <3>2, <4>2 DEF OneThread
      <4> QED BY <4>1, <4>2
    <3> QED BY <1>4, <3>1, <3>2
  <2>6. q.g \in ToSet(held) /\ (q.st \in {"gate", "recheck"} => q.kind = "decision")
    BY <2>1 DEF Accounted
  <2> QED BY <1>3, <1>7, <2>3, <2>4, <2>5, <2>6 DEF Accounted
<1>8. CASE Ended(r)
  <2>1. rtRuns' = rtRuns \ {r} /\ locks' = [locks EXCEPT ![r.g] = @ \ {r.t}]
    BY <1>8 DEF Ended
  <2>2. locks \in [Built -> SUBSET ThreadIds]
    BY <1>1 DEF RtTypes
  <2>3. locks' \in [Built -> SUBSET ThreadIds] /\ locks'[r.g] = locks[r.g] \ {r.t} /\ \A h \in Built : h # r.g => locks'[h] = locks[h]
    BY <1>4, <2>1, <2>2
  <2>4. RtTypes'
    BY <1>1, <1>3, <2>1, <2>3 DEF RtTypes, OneThread, Offers
  <2>5. ASSUME NEW q \in rtRuns' PROVE Accounted(q)'
    <3>1. q \in rtRuns /\ q # r /\ Accounted(q) /\ q.g \in Built
      BY <1>1, <1>2, <2>1 DEF Accounted
    <3>2. q.t \in locks[q.g] /\ ~ (q.g = r.g /\ q.t = r.t)
      BY <3>1 DEF Accounted
    <3>3. q.t \in locks'[q.g]
      BY <2>3, <3>1, <3>2
    <3> QED BY <1>7, <2>1, <3>1, <3>3
  <2>6. ASSUME NEW h \in Built, NEW u \in locks'[h] PROVE \E q \in rtRuns' : q.g = h /\ q.t = u
    <3>1. u \in locks[h] /\ ~ (h = r.g /\ u = r.t)
      BY <2>3, <2>6
    <3>2. PICK q \in rtRuns : q.g = h /\ q.t = u
      BY <1>1, <3>1 DEF LocksInv
    <3>3. q # r
      BY <3>1, <3>2
    <3> QED BY <2>1, <3>2, <3>3
  <2>7. LocksInv'
    BY <1>3, <2>6 DEF LocksInv
  <2> QED BY <1>5, <1>6, <2>4, <2>5, <2>7 DEF RtInv
<1>9. ASSUME NEW x, GoesOn(r, x) PROVE RtInv'
  <2>1. rtRuns' = (rtRuns \ {r}) \cup {x} /\ locks' = locks /\ x \in Requests /\ x.g = r.g /\ x.t = r.t
    BY <1>9 DEF GoesOn
  <2>2. RtTypes'
    BY <1>1, <1>3, <2>1 DEF RtTypes, OneThread, Offers
  <2>3. ASSUME NEW q \in rtRuns, q # r PROVE Accounted(q)'
    <3>1. q.t \in locks'[q.g]
      BY <1>1, <2>1, <2>3 DEF Accounted
    <3> QED BY <1>7, <2>1, <2>3, <3>1
  <2>4. Accounted(x)'
    <3>1. x.g \in ToSet(held) /\ x.t \in locks'[x.g]
      BY <1>4, <2>1
    <3>2. ASSUME NEW y \in rtRuns', y.g = x.g, y.t = x.t PROVE y = x
      <4>1. y # r /\ y \in rtRuns => FALSE
        BY <1>1, <2>1, <3>2 DEF Accounted
      <4> QED BY <2>1, <3>2, <4>1
    <3>3. x.st \in {"gate", "recheck"} => x.kind = "decision"
      BY <1>9 DEF GoesOn
    <3>4. x.st = "going" => \A o \in offered' : ~ (o.p = owner[x.g] /\ o.t = x.t)
      BY <1>9, <2>1 DEF GoesOn, OwnThread
    <3>5. x.st = "going" /\ x.kind = "message" =>
             x.since \in Nat /\ x.since <= rtClock /\ entries'[x.g][x.t] = x.since
      BY <1>2, <1>9, <2>1 DEF GoesOn
    <3> QED BY <1>3, <3>1, <3>2, <3>3, <3>4, <3>5 DEF Accounted
  <2>5. LocksInv'
    <3>1. ASSUME NEW h \in Built, NEW u \in locks[h] PROVE \E q \in rtRuns' : q.g = h /\ q.t = u
      <4>1. PICK q \in rtRuns : q.g = h /\ q.t = u
        BY <1>1, <3>1 DEF LocksInv
      <4> QED BY <2>1, <4>1
    <3> QED BY <1>3, <2>1, <3>1 DEF LocksInv
  <2> QED BY <1>5, <1>6, <2>1, <2>2, <2>3, <2>4, <2>5 DEF RtInv
<1> QED BY <1>8, <1>9

-----------------------------------------------------------------------------
(* What the handlers of a request write: the marks e of its graph, the     *)
(* threads s kept and the plans f, cut down to those threads.              *)
Written(r, e, s, f) ==
    /\ e \in Marks /\ s \in Seq(ThreadIds) /\ f \in Marks
    /\ entries' = [entries EXCEPT ![r.g] = e]
    /\ recent' = [recent EXCEPT ![r.g] = s]
    /\ plans' = [plans EXCEPT ![r.g] = f]
    /\ UNCHANGED <<rtClock, held, owner>>
    /\ \A u \in ThreadIds : u # r.t /\ entries[r.g][u] \in Nat /\ rtClock - entries[r.g][u] < Retain =>
          e[u] = entries[r.g][u] /\ (u \in ToSet(recent[r.g]) => u \in ToSet(s) /\ f[u] = plans[r.g][u])
    /\ offered' \subseteq Offers
    /\ \A o \in offered' : (o \in offered \/ OwnThread(r, o)) /\ (OwnThread(r, o) => Kept(o)')

LEMMA ThreadWritten ==
    ASSUME RtInv, NEW r \in rtRuns, NEW e, NEW s, NEW f, Written(r, e, s, f)
    PROVE  /\ OneThread(r) /\ r.g \in Built
           /\ entries'[r.g] = e /\ recent'[r.g] = s /\ plans'[r.g] = f
PROOF
<1>1. /\ entries \in [Built -> Marks] /\ plans \in [Built -> Marks] /\ recent \in [Built -> Seq(ThreadIds)]
      /\ r.g \in Built
  BY DEF RtInv, RtTypes, HeldInv, Accounted
<1>2. entries' \in [Built -> Marks] /\ entries'[r.g] = e /\ \A h \in Built : h # r.g => entries'[h] = entries[h]
  BY <1>1 DEF Written
<1>3. plans' \in [Built -> Marks] /\ plans'[r.g] = f /\ \A h \in Built : h # r.g => plans'[h] = plans[h]
  BY <1>1 DEF Written
<1>4. recent' \in [Built -> Seq(ThreadIds)] /\ recent'[r.g] = s /\ \A h \in Built : h # r.g => recent'[h] = recent[h]
  BY <1>1 DEF Written
<1> QED BY <1>1, <1>2, <1>3, <1>4 DEF OneThread, Written

LEMMA OpenThread ==
    ASSUME RtInv, NEW r \in rtRuns
    PROVE  /\ r.g \in Built /\ r.g \in ToSet(held) /\ r.t \in ThreadIds /\ r \in Requests /\ Accounted(r)
           /\ entries[r.g] \in Marks /\ plans[r.g] \in Marks /\ recent[r.g] \in Seq(ThreadIds)
           /\ rtClock \in Nat /\ owner[r.g] \in People /\ offered \subseteq Offers
PROOF
<1>1. RtTypes /\ HeldInv /\ Accounted(r)
  BY DEF RtInv
<1>2. r \in Requests /\ r.g \in ToSet(held) /\ r.g \in Built
  BY <1>1 DEF RtTypes, HeldInv, Accounted
<1>3. owner[r.g] \in People
  BY <1>1, <1>2 DEF RtTypes, Built
<1> QED BY <1>1, <1>2, <1>3 DEF RtTypes, Requests, Offers

LEMMA PlansCut ==
    ASSUME NEW f \in Marks, NEW s \in Seq(ThreadIds)
    PROVE  PlansKept(f, s) \in Marks /\ \A u \in ThreadIds : u \in ToSet(s) => PlansKept(f, s)[u] = f[u]
BY DEF PlansKept, Marks

LEMMA Decided ==
    ASSUME RtInv, NEW r \in rtRuns, offered' = Undecided(r.g, r.t)
    PROVE  /\ offered' \subseteq Offers
           /\ \A o \in offered' : o \in offered /\ ~ OwnThread(r, o)
PROOF
<1>1. offered \subseteq Offers
  BY OpenThread
<1> QED BY <1>1 DEF Undecided, OwnThread

LEMMA BeginsStep ==
    ASSUME RtInv, NEW r \in rtRuns, RunBegins(r) PROVE RtInv'
PROOF
<1> DEFINE kept   == Put(recent[r.g], r.t, entries[r.g])
           swept  == Swept(entries[r.g])
           opened == [swept EXCEPT ![r.t] = rtClock]
           after  == Put(kept, r.t, opened)
           noPlan == [plans[r.g] EXCEPT ![r.t] = None]
           left   == PlansKept(noPlan, after)
           x      == [r EXCEPT !.st = "going", !.since = rtClock]
<1>1. /\ rtRuns' = (rtRuns \ {r}) \union {x}
      /\ entries' = [entries EXCEPT ![r.g] = opened]
      /\ recent' = [recent EXCEPT ![r.g] = after]
      /\ plans' = [plans EXCEPT ![r.g] = left]
      /\ offered' = Undecided(r.g, r.t)
      /\ UNCHANGED <<rtClock, held, owner, locks>>
  <2>1. plans' = [plans EXCEPT ![r.g] = PlansKept([@ EXCEPT ![r.t] = None], after)]
    BY DEF RunBegins
  <2> QED BY <2>1 DEF RunBegins
<1>2. /\ r.g \in Built /\ r.t \in ThreadIds /\ r \in Requests /\ entries[r.g] \in Marks /\ plans[r.g] \in Marks
      /\ recent[r.g] \in Seq(ThreadIds) /\ rtClock \in Nat
  BY OpenThread
<1>3. x \in Requests /\ x.g = r.g /\ x.t = r.t /\ x.st = "going" /\ x.since = rtClock
  BY <1>2 DEF Requests
<1> HIDE DEF x
<1>4. swept \in Marks /\ \A u \in ThreadIds : entries[r.g][u] \in Nat /\ rtClock - entries[r.g][u] < Retain => swept[u] = entries[r.g][u]
  BY <1>2, SweptKeeps
<1> HIDE DEF swept
<1>5. opened \in Marks /\ opened[r.t] = rtClock /\ \A u \in ThreadIds : u # r.t => opened[u] = swept[u]
  BY <1>2, <1>4 DEF Marks
<1>6. noPlan \in Marks /\ \A u \in ThreadIds : u # r.t => noPlan[u] = plans[r.g][u]
  BY <1>2 DEF Marks, None
<1> HIDE DEF opened, noPlan
<1>7. kept \in Seq(ThreadIds) /\ \A u \in ToSet(recent[r.g]) : entries[r.g][u] # None => u \in ToSet(kept)
  BY <1>2, PutKeeps
<1> HIDE DEF kept
<1>8. after \in Seq(ThreadIds) /\ \A u \in ToSet(kept) : opened[u] # None => u \in ToSet(after)
  BY <1>2, <1>5, <1>7, PutKeeps
<1> HIDE DEF after
<1>9. left \in Marks /\ \A u \in ThreadIds : u \in ToSet(after) => left[u] = noPlan[u]
  BY <1>6, <1>8, PlansCut
<1> HIDE DEF left
<1>10. ASSUME NEW u \in ThreadIds, u # r.t, entries[r.g][u] \in Nat, rtClock - entries[r.g][u] < Retain
       PROVE  opened[u] = entries[r.g][u] /\ (u \in ToSet(recent[r.g]) => u \in ToSet(after) /\ left[u] = plans[r.g][u])
  <2>1. opened[u] = entries[r.g][u]
    BY <1>4, <1>5, <1>10
  <2>2. entries[r.g][u] # None
    BY <1>10 DEF None
  <2>3. ASSUME u \in ToSet(recent[r.g]) PROVE u \in ToSet(after) /\ left[u] = plans[r.g][u]
    <3>1. u \in ToSet(after)
      BY <1>7, <1>8, <2>1, <2>2, <2>3
    <3> QED BY <1>6, <1>9, <1>10, <3>1
  <2> QED BY <2>1, <2>3
<1>11. offered' \subseteq Offers /\ \A o \in offered' : o \in offered /\ ~ OwnThread(r, o)
  BY <1>1, Decided
<1>12. OneThread(r) /\ entries'[r.g] = opened
  <2>1. entries' = [entries EXCEPT ![r.g] = opened] /\ recent' = [recent EXCEPT ![r.g] = after] /\ plans' = [plans EXCEPT ![r.g] = left]
    BY <1>1
  <2>2. UNCHANGED <<rtClock, held, owner>>
    BY <1>1
  <2>3. \A u \in ThreadIds : u # r.t /\ entries[r.g][u] \in Nat /\ rtClock - entries[r.g][u] < Retain =>
           opened[u] = entries[r.g][u] /\ (u \in ToSet(recent[r.g]) => u \in ToSet(after) /\ left[u] = plans[r.g][u])
    BY <1>10
  <2>4. \A o \in offered' : (o \in offered \/ OwnThread(r, o)) /\ (OwnThread(r, o) => Kept(o)')
    BY <1>11
  <2>5. opened \in Marks /\ after \in Seq(ThreadIds) /\ left \in Marks /\ offered' \subseteq Offers
    BY <1>5, <1>8, <1>9, <1>11
  <2>6. Written(r, opened, after, left)
    BY <2>1, <2>2, <2>3, <2>4, <2>5 DEF Written
  <2> QED BY <2>6, ThreadWritten
<1>13. GoesOn(r, x)
  BY <1>1, <1>3, <1>5, <1>11, <1>12 DEF GoesOn
<1> QED BY <1>12, <1>13, RunStep

LEMMA FinishesStep ==
    ASSUME RtInv, NEW r \in rtRuns, RunFinishes(r) PROVE RtInv'
PROOF
<1> DEFINE closed == [entries[r.g] EXCEPT ![r.t] = None]
           after  == Put(recent[r.g], r.t, closed)
           noPlan == [plans[r.g] EXCEPT ![r.t] = None]
           left   == PlansKept(noPlan, after)
<1>1. /\ rtRuns' = rtRuns \ {r} /\ locks' = [locks EXCEPT ![r.g] = @ \ {r.t}]
      /\ entries' = [entries EXCEPT ![r.g] = closed]
      /\ recent' = [recent EXCEPT ![r.g] = after]
      /\ plans' = [plans EXCEPT ![r.g] = left]
      /\ offered' = Undecided(r.g, r.t)
      /\ UNCHANGED <<rtClock, held, owner>>
  <2>1. plans' = [plans EXCEPT ![r.g] = PlansKept([@ EXCEPT ![r.t] = None], after)]
    BY DEF RunFinishes
  <2> QED BY <2>1 DEF RunFinishes
<1>2. /\ r.g \in Built /\ r.t \in ThreadIds /\ entries[r.g] \in Marks /\ plans[r.g] \in Marks
      /\ recent[r.g] \in Seq(ThreadIds)
  BY OpenThread
<1>3. closed \in Marks /\ \A u \in ThreadIds : u # r.t => closed[u] = entries[r.g][u]
  BY <1>2 DEF Marks, None
<1>4. noPlan \in Marks /\ \A u \in ThreadIds : u # r.t => noPlan[u] = plans[r.g][u]
  BY <1>2 DEF Marks, None
<1> HIDE DEF closed, noPlan
<1>5. after \in Seq(ThreadIds) /\ \A u \in ToSet(recent[r.g]) : closed[u] # None => u \in ToSet(after)
  BY <1>2, <1>3, PutKeeps
<1> HIDE DEF after
<1>6. left \in Marks /\ \A u \in ThreadIds : u \in ToSet(after) => left[u] = noPlan[u]
  BY <1>4, <1>5, PlansCut
<1> HIDE DEF left
<1>7. ASSUME NEW u \in ThreadIds, u # r.t, entries[r.g][u] \in Nat, rtClock - entries[r.g][u] < Retain
      PROVE  closed[u] = entries[r.g][u] /\ (u \in ToSet(recent[r.g]) => u \in ToSet(after) /\ left[u] = plans[r.g][u])
  <2>1. entries[r.g][u] # None
    BY <1>7 DEF None
  <2> QED BY <1>3, <1>4, <1>5, <1>6, <1>7, <2>1
<1>8. offered' \subseteq Offers /\ \A o \in offered' : o \in offered /\ ~ OwnThread(r, o)
  BY <1>1, Decided
<1>9. OneThread(r)
  <2>1. entries' = [entries EXCEPT ![r.g] = closed] /\ recent' = [recent EXCEPT ![r.g] = after] /\ plans' = [plans EXCEPT ![r.g] = left]
    BY <1>1
  <2>2. UNCHANGED <<rtClock, held, owner>>
    BY <1>1
  <2>3. \A u \in ThreadIds : u # r.t /\ entries[r.g][u] \in Nat /\ rtClock - entries[r.g][u] < Retain =>
           closed[u] = entries[r.g][u] /\ (u \in ToSet(recent[r.g]) => u \in ToSet(after) /\ left[u] = plans[r.g][u])
    BY <1>7
  <2>4. \A o \in offered' : (o \in offered \/ OwnThread(r, o)) /\ (OwnThread(r, o) => Kept(o)')
    BY <1>8
  <2>5. closed \in Marks /\ after \in Seq(ThreadIds) /\ left \in Marks /\ offered' \subseteq Offers
    BY <1>3, <1>5, <1>6, <1>8
  <2>6. Written(r, closed, after, left)
    BY <2>1, <2>2, <2>3, <2>4, <2>5 DEF Written
  <2> QED BY <2>6, ThreadWritten
<1>10. Ended(r)
  BY <1>1 DEF Ended
<1> QED BY <1>9, <1>10, RunStep

LEMMA SuspendsStep ==
    ASSUME RtInv, NEW r \in rtRuns, RunSuspends(r) PROVE RtInv'
PROOF
<1> DEFINE marks == entries[r.g]
           after == Put(recent[r.g], r.t, marks)
           paused == [plans[r.g] EXCEPT ![r.t] = rtClock + PlanLife]
           left  == PlansKept(paused, after)
<1>0. PICK n : n = [p |-> owner[r.g], t |-> r.t, until |-> rtClock + PlanLife,
                    inTime |-> rtClock <= r.since + RunDeadline]
  OBVIOUS
<1>1. /\ r.st = "going" /\ r.kind = "message"
      /\ rtRuns' = rtRuns \ {r} /\ locks' = [locks EXCEPT ![r.g] = @ \ {r.t}]
      /\ recent' = [recent EXCEPT ![r.g] = after]
      /\ plans' = [plans EXCEPT ![r.g] = left]
      /\ offered' = offered \cup {n}
      /\ UNCHANGED <<rtClock, held, owner, entries>>
  <2>1. plans' = [plans EXCEPT ![r.g] = PlansKept([@ EXCEPT ![r.t] = rtClock + PlanLife], after)]
    BY DEF RunSuspends
  <2>2. recent' = [recent EXCEPT ![r.g] = Put(@, r.t, marks)]
    BY DEF RunSuspends
  <2> QED BY <1>0, <2>1, <2>2 DEF RunSuspends
<1>2. /\ r.g \in Built /\ r.g \in ToSet(held) /\ r.t \in ThreadIds /\ marks \in Marks /\ plans[r.g] \in Marks
      /\ recent[r.g] \in Seq(ThreadIds) /\ rtClock \in Nat /\ owner[r.g] \in People /\ offered \subseteq Offers
      /\ Accounted(r)
  BY OpenThread
<1>3. entries \in [Built -> Marks] /\ plans \in [Built -> Marks] /\ recent \in [Built -> Seq(ThreadIds)]
  BY DEF RtInv, RtTypes
<1>4. PlanLife \in Nat /\ RunDeadline \in Nat /\ Retain = RunDeadline + PlanLife
  BY RouteAssumption DEF Retain
<1>5. r.since \in Nat /\ r.since <= rtClock /\ (rtClock - r.since < Retain => marks[r.t] = r.since)
      /\ \A o \in offered : ~ OwnThread(r, o)
  BY <1>1, <1>2 DEF Accounted, OwnThread
<1>6. entries' = [entries EXCEPT ![r.g] = marks]
  BY <1>1, <1>2, <1>3
<1> HIDE DEF marks
<1>7. paused \in Marks /\ paused[r.t] = rtClock + PlanLife /\ \A u \in ThreadIds : u # r.t => paused[u] = plans[r.g][u]
  BY <1>2, <1>4 DEF Marks
<1> HIDE DEF paused
<1>8. after \in Seq(ThreadIds) /\ \A u \in ToSet(recent[r.g]) \cup {r.t} : marks[u] # None => u \in ToSet(after)
  BY <1>2, PutKeeps
<1> HIDE DEF after
<1>9. left \in Marks /\ \A u \in ThreadIds : u \in ToSet(after) => left[u] = paused[u]
  BY <1>7, <1>8, PlansCut
<1> HIDE DEF left
<1>10. n \in Offers /\ n.p = owner[r.g] /\ n.t = r.t /\ n.until = rtClock + PlanLife
       /\ (n.inTime => rtClock <= r.since + RunDeadline)
  <2>1. (rtClock <= r.since + RunDeadline) \in BOOLEAN /\ rtClock + PlanLife \in Nat
    BY <1>2, <1>4
  <2> QED BY <1>0, <1>2, <2>1 DEF Offers
<1>11. Kept(n)'
  <2>1. SUFFICES ASSUME n.inTime, n.until > rtClock PROVE KeptIn(n, r.g)'
    BY <1>1, <1>2 DEF Kept
  <2>2. rtClock <= r.since + RunDeadline /\ rtClock - r.since < Retain
    BY <1>2, <1>4, <1>5, <1>10, <2>1
  <2>3. marks[r.t] = r.since /\ marks[r.t] # None
    BY <1>5, <2>2 DEF None
  <2>4. r.t \in ToSet(after) /\ left[r.t] = rtClock + PlanLife
    BY <1>2, <1>7, <1>8, <1>9, <2>3
  <2>5. entries'[r.g] = marks /\ recent'[r.g] = after /\ plans'[r.g] = left /\ owner' = owner
    BY <1>1, <1>2, <1>3, <1>6
  <2>6. rtClock + PlanLife <= r.since + Retain
    BY <1>2, <1>4, <1>5, <2>2
  <2> QED BY <1>5, <1>10, <2>3, <2>4, <2>5, <2>6 DEF KeptIn
<1>12. Written(r, marks, after, left)
  <2>1. ASSUME NEW u \in ThreadIds, u # r.t, entries[r.g][u] \in Nat
        PROVE  marks[u] = entries[r.g][u] /\ (u \in ToSet(recent[r.g]) => u \in ToSet(after) /\ left[u] = plans[r.g][u])
    <3>1. marks[u] = entries[r.g][u] /\ marks[u] # None
      BY <2>1 DEF marks, None
    <3>2. u \in ToSet(recent[r.g]) => u \in ToSet(after)
      BY <1>8, <3>1
    <3> QED BY <1>7, <1>9, <2>1, <3>1, <3>2
  <2>2. offered' \subseteq Offers
    BY <1>1, <1>2, <1>10
  <2>3. \A o \in offered' : (o \in offered \/ OwnThread(r, o)) /\ (OwnThread(r, o) => Kept(o)')
    <3>1. OwnThread(r, n)
      BY <1>10 DEF OwnThread
    <3>2. \A o \in offered' : o \in offered \/ o = n
      BY <1>1
    <3> QED BY <1>5, <1>11, <3>1, <3>2
  <2>4. UNCHANGED <<rtClock, held, owner>>
    BY <1>1
  <2> QED BY <1>1, <1>2, <1>6, <1>8, <1>9, <2>1, <2>2, <2>3, <2>4 DEF Written
<1>13. OneThread(r)
  BY <1>12, ThreadWritten
<1>14. Ended(r)
  BY <1>1 DEF Ended
<1> QED BY <1>13, <1>14, RunStep

LEMMA FailsStep ==
    ASSUME RtInv, NEW r \in rtRuns, RunFails(r) PROVE RtInv'
PROOF
<1> DEFINE closed == [entries[r.g] EXCEPT ![r.t] = None]
           noPlan == [plans[r.g] EXCEPT ![r.t] = None]
           same   == recent[r.g]
<1>1. /\ rtRuns' = rtRuns \ {r} /\ locks' = [locks EXCEPT ![r.g] = @ \ {r.t}]
      /\ entries' = [entries EXCEPT ![r.g] = closed]
      /\ plans' = [plans EXCEPT ![r.g] = noPlan]
      /\ offered' = Undecided(r.g, r.t)
      /\ UNCHANGED <<rtClock, held, owner, recent>>
  BY DEF RunFails
<1>2. /\ r.g \in Built /\ r.t \in ThreadIds /\ entries[r.g] \in Marks /\ plans[r.g] \in Marks
      /\ same \in Seq(ThreadIds)
  BY OpenThread
<1>3. closed \in Marks /\ \A u \in ThreadIds : u # r.t => closed[u] = entries[r.g][u]
  BY <1>2 DEF Marks, None
<1>4. noPlan \in Marks /\ \A u \in ThreadIds : u # r.t => noPlan[u] = plans[r.g][u]
  BY <1>2 DEF Marks, None
<1> HIDE DEF closed, noPlan
<1>5. recent' = [recent EXCEPT ![r.g] = same]
  <2>1. recent \in [Built -> Seq(ThreadIds)]
    BY DEF RtInv, RtTypes
  <2> QED BY <1>1, <1>2, <2>1
<1>6. offered' \subseteq Offers /\ \A o \in offered' : o \in offered /\ ~ OwnThread(r, o)
  BY <1>1, Decided
<1>7. Written(r, closed, same, noPlan)
  <2>1. UNCHANGED <<rtClock, held, owner>>
    BY <1>1
  <2> QED BY <1>1, <1>2, <1>3, <1>4, <1>5, <1>6, <2>1 DEF Written
<1>8. OneThread(r)
  BY <1>7, ThreadWritten
<1>9. Ended(r)
  BY <1>1 DEF Ended
<1> QED BY <1>8, <1>9, RunStep

LEMMA DecisionStep ==
    ASSUME RtInv, NEW r \in rtRuns, CheckDecision(r) PROVE RtInv'
PROOF
<1> DEFINE marks == entries[r.g]
           s == IF r.t \in ToSet(recent[r.g]) THEN MovedToBack(recent[r.g], r.t) ELSE recent[r.g]
           noPlan == [plans[r.g] EXCEPT ![r.t] = None]
           same == plans[r.g]
           x(st) == [r EXCEPT !.st = st]
<1>1. /\ r.g \in Built /\ r.g \in ToSet(held) /\ r.t \in ThreadIds /\ marks \in Marks /\ same \in Marks
      /\ recent[r.g] \in Seq(ThreadIds) /\ r \in Requests /\ Accounted(r)
  BY OpenThread
<1>2. entries \in [Built -> Marks] /\ plans \in [Built -> Marks] /\ recent \in [Built -> Seq(ThreadIds)]
  BY DEF RtInv, RtTypes
<1>3. UNCHANGED <<rtClock, held, owner, entries>>
  BY DEF CheckDecision
<1>4. s \in Seq(ThreadIds) /\ ToSet(s) = ToSet(recent[r.g])
  <2>1. MovedToBack(recent[r.g], r.t) \in Seq(ThreadIds) /\ ToSet(MovedToBack(recent[r.g], r.t)) = ToSet(recent[r.g]) \cup {r.t}
    BY <1>1, MovedToBackSet
  <2> QED BY <1>1, <2>1
<1>5. recent' = [recent EXCEPT ![r.g] = s]
  <2>1. recent' = IF r.t \in ToSet(recent[r.g]) THEN [recent EXCEPT ![r.g] = MovedToBack(@, r.t)] ELSE recent
    BY DEF CheckDecision
  <2> QED BY <1>1, <1>2, <2>1
<1>6. entries' = [entries EXCEPT ![r.g] = marks]
  BY <1>1, <1>2, <1>3
<1>7. recent'[r.g] = s /\ \A h \in Built : h # r.g => recent'[h] = recent[h]
  BY <1>1, <1>2, <1>5
<1> HIDE DEF s, marks
<1>8. r.st \in {"gate", "recheck"} /\ r.kind = "decision"
  BY <1>1 DEF CheckDecision, Accounted
<1>9. ASSUME UNCHANGED <<plans, offered>> PROVE OneThread(r)
  <2>1. plans' = [plans EXCEPT ![r.g] = same]
    BY <1>1, <1>2, <1>9
  <2>2. offered' \subseteq Offers /\ offered' = offered
    BY <1>9, OpenThread
  <2>3. ASSUME NEW o \in offered PROVE Kept(o)'
    <3>1. Kept(o)
      BY DEF RtInv
    <3>2. \A h \in ToSet(held) : KeptIn(o, h) => KeptIn(o, h)'
      <4>1. ASSUME NEW h \in ToSet(held) PROVE ToSet(recent'[h]) = ToSet(recent[h])
        <5>1. h \in Built
          BY DEF RtInv, HeldInv
        <5> QED BY <1>4, <1>7, <5>1
      <4> QED BY <1>3, <1>9, <4>1 DEF KeptIn
    <3> QED BY <1>3, <3>1, <3>2 DEF Kept
  <2>4. \A u \in ThreadIds : marks[u] = entries[r.g][u] /\ (u \in ToSet(recent[r.g]) => u \in ToSet(s) /\ same[u] = plans[r.g][u])
    BY <1>4 DEF marks
  <2>5. Written(r, marks, s, same)
    <3>1. UNCHANGED <<rtClock, held, owner>>
      BY <1>3
    <3> QED BY <1>1, <1>4, <1>5, <1>6, <2>1, <2>2, <2>3, <2>4, <3>1 DEF Written
  <2> QED BY <2>5, ThreadWritten
<1>10. ASSUME NEW st \in {"recheck", "going"}
       PROVE  /\ x(st) \in Requests /\ x(st).g = r.g /\ x(st).t = r.t
              /\ x(st).st = st /\ x(st).kind = "decision"
  BY <1>1, <1>8 DEF Requests
<1> HIDE DEF x
<1>11. CASE /\ rtRuns' = rtRuns \ {r}
            /\ locks' = [locks EXCEPT ![r.g] = @ \ {r.t}]
            /\ UNCHANGED <<plans, offered>>
  <2>1. OneThread(r)
    BY <1>9, <1>11
  <2>2. Ended(r)
    BY <1>11 DEF Ended
  <2> QED BY <2>1, <2>2, RunStep
<1>12. CASE rtRuns' = Became(r, "recheck") /\ UNCHANGED <<locks, plans, offered>>
  <2>1. OneThread(r)
    BY <1>9, <1>12
  <2>2. GoesOn(r, x("recheck"))
    BY <1>10, <1>12 DEF GoesOn, Became, x
  <2> QED BY <2>1, <2>2, RunStep
<1>13. CASE /\ rtRuns' = Became(r, "going")
            /\ plans' = [plans EXCEPT ![r.g][r.t] = None]
            /\ offered' = Undecided(r.g, r.t)
            /\ UNCHANGED locks
  <2>1. plans' = [plans EXCEPT ![r.g] = noPlan]
    BY <1>13
  <2>2. noPlan \in Marks /\ \A u \in ThreadIds : u # r.t => noPlan[u] = plans[r.g][u]
    BY <1>1 DEF Marks, None
  <2> HIDE DEF noPlan
  <2>3. offered' \subseteq Offers /\ \A o \in offered' : o \in offered /\ ~ OwnThread(r, o)
    BY <1>13, Decided
  <2>4. \A u \in ThreadIds : u # r.t =>
           marks[u] = entries[r.g][u] /\ (u \in ToSet(recent[r.g]) => u \in ToSet(s) /\ noPlan[u] = plans[r.g][u])
    BY <1>4, <2>2 DEF marks
  <2>5. Written(r, marks, s, noPlan)
    <3>1. UNCHANGED <<rtClock, held, owner>>
      BY <1>3
    <3> QED BY <1>1, <1>4, <1>5, <1>6, <2>1, <2>2, <2>3, <2>4, <3>1 DEF Written
  <2>6. OneThread(r)
    BY <2>5, ThreadWritten
  <2>7. GoesOn(r, x("going"))
    BY <1>10, <1>13, <2>3 DEF GoesOn, Became, x
  <2> QED BY <2>6, <2>7, RunStep
<1> QED BY <1>11, <1>12, <1>13 DEF CheckDecision

-----------------------------------------------------------------------------
LEMMA RtStart == RtInit => RtInv
<1> SUFFICES ASSUME RtInit PROVE RtInv
  OBVIOUS
<1> DEFINE empty == <<>>
<1>1. /\ rtClock = 0 /\ held = empty /\ rtRuns = {} /\ offered = {}
      /\ owner = empty /\ locks = empty /\ entries = empty /\ recent = empty /\ plans = empty
  BY DEF RtInit
<1>2. DOMAIN empty = {} /\ (\A S : empty \in Seq(S) /\ empty \in [{} -> S])
  OBVIOUS
<1> HIDE DEF empty
<1>3. Built = {} /\ ToSet(held) = {}
  BY <1>1, <1>2 DEF Built, ToSet
<1>4. RtTypes
  BY <1>1, <1>2, <1>3 DEF RtTypes
<1>5. HeldInv /\ LocksInv
  BY <1>3 DEF HeldInv, LocksInv
<1> QED BY <1>1, <1>4, <1>5 DEF RtInv

LEMMA RtStutter == RtInv /\ UNCHANGED rtvars => RtInv'
BY DEF RtInv, RtTypes, HeldInv, LocksInv, Accounted, Kept, KeptIn, Built, rtvars

LEMMA RtStep == RtInv /\ [RtNext]_rtvars => RtInv'
<1> SUFFICES ASSUME RtInv, [RtNext]_rtvars PROVE RtInv'
  OBVIOUS
<1>1. ASSUME NEW p \in People, NEW t \in ThreadIds, NEW k \in {"message", "decision"}, Post(p, t, k) PROVE RtInv'
  BY <1>1, PostStep
<1>2. ASSUME NEW p \in People, GraphsBusy(p) \/ PressStop(p) PROVE RtInv'
  BY <1>2, BusyStep, PressStopStep
<1>3. ASSUME NEW p \in People, NEW t \in ThreadIds, Look(p, t) PROVE RtInv'
  BY <1>3, LookStep
<1>4. ASSUME NEW r \in rtRuns, RunBegins(r) \/ RunSuspends(r) \/ RunFinishes(r) \/ RunFails(r) \/ CheckDecision(r)
      PROVE  RtInv'
  BY <1>4, BeginsStep, SuspendsStep, FinishesStep, FailsStep, DecisionStep
<1>5. CASE RtTick
  BY <1>5, RtTickStep
<1>6. CASE UNCHANGED rtvars
  BY <1>6, RtStutter
<1> QED BY <1>1, <1>2, <1>3, <1>4, <1>5, <1>6 DEF RtNext

(* Whatever graphs and threads come and go: one run on a person's thread   *)
(* at a time, a plan checked in time and still in date can be decided, and *)
(* the locks are the requests under way (route.ts, graph-cache.ts,         *)
(* checkpoints.ts, registry.ts).                                           *)
THEOREM RouteSound == RtSpec => []RouteIsSound
<1>1. RtInv => RouteIsSound
  <2> SUFFICES ASSUME RtInv PROVE RouteIsSound
    OBVIOUS
  <2>1. RtTypes /\ HeldInv /\ LocksInv /\ (\A r \in rtRuns : Accounted(r)) /\ (\A o \in offered : Kept(o))
    BY DEF RtInv
  <2>2. OneRunPerThread
    <3>1. ASSUME NEW r \in rtRuns, NEW q \in rtRuns, owner[r.g] = owner[q.g], r.t = q.t PROVE r = q
      <4>1. r.g = q.g
        BY <2>1, <3>1 DEF HeldInv, Accounted
      <4> QED BY <2>1, <3>1, <4>1 DEF Accounted
    <3> QED BY <3>1 DEF OneRunPerThread
  <2>3. PlanSurvives
    BY <2>1 DEF PlanSurvives, Kept, KeptIn, HeldBy
  <2>4. LocksAreRuns
    <3>1. ASSUME NEW g \in Built PROVE locks[g] = {r.t : r \in {q \in rtRuns : q.g = g}}
      <4>1. \A u \in locks[g] : \E r \in rtRuns : r.g = g /\ r.t = u
        BY <2>1 DEF LocksInv
      <4>2. \A r \in rtRuns : r.g = g => r.t \in locks[g]
        BY <2>1 DEF Accounted
      <4> QED BY <4>1, <4>2
    <3> QED BY <3>1 DEF LocksAreRuns
  <2> QED BY <2>2, <2>3, <2>4 DEF RouteIsSound
<1> QED BY <1>1, RtStart, RtStep, PTL DEF RtSpec

-----------------------------------------------------------------------------
Rank == {"upsert", "resolved"}
Events == [alert : LiveAlerts, kind : Rank, at : 0..2]
Distinct(es) == \A i, j \in DOMAIN es : es[i].alert = es[j].alert => i = j

(* appendAlertEvent, on a list with one event per alert: the new event and *)
(* earlier ones about other alerts, within the ceiling.                    *)
LEMMA AppendEvent ==
    ASSUME NEW es \in Seq(Events), Distinct(es), NEW e \in Events, MaxAlertEvents \in Nat
    PROVE  /\ AppendAlertEvent(es, e) \in Seq(Events)
           /\ Len(AppendAlertEvent(es, e)) <= MaxAlertEvents
           /\ Distinct(AppendAlertEvent(es, e))
           /\ \A k \in DOMAIN AppendAlertEvent(es, e) :
                 \/ AppendAlertEvent(es, e)[k] = e
                 \/ \E i \in DOMAIN es : AppendAlertEvent(es, e)[k] = es[i] /\ es[i].alert # e.alert
PROOF
<1> DEFINE rest == RemoveFirstMatch(es, LAMBDA x : x.alert = e.alert)
           Apart(r) == /\ r \in Seq(Events) /\ Distinct(r)
                       /\ \A k \in DOMAIN r : \E i \in DOMAIN es : r[k] = es[i] /\ es[i].alert # e.alert
           Latest(r) == /\ r \in Seq(Events) /\ Distinct(r)
                        /\ \A k \in DOMAIN r : r[k] = e \/ \E i \in DOMAIN es : r[k] = es[i] /\ es[i].alert # e.alert
<1>1. Len(es) \in Nat /\ DOMAIN es = 1..Len(es)
  OBVIOUS
<1>2. Apart(rest)
  <2>1. CASE ~ \E i \in 1..Len(es) : es[i].alert = e.alert
    <3>1. rest = es
      BY <2>1 DEF RemoveFirstMatch
    <3> QED BY <1>1, <2>1, <3>1
  <2>2. CASE \E i \in 1..Len(es) : es[i].alert = e.alert
    <3> DEFINE I == {i \in 1..Len(es) : es[i].alert = e.alert}
               m == SelectInSeq(es, LAMBDA x : x.alert = e.alert)
               c == RemoveAt(es, m)
    <3>1. I # {} /\ I \subseteq 1..Len(es)
      BY <2>2
    <3>2. m = CHOOSE i \in I : \A j \in I : i <= j
      BY <3>1 DEF SelectInSeq, Min
    <3>3. m \in I
      <4> HIDE DEF I, m
      <4> QED BY <1>1, <3>1, <3>2, FirstOf
    <3>4. rest = c
      BY <2>2 DEF RemoveFirstMatch
    <3>5. m \in 1..Len(es) /\ es[m].alert = e.alert
      BY <3>3
    <3> HIDE DEF m, I
    <3>6. /\ c \in Seq(Events) /\ Len(c) = Len(es) - 1
          /\ \A j \in 1..(Len(es) - 1) : c[j] = IF j < m THEN es[j] ELSE es[j + 1]
      BY <3>5, RemoveAtKeeps
    <3> HIDE DEF c
    <3>7. DOMAIN c = 1..(Len(es) - 1)
      BY <3>6
    <3> DEFINE old(j) == IF j < m THEN j ELSE j + 1
    <3>8. ASSUME NEW j \in DOMAIN c
          PROVE  old(j) \in DOMAIN es /\ old(j) # m /\ c[j] = es[old(j)]
      <4>1. j \in 1..(Len(es) - 1) /\ j \in Int /\ m \in Int
        BY <3>5, <3>7
      <4>2. old(j) \in DOMAIN es /\ old(j) # m
        BY <1>1, <3>5, <4>1
      <4>3. c[j] = IF j < m THEN es[j] ELSE es[j + 1]
        BY <3>6, <4>1
      <4> QED BY <4>2, <4>3
    <3>9. ASSUME NEW j \in DOMAIN c, NEW k \in DOMAIN c, old(j) = old(k) PROVE j = k
      <4>1. j \in Int /\ k \in Int /\ m \in Int
        BY <3>5, <3>7
      <4> QED BY <3>9, <4>1
    <3> HIDE DEF old
    <3>10. Distinct(c)
      <4>1. ASSUME NEW j \in DOMAIN c, NEW k \in DOMAIN c, c[j].alert = c[k].alert PROVE j = k
        <5>1. es[old(j)].alert = es[old(k)].alert /\ old(j) \in DOMAIN es /\ old(k) \in DOMAIN es
          BY <3>8, <4>1
        <5>2. old(j) = old(k)
          BY <5>1 DEF Distinct
        <5> QED BY <3>9, <5>2
      <4> QED BY <4>1 DEF Distinct
    <3>11. ASSUME NEW j \in DOMAIN c PROVE \E i \in DOMAIN es : c[j] = es[i] /\ es[i].alert # e.alert
      <4>1. old(j) \in DOMAIN es /\ old(j) # m /\ c[j] = es[old(j)]
        BY <3>8
      <4>2. es[old(j)].alert # e.alert
        BY <1>1, <3>5, <4>1 DEF Distinct
      <4> QED BY <4>1, <4>2
    <3> QED BY <3>4, <3>6, <3>10, <3>11
  <2> QED BY <2>1, <2>2
<1> HIDE DEF rest
<1> DEFINE next == Append(rest, e)
<1>3. Latest(next)
  <2>1. /\ next \in Seq(Events) /\ Len(next) = Len(rest) + 1
        /\ \A i \in 1..Len(rest) : next[i] = rest[i]
        /\ next[Len(rest) + 1] = e
    BY <1>2, AppendProperties
  <2> HIDE DEF next
  <2>2. DOMAIN next = 1..(Len(rest) + 1) /\ DOMAIN rest = 1..Len(rest) /\ Len(rest) \in Nat
    BY <1>2, <2>1
  <2>3. ASSUME NEW k \in DOMAIN next
        PROVE  (k \in DOMAIN rest /\ next[k] = rest[k]) \/ (k = Len(rest) + 1 /\ next[k] = e)
    BY <2>1, <2>2
  <2>4. \A k \in DOMAIN rest : rest[k].alert # e.alert
    BY <1>2
  <2>5. Distinct(next)
    <3>1. ASSUME NEW j \in DOMAIN next, NEW k \in DOMAIN next, next[j].alert = next[k].alert PROVE j = k
      <4>1. CASE j \in DOMAIN rest /\ next[j] = rest[j] /\ k \in DOMAIN rest /\ next[k] = rest[k]
        BY <1>2, <3>1, <4>1 DEF Distinct
      <4>2. CASE ~ (j \in DOMAIN rest /\ next[j] = rest[j] /\ k \in DOMAIN rest /\ next[k] = rest[k])
        BY <2>3, <2>4, <3>1, <4>2
      <4> QED BY <4>1, <4>2
    <3> QED BY <3>1 DEF Distinct
  <2>6. ASSUME NEW k \in DOMAIN next
        PROVE  next[k] = e \/ \E i \in DOMAIN es : next[k] = es[i] /\ es[i].alert # e.alert
    BY <1>2, <2>3
  <2> QED BY <2>1, <2>5, <2>6
<1> HIDE DEF next
<1>4. CASE ~ (Len(next) > MaxAlertEvents)
  <2>1. AppendAlertEvent(es, e) = next
    BY <1>4 DEF AppendAlertEvent, next, rest
  <2>2. Len(next) <= MaxAlertEvents
    BY <1>3, <1>4
  <2> QED BY <1>3, <2>1, <2>2
<1>5. CASE Len(next) > MaxAlertEvents
  <2> DEFINE n == Len(next)
             d == n - MaxAlertEvents
             b == SubSeq(next, d + 1, n)
  <2>1. AppendAlertEvent(es, e) = b
    BY <1>5 DEF AppendAlertEvent, next, rest
  <2>2. n \in Nat /\ DOMAIN next = 1..n /\ n > MaxAlertEvents /\ d \in Nat /\ \A i \in 1..n : next[i] \in Events
    BY <1>3, <1>5
  <2> HIDE DEF n
  <2>3. d + 1 \in Int /\ n \in Int /\ \A i \in (d + 1)..n : next[i] \in Events
    BY <2>2
  <2>4. /\ b \in Seq(Events) /\ Len(b) = IF d + 1 <= n THEN n - (d + 1) + 1 ELSE 0
        /\ \A i \in 1..(n - (d + 1) + 1) : b[i] = next[d + 1 + i - 1]
    BY <2>3, SubSeqProperties
  <2>5. n - (d + 1) + 1 = MaxAlertEvents /\ (~ (d + 1 <= n) => MaxAlertEvents = 0)
    BY <2>2
  <2> HIDE DEF b
  <2>6. Len(b) = MaxAlertEvents /\ DOMAIN b = 1..MaxAlertEvents
    BY <2>4, <2>5
  <2>7. ASSUME NEW i \in DOMAIN b PROVE d + i \in DOMAIN next /\ b[i] = next[d + i]
    <3>1. d + 1 + i - 1 = d + i /\ d + i \in 1..n /\ i \in 1..MaxAlertEvents
      BY <2>2, <2>6
    <3> QED BY <2>2, <2>4, <2>5, <3>1
  <2>8. Distinct(b)
    <3>1. ASSUME NEW j \in DOMAIN b, NEW k \in DOMAIN b, b[j].alert = b[k].alert PROVE j = k
      <4>1. d + j = d + k
        BY <1>3, <2>7, <3>1 DEF Distinct
      <4> QED BY <2>2, <2>6, <4>1
    <3> QED BY <3>1 DEF Distinct
  <2>9. ASSUME NEW k \in DOMAIN b
        PROVE  b[k] = e \/ \E i \in DOMAIN es : b[k] = es[i] /\ es[i].alert # e.alert
    BY <1>3, <2>7
  <2>10. Len(b) <= MaxAlertEvents
    BY <2>6
  <2> QED BY <2>1, <2>4, <2>8, <2>9, <2>10
<1> QED BY <1>4, <1>5

-----------------------------------------------------------------------------
UpFrames == {"auth", "subscribe", "close"}
Ends == {"none", "open", "closing"}

(* A frame under way says what is true of its alert, or carries none.      *)
TrueMessages == {m \in Messages : m[2] \in raised /\ (m[1] = "resolved" => m[2] \notin open)}
TrueFrames == TrueMessages \cup {Frame("authenticated"), Frame("subscribed"), Frame("close")}
Conns(F) == [srv : Ends, auth : BOOLEAN, subs : BOOLEAN, cli : Ends, up : Seq(UpFrames), down : Seq(F)]

HubInv ==
    /\ open \subseteq raised /\ raised \subseteq LiveAlerts
    /\ outgoing \subseteq TrueMessages
    /\ conn \in [Socks -> Conns(TrueFrames)]

HookInv ==
    /\ cur \in Socks \cup {0} /\ phase \in {"ticket", "socket", "retry"}
    /\ since \in BOOLEAN /\ liveFaults \in 0..MaxLiveFaults

(* Rows read after an event was received agree with it.                    *)
Told(e, rows, truncated) ==
    IF e.kind = "resolved" THEN e.alert \notin rows
    ELSE e.alert \in open /\ ~truncated => e.alert \in rows
EventInv(e) ==
    /\ e.alert \in raised /\ (e.kind = "resolved" => e.alert \notin open)
    /\ e.at = 0 => Told(e, snap.rows, snap.truncated)
    /\ fetch.st = "read" /\ e.at < 2 => Told(e, fetch.rows, fetch.truncated)
PageInv ==
    /\ snap \in [rows : SUBSET LiveAlerts, truncated : BOOLEAN]
    /\ fetch \in [st : {"none", "sent", "read"}, rows : SUBSET LiveAlerts, truncated : BOOLEAN]
    /\ events \in Seq(Events) /\ Len(events) <= MaxAlertEvents /\ Distinct(events)
    /\ \A i \in DOMAIN events : EventInv(events[i])

LvInv == HubInv /\ HookInv /\ PageInv

(* Alerts are raised and resolve, once each.                               *)
WorldMoves ==
    /\ raised \subseteq raised' /\ open' \subseteq raised' /\ raised' \subseteq LiveAlerts
    /\ \A a \in raised : a \in open' => a \in open

LEMMA FramesStayTrue ==
    ASSUME HubInv, WorldMoves
    PROVE  /\ TrueMessages \subseteq TrueMessages' /\ TrueFrames \subseteq TrueFrames'
           /\ Conns(TrueFrames) \subseteq Conns(TrueFrames')
PROOF
<1>1. TrueMessages \subseteq TrueMessages'
  BY DEF TrueMessages, WorldMoves
<1>2. TrueFrames \subseteq TrueFrames'
  BY <1>1 DEF TrueFrames, Frame
<1>3. Seq(TrueFrames) \subseteq Seq(TrueFrames')
  BY <1>2
<1> QED BY <1>1, <1>2, <1>3 DEF Conns

LEMMA PageStays ==
    ASSUME HubInv, PageInv, WorldMoves, UNCHANGED pageAlerts
    PROVE  PageInv'
PROOF
<1>1. ASSUME NEW i \in DOMAIN events PROVE EventInv(events[i])'
  <2> DEFINE e == events[i]
  <2>1. EventInv(e)
    BY DEF PageInv
  <2> QED BY <2>1 DEF EventInv, Told, WorldMoves, pageAlerts
<1>2. UNCHANGED <<snap, fetch, events>>
  BY DEF pageAlerts
<1> QED BY <1>1, <1>2 DEF PageInv, Distinct

(* The hub and the world move, and the page hears nothing.                 *)
LEMMA HubStep ==
    ASSUME LvInv, WorldMoves, UNCHANGED pageAlerts,
           outgoing' \subseteq TrueMessages', conn' \in [Socks -> Conns(TrueFrames')], HookInv'
    PROVE  LvInv'
PROOF
<1>1. PageInv'
  BY PageStays DEF LvInv
<1>2. HubInv'
  BY DEF HubInv, WorldMoves
<1> QED BY <1>1, <1>2 DEF LvInv

LEMMA NothingMoves ==
    ASSUME HubInv, UNCHANGED <<open, raised>>
    PROVE  WorldMoves /\ TrueMessages' = TrueMessages /\ TrueFrames' = TrueFrames
BY DEF HubInv, WorldMoves, TrueMessages, TrueFrames, Frame

(* A step of one end of a connection.                                      *)
LEMMA ConnStep ==
    ASSUME LvInv, UNCHANGED serverSide, UNCHANGED pageAlerts,
           conn' \in [Socks -> Conns(TrueFrames)], HookInv'
    PROVE  LvInv'
PROOF
<1>1. UNCHANGED <<open, raised, outgoing>>
  BY DEF serverSide
<1>2. HubInv /\ outgoing \subseteq TrueMessages
  BY DEF LvInv, HubInv
<1>3. WorldMoves /\ TrueMessages' = TrueMessages /\ TrueFrames' = TrueFrames
  BY <1>1, <1>2, NothingMoves
<1> QED BY <1>1, <1>2, <1>3, HubStep
-----------------------------------------------------------------------------
(* The snapshot is asked for anew, and every event so far precedes that.   *)
LEMMA RefetchKeeps ==
    ASSUME LvInv, UNCHANGED <<open, raised>>, Refetch
    PROVE  PageInv'
PROOF
<1> DEFINE e(i) == events[i]
           f(i) == IF e(i).at = 2 THEN [e(i) EXCEPT !.at = 1] ELSE e(i)
<1>1. events \in Seq(Events) /\ Len(events) <= MaxAlertEvents /\ Distinct(events) /\ DOMAIN events = 1..Len(events)
      /\ Len(events) \in Nat /\ \A i \in DOMAIN events : EventInv(events[i])
  BY DEF LvInv, PageInv
<1>2. events' = [i \in DOMAIN events |-> f(i)] /\ snap' = snap
      /\ fetch' = [st |-> "sent", rows |-> {}, truncated |-> FALSE]
  BY DEF Refetch
<1>3. ASSUME NEW i \in DOMAIN events
      PROVE  /\ f(i) \in Events /\ f(i).alert = e(i).alert /\ f(i).kind = e(i).kind
             /\ f(i).at = 0 => e(i).at = 0
  <2>1. e(i) \in Events
    BY <1>1
  <2> HIDE DEF e
  <2> QED BY <2>1 DEF Events
<1>4. ASSUME NEW i \in DOMAIN events, NEW w, w = events'[i] PROVE EventInv(w)'
  <2>1. w = f(i) /\ EventInv(e(i))
    BY <1>1, <1>2, <1>4
  <2>2. /\ f(i).alert = e(i).alert /\ f(i).kind = e(i).kind
        /\ f(i).at = 0 => e(i).at = 0
    BY <1>3
  <2>3. fetch'.st # "read"
    BY <1>2
  <2> HIDE DEF f, e
  <2>4. w.alert = e(i).alert /\ w.kind = e(i).kind /\ (w.at = 0 => e(i).at = 0)
    BY <2>1, <2>2
  <2>5. w.at = 0 => Told(w, snap.rows, snap.truncated)'
    BY <1>2, <2>1, <2>4 DEF EventInv, Told
  <2> QED BY <1>2, <2>1, <2>3, <2>4, <2>5 DEF EventInv
<1> HIDE DEF f
<1>5. events' \in Seq(Events) /\ DOMAIN events' = DOMAIN events /\ Len(events') = Len(events)
  <2>1. events' \in [1..Len(events) -> Events]
    BY <1>1, <1>2, <1>3
  <2> QED BY <1>1, <2>1
<1>6. Distinct(events')
  BY <1>1, <1>2, <1>3, <1>5 DEF Distinct
<1>7. snap' \in [rows : SUBSET LiveAlerts, truncated : BOOLEAN]
      /\ fetch' \in [st : {"none", "sent", "read"}, rows : SUBSET LiveAlerts, truncated : BOOLEAN]
  BY <1>2 DEF LvInv, PageInv
<1>8. \A i \in DOMAIN events' : EventInv(events[i])'
  BY <1>4, <1>5
<1> QED BY <1>1, <1>5, <1>6, <1>7, <1>8 DEF PageInv

(* An event heard is the newest, and true.                                 *)
LEMMA EventHeard ==
    ASSUME LvInv, UNCHANGED <<open, raised, snap, fetch>>, NEW m \in TrueMessages,
           events' = AppendAlertEvent(events, [alert |-> m[2], at |-> 2,
                         kind |-> IF m[1] = "resolved" THEN "resolved" ELSE "upsert"])
    PROVE  PageInv'
PROOF
<1>1. PICK e : e = [alert |-> m[2], at |-> 2, kind |-> IF m[1] = "resolved" THEN "resolved" ELSE "upsert"]
  OBVIOUS
<1>2. m[2] \in LiveAlerts /\ m[2] \in raised /\ (m[1] = "resolved" => m[2] \notin open)
  BY DEF TrueMessages, Messages
<1>3. e \in Events /\ e.alert = m[2] /\ e.at = 2 /\ (e.kind = "resolved" => m[1] = "resolved")
  BY <1>1, <1>2 DEF Events, Rank
<1>4. PageInv /\ MaxAlertEvents \in Nat
  BY LiveAssumption DEF LvInv
<1>5. events \in Seq(Events) /\ Distinct(events) /\ \A i \in DOMAIN events : EventInv(events[i])
  BY <1>4 DEF PageInv
<1>6. /\ events' \in Seq(Events) /\ Len(events') <= MaxAlertEvents /\ Distinct(events')
      /\ \A k \in DOMAIN events' : events'[k] = e \/ \E i \in DOMAIN events : events'[k] = events[i]
  <2> DEFINE r == AppendAlertEvent(events, e)
  <2>1. /\ r \in Seq(Events) /\ Len(r) <= MaxAlertEvents /\ Distinct(r)
        /\ \A k \in DOMAIN r : r[k] = e \/ \E i \in DOMAIN events : r[k] = events[i] /\ events[i].alert # e.alert
    BY <1>3, <1>4, <1>5, AppendEvent
  <2>2. events' = r
    BY <1>1
  <2> HIDE DEF r
  <2> QED BY <2>1, <2>2
<1>7. ASSUME NEW k \in DOMAIN events', NEW w, w = events'[k] PROVE EventInv(w)'
  <2>1. CASE w = e
    BY <1>2, <1>3, <2>1 DEF EventInv
  <2>2. CASE \E i \in DOMAIN events : w = events[i]
    BY <1>5, <2>2 DEF EventInv, Told
  <2> QED BY <1>6, <1>7, <2>1, <2>2
<1>8. \A k \in DOMAIN events' : EventInv(events[k])'
  BY <1>7
<1> QED BY <1>4, <1>6, <1>8 DEF PageInv

LEMMA RowsRead ==
    ASSUME LvInv, SnapshotRead PROVE PageInv'
PROOF
<1>1. PageInv /\ HubInv
  BY DEF LvInv
<1>2. PICK rows \in SUBSET open : fetch' = [st |-> "read", rows |-> rows, truncated |-> rows # open]
  BY DEF SnapshotRead
<1>3. UNCHANGED <<open, raised, snap, events>>
  BY DEF SnapshotRead, serverSide
<1>4. fetch' \in [st : {"none", "sent", "read"}, rows : SUBSET LiveAlerts, truncated : BOOLEAN]
      /\ fetch'.rows = rows /\ (~ fetch'.truncated => rows = open)
  <2>1. rows \subseteq LiveAlerts
    BY <1>1, <1>2 DEF HubInv
  <2>2. (rows # open) \in BOOLEAN
    OBVIOUS
  <2> QED BY <1>2, <2>1, <2>2
<1>5. ASSUME NEW i \in DOMAIN events PROVE EventInv(events[i])'
  <2>1. PICK e : e = events[i] /\ EventInv(e)
    BY <1>1 DEF PageInv
  <2>2. EventInv(e)'
    BY <1>2, <1>3, <1>4, <2>1 DEF EventInv, Told
  <2> QED BY <1>3, <2>1, <2>2
<1> QED BY <1>1, <1>3, <1>4, <1>5 DEF PageInv, Distinct

LEMMA RowsLand ==
    ASSUME LvInv, SnapshotLands PROVE PageInv'
PROOF
<1> DEFINE e(i) == events[i]
           f(i) == IF e(i).at = 1 THEN [e(i) EXCEPT !.at = 0] ELSE e(i)
<1>1. events \in Seq(Events) /\ Len(events) <= MaxAlertEvents /\ Distinct(events) /\ DOMAIN events = 1..Len(events)
      /\ Len(events) \in Nat /\ \A i \in DOMAIN events : EventInv(events[i])
  BY DEF LvInv, PageInv
<1>2. /\ events' = [i \in DOMAIN events |-> f(i)] /\ fetch.st = "read"
      /\ snap' = [rows |-> fetch.rows, truncated |-> fetch.truncated]
      /\ fetch' = [fetch EXCEPT !.st = "none"] /\ open' = open /\ raised' = raised
  BY DEF SnapshotLands, serverSide
<1>3. ASSUME NEW i \in DOMAIN events
      PROVE  /\ f(i) \in Events /\ f(i).alert = e(i).alert /\ f(i).kind = e(i).kind
             /\ f(i).at = 0 => e(i).at < 2
  <2>1. e(i) \in Events
    BY <1>1
  <2> HIDE DEF e
  <2> QED BY <2>1 DEF Events
<1>4. /\ snap' \in [rows : SUBSET LiveAlerts, truncated : BOOLEAN]
      /\ fetch' \in [st : {"none", "sent", "read"}, rows : SUBSET LiveAlerts, truncated : BOOLEAN]
      /\ snap'.rows = fetch.rows /\ snap'.truncated = fetch.truncated /\ fetch'.st = "none"
  BY <1>2 DEF LvInv, PageInv
<1>5. ASSUME NEW i \in DOMAIN events, NEW w, w = events'[i] PROVE EventInv(w)'
  <2>1. w = f(i) /\ EventInv(e(i))
    BY <1>1, <1>2, <1>5
  <2>2. f(i).alert = e(i).alert /\ f(i).kind = e(i).kind /\ (f(i).at = 0 => e(i).at < 2)
    BY <1>3
  <2> HIDE DEF f, e
  <2>3. w.alert = e(i).alert /\ w.kind = e(i).kind /\ (w.at = 0 => e(i).at < 2)
    BY <2>1, <2>2
  <2>4. w.at = 0 => Told(w, snap.rows, snap.truncated)'
    BY <1>2, <1>4, <2>1, <2>3 DEF EventInv, Told
  <2> QED BY <1>2, <1>4, <2>1, <2>3, <2>4 DEF EventInv
<1> HIDE DEF f
<1>6. events' \in Seq(Events) /\ DOMAIN events' = DOMAIN events /\ Len(events') = Len(events)
  <2>1. events' \in [1..Len(events) -> Events]
    BY <1>1, <1>2, <1>3
  <2> QED BY <1>1, <2>1
<1>7. Distinct(events')
  BY <1>1, <1>2, <1>3, <1>6 DEF Distinct
<1>8. \A i \in DOMAIN events' : EventInv(events[i])'
  BY <1>5, <1>6
<1> QED BY <1>1, <1>4, <1>6, <1>7, <1>8 DEF PageInv

LEMMA FetchFails ==
    ASSUME LvInv, SnapshotFails PROVE PageInv'
PROOF
<1>1. PageInv
  BY DEF LvInv
<1>2. fetch' = [fetch EXCEPT !.st = "none"] /\ UNCHANGED <<open, raised, snap, events>>
  BY DEF SnapshotFails, serverSide
<1>3. fetch' \in [st : {"none", "sent", "read"}, rows : SUBSET LiveAlerts, truncated : BOOLEAN] /\ fetch'.st = "none"
  BY <1>1, <1>2 DEF PageInv
<1>4. ASSUME NEW i \in DOMAIN events PROVE EventInv(events[i])'
  <2>1. PICK e : e = events[i] /\ EventInv(e)
    BY <1>1 DEF PageInv
  <2>2. EventInv(e)'
    BY <1>2, <1>3, <2>1 DEF EventInv, Told
  <2> QED BY <1>2, <2>1, <2>2
<1> QED BY <1>1, <1>2, <1>3, <1>4 DEF PageInv, Distinct
-----------------------------------------------------------------------------
(* What either end does to a connection keeps its frames true.             *)
LEMMA ConnParts ==
    ASSUME NEW c \in Conns(TrueFrames)
    PROVE  /\ c.srv \in Ends /\ c.cli \in Ends /\ c.up \in Seq(UpFrames) /\ c.down \in Seq(TrueFrames)
           /\ Frame("close") \in TrueFrames /\ Frame("authenticated") \in TrueFrames /\ Frame("subscribed") \in TrueFrames
           /\ \A m \in TrueFrames : Append(c.down, m) \in Seq(TrueFrames)
           /\ \A f \in UpFrames : Append(c.up, f) \in Seq(UpFrames)
           /\ c.up # <<>> => Tail(c.up) \in Seq(UpFrames) /\ Head(c.up) \in UpFrames
           /\ c.down # <<>> => Tail(c.down) \in Seq(TrueFrames) /\ Head(c.down) \in TrueFrames
PROOF
<1>1. c.srv \in Ends /\ c.cli \in Ends /\ c.up \in Seq(UpFrames) /\ c.down \in Seq(TrueFrames)
  BY DEF Conns
<1>2. Frame("close") \in TrueFrames /\ Frame("authenticated") \in TrueFrames /\ Frame("subscribed") \in TrueFrames
  BY DEF TrueFrames
<1>3. /\ \A m \in TrueFrames : Append(c.down, m) \in Seq(TrueFrames)
      /\ \A f \in UpFrames : Append(c.up, f) \in Seq(UpFrames)
  BY <1>1, AppendProperties
<1>4. c.up # <<>> => Tail(c.up) \in Seq(UpFrames) /\ Head(c.up) \in UpFrames
  BY <1>1, HeadTailProperties
<1>5. c.down # <<>> => Tail(c.down) \in Seq(TrueFrames) /\ Head(c.down) \in TrueFrames
  BY <1>1, HeadTailProperties
<1> QED BY <1>1, <1>2, <1>3, <1>4, <1>5

LEMMA ClosedConn ==
    ASSUME NEW c \in Conns(TrueFrames)
    PROVE  ServerClose(c) \in Conns(TrueFrames)
PROOF
<1>1. Append(c.down, Frame("close")) \in Seq(TrueFrames)
  BY ConnParts
<1>2. CASE c.srv = "open"
  <2>1. PICK d : d = Append(c.down, Frame("close"))
    OBVIOUS
  <2>2. ServerClose(c) = [c EXCEPT !.srv = "closing", !.down = d]
    BY <1>2, <2>1 DEF ServerClose
  <2>3. [c EXCEPT !.srv = "closing", !.down = d] \in Conns(TrueFrames)
    BY <1>1, <2>1 DEF Conns, Ends
  <2> QED BY <2>2, <2>3
<1>3. CASE c.srv # "open"
  BY <1>3 DEF ServerClose
<1> QED BY <1>2, <1>3

LEMMA DeliveredConn ==
    ASSUME NEW c \in Conns(TrueFrames), NEW m \in TrueFrames
    PROVE  Deliver(c, m) \in Conns(TrueFrames)
PROOF
<1>1. Append(c.down, m) \in Seq(TrueFrames)
  BY ConnParts
<1>2. ServerClose(c) \in Conns(TrueFrames)
  BY ClosedConn
<1>3. [c EXCEPT !.down = Append(@, m)] \in Conns(TrueFrames)
  <2>1. PICK d : d = Append(c.down, m)
    OBVIOUS
  <2>2. [c EXCEPT !.down = d] \in Conns(TrueFrames)
    BY <1>1, <2>1 DEF Conns
  <2> QED BY <2>1, <2>2
<1> QED BY <1>2, <1>3 DEF Deliver

LEMMA HubStays ==
    ASSUME LvInv, UNCHANGED serverSide, conn' \in [Socks -> Conns(TrueFrames)]
    PROVE  HubInv'
PROOF
<1>1. UNCHANGED <<open, raised, outgoing>>
  BY DEF serverSide
<1>2. HubInv
  BY DEF LvInv
<1>3. TrueMessages' = TrueMessages /\ TrueFrames' = TrueFrames
  BY <1>1, <1>2, NothingMoves
<1> QED BY <1>1, <1>2, <1>3 DEF HubInv

LEMMA ListeningKeeps ==
    ASSUME LvInv, UNCHANGED serverSide, NEW on \in BOOLEAN, SetListeningSince(on)
    PROVE  PageInv' /\ since' \in BOOLEAN
PROOF
<1>1. UNCHANGED <<open, raised>>
  BY DEF serverSide
<1>2. CASE on \/ since
  BY <1>1, <1>2, RefetchKeeps DEF SetListeningSince
<1>3. CASE ~ (on \/ since)
  <2>1. UNCHANGED pageAlerts
    BY <1>3 DEF SetListeningSince
  <2>2. HubInv /\ PageInv
    BY DEF LvInv
  <2>3. WorldMoves
    BY <1>1, <2>2, NothingMoves
  <2> QED BY <2>1, <2>2, <2>3, PageStays DEF SetListeningSince
<1>4. since' \in BOOLEAN
  BY DEF SetListeningSince
<1> QED BY <1>2, <1>3, <1>4

LEMMA ConnChanged ==
    ASSUME LvInv, NEW s \in Socks, NEW c \in Conns(TrueFrames), conn' = [conn EXCEPT ![s] = c]
    PROVE  conn' \in [Socks -> Conns(TrueFrames)]
BY DEF LvInv, HubInv

LEMMA SendStep ==
    ASSUME LvInv, NEW m, SendAlert(m) PROVE LvInv'
PROOF
<1>1. HubInv /\ m \in outgoing /\ m \in TrueMessages /\ m \in TrueFrames
  BY DEF LvInv, HubInv, SendAlert, TrueFrames
<1>2. conn' = [s \in Socks |-> IF conn[s].subs THEN Deliver(conn[s], m) ELSE conn[s]]
  BY DEF SendAlert
<1>3. \A s \in Socks : conn[s] \in Conns(TrueFrames) /\ Deliver(conn[s], m) \in Conns(TrueFrames)
  BY <1>1, DeliveredConn DEF HubInv
<1>4. conn' \in [Socks -> Conns(TrueFrames)]
  BY <1>2, <1>3
<1>5. UNCHANGED <<open, raised>> /\ UNCHANGED pageAlerts /\ outgoing' \subseteq outgoing
  BY DEF SendAlert
<1>6. HookInv'
  BY DEF LvInv, HookInv, SendAlert
<1>7. WorldMoves /\ TrueMessages' = TrueMessages /\ TrueFrames' = TrueFrames
  BY <1>1, <1>5, NothingMoves
<1>8. outgoing' \subseteq TrueMessages'
  BY <1>1, <1>5, <1>7 DEF HubInv
<1> QED BY <1>4, <1>5, <1>6, <1>7, <1>8, HubStep

LEMMA ReadConn ==
    ASSUME NEW c \in Conns(TrueFrames), c.up # <<>>
    PROVE  FrameRead(c) \in Conns(TrueFrames)
PROOF
<1>1. PICK t : t = Tail(c.up) /\ t \in Seq(UpFrames)
  BY ConnParts
<1>2. FrameRead(c) = [c EXCEPT !.up = t]
  BY <1>1 DEF FrameRead
<1> QED BY <1>1, <1>2 DEF Conns

LEMMA ReceiveAuthStep ==
    ASSUME LvInv, NEW s \in Socks, ReceiveAuth(s) PROVE LvInv'
PROOF
<1> DEFINE c == FrameRead(conn[s])
           d == IF ConnectionsFor >= MaxConnections THEN ServerClose(c) ELSE Authenticated(c)
<1>1. conn[s] \in Conns(TrueFrames) /\ conn[s].up # <<>>
  BY DEF LvInv, HubInv, ReceiveAuth
<1>2. conn' = [conn EXCEPT ![s] = d]
  BY DEF ReceiveAuth
<1>3. c \in Conns(TrueFrames)
  BY <1>1, ReadConn
<1> HIDE DEF c
<1>4. d \in Conns(TrueFrames)
  <2>1. PICK t : t = Append(c.down, Frame("authenticated")) /\ t \in Seq(TrueFrames)
    BY <1>3, ConnParts
  <2>2. Authenticated(c) = [c EXCEPT !.auth = TRUE, !.down = t]
    BY <1>3, <2>1 DEF Authenticated, Conns
  <2>3. [c EXCEPT !.auth = TRUE, !.down = t] \in Conns(TrueFrames)
    BY <1>3, <2>1 DEF Conns
  <2>4. ServerClose(c) \in Conns(TrueFrames)
    BY <1>3, ClosedConn
  <2> QED BY <2>2, <2>3, <2>4
<1> HIDE DEF d
<1>5. conn' \in [Socks -> Conns(TrueFrames)]
  BY <1>2, <1>4, ConnChanged
<1>6. UNCHANGED serverSide /\ UNCHANGED pageAlerts /\ HookInv'
  BY DEF ReceiveAuth, LvInv, HookInv
<1> QED BY <1>5, <1>6, ConnStep

LEMMA ReceiveSubscribeStep ==
    ASSUME LvInv, NEW s \in Socks, ReceiveSubscribe(s) PROVE LvInv'
PROOF
<1> DEFINE c == FrameRead(conn[s])
           d == Subscribe(c)
<1>1. conn[s] \in Conns(TrueFrames) /\ conn[s].up # <<>>
  BY DEF LvInv, HubInv, ReceiveSubscribe
<1>2. conn' = [conn EXCEPT ![s] = d]
  BY DEF ReceiveSubscribe
<1>3. c \in Conns(TrueFrames)
  BY <1>1, ReadConn
<1> HIDE DEF c
<1>4. d \in Conns(TrueFrames)
  <2>1. PICK t : t = Append(c.down, Frame("subscribed")) /\ t \in Seq(TrueFrames)
    BY <1>3, ConnParts
  <2>2. [c EXCEPT !.subs = TRUE, !.down = t] \in Conns(TrueFrames)
    BY <1>3, <2>1 DEF Conns
  <2> QED BY <1>3, <2>1, <2>2 DEF Subscribe, Conns
<1> HIDE DEF d
<1>5. conn' \in [Socks -> Conns(TrueFrames)]
  BY <1>2, <1>4, ConnChanged
<1>6. UNCHANGED serverSide /\ UNCHANGED pageAlerts /\ HookInv'
  BY DEF ReceiveSubscribe, LvInv, HookInv
<1> QED BY <1>5, <1>6, ConnStep

LEMMA AuthTimeoutStep ==
    ASSUME LvInv, NEW s \in Socks, AuthTimeout(s) PROVE LvInv'
PROOF
<1>1. conn[s] \in Conns(TrueFrames)
  BY DEF LvInv, HubInv
<1>2. ServerClose(conn[s]) \in Conns(TrueFrames)
  BY <1>1, ClosedConn
<1>3. conn' = [conn EXCEPT ![s] = ServerClose(conn[s])]
  BY DEF AuthTimeout
<1>4. conn' \in [Socks -> Conns(TrueFrames)]
  BY <1>2, <1>3, ConnChanged
<1>5. UNCHANGED serverSide /\ UNCHANGED pageAlerts /\ HookInv'
  BY LiveAssumption DEF AuthTimeout, LvInv, HookInv
<1> QED BY <1>4, <1>5, ConnStep

LEMMA CleanupStep ==
    ASSUME LvInv, NEW s \in Socks, ServerCleanup(s) PROVE LvInv'
PROOF
<1> DEFINE c == conn[s]
           d == IF Head(c.up) # "close" THEN FrameRead(c) ELSE EndHeard(c)
<1>1. c \in Conns(TrueFrames) /\ c.up # <<>>
  BY DEF LvInv, HubInv, ServerCleanup
<1>2. conn' = [conn EXCEPT ![s] = d]
  BY DEF ServerCleanup
<1> HIDE DEF c
<1>3. FrameRead(c) \in Conns(TrueFrames)
  BY <1>1, ReadConn
<1>4. EndHeard(c) \in Conns(TrueFrames)
  <2> DEFINE Unsubscribed(f) == [f EXCEPT !.srv = "none", !.auth = FALSE, !.subs = FALSE]
  <2>0. ASSUME NEW f \in Conns(TrueFrames) PROVE Unsubscribed(f) \in Conns(TrueFrames)
    BY DEF Conns, Ends
  <2>1. PICK r : r = RemoveSubscriber(FrameRead(c)) /\ r \in Conns(TrueFrames)
    <3>1. PICK f : f = FrameRead(c) /\ f \in Conns(TrueFrames)
      BY <1>3
    <3>2. RemoveSubscriber(f) \in Conns(TrueFrames)
      BY <2>0, <3>1 DEF RemoveSubscriber
    <3> QED BY <3>1, <3>2
  <2>2. PICK u : u = (IF c.srv = "open" THEN Append(r.down, Frame("close")) ELSE r.down) /\ u \in Seq(TrueFrames)
    BY <2>1, ConnParts
  <2>3. EndHeard(c) = [r EXCEPT !.down = u]
    BY <2>1, <2>2 DEF EndHeard, Conns
  <2> QED BY <2>1, <2>2, <2>3 DEF Conns
<1>5. d \in Conns(TrueFrames)
  BY <1>3, <1>4
<1> HIDE DEF d
<1>6. conn' \in [Socks -> Conns(TrueFrames)]
  BY <1>2, <1>5, ConnChanged
<1>7. UNCHANGED serverSide /\ UNCHANGED pageAlerts /\ HookInv'
  BY DEF ServerCleanup, LvInv, HookInv
<1> QED BY <1>6, <1>7, ConnStep

LEMMA WorldStep ==
    ASSUME LvInv, NEW a \in LiveAlerts, RaiseAlert(a) \/ AcknowledgeAlert(a) \/ ResolveAlert(a)
    PROVE  LvInv'
PROOF
<1>1. HubInv /\ HookInv
  BY DEF LvInv
<1>2. UNCHANGED conn /\ UNCHANGED pageAlerts /\ HookInv'
  BY <1>1, LiveAssumption DEF RaiseAlert, AcknowledgeAlert, ResolveAlert, HookInv
<1>3. WorldMoves
  BY <1>1 DEF RaiseAlert, AcknowledgeAlert, ResolveAlert, WorldMoves, HubInv
<1>4. TrueMessages \subseteq TrueMessages' /\ Conns(TrueFrames) \subseteq Conns(TrueFrames')
  BY <1>1, <1>3, FramesStayTrue
<1>5. conn' \in [Socks -> Conns(TrueFrames')]
  BY <1>1, <1>2, <1>4 DEF HubInv
<1>6. outgoing' \subseteq TrueMessages'
  <2>1. outgoing \subseteq TrueMessages'
    BY <1>1, <1>4 DEF HubInv
  <2>2. CASE RaiseAlert(a)
    <3>1. <<"raised", a>> \in TrueMessages'
      BY <2>2 DEF RaiseAlert, TrueMessages, Messages
    <3> QED BY <2>1, <2>2, <3>1 DEF RaiseAlert
  <2>3. CASE AcknowledgeAlert(a)
    <3>1. <<"acknowledged", a>> \in TrueMessages'
      BY <1>1, <2>3 DEF AcknowledgeAlert, TrueMessages, Messages, HubInv
    <3> QED BY <2>1, <2>3, <3>1 DEF AcknowledgeAlert
  <2>4. CASE ResolveAlert(a)
    <3>1. <<"resolved", a>> \in TrueMessages'
      BY <1>1, <2>4 DEF ResolveAlert, TrueMessages, Messages, HubInv
    <3> QED BY <2>1, <2>4, <3>1 DEF ResolveAlert
  <2> QED BY <2>2, <2>3, <2>4
<1> QED BY <1>2, <1>3, <1>5, <1>6, HubStep

LEMMA MakeSocketStep ==
    ASSUME LvInv, NEW s \in Socks, MakeSocket(s) PROVE LvInv'
PROOF
<1> DEFINE none == <<>>
           first == <<"auth">>
           fresh == [srv |-> "none", auth |-> FALSE, subs |-> FALSE, cli |-> "none", up |-> none, down |-> none]
           d == [fresh EXCEPT !.srv = "open", !.cli = "open", !.up = first]
<1>1. none \in Seq(TrueFrames) /\ none \in Seq(UpFrames) /\ first \in Seq(UpFrames)
  BY DEF UpFrames
<1>3. conn' = [conn EXCEPT ![s] = d]
  BY DEF MakeSocket, NoConn
<1> HIDE DEF none, first
<1>2. fresh \in Conns(TrueFrames)
  BY <1>1 DEF Conns, Ends
<1> HIDE DEF fresh
<1>4. d \in Conns(TrueFrames)
  BY <1>1, <1>2 DEF Conns, Ends
<1> HIDE DEF d
<1>5. conn' \in [Socks -> Conns(TrueFrames)]
  BY <1>3, <1>4, ConnChanged
<1>6. UNCHANGED serverSide /\ UNCHANGED pageAlerts /\ HookInv'
  BY DEF MakeSocket, LvInv, HookInv
<1> QED BY <1>5, <1>6, ConnStep

LEMMA TicketStep ==
    ASSUME LvInv, TicketFails \/ RetryConnect PROVE LvInv'
PROOF
<1>1. UNCHANGED serverSide /\ UNCHANGED pageAlerts /\ UNCHANGED conn
  BY DEF TicketFails, RetryConnect
<1>2. HookInv'
  BY LiveAssumption DEF TicketFails, RetryConnect, LvInv, HookInv
<1>3. conn' \in [Socks -> Conns(TrueFrames)]
  BY <1>1 DEF LvInv, HubInv
<1> QED BY <1>1, <1>2, <1>3, ConnStep

(* A frame taken off the page's queue.                                     *)
LEMMA TakenConn ==
    ASSUME NEW c \in Conns(TrueFrames), c.down # <<>>
    PROVE  [c EXCEPT !.down = Tail(c.down)] \in Conns(TrueFrames)
PROOF
<1>1. PICK t : t = Tail(c.down) /\ t \in Seq(TrueFrames)
  BY ConnParts
<1>2. [c EXCEPT !.down = t] \in Conns(TrueFrames)
  BY <1>1 DEF Conns
<1> QED BY <1>1, <1>2

LEMMA OnMessageStep ==
    ASSUME LvInv, NEW s \in Socks, OnMessage(s) PROVE LvInv'
PROOF
<1> DEFINE m == Head(conn[s].down)
           c == [conn[s] EXCEPT !.down = Tail(conn[s].down)]
<1>1. conn[s] \in Conns(TrueFrames) /\ conn[s].down # <<>> /\ m[1] # "close"
  BY DEF LvInv, HubInv, OnMessage
<1>2. c \in Conns(TrueFrames) /\ m \in TrueFrames
  BY <1>1, TakenConn, ConnParts
<1>3. UNCHANGED serverSide /\ UNCHANGED <<cur, phase, liveFaults>> /\ UNCHANGED <<open, raised>>
  BY DEF OnMessage, serverSide
<1>4. CASE m[1] = "authenticated"
  <2>1. conn' = [conn EXCEPT ![s] = Subscribing(c)] /\ SetListeningSince(TRUE)
    BY <1>4 DEF OnMessage
  <2> HIDE DEF c, m
  <2>2. Subscribing(c) \in Conns(TrueFrames)
    <3>1. PICK u : u = Append(c.up, "subscribe") /\ u \in Seq(UpFrames)
      BY <1>2, ConnParts DEF UpFrames
    <3>2. Subscribing(c) = [c EXCEPT !.up = u]
      BY <3>1 DEF Subscribing
    <3> QED BY <1>2, <3>1, <3>2 DEF Conns
  <2>3. conn' \in [Socks -> Conns(TrueFrames)]
    BY <2>1, <2>2, ConnChanged
  <2>4. HubInv'
    BY <1>3, <2>3, HubStays
  <2>5. PageInv' /\ since' \in BOOLEAN
    BY <1>3, <2>1, ListeningKeeps
  <2>6. HookInv'
    BY <1>3, <2>5 DEF LvInv, HookInv
  <2> QED BY <2>4, <2>5, <2>6 DEF LvInv
<1>5. CASE m[1] = "subscribed"
  <2>1. conn' = [conn EXCEPT ![s] = c] /\ UNCHANGED <<since, pageAlerts>>
    BY <1>5 DEF OnMessage
  <2> HIDE DEF c, m
  <2>2. conn' \in [Socks -> Conns(TrueFrames)]
    BY <1>2, <2>1, ConnChanged
  <2>3. HookInv'
    BY <1>3, <2>1 DEF LvInv, HookInv
  <2> QED BY <1>3, <2>1, <2>2, <2>3, ConnStep
<1>6. CASE m[1] # "authenticated" /\ m[1] # "subscribed"
  <2>1. conn' = [conn EXCEPT ![s] = c] /\ UNCHANGED <<since, snap, fetch>>
        /\ events' = AppendAlertEvent(events, [alert |-> m[2], at |-> 2,
                         kind |-> IF m[1] = "resolved" THEN "resolved" ELSE "upsert"])
    BY <1>6 DEF OnMessage
  <2> HIDE DEF c, m
  <2>2. m \in TrueMessages
    BY <1>1, <1>2, <1>6 DEF TrueFrames, Frame
  <2>3. conn' \in [Socks -> Conns(TrueFrames)]
    BY <1>2, <2>1, ConnChanged
  <2>4. HubInv'
    BY <1>3, <2>3, HubStays
  <2>5. PageInv'
    BY <1>3, <2>1, <2>2, EventHeard
  <2>6. HookInv'
    BY <1>3, <2>1 DEF LvInv, HookInv
  <2> QED BY <2>4, <2>5, <2>6 DEF LvInv
<1> QED BY <1>4, <1>5, <1>6

LEMMA OnCloseStep ==
    ASSUME LvInv, NEW s \in Socks, OnClose(s) PROVE LvInv'
PROOF
<1> DEFINE c == conn[s]
<1>1. c \in Conns(TrueFrames) /\ c.down # <<>>
  BY DEF LvInv, HubInv, OnClose
<1>2. UNCHANGED serverSide /\ UNCHANGED <<cur, liveFaults>>
  BY DEF OnClose
<1>3. CASE Head(c.down)[1] # "close"
  <2> DEFINE d == [c EXCEPT !.down = Tail(c.down)]
  <2>1. conn' = [conn EXCEPT ![s] = d] /\ UNCHANGED <<phase, since, pageAlerts>>
    BY <1>3 DEF OnClose
  <2>2. d \in Conns(TrueFrames)
    BY <1>1, TakenConn
  <2> HIDE DEF d
  <2>3. conn' \in [Socks -> Conns(TrueFrames)]
    BY <2>1, <2>2, ConnChanged
  <2>4. HookInv'
    BY <1>2, <2>1 DEF LvInv, HookInv
  <2> QED BY <1>2, <2>1, <2>3, <2>4, ConnStep
<1>4. CASE Head(c.down)[1] = "close"
  <2>1. conn' = [conn EXCEPT ![s] = PageClosed(c)] /\ SetListeningSince(FALSE)
        /\ phase' = IF c.cli = "open" THEN "retry" ELSE phase
    BY <1>4 DEF OnClose
  <2> HIDE DEF c
  <2>2. PageClosed(c) \in Conns(TrueFrames)
    <3>1. PICK t : t = Tail(c.down) /\ t \in Seq(TrueFrames)
      BY <1>1, ConnParts
    <3>2. PICK u : u = (IF c.cli = "open" /\ c.srv # "none" THEN Append(c.up, "close") ELSE c.up) /\ u \in Seq(UpFrames)
      BY <1>1, ConnParts DEF UpFrames
    <3>3. PageClosed(c) = [c EXCEPT !.cli = "none", !.down = t, !.up = u]
      BY <3>1, <3>2 DEF PageClosed
    <3>4. [c EXCEPT !.cli = "none", !.down = t, !.up = u] \in Conns(TrueFrames)
      BY <1>1, <3>1, <3>2 DEF Conns, Ends
    <3> QED BY <3>3, <3>4
  <2>3. conn' \in [Socks -> Conns(TrueFrames)]
    BY <2>1, <2>2, ConnChanged
  <2>4. HubInv'
    BY <1>2, <2>3, HubStays
  <2>5. PageInv' /\ since' \in BOOLEAN
    BY <1>2, <2>1, ListeningKeeps
  <2>6. HookInv'
    BY <1>2, <2>1, <2>5 DEF LvInv, HookInv
  <2> QED BY <2>4, <2>5, <2>6 DEF LvInv
<1> QED BY <1>3, <1>4

LEMMA RefocusStep ==
    ASSUME LvInv, Refocus PROVE LvInv'
PROOF
<1>1. UNCHANGED serverSide /\ UNCHANGED pageAlerts
  BY DEF Refocus
<1>2. HookInv'
  BY LiveAssumption DEF Refocus, LvInv, HookInv
<1>3. conn \in [Socks -> Conns(TrueFrames)] /\ cur \in Socks \cup {0}
  BY DEF LvInv, HubInv, HookInv
<1>4. CASE cur = 0 \/ conn[cur].cli # "open"
  <2>1. conn' = conn
    BY <1>4 DEF Refocus
  <2> QED BY <1>1, <1>2, <1>3, <2>1, ConnStep
<1>5. CASE ~ (cur = 0 \/ conn[cur].cli # "open")
  <2>1. PICK s \in Socks : s = cur
    BY <1>3, <1>5
  <2>2. PICK c : c = conn[s] /\ c \in Conns(TrueFrames)
    BY <1>3, <2>1
  <2>3. PICK u : u = (IF c.srv = "none" THEN c.up ELSE Append(c.up, "close")) /\ u \in Seq(UpFrames)
    BY <2>2, ConnParts DEF UpFrames
  <2>4. PICK d : d = [c EXCEPT !.cli = "closing", !.up = u]
    OBVIOUS
  <2>5. d \in Conns(TrueFrames)
    BY <2>2, <2>3, <2>4 DEF Conns, Ends
  <2>6. conn' = [conn EXCEPT ![s] = d]
    <3>1. conn' = [conn EXCEPT ![s].cli = "closing",
                               ![s].up = IF conn[s].srv = "none" THEN @ ELSE Append(@, "close")]
      BY <1>5, <2>1 DEF Refocus
    <3>2. conn' = [conn EXCEPT ![s].cli = "closing", ![s].up = u]
      BY <1>3, <2>2, <2>3, <3>1 DEF Conns
    <3> QED BY <1>3, <2>2, <2>4, <3>2
  <2>7. conn' \in [Socks -> Conns(TrueFrames)]
    BY <2>5, <2>6, ConnChanged
  <2> QED BY <1>1, <1>2, <2>7, ConnStep
<1> QED BY <1>4, <1>5

LEMMA DropStep ==
    ASSUME LvInv, NEW s \in Socks, DropConnection(s) PROVE LvInv'
PROOF
<1>1. UNCHANGED serverSide /\ UNCHANGED pageAlerts
  BY DEF DropConnection
<1>2. HookInv'
  BY LiveAssumption DEF DropConnection, LvInv, HookInv
<1>3. conn \in [Socks -> Conns(TrueFrames)]
  BY DEF LvInv, HubInv
<1>4. PICK u : u = <<"close">>
  OBVIOUS
<1>5. PICK t : t = <<Frame("close")>>
  OBVIOUS
<1>6. u \in Seq(UpFrames) /\ t \in Seq(TrueFrames)
  BY <1>4, <1>5 DEF UpFrames, TrueFrames
<1>7. conn' = [conn EXCEPT ![s].up = u, ![s].down = t, ![s].srv = "closing"]
  BY <1>4, <1>5 DEF DropConnection
<1>8. PICK c : c = conn[s] /\ c \in Conns(TrueFrames)
  BY <1>3
<1>9. PICK d : d = [c EXCEPT !.up = u, !.down = t, !.srv = "closing"]
  OBVIOUS
<1>10. d \in Conns(TrueFrames)
  BY <1>6, <1>8, <1>9 DEF Conns, Ends
<1>11. conn' = [conn EXCEPT ![s] = d]
  BY <1>3, <1>7, <1>8, <1>9
<1>12. conn' \in [Socks -> Conns(TrueFrames)]
  BY <1>10, <1>11, ConnChanged
<1> QED BY <1>1, <1>2, <1>12, ConnStep

(* The snapshot comes and goes, and the connections stay.                  *)
LEMMA SnapshotStep ==
    ASSUME LvInv, SnapshotRead \/ SnapshotLands \/ SnapshotFails \/ AlertRefresh PROVE LvInv'
PROOF
<1>1. UNCHANGED serverSide /\ UNCHANGED <<conn, cur, phase, since>>
  BY DEF SnapshotRead, SnapshotLands, SnapshotFails, AlertRefresh
<1>2. HookInv'
  BY <1>1, LiveAssumption DEF SnapshotRead, SnapshotLands, SnapshotFails, AlertRefresh, LvInv, HookInv
<1>3. conn' \in [Socks -> Conns(TrueFrames)]
  BY <1>1 DEF LvInv, HubInv
<1>4. HubInv'
  BY <1>1, <1>3, HubStays
<1>5. PageInv'
  <2>1. CASE SnapshotRead
    BY <2>1, RowsRead
  <2>2. CASE SnapshotLands
    BY <2>2, RowsLand
  <2>3. CASE SnapshotFails
    BY <2>3, FetchFails
  <2>4. CASE AlertRefresh
    BY <1>1, <2>4, RefetchKeeps DEF AlertRefresh, serverSide
  <2> QED BY <2>1, <2>2, <2>3, <2>4
<1> QED BY <1>2, <1>4, <1>5 DEF LvInv

LEMMA LvStart == LiveInit => LvInv
PROOF
<1> SUFFICES ASSUME LiveInit PROVE LvInv
  OBVIOUS
<1> DEFINE none == <<>>
<1>1. none \in Seq(UpFrames) /\ none \in Seq(TrueFrames) /\ none \in Seq(Events) /\ Len(none) = 0 /\ DOMAIN none = {}
  OBVIOUS
<1>2. NoConn = [srv |-> "none", auth |-> FALSE, subs |-> FALSE, cli |-> "none", up |-> none, down |-> none]
      /\ events = none
  BY DEF NoConn, LiveInit
<1> HIDE DEF none
<1>3. NoConn \in Conns(TrueFrames)
  BY <1>1, <1>2 DEF Conns, Ends
<1>4. HubInv
  BY <1>3 DEF LiveInit, HubInv
<1>5. HookInv
  <2>1. since \in BOOLEAN
    BY DEF LiveInit
  <2>2. cur \in Socks \cup {0} /\ phase \in {"ticket", "socket", "retry"} /\ liveFaults \in 0..MaxLiveFaults
    BY LiveAssumption DEF LiveInit
  <2> QED BY <2>1, <2>2 DEF HookInv
<1>6. PageInv
  BY <1>1, <1>2, LiveAssumption DEF LiveInit, PageInv, Distinct
<1> QED BY <1>4, <1>5, <1>6 DEF LvInv

LEMMA LvStutter == LvInv /\ UNCHANGED livevars => LvInv'
PROOF
<1> SUFFICES ASSUME LvInv, UNCHANGED livevars PROVE LvInv'
  OBVIOUS
<1>1. UNCHANGED serverSide /\ UNCHANGED pageAlerts /\ UNCHANGED <<conn, cur, phase, since, liveFaults>>
  BY DEF livevars, serverSide, pageAlerts
<1>2. conn' \in [Socks -> Conns(TrueFrames)] /\ HookInv'
  BY <1>1 DEF LvInv, HubInv, HookInv
<1> QED BY <1>1, <1>2, ConnStep

LEMMA LvStep == LvInv /\ [LiveNext]_livevars => LvInv'
PROOF
<1> SUFFICES ASSUME LvInv, [LiveNext]_livevars PROVE LvInv'
  OBVIOUS
<1>1. CASE \E m \in Messages : SendAlert(m)
  BY <1>1, SendStep
<1>2. CASE \E s \in Socks : ServerStep(s)
  BY <1>2, ReceiveAuthStep, ReceiveSubscribeStep, CleanupStep DEF ServerStep
<1>3. CASE \E s \in Socks : PageStep(s)
  BY <1>3, OnMessageStep, OnCloseStep DEF PageStep
<1>4. CASE \E s \in Socks : MakeSocket(s)
  BY <1>4, MakeSocketStep
<1>5. CASE RetryConnect \/ TicketFails
  BY <1>5, TicketStep
<1>6. CASE SnapshotRead \/ SnapshotLands \/ SnapshotFails \/ AlertRefresh
  BY <1>6, SnapshotStep
<1>7. CASE \E a \in LiveAlerts : RaiseAlert(a) \/ AcknowledgeAlert(a) \/ ResolveAlert(a)
  BY <1>7, WorldStep
<1>8. CASE \E s \in Socks : AuthTimeout(s)
  BY <1>8, AuthTimeoutStep
<1>9. CASE \E s \in Socks : DropConnection(s)
  BY <1>9, DropStep
<1>10. CASE Refocus
  BY <1>10, RefocusStep
<1>11. CASE UNCHANGED livevars
  BY <1>11, LvStutter
<1> QED BY <1>1, <1>2, <1>3, <1>4, <1>5, <1>6, <1>7, <1>8, <1>9, <1>10, <1>11 DEF LiveNext, Environment

(* Whatever frames, refetches and snapshots overtake one another, what the *)
(* page was last told of an alert is what its list shows (ws.ts,           *)
(* Dashboard.tsx, lib/alerts.ts).                                          *)
THEOREM LiveSound == LiveSpec => []LiveIsSound
<1>1. LvInv => LiveIsSound
  <2> SUFFICES ASSUME LvInv PROVE LiveIsSound
    OBVIOUS
  <2>1. HubInv /\ HookInv /\ PageInv
    BY DEF LvInv
  <2>2. TrueMessages \subseteq Messages
    BY DEF TrueMessages
  <2> DEFINE F == Messages \cup {Frame("authenticated"), Frame("subscribed"), Frame("close")}
             C == [srv : {"none", "open", "closing"}, auth : BOOLEAN, subs : BOOLEAN,
                   cli : {"none", "open", "closing"}, up : Seq({"auth", "subscribe", "close"}), down : Seq(F)]
  <2>3. TrueFrames \subseteq F
    BY <2>2 DEF TrueFrames
  <2> HIDE DEF F
  <2>4. Seq(TrueFrames) \subseteq Seq(F)
    BY <2>3
  <2>5. Conns(TrueFrames) \subseteq C
    BY <2>4 DEF Conns, Ends, UpFrames
  <2>6. conn \in [Socks -> C]
    BY <2>1, <2>5 DEF HubInv
  <2>7. events \in Seq([alert : LiveAlerts, kind : {"upsert", "resolved"}, at : 0..2])
    BY <2>1 DEF PageInv, Events, Rank
  <2>8. LiveTypeOK
    BY <2>1, <2>2, <2>6, <2>7 DEF LiveTypeOK, HubInv, HookInv, PageInv, F
  <2>9. ASSUME NEW i \in DOMAIN events
        PROVE  IF events[i].kind = "resolved" THEN events[i].alert \notin Shown
               ELSE events[i].alert \in open /\ ~snap.truncated => events[i].alert \in Shown
    <3>1. PICK e : e = events[i] /\ EventInv(e) /\ e \in Events
      BY <2>1 DEF PageInv
    <3>2. \A j \in DOMAIN events : events[j].alert = e.alert => events[j] = e
      BY <2>1, <3>1 DEF PageInv, Distinct
    <3> DEFINE live(k) == {events[j].alert : j \in {q \in DOMAIN events : events[q].at > 0 /\ events[q].kind = k}}
    <3>3. Shown = (snap.rows \cup live("upsert")) \ live("resolved")
      BY DEF Shown, ReconcileAlerts
    <3>4. \A k : e.alert \in live(k) <=> (e.at > 0 /\ e.kind = k)
      BY <3>1, <3>2
    <3>5. e.at \in 0..2 /\ e.kind \in {"upsert", "resolved"}
      BY <3>1 DEF Events, Rank
    <3> HIDE DEF live
    <3>6. CASE e.at = 0
      BY <3>1, <3>3, <3>4, <3>5, <3>6 DEF EventInv, Told
    <3>7. CASE e.at > 0
      BY <3>1, <3>3, <3>4, <3>5, <3>7
    <3> QED BY <3>5, <3>6, <3>7
  <2> QED BY <2>8, <2>9 DEF LiveIsSound, KnownIsShown
<1> QED BY <1>1, LvStart, LvStep, PTL DEF LiveSpec

-----------------------------------------------------------------------------
(* The k-th smallest is the one with k numbers up to it.                   *)
LEMMA Ordered ==
    ASSUME NEW n \in Nat, NEW d \in SUBSET (1..n)
    PROVE  /\ Cardinality(d) \in Nat
           /\ InOrder(d) \in [1..Cardinality(d) -> d]
           /\ \A j, k \in 1..Cardinality(d) : j < k => InOrder(d)[j] < InOrder(d)[k]
PROOF
<1> DEFINE upTo(i) == {j \in d : j <= i}
           rank == [i \in d |-> Cardinality(upTo(i))]
           N == Cardinality(d)
<1>1. IsFiniteSet(d) /\ N \in Nat /\ d \subseteq Nat
  <2>1. IsFiniteSet(1..n)
    BY FS_Interval
  <2>2. IsFiniteSet(d)
    BY <2>1, FS_Subset
  <2>3. N \in Nat
    BY <2>2, FS_CardinalityType
  <2> QED BY <2>2, <2>3
<1>2. ASSUME NEW i \in d PROVE IsFiniteSet(upTo(i)) /\ rank[i] \in 1..N
  <2>1. upTo(i) \in SUBSET d /\ upTo(i) # {} /\ IsFiniteSet(upTo(i))
    BY <1>1, FS_Subset
  <2>2. Cardinality(upTo(i)) <= N /\ Cardinality(upTo(i)) \in Nat /\ Cardinality(upTo(i)) # 0
    BY <1>1, <2>1, FS_Subset, FS_CardinalityType, FS_EmptySet
  <2> QED BY <1>1, <2>1, <2>2
<1>3. ASSUME NEW i \in d, NEW j \in d, i < j PROVE rank[i] < rank[j]
  <2>1. upTo(i) \in SUBSET upTo(j) /\ j \in upTo(j) /\ j \notin upTo(i)
    <3>1. \A x \in d : x \in Int
      BY <1>1
    <3>2. \A x \in d : x <= i => x <= j
      BY <1>3, <3>1
    <3>3. j <= j /\ ~ (j <= i)
      BY <1>3, <3>1
    <3> QED BY <3>2, <3>3
  <2>2. Cardinality(upTo(i)) <= Cardinality(upTo(j)) /\ Cardinality(upTo(i)) # Cardinality(upTo(j))
    BY <1>2, <2>1, FS_Subset
  <2>3. rank[i] \in Nat /\ rank[j] \in Nat /\ rank[i] = Cardinality(upTo(i)) /\ rank[j] = Cardinality(upTo(j))
    BY <1>1, <1>2
  <2> QED BY <2>2, <2>3
<1>4. rank \in [d -> 1..N]
  BY <1>2
<1> HIDE DEF rank, upTo
<1>5. ASSUME NEW i \in d, NEW j \in d, rank[i] = rank[j] PROVE i = j
  <2>1. i \in Nat /\ j \in Nat /\ rank[i] \in Nat
    BY <1>1, <1>4
  <2> QED BY <1>3, <1>5, <2>1
<1>6. rank \in Surjection(d, 1..N)
  <2>1. rank \in Injection(d, 1..N)
    BY <1>4, <1>5 DEF Injection, IsInjective
  <2>2. IsFiniteSet(1..N) /\ Cardinality(1..N) = N
    BY <1>1, FS_Interval
  <2> QED BY <2>1, <2>2, FS_Injection
<1> DEFINE s == [k \in 1..N |-> CHOOSE i \in d : rank[i] = k]
<1>7. ASSUME NEW k \in 1..N PROVE s[k] \in d /\ rank[s[k]] = k
  BY <1>6 DEF Surjection
<1>8. s \in [1..N -> d]
  BY <1>7
<1> HIDE DEF s
<1>9. \A j, k \in 1..N : j < k => s[j] < s[k]
  <2>1. ASSUME NEW j \in 1..N, NEW k \in 1..N, j < k PROVE s[j] < s[k]
    <3>1. s[j] \in d /\ s[k] \in d /\ rank[s[j]] = j /\ rank[s[k]] = k /\ s[j] \in Nat /\ s[k] \in Nat
      BY <1>1, <1>7
    <3>2. ~ (s[k] < s[j]) /\ s[k] # s[j]
      BY <1>3, <2>1, <3>1
    <3> QED BY <3>1, <3>2
  <2> QED BY <2>1
<1> DEFINE good(f) == \A j, k \in 1..N : j < k => f[j] < f[k]
<1>10. \E f \in [1..N -> d] : good(f)
  BY <1>8, <1>9
<1>11. InOrder(d) = CHOOSE f \in [1..N -> d] : good(f)
  BY DEF InOrder
<1> HIDE DEF good
<1>12. InOrder(d) \in [1..N -> d] /\ good(InOrder(d))
  BY <1>10, <1>11
<1> QED BY <1>1, <1>12 DEF good

(* What is counted over the tasks grows by what one of them is given.      *)
Counted(f) == UNION {{t} \X (1..f[t]) : t \in DOMAIN f}
LEMMA CountGrows ==
    ASSUME NEW f \in [Tasks -> Nat], NEW t \in Tasks, NEW n \in Nat, IsFiniteSet(Counted(f))
    PROVE  /\ IsFiniteSet(Counted([f EXCEPT ![t] = f[t] + n]))
           /\ CountOf([f EXCEPT ![t] = f[t] + n]) = CountOf(f) + n
PROOF
<1> DEFINE g == [f EXCEPT ![t] = f[t] + n]
           new == {t} \X ((f[t] + 1)..(f[t] + n))
<1>1. IsFiniteSet(new) /\ Cardinality(new) = n
  <2>1. f[t] \in Nat /\ f[t] + 1 \in Int /\ f[t] + n \in Int
    OBVIOUS
  <2>2. PICK a \in Int, b \in Int : a = f[t] + 1 /\ b = f[t] + n
    BY <2>1
  <2>3. IsFiniteSet(a..b) /\ Cardinality(a..b) = IF a > b THEN 0 ELSE b - a + 1
    BY FS_Interval
  <2>4. Cardinality(a..b) = n
    BY <2>1, <2>2, <2>3
  <2>5. IsFiniteSet({t}) /\ Cardinality({t}) = 1
    BY FS_Singleton
  <2>6. IsFiniteSet({t} \X (a..b)) /\ Cardinality({t} \X (a..b)) = 1 * Cardinality(a..b)
    BY <2>3, <2>5, FS_Product
  <2> QED BY <2>2, <2>4, <2>6
<1>2. Counted(g) = Counted(f) \cup new
  <2>1. ASSUME NEW x PROVE x \in Counted(g) <=> x \in Counted(f) \cup new
    <3>1. x \in Counted(g) <=> \E u \in Tasks : \E i \in 1..g[u] : x = <<u, i>>
      BY DEF Counted
    <3>2. x \in Counted(f) <=> \E u \in Tasks : \E i \in 1..f[u] : x = <<u, i>>
      BY DEF Counted
    <3>3. x \in new <=> \E i \in (f[t] + 1)..(f[t] + n) : x = <<t, i>>
      OBVIOUS
    <3>4. f[t] \in Nat /\ 1..g[t] = (1..f[t]) \cup ((f[t] + 1)..(f[t] + n)) /\ \A u \in Tasks : u # t => g[u] = f[u]
      OBVIOUS
    <3> HIDE DEF g, new
    <3> QED BY <3>1, <3>2, <3>3, <3>4
  <2> QED BY <2>1
<1>3. Counted(f) \cap new = {}
  BY DEF Counted
<1> HIDE DEF new, g
<1>4. IsFiniteSet(Counted(g)) /\ Cardinality(Counted(g)) = Cardinality(Counted(f)) + Cardinality(new) - Cardinality({})
  BY <1>1, <1>2, <1>3, FS_Union
<1>5. Cardinality(Counted(f)) \in Nat
  BY FS_CardinalityType
<1>6. CountOf(g) = CountOf(f) + n
  BY <1>1, <1>4, <1>5, FS_EmptySet DEF CountOf, Counted
<1> QED BY <1>4, <1>6 DEF g

-----------------------------------------------------------------------------
(* The tool calls of parallel tasks.                                       *)
SealedRecords == [id : Nat, turn : Nat, call : Nat]
AskedLater(a, b) == a.turn < b.turn \/ (a.turn = b.turn /\ a.call < b.call)

ToolTypes ==
    /\ evidenceCount \in 0..MaxEvidence
    /\ calls \in [Tasks -> Seq({Read, Finding})]
    /\ toolCalls \in [Tasks -> Nat] /\ evidenceSeq \in [Tasks -> Nat]
    /\ ttTurns \in [Tasks -> Nat] /\ readsRun \in [Tasks -> Nat]
    /\ records \in [Tasks -> Seq(SealedRecords)]

(* A task's records are as many as it numbered, and a turn in hand is      *)
(* later than all of them; its reads were all counted.                     *)
Numbered(t) ==
    /\ Len(records[t]) = evidenceSeq[t]
    /\ \A k \in 1..Len(records[t]) :
          /\ records[t][k].id = k /\ records[t][k].turn <= ttTurns[t]
          /\ calls[t] # <<>> => records[t][k].turn < ttTurns[t]
          /\ k > 1 => AskedLater(records[t][k - 1], records[t][k])
Budgeted(t) == readsRun[t] <= toolCalls[t] /\ readsRun[t] <= PerTask
LedgerCounts == IsFiniteSet(Counted(evidenceSeq)) /\ CountOf(evidenceSeq) = evidenceCount

ToolInv == ToolTypes /\ LedgerCounts /\ \A t \in Tasks : Numbered(t) /\ Budgeted(t)

LEMMA SameRecords ==
    ASSUME ToolInv, UNCHANGED <<evidenceCount, calls, toolCalls, evidenceSeq, ttTurns, records, readsRun>>
    PROVE  ToolInv'
BY DEF ToolInv, ToolTypes, LedgerCounts, Numbered, Budgeted

(* The reads of a turn fit what the task's budget has left: the last that  *)
(* may run has them all before it.                                         *)
LEMMA ReadsFit ==
    ASSUME ToolTypes, NEW t \in Tasks, NEW cs \in Seq({Read, Finding}),
           NEW R, R = {i \in DOMAIN cs : cs[i] = Read /\ MayRun(t, cs, i)},
           NEW M, M = {i \in DOMAIN cs : MayRun(t, cs, i)}
    PROVE  /\ Cardinality(R) \in Nat /\ Cardinality(M) \in Nat /\ Cardinality(R) <= Cardinality(M)
           /\ Cardinality(R) = 0 \/ Cardinality(R) <= PerTask - toolCalls[t]
PROOF
<1>1. Len(cs) \in Nat /\ DOMAIN cs = 1..Len(cs)
  OBVIOUS
<1> DEFINE n == Len(cs)
<1>2. IsFiniteSet(1..n)
  BY <1>1, FS_Interval
<1> HIDE DEF n
<1>3. R \subseteq 1..n /\ M \subseteq 1..n /\ R \subseteq M
  BY <1>1 DEF n
<1>4. IsFiniteSet(M) /\ IsFiniteSet(R)
  BY <1>2, <1>3, FS_Subset
<1>5. Cardinality(R) \in Nat /\ Cardinality(M) \in Nat /\ Cardinality(R) <= Cardinality(M)
  BY <1>3, <1>4, FS_CardinalityType, FS_Subset
<1>6. CASE R = {}
  BY <1>5, <1>6, FS_EmptySet
<1>7. CASE R # {}
  <2> DEFINE B == {b \in 0..n : \A i \in R : i <= b}
  <2>1. n \in Nat /\ B \subseteq 0..n /\ n \in B
    BY <1>1, <1>3 DEF n
  <2>2. PICK m \in B : \A b \in B : m <= b
    <3> HIDE DEF B
    <3> QED BY <2>1, MinExists
  <2>3. m \in R
    <3>1. SUFFICES ASSUME m \notin R PROVE FALSE
      OBVIOUS
    <3>2. PICK r \in R : r \in 1..n /\ r <= m
      BY <1>3, <1>7, <2>2
    <3>3. m - 1 \in 0..n /\ \A i \in R : i <= m - 1
      BY <1>3, <2>1, <2>2, <3>1, <3>2
    <3> QED BY <2>1, <2>2, <3>3
  <2>4. cs[m] # Finding /\ Spends(cs, m) <= PerTask - toolCalls[t] /\ m \in 1..n
    BY <1>3, <2>3 DEF MayRun, Read, Finding
  <2> DEFINE J == {j \in 1..m : cs[j] # Finding}
  <2>5. R \subseteq J
    BY <1>3, <2>2 DEF Read, Finding
  <2>6. IsFiniteSet(J)
    <3>1. m \in Int
      BY <2>4
    <3>2. IsFiniteSet(1..m)
      BY <3>1, FS_Interval
    <3> QED BY <3>2, FS_Subset
  <2>7. Cardinality(R) <= Cardinality(J) /\ Cardinality(J) \in Nat
    BY <2>5, <2>6, FS_Subset, FS_CardinalityType
  <2>8. Cardinality(J) <= PerTask - toolCalls[t]
    BY <2>4 DEF Spends
  <2>9. PerTask - toolCalls[t] \in Int
    BY ToolAssumption DEF ToolTypes
  <2> QED BY <1>5, <2>7, <2>8, <2>9
<1> QED BY <1>5, <1>6, <1>7

LEMMA TurnBeginsStep ==
    ASSUME ToolInv, NEW t \in Tasks, NEW cs \in CallLists, TurnBegins(t, cs)
    PROVE  ToolInv'
PROOF
<1>1. cs \in Seq({Read, Finding}) /\ PerTask \in Nat
  BY ToolAssumption
<1>2. PICK R : R = {i \in DOMAIN cs : cs[i] = Read /\ MayRun(t, cs, i)}
  OBVIOUS
<1>3. PICK M : M = {i \in DOMAIN cs : MayRun(t, cs, i)}
  OBVIOUS
<1>4. PICK r, m : r = Cardinality(R) /\ m = Cardinality(M)
  OBVIOUS
<1>5. r \in Nat /\ m \in Nat /\ r <= m /\ (r = 0 \/ r <= PerTask - toolCalls[t])
  BY <1>1, <1>2, <1>3, <1>4, ReadsFit DEF ToolInv
<1>6. /\ calls' = [calls EXCEPT ![t] = cs] /\ toolCalls' = [toolCalls EXCEPT ![t] = toolCalls[t] + m]
      /\ readsRun' = [readsRun EXCEPT ![t] = readsRun[t] + r] /\ ttTurns' = [ttTurns EXCEPT ![t] = ttTurns[t] + 1]
      /\ UNCHANGED <<evidenceCount, evidenceSeq, records>>
  BY <1>2, <1>3, <1>4 DEF TurnBegins
<1>7. ToolTypes'
  <2>1. ToolTypes
    BY DEF ToolInv
  <2>2. calls' \in [Tasks -> Seq({Read, Finding})]
    BY <1>1, <1>6, <2>1 DEF ToolTypes
  <2>3. toolCalls' \in [Tasks -> Nat] /\ readsRun' \in [Tasks -> Nat] /\ ttTurns' \in [Tasks -> Nat]
    BY <1>5, <1>6, <2>1 DEF ToolTypes
  <2> QED BY <1>6, <2>1, <2>2, <2>3 DEF ToolTypes
<1>8. LedgerCounts'
  BY <1>6 DEF ToolInv, LedgerCounts
<1>9. ASSUME NEW u \in Tasks PROVE Numbered(u)' /\ Budgeted(u)'
  <2>1. Numbered(u) /\ Budgeted(u) /\ ToolTypes
    BY DEF ToolInv
  <2>2. ttTurns[u] \in Nat /\ toolCalls[u] \in Nat /\ readsRun[u] \in Nat
        /\ records[u] \in Seq(SealedRecords) /\ \A k \in 1..Len(records[u]) : records[u][k] \in SealedRecords
    BY <2>1 DEF ToolTypes
  <2>3. CASE u # t
    BY <1>6, <2>1, <2>3 DEF Numbered, Budgeted, ToolTypes
  <2>4. CASE u = t
    <3>1. ttTurns'[t] = ttTurns[t] + 1 /\ toolCalls'[t] = toolCalls[t] + m /\ readsRun'[t] = readsRun[t] + r
      BY <1>6, <2>1 DEF ToolTypes
    <3>2. Budgeted(t)'
      BY <1>1, <1>5, <2>1, <2>2, <2>4, <3>1 DEF Budgeted
    <3>3. \A k \in 1..Len(records[t]) : records[t][k].turn \in Nat
      BY <2>2, <2>4 DEF SealedRecords
    <3>4. Numbered(t)'
      BY <1>6, <2>1, <2>2, <2>4, <3>1, <3>3 DEF Numbered
    <3> QED BY <2>4, <3>2, <3>4
  <2> QED BY <2>3, <2>4
<1> QED BY <1>7, <1>8, <1>9 DEF ToolInv

LEMMA TurnEndsStep ==
    ASSUME ToolInv, NEW t \in Tasks, TurnEnds(t)
    PROVE  ToolInv'
PROOF
<1> DEFINE D == {i \in DOMAIN calls[t] : outcome[t][i] = "evidence"}
           ds == InOrder(D)
           N == Cardinality(D)
           n == Claimed(Len(ds))
           f == [k \in 1..n |-> [id |-> EvidenceId(t, k), turn |-> ttTurns[t], call |-> ds[k]]]
<1>1. ToolTypes /\ LedgerCounts /\ Numbered(t) /\ MaxEvidence \in Nat
  BY ToolAssumption DEF ToolInv
<1>2. calls[t] \in Seq({Read, Finding}) /\ calls[t] # <<>> /\ evidenceCount \in 0..MaxEvidence /\ ttTurns[t] \in Nat
      /\ evidenceSeq[t] \in Nat /\ records[t] \in Seq(SealedRecords)
  BY <1>1 DEF ToolTypes, TurnEnds
<1>3. N \in Nat /\ ds \in [1..N -> D] /\ (\A j, k \in 1..N : j < k => ds[j] < ds[k]) /\ D \subseteq Nat
  <2>1. PICK len \in Nat : D \in SUBSET (1..len)
    <3>1. Len(calls[t]) \in Nat /\ DOMAIN calls[t] = 1..Len(calls[t])
      BY <1>2
    <3> QED BY <3>1
  <2> HIDE DEF D
  <2>2. /\ Cardinality(D) \in Nat /\ InOrder(D) \in [1..Cardinality(D) -> D]
        /\ \A j, k \in 1..Cardinality(D) : j < k => InOrder(D)[j] < InOrder(D)[k]
    BY <2>1, Ordered
  <2> QED BY <2>1, <2>2
<1>4. /\ records' = [records EXCEPT ![t] = records[t] \o f]
      /\ evidenceCount' = evidenceCount + n
      /\ evidenceSeq' = [evidenceSeq EXCEPT ![t] = evidenceSeq[t] + n]
      /\ calls' = [calls EXCEPT ![t] = <<>>] /\ UNCHANGED <<toolCalls, ttTurns, readsRun>>
  BY DEF TurnEnds, Drafts
<1> HIDE DEF D
<1>5. Len(ds) = N
  <2> HIDE DEF ds
  <2> QED BY <1>3
<1> HIDE DEF ds, N
<1>6. n \in Nat /\ n <= N /\ evidenceCount + n <= MaxEvidence
  BY <1>1, <1>2, <1>3, <1>5 DEF Claimed
<1> HIDE DEF n
<1>7. \A k \in 1..n : f[k].id = evidenceSeq[t] + k /\ f[k].turn = ttTurns[t] /\ f[k].call = ds[k] /\ ds[k] \in Nat
  <2>1. ASSUME NEW k \in 1..n
        PROVE  f[k].id = evidenceSeq[t] + k /\ f[k].turn = ttTurns[t] /\ f[k].call = ds[k] /\ ds[k] \in Nat
    <3>1. k \in 1..N
      BY <1>3, <1>6
    <3>2. ds[k] \in Nat
      BY <1>3, <3>1
    <3> QED BY <3>2 DEF EvidenceId
  <2> QED BY <2>1
<1>8. f \in Seq(SealedRecords) /\ Len(f) = n
  <2>1. f \in [1..n -> SealedRecords]
    <3>1. ASSUME NEW k \in 1..n PROVE f[k] \in SealedRecords
      <4>1. ds[k] \in Nat /\ EvidenceId(t, k) \in Nat
        <5>1. ds[k] \in Nat
          BY <1>7
        <5>2. k \in Nat /\ evidenceSeq[t] \in Nat
          BY <1>2
        <5> QED BY <5>1, <5>2 DEF EvidenceId
      <4> QED BY <1>2, <4>1 DEF SealedRecords
    <3> QED BY <3>1
  <2> HIDE DEF f
  <2> QED BY <1>6, <2>1
<1> HIDE DEF f
<1> DEFINE old == records[t]
           new == old \o f
<1>9. /\ new \in Seq(SealedRecords) /\ Len(new) = Len(old) + n
      /\ \A k \in 1..Len(old) + n : new[k] = IF k <= Len(old) THEN old[k] ELSE f[k - Len(old)]
  BY <1>2, <1>8, ConcatProperties
<1>10. Len(old) = evidenceSeq[t] /\ Len(old) \in Nat
  BY <1>1, <1>2 DEF Numbered
<1> HIDE DEF new
<1>11. ToolTypes'
  <2> DEFINE none == <<>>
  <2>1. none \in Seq({Read, Finding}) /\ calls' = [calls EXCEPT ![t] = none]
    BY <1>4
  <2> HIDE DEF none
  <2>2. calls' \in [Tasks -> Seq({Read, Finding})]
    BY <1>1, <2>1 DEF ToolTypes
  <2>3. records' = [records EXCEPT ![t] = new]
    BY <1>4 DEF new
  <2>4. records' \in [Tasks -> Seq(SealedRecords)]
    BY <1>1, <1>9, <2>3 DEF ToolTypes
  <2>5. evidenceSeq' \in [Tasks -> Nat] /\ evidenceCount' \in 0..MaxEvidence
    BY <1>1, <1>2, <1>4, <1>6 DEF ToolTypes
  <2> QED BY <1>1, <1>4, <2>2, <2>4, <2>5 DEF ToolTypes
<1>12. LedgerCounts'
  <2>1. evidenceSeq \in [Tasks -> Nat] /\ n \in Nat
    BY <1>1, <1>6 DEF ToolTypes
  <2>2. IsFiniteSet(Counted(evidenceSeq)) /\ CountOf(evidenceSeq) = evidenceCount
    BY <1>1 DEF LedgerCounts
  <2>3. PICK g : g = [evidenceSeq EXCEPT ![t] = evidenceSeq[t] + n]
    OBVIOUS
  <2>4. IsFiniteSet(Counted(g)) /\ CountOf(g) = evidenceCount + n
    BY <2>1, <2>2, <2>3, CountGrows
  <2>5. evidenceSeq' = g
    BY <1>4, <2>3
  <2> QED BY <1>4, <2>4, <2>5 DEF LedgerCounts
<1>13. ASSUME NEW u \in Tasks PROVE Numbered(u)' /\ Budgeted(u)'
  <2>1. Numbered(u) /\ Budgeted(u)
    BY DEF ToolInv
  <2>2. Budgeted(u)'
    BY <1>4, <2>1 DEF Budgeted
  <2>3. CASE u # t
    BY <1>1, <1>4, <2>1, <2>2, <2>3 DEF Numbered, ToolTypes
  <2>4. CASE u = t
    <3>1. records'[t] = new /\ calls'[t] = <<>> /\ ttTurns'[t] = ttTurns[t] /\ evidenceSeq'[t] = evidenceSeq[t] + n
      BY <1>1, <1>4 DEF ToolTypes, new
    <3>2. \A k \in 1..Len(old) : old[k].id = k /\ old[k].turn < ttTurns[t] /\ (k > 1 => AskedLater(old[k - 1], old[k]))
      BY <1>1, <1>2 DEF Numbered
    <3> HIDE DEF old
    <3>3. ASSUME NEW k \in 1..Len(new)
          PROVE  new[k].id = k /\ new[k].turn <= ttTurns[t] /\ (k > 1 => AskedLater(new[k - 1], new[k]))
      <4>0. k \in 1..Len(old) + n /\ k \in Int /\ n \in Nat /\ Len(old) \in Nat
        BY <1>6, <1>9, <1>10
      <4>5. ASSUME NEW q \in Int, 1 <= q, q <= k
             PROVE  new[q] = IF q <= Len(old) THEN old[q] ELSE f[q - Len(old)]
        <5>1. q \in 1..Len(old) + n
          BY <4>0, <4>5
        <5> QED BY <1>9, <5>1
      <4>1. CASE k <= Len(old)
        <5>0. k \in 1..Len(old) /\ new[k] = old[k]
          BY <4>0, <4>5, <4>1
        <5>1. k \in 1..Len(old) /\ new[k] = old[k] /\ (k > 1 => new[k - 1] = old[k - 1])
          <6>1. ASSUME k > 1 PROVE new[k - 1] = old[k - 1]
            <7>1. k - 1 \in Int /\ 1 <= k - 1 /\ k - 1 <= k /\ k - 1 <= Len(old)
              BY <4>0, <4>1, <6>1
            <7> QED BY <4>5, <7>1
          <6> QED BY <5>0, <6>1
        <5>2. old[k].turn <= ttTurns[t]
          <6>1. old[k] \in SealedRecords
            BY <1>2, <5>1 DEF old
          <6> QED BY <1>2, <3>2, <5>1, <6>1 DEF SealedRecords
        <5> QED BY <3>2, <5>1, <5>2
      <4>2. CASE k > Len(old)
        <5> DEFINE j == k - Len(old)
        <5>1. j \in 1..n /\ new[k] = f[j] /\ k = evidenceSeq[t] + j
          BY <1>6, <1>9, <1>10, <4>2
        <5>2. f[j].id = k /\ f[j].turn = ttTurns[t] /\ f[j].call = ds[j]
          BY <1>7, <5>1
        <5>3. ASSUME k > 1 PROVE AskedLater(new[k - 1], f[j])
          <6>1. CASE j = 1
            <7>1. k - 1 = Len(old) /\ k - 1 \in 1..Len(old) /\ new[k - 1] = old[k - 1]
              <8>1. k - 1 = Len(old) /\ k - 1 \in Int /\ 1 <= k - 1 /\ k - 1 <= k
                BY <4>0, <5>3, <6>1
              <8> QED BY <4>0, <4>5, <8>1
            <7> QED BY <3>2, <5>2, <7>1 DEF AskedLater
          <6>2. CASE j > 1
            <7>1. k - 1 \in 1..Len(new) /\ new[k - 1] = f[j - 1] /\ j - 1 \in 1..n /\ j - 1 < j
              <8>1. k - 1 \in Int /\ 1 <= k - 1 /\ k - 1 <= k /\ ~ (k - 1 <= Len(old)) /\ k - 1 - Len(old) = j - 1
                BY <4>0, <6>2
              <8>2. new[k - 1] = f[j - 1]
                BY <4>5, <8>1
              <8>3. j - 1 \in 1..n /\ j - 1 < j
                BY <4>0, <5>1, <6>2
              <8> QED BY <4>0, <8>1, <8>2, <8>3
            <7>2. j \in 1..N /\ j - 1 \in 1..N
              BY <1>3, <1>6, <5>1, <7>1
            <7>3. ds[j - 1] < ds[j]
              BY <1>3, <7>1, <7>2
            <7> QED BY <1>7, <5>2, <7>1, <7>3 DEF AskedLater
          <6> QED BY <5>1, <6>1, <6>2
        <5> QED BY <1>2, <5>1, <5>2, <5>3
      <4> QED BY <1>9, <1>10, <4>1, <4>2
    <3>4. Len(new) = evidenceSeq'[t]
      BY <1>9, <1>10, <3>1
    <3>5. Numbered(t)'
      BY <3>1, <3>3, <3>4 DEF Numbered
    <3> QED BY <2>2, <2>4, <3>5
  <2> QED BY <2>2, <2>3, <2>4
<1> QED BY <1>11, <1>12, <1>13 DEF ToolInv

LEMMA ToolStart == ToolInit => ToolInv
PROOF
<1> SUFFICES ASSUME ToolInit PROVE ToolInv
  OBVIOUS
<1> DEFINE none == <<>>
<1>1. none \in Seq({Read, Finding}) /\ none \in Seq(SealedRecords) /\ Len(none) = 0
  OBVIOUS
<1>2. calls = [t \in Tasks |-> none] /\ records = [t \in Tasks |-> none]
  BY DEF ToolInit
<1> HIDE DEF none
<1>3. ToolTypes
  BY <1>1, <1>2, ToolAssumption DEF ToolInit, ToolTypes
<1>4. Counted(evidenceSeq) = {}
  BY DEF ToolInit, Counted
<1>5. LedgerCounts
  BY <1>4, FS_EmptySet DEF ToolInit, LedgerCounts, CountOf, Counted
<1>6. \A t \in Tasks : Numbered(t) /\ Budgeted(t)
  BY <1>1, <1>2, ToolAssumption DEF ToolInit, Numbered, Budgeted
<1> QED BY <1>3, <1>5, <1>6 DEF ToolInv

(* For any tasks, limits and lists of calls: a task's records are numbered *)
(* as they were asked for, the ledger counts them all and never more than  *)
(* its bound, and a task's reads stay within its budget (tools/index.ts,   *)
(* common.ts, registry.ts).                                                *)
THEOREM RecordsKept == ToolSpec => []RecordsAreKept
<1>1. ToolInv => RecordsAreKept
  <2> SUFFICES ASSUME ToolInv PROVE RecordsAreKept
    OBVIOUS
  <2>1. RecordsAreNumberedAsAsked
    <3>1. \A t \in Tasks : \A k \in 1..Len(records[t]) :
             records[t][k].id = k /\ (k > 1 => AskedLater(records[t][k - 1], records[t][k]))
      BY DEF ToolInv, Numbered
    <3>2. [t \in Tasks |-> Len(records[t])] = evidenceSeq
      BY DEF ToolInv, ToolTypes, Numbered
    <3>3. CountOf([t \in Tasks |-> Len(records[t])]) = evidenceCount
      BY <3>2 DEF ToolInv, LedgerCounts
    <3>4. evidenceCount <= MaxEvidence
      BY ToolAssumption DEF ToolInv, ToolTypes
    <3> QED BY <3>1, <3>3, <3>4 DEF RecordsAreNumberedAsAsked, AskedLater
  <2>2. ReadsWithinBudget
    BY DEF ToolInv, Budgeted, ReadsWithinBudget, MayRun
  <2> QED BY <2>1, <2>2 DEF RecordsAreKept
<1>2. ToolInv /\ [ToolNext]_ttvars => ToolInv'
  <2> SUFFICES ASSUME ToolInv, [ToolNext]_ttvars PROVE ToolInv'
    OBVIOUS
  <2>1. CASE Interrupt \/ UNCHANGED ttvars
    BY <2>1, SameRecords DEF Interrupt, ttvars
  <2>2. ASSUME NEW t \in Tasks, NEW cs \in CallLists, TurnBegins(t, cs) PROVE ToolInv'
    BY <2>2, TurnBeginsStep
  <2>3. ASSUME NEW t \in Tasks, TurnEnds(t) PROVE ToolInv'
    BY <2>3, TurnEndsStep
  <2>4. ASSUME NEW t \in Tasks, NEW i \in 1..PerTurn, NEW how \in {"evidence", "report", "error"}, CallEnds(t, i, how)
        PROVE  ToolInv'
    BY <2>4, SameRecords DEF CallEnds
  <2> QED BY <2>1, <2>2, <2>3, <2>4 DEF ToolNext
<1> QED BY <1>1, <1>2, ToolStart, PTL DEF ToolSpec

-----------------------------------------------------------------------------
(* The plan card's countdown.                                              *)
ClockTypes ==
    /\ serverTime \in Nat /\ offset \in Int /\ skew \in Int /\ cardExpiry \in Int
    /\ measured \in BOOLEAN

(* What is left of the two clocks' difference once it was measured: at     *)
(* most the floor one way, the floor, the way and a second the other.      *)
ClockInv == ClockTypes /\ (measured => -Margin < skew + offset /\ skew + offset <= SkewFloor)

LEMMA Divided ==
    ASSUME NEW a \in Int, NEW b \in Nat \ {0}
    PROVE  /\ a \div b \in Int /\ (a \div b) * b \in Int
           /\ (a \div b) * b <= a /\ a < (a \div b) * b + b
           /\ a \div b <= 0 <=> a < b
OBVIOUS

LEMMA ResponseStep ==
    ASSUME ClockInv, NEW d \in 0..MaxTransit, ResponseArrives(d)
    PROVE  ClockInv'
PROOF
<1>1. Second \in Nat \ {0} /\ SkewFloor \in Nat /\ MaxTransit \in Nat /\ PlanTTL \in Nat
  BY ClockAssumption
<1>2. ClockTypes /\ d \in Int /\ 0 <= d /\ d <= MaxTransit /\ Margin = SkewFloor + MaxTransit + Second
  BY <1>1 DEF ClockInv, Margin
<1>3. serverTime - d \in Int
  BY <1>2 DEF ClockTypes
<1>4. PICK h : h = ((serverTime - d) \div Second) * Second
  OBVIOUS
<1>5. h \in Int /\ h <= serverTime - d /\ serverTime - d < h + Second
  BY <1>1, <1>3, <1>4, Divided
<1>6. PICK s : s = h - (serverTime + offset)
  OBVIOUS
<1>7. s \in Int /\ -(MaxTransit + Second) < s + offset /\ s + offset <= 0
  BY <1>1, <1>2, <1>5, <1>6 DEF ClockTypes
<1>8. skew' = IF s < SkewFloor /\ -s < SkewFloor THEN 0 ELSE s
  BY <1>4, <1>6 DEF ResponseArrives, ClockSkew, BrowserTime
<1>9. -Margin < skew' + offset /\ skew' + offset <= SkewFloor /\ skew' \in Int
  BY <1>1, <1>2, <1>7, <1>8 DEF ClockTypes
<1>10. ClockTypes'
  <2>1. cardExpiry' \in Int /\ UNCHANGED <<serverTime, offset>>
    BY <1>1, <1>2, <1>3 DEF ResponseArrives, ClockTypes
  <2>2. measured' \in BOOLEAN
    BY DEF ResponseArrives
  <2> QED BY <1>2, <1>9, <2>1, <2>2 DEF ClockTypes
<1>11. Margin' = Margin /\ offset' = offset
  BY DEF Margin, ResponseArrives
<1> QED BY <1>9, <1>10, <1>11 DEF ClockInv

(* For clocks any way apart, a header of any resolution and any time on    *)
(* the way up to a bound: past the margin a glowing plan can be decided    *)
(* and an expired one cannot (countdown.ts).                               *)
THEOREM CardTells == ClockSpec => []CardAgrees
<1>1. ClockInit => ClockInv
  <2> SUFFICES ASSUME ClockInit PROVE ClockInv
    OBVIOUS
  <2>1. serverTime \in Nat /\ offset \in Int /\ skew \in Int /\ cardExpiry \in Int
    BY ClockAssumption DEF ClockInit
  <2>2. measured = FALSE
    BY DEF ClockInit
  <2> QED BY <2>1, <2>2 DEF ClockInv, ClockTypes
<1>2. ClockInv /\ [ClockNext]_clockvars => ClockInv'
  <2> SUFFICES ASSUME ClockInv, [ClockNext]_clockvars PROVE ClockInv'
    OBVIOUS
  <2>1. ASSUME NEW d \in 0..MaxTransit, ResponseArrives(d) PROVE ClockInv'
    BY <2>1, ResponseStep
  <2>2. CASE SecondPasses \/ UNCHANGED clockvars
    <3>1. UNCHANGED <<offset, skew, measured, cardExpiry>> /\ serverTime' \in Nat
      BY <2>2 DEF SecondPasses, clockvars, ClockInv, ClockTypes
    <3> QED BY <3>1 DEF ClockInv, ClockTypes, Margin
  <2> QED BY <2>1, <2>2 DEF ClockNext
<1>3. ClockInv => CardAgrees
  <2> SUFFICES ASSUME ClockInv, measured
               PROVE  /\ Glows => cardExpiry + Margin > serverTime
                      /\ Expired => serverTime >= cardExpiry - Margin
    BY DEF CardAgrees
  <2>1. Second \in Nat \ {0} /\ SkewFloor \in Nat /\ MaxTransit \in Nat /\ Margin = SkewFloor + MaxTransit + Second
    BY ClockAssumption DEF Margin
  <2>2. ClockTypes /\ -Margin < skew + offset /\ skew + offset <= SkewFloor
    BY DEF ClockInv
  <2>3. PICK a : a = cardExpiry - (serverTime + offset + skew)
    OBVIOUS
  <2>4. a \in Int
    BY <2>2, <2>3 DEF ClockTypes
  <2>5. a \div Second \in Int /\ (a \div Second <= 0 <=> a < Second)
    BY <2>1, <2>4, Divided
  <2>6. Expired <=> a < Second
    BY <2>3, <2>5 DEF Expired, SecondsLeft, BrowserTime
  <2>7. a < Second => serverTime >= cardExpiry - Margin
    BY <2>1, <2>2, <2>3 DEF ClockTypes
  <2>8. ~ (a < Second) => cardExpiry + Margin > serverTime
    BY <2>1, <2>2, <2>3 DEF ClockTypes
  <2> QED BY <2>6, <2>7, <2>8 DEF Glows
<1> QED BY <1>1, <1>2, <1>3, PTL DEF ClockSpec

-----------------------------------------------------------------------------
(* Readings on the page.  What is waiting, under way or held of a sensor   *)
(* is no newer than what the sensor last measured and got in.              *)
Measured == [sensor : LiveSensors, ts : Nat, quality : Qualities]
NotAhead(r) == r.ts <= spoke[r.sensor]
RdTypes ==
    /\ now \in Nat /\ spoke \in [LiveSensors -> Nat \cup {Null}]
    /\ listeningSince \in Nat \cup {Null}
    /\ pending \in Seq(Measured) /\ frames \in Seq(Seq(Measured))
    /\ \A s \in LiveSensors : readings[s].ts \in Nat \cup {Null} /\ readings[s].receivedAt \in Nat \cup {Null}
RdInv ==
    /\ RdTypes
    /\ \A i \in 1..Len(pending) : NotAhead(pending[i])
    /\ \A k \in 1..Len(frames) : \A i \in 1..Len(frames[k]) : NotAhead(frames[k][i])
    /\ \A s \in LiveSensors : readings[s].ts <= spoke[s]

(* The last of a sensor's readings in a batch, if it has any.              *)
LastAt(b, s) == LET I == {i \in 1..Len(b) : b[i].sensor = s} IN IF I # {} THEN Max(I) ELSE 0
LEMMA LastOfBatch ==
    ASSUME NEW b \in Seq(Measured), NEW s
    PROVE  \E i \in 0..Len(b) : /\ i = LastAt(b, s)
                                /\ i # 0 => b[i].sensor = s
PROOF
<1> DEFINE I == {i \in 1..Len(b) : b[i].sensor = s}
<1>1. LastAt(b, s) = IF I # {} THEN Max(I) ELSE 0
  BY DEF LastAt
<1>2. CASE I = {}
  <2>1. 0 \in 0..Len(b)
    OBVIOUS
  <2> QED BY <1>1, <1>2, <2>1
<1>3. CASE I # {}
  <2>1. PICK n \in Nat : n = Len(b)
    OBVIOUS
  <2> DEFINE J == {n - i : i \in I}
  <2>2. J \subseteq 0..n /\ J # {}
    BY <1>3, <2>1
  <2>3. PICK y \in J : \A z \in J : y <= z
    BY <2>2, MinExists
  <2>4. PICK i \in I : y = n - i
    OBVIOUS
  <2>5. \A k \in I : i >= k
    <3>1. \A k \in I : n - k \in J /\ k \in Int
      BY <2>1
    <3>2. \A k \in I : n - i <= n - k
      BY <2>3, <2>4, <3>1
    <3>3. i \in Int
      OBVIOUS
    <3> HIDE DEF I, J
    <3> QED BY <2>1, <3>1, <3>2, <3>3
  <2>6. Max(I) \in I
    <3> HIDE DEF I
    <3> QED BY <2>5 DEF Max
  <2>7. Max(I) \in 0..Len(b) /\ b[Max(I)].sensor = s
    BY <2>1, <2>6
  <2> HIDE DEF I
  <2> QED BY <1>1, <1>3, <2>7
<1> QED BY <1>2, <1>3

(* A batch that arrives: a sensor's reading is what was held or one of the *)
(* batch, whichever was measured later.                                    *)
LEMMA BatchArrives ==
    ASSUME RdInv, TelemetryBatch, NEW s \in LiveSensors
    PROVE  /\ readings'[s].ts >= readings[s].ts /\ readings'[s].ts <= spoke[s]
           /\ readings'[s].ts \in Nat \cup {Null} /\ readings'[s].receivedAt \in Nat \cup {Null}
PROOF
<1>1. PICK b : b = Head(frames) /\ b = frames[1] /\ 1 \in 1..Len(frames)
  BY DEF TelemetryBatch, RdInv, RdTypes
<1>2. b \in Seq(Measured) /\ \A i \in 1..Len(b) : NotAhead(b[i])
  BY <1>1 DEF RdInv, RdTypes
<1>3. PICK i \in 0..Len(b) : /\ i = LastAt(b, s)
                             /\ i # 0 => b[i].sensor = s
  BY <1>2, LastOfBatch
<1>4. readings'[s] = IF i = 0 THEN readings[s]
                     ELSE Newer(readings[s], [ts |-> b[i].ts, receivedAt |-> now, quality |-> b[i].quality])
  BY <1>1, <1>3 DEF TelemetryBatch, LastAt, SelectLastInSeq
<1>5. /\ readings[s].ts \in Nat \cup {Null} /\ readings[s].receivedAt \in Nat \cup {Null}
      /\ readings[s].ts <= spoke[s] /\ Null = -1 /\ spoke[s] \in Int
  BY DEF RdInv, RdTypes, Null
<1>6. CASE i = 0
  BY <1>4, <1>5, <1>6
<1>7. CASE i # 0
  <2>1. i \in 1..Len(b)
    BY <1>2, <1>7
  <2>2. b[i] \in Measured /\ b[i].ts <= spoke[s]
    BY <1>2, <1>3, <1>7, <2>1 DEF NotAhead
  <2>3. PICK n : n = [ts |-> b[i].ts, receivedAt |-> now, quality |-> b[i].quality]
    OBVIOUS
  <2>4. n.ts \in Nat /\ n.ts <= spoke[s] /\ n.receivedAt \in Nat
    BY <2>2, <2>3 DEF Measured, RdInv, RdTypes
  <2>5. PICK h : h = readings[s]
    OBVIOUS
  <2>6. readings'[s] = IF h # NoReading /\ h.ts > n.ts THEN h ELSE n
    BY <1>4, <1>7, <2>3, <2>5 DEF Newer
  <2>7. h = NoReading => h.ts = -1
    BY DEF NoReading, Null
  <2>8. CASE h # NoReading /\ h.ts > n.ts
    BY <1>5, <2>5, <2>6, <2>8
  <2>9. CASE ~ (h # NoReading /\ h.ts > n.ts)
    <3>1. readings'[s] = n
      BY <2>6, <2>9
    <3>2. n.ts >= h.ts
      BY <1>5, <2>4, <2>5, <2>7, <2>9
    <3> QED BY <2>4, <2>5, <3>1, <3>2
  <2> QED BY <2>8, <2>9
<1> QED BY <1>6, <1>7

LEMMA SpokeStep == RdInv /\ (\E s \in LiveSensors : \E ts \in 0..MaxNow, q \in Qualities : Publish(s, ts, q)) => RdInv'
PROOF
<1> SUFFICES ASSUME RdInv, NEW s \in LiveSensors, NEW ts \in 0..MaxNow, NEW q \in Qualities, Publish(s, ts, q)
             PROVE  RdInv'
  OBVIOUS
<1>1. RdTypes /\ ts \in Nat /\ spoke[s] \in Int
  BY ReadingsAssumption DEF RdInv, RdTypes, Null
<1>2. PICK m : m = LaterOf(spoke[s], ts)
  OBVIOUS
<1>3. m \in Nat /\ spoke[s] <= m /\ ts <= m
  BY <1>1, <1>2 DEF LaterOf, RdTypes, Null
<1>4. /\ spoke' = [spoke EXCEPT ![s] = m]
      /\ UNCHANGED <<now, frames, listeningSince, readings>>
  BY <1>2 DEF Publish
<1>5. /\ spoke' \in [LiveSensors -> Nat \cup {Null}]
      /\ \A u \in LiveSensors : spoke[u] \in Int /\ spoke'[u] \in Int /\ spoke[u] <= spoke'[u]
      /\ spoke'[s] = m
  BY <1>1, <1>3, <1>4 DEF RdTypes, Null
<1>6. \A r \in Measured : NotAhead(r) => r.ts <= spoke'[r.sensor]
  <2> SUFFICES ASSUME NEW r \in Measured, NotAhead(r) PROVE r.ts <= spoke'[r.sensor]
    OBVIOUS
  <2>1. PICK u \in LiveSensors : u = r.sensor
    BY DEF Measured
  <2>2. r.ts \in Nat /\ r.ts <= spoke[u] /\ spoke[u] <= spoke'[u] /\ spoke[u] \in Int /\ spoke'[u] \in Int
    BY <1>5, <2>1 DEF Measured, NotAhead
  <2> QED BY <2>1, <2>2
<1>7. PICK n : n = [sensor |-> s, ts |-> ts, quality |-> q]
  OBVIOUS
<1>8. n \in Measured /\ n.ts <= spoke'[n.sensor]
  BY <1>1, <1>3, <1>5, <1>7 DEF Measured
<1>9. pending' = pending \/ pending' = Append(pending, n)
  BY <1>7 DEF Publish
<1>10. pending' \in Seq(Measured) /\ \A i \in 1..Len(pending') : pending'[i].ts <= spoke'[pending'[i].sensor]
  <2>1. pending \in Seq(Measured) /\ \A i \in 1..Len(pending) : pending[i] \in Measured /\ NotAhead(pending[i])
    BY <1>1 DEF RdTypes, RdInv
  <2>2. \A i \in 1..Len(pending) : pending[i].ts <= spoke'[pending[i].sensor]
    BY <1>6, <2>1
  <2>3. CASE pending' = pending
    BY <2>1, <2>2, <2>3
  <2>4. CASE pending' = Append(pending, n)
    <3>1. PICK p : p = pending' /\ p = Append(pending, n)
      BY <2>4
    <3>2. p \in Seq(Measured) /\ \A i \in 1..Len(p) : p[i] = n \/ (i \in 1..Len(pending) /\ p[i] = pending[i])
      BY <1>8, <2>1, <3>1
    <3>3. \A i \in 1..Len(p) : p[i].ts <= spoke'[p[i].sensor]
      BY <1>8, <2>2, <3>2
    <3> QED BY <3>1, <3>2, <3>3
  <2> QED BY <1>9, <2>3, <2>4
<1>11. \A k \in 1..Len(frames) : \A i \in 1..Len(frames[k]) : frames[k][i].ts <= spoke'[frames[k][i].sensor]
  <2> TAKE k \in 1..Len(frames)
  <2> TAKE i \in 1..Len(frames[k])
  <2>1. frames[k] \in Seq(Measured)
    BY <1>1 DEF RdTypes
  <2>2. frames[k][i] \in Measured /\ NotAhead(frames[k][i])
    BY <2>1 DEF RdInv
  <2> QED BY <1>6, <2>2
<1>12. \A u \in LiveSensors : readings[u].ts <= spoke'[u]
  <2> TAKE u \in LiveSensors
  <2>1. readings[u].ts \in Int /\ readings[u].ts <= spoke[u]
    BY <1>1 DEF RdTypes, RdInv, Null
  <2> QED BY <1>5, <2>1
<1>13. RdTypes'
  BY <1>1, <1>4, <1>5, <1>10 DEF RdTypes
<1> QED BY <1>4, <1>10, <1>11, <1>12, <1>13 DEF RdInv, NotAhead

LEMMA RdStep == RdInv /\ [RdNext]_rdvars => RdInv'
PROOF
<1> SUFFICES ASSUME RdInv, [RdNext]_rdvars PROVE RdInv'
  OBVIOUS
<1>1. RdTypes /\ pending \in Seq(Measured) /\ frames \in Seq(Seq(Measured)) /\ Len(frames) \in Nat
  BY DEF RdInv, RdTypes
<1>2. ASSUME UNCHANGED <<spoke, readings>>, now' \in Nat, listeningSince' \in Nat \cup {Null},
             pending' = pending \/ pending' = <<>>,
             frames' = frames \/ frames' = <<>> \/ frames' = Append(frames, pending)
      PROVE  RdInv'
  <2> DEFINE none == <<>>
  <2>0. none \in Seq(Measured) /\ none \in Seq(Seq(Measured)) /\ Len(none) = 0
    OBVIOUS
  <2> HIDE DEF none
  <2>1. pending' \in Seq(Measured) /\ \A i \in 1..Len(pending') : NotAhead(pending'[i])
    <3>1. CASE pending' = pending
      BY <1>1, <3>1 DEF RdInv
    <3>2. CASE pending' = none
      BY <2>0, <3>2
    <3> QED BY <1>2, <3>1, <3>2 DEF none
  <2>2. frames' \in Seq(Seq(Measured)) /\ \A k \in 1..Len(frames') : \A i \in 1..Len(frames'[k]) : NotAhead(frames'[k][i])
    <3>1. CASE frames' = frames
      BY <1>1, <3>1 DEF RdInv
    <3>3. CASE frames' = none
      BY <2>0, <3>3
    <3>2. CASE frames' = Append(frames, pending)
      <4>1. PICK f : f = frames' /\ f = Append(frames, pending)
        BY <3>2
      <4>2. f \in Seq(Seq(Measured)) /\ \A k \in 1..Len(f) : f[k] = pending \/ (k \in 1..Len(frames) /\ f[k] = frames[k])
        BY <1>1, <4>1
      <4>3. \A k \in 1..Len(f) : \A i \in 1..Len(f[k]) : NotAhead(f[k][i])
        BY <4>2 DEF RdInv
      <4> QED BY <4>1, <4>2, <4>3
    <3> QED BY <1>2, <3>1, <3>2, <3>3 DEF none
  <2>3. RdTypes'
    BY <1>1, <1>2, <2>1, <2>2 DEF RdTypes
  <2> QED BY <1>2, <2>1, <2>2, <2>3 DEF RdInv, NotAhead
<1>3. ASSUME NEW b \in BOOLEAN, FanoutTick(b) PROVE RdInv'
  BY <1>1, <1>2, <1>3 DEF FanoutTick, RdTypes
<1>4. ASSUME NEW f, SetFocusedFloor(f) PROVE RdInv'
  BY <1>1, <1>2, <1>4 DEF SetFocusedFloor, RdTypes
<1>5. CASE TelemetryBatch
  <2>1. PICK f : f = frames' /\ f = Tail(frames)
    BY <1>5 DEF TelemetryBatch
  <2>2. UNCHANGED <<now, spoke, pending, listeningSince>> /\ frames # <<>>
    BY <1>5 DEF TelemetryBatch
  <2>3. f \in Seq(Seq(Measured)) /\ \A k \in 1..Len(f) : k + 1 \in 1..Len(frames) /\ f[k] = frames[k + 1]
    BY <1>1, <2>1, <2>2
  <2>4. \A k \in 1..Len(f) : \A i \in 1..Len(f[k]) : NotAhead(f[k][i])
    BY <2>3 DEF RdInv
  <2>5. \A s \in LiveSensors : /\ readings'[s].ts <= spoke[s]
                               /\ readings'[s].ts \in Nat \cup {Null} /\ readings'[s].receivedAt \in Nat \cup {Null}
    BY <1>5, BatchArrives
  <2>6. RdTypes'
    BY <1>1, <2>1, <2>2, <2>3, <2>5 DEF RdTypes
  <2> QED BY <2>1, <2>2, <2>4, <2>5, <2>6 DEF RdInv, NotAhead
<1>6. CASE Listening \/ ConnectionLost \/ StrayClose \/ PageClock \/ UNCHANGED rdvars
  <2>1. /\ UNCHANGED <<spoke, readings, pending>> /\ (frames' = frames \/ frames' = <<>>)
        /\ now' \in Nat /\ listeningSince' \in Nat \cup {Null}
    BY <1>1, <1>6 DEF Listening, ConnectionLost, StrayClose, PageClock, rdvars, RdTypes
  <2> QED BY <1>2, <2>1
<1> QED BY <1>3, <1>4, <1>5, <1>6, SpokeStep DEF RdNext

(* A point that has gone quiet is stale, whatever is held of it.           *)
LEMMA QuietIsStale ==
    ASSUME RdInv, NEW s \in LiveSensors, listeningSince # Null, InTopic(s),
           now - LaterOf(spoke[s], listeningSince) > STALE_INTERVALS
    PROVE  /\ IsStale(readings[s], listeningSince)
           /\ now - listeningSince > STALE_INTERVALS
PROOF
<1> DEFINE t == readings[s].ts
           a == readings[s].receivedAt
           begun == listeningSince
           spoken == spoke[s]
<1>1. /\ t \in Int /\ a \in Int /\ begun \in Int /\ spoken \in Int /\ now \in Int
      /\ t <= spoken /\ STALE_INTERVALS \in Nat
  BY ReadingsAssumption DEF RdInv, RdTypes, Null
<1> HIDE DEF t, a, begun, spoken
<1>2. now - LaterOf(spoken, begun) > STALE_INTERVALS
  BY DEF spoken, begun
<1>3. LaterOf(EarlierOf(t, a), begun) <= LaterOf(spoken, begun)
  <2>1. EarlierOf(t, a) \in Int /\ EarlierOf(t, a) <= spoken
    BY <1>1 DEF EarlierOf
  <2> QED BY <1>1, <2>1 DEF LaterOf
<1>4. LaterOf(EarlierOf(t, a), begun) \in Int /\ LaterOf(spoken, begun) \in Int /\ begun <= LaterOf(spoken, begun)
  BY <1>1 DEF LaterOf, EarlierOf
<1>5. now - LaterOf(EarlierOf(t, a), begun) > STALE_INTERVALS /\ now - begun > STALE_INTERVALS
  BY <1>1, <1>2, <1>3, <1>4
<1>6. LaterOf(0, now - LaterOf(EarlierOf(t, a), begun)) > STALE_INTERVALS
  BY <1>1, <1>4, <1>5 DEF LaterOf
<1> QED BY <1>5, <1>6 DEF IsStale, ReadingAge, t, a, begun

LEMMA QuietIsGrey == RdInv => DeadMeterLeaves /\ DeadZoneIsGrey
PROOF
<1> SUFFICES ASSUME RdInv, NEW s \in LiveSensors, listeningSince # Null, InTopic(s),
                    now - LaterOf(spoke[s], listeningSince) > STALE_INTERVALS
             PROVE  s \notin Metered /\ Drawn(s) = "stale"
  BY DEF DeadMeterLeaves, DeadZoneIsGrey
<1>1. IsStale(readings[s], listeningSince) /\ now - listeningSince > STALE_INTERVALS
  BY QuietIsStale
<1>2. s \notin Metered
  BY <1>1 DEF Metered, ReducePower
<1>3. ReduceZone(s, listeningSince) \in {"stale", "silent"}
  BY <1>1 DEF ReduceZone
<1>4. ZoneSince(s) = listeningSince
  BY DEF ZoneSince
<1>5. Drawn(s) = ZoneSource(ReduceZone(s, listeningSince), TRUE)
  BY <1>4 DEF Drawn
<1>6. \A point \in {"stale", "silent"} : ZoneSource(point, TRUE) = "stale"
  BY DEF ZoneSource
<1> QED BY <1>2, <1>3, <1>5, <1>6

(***************************************************************************)
(* For any sensors, floors, thresholds and lateness, however the page      *)
(* changes its floor, loses its socket and is told by an old one that it   *)
(* closed: a meter that measured nothing for longer than its threshold is  *)
(* out of the total, a zone whose point stopped is grey, and a late frame  *)
(* never takes a point back (reducePower, reduceZone and newer in live.ts).*)
(***************************************************************************)
THEOREM ReadingsCurrent == RdSpec => ReadingsAreCurrent
PROOF
<1>1. RdInit => RdInv
  <2> SUFFICES ASSUME RdInit PROVE RdInv
    OBVIOUS
  <2> DEFINE none == <<>>
  <2>1. none \in Seq(Measured) /\ none \in Seq(Seq(Measured)) /\ Len(none) = 0 /\ pending = none /\ frames = none
    BY DEF RdInit
  <2> HIDE DEF none
  <2>2. RdTypes
    BY <2>1 DEF RdInit, RdTypes, NoReading
  <2>3. \A s \in LiveSensors : readings[s].ts <= spoke[s]
    BY DEF RdInit, NoReading, Null
  <2> QED BY <2>1, <2>2, <2>3 DEF RdInv
<1>2. RdInv /\ [RdNext]_rdvars => RdInv'
  BY RdStep
<1>3. RdInv => DeadMeterLeaves /\ DeadZoneIsGrey
  BY QuietIsGrey
<1>4. RdInv /\ [RdNext]_rdvars => [\A s \in LiveSensors : readings'[s].ts >= readings[s].ts]_rdvars
  <2> SUFFICES ASSUME RdInv, RdNext, NEW s \in LiveSensors PROVE readings'[s].ts >= readings[s].ts
    OBVIOUS
  <2>1. CASE TelemetryBatch
    BY <2>1, BatchArrives
  <2>2. CASE ~ TelemetryBatch
    <3>1. readings' = readings
      BY <2>2 DEF RdNext, Publish, FanoutTick, SetFocusedFloor, Listening, ConnectionLost, StrayClose, PageClock
    <3>2. readings[s].ts \in Int
      BY DEF RdInv, RdTypes, Null
    <3> QED BY <3>1, <3>2
  <2> QED BY <2>1, <2>2
<1> QED BY <1>1, <1>2, <1>3, <1>4, PTL DEF RdSpec, ReadingsAreCurrent, HeldNeverOlder
=============================================================================
