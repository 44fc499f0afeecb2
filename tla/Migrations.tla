----------------------------- MODULE Migrations -----------------------------
(***************************************************************************)
(* The numbered-file migration runner (packages/db/src/migrate.ts): files  *)
(* in order, each in one transaction with its record, except the ones that *)
(* cannot run in a transaction, whose statements are executed one by one   *)
(* and retried on a transient catalogue conflict, and the demo seed, which *)
(* is recorded as skipped unless asked for.  A run may crash anywhere and  *)
(* the next deployment starts another, one run at a time.                  *)
(***************************************************************************)
EXTENDS Integers, Sequences, FiniteSets

CONSTANTS
    Files,         \* loadMigrations: per file its kind, "tx", "noTx" or "seed", and its statements
    MaxAttempts,   \* attempts at one statement: 4
    MaxMigrations  \* bound on runs

(* There are files; one outside a transaction may hold any statements.     *)
ASSUME MigrationsAssumption ==
    /\ Files \in Seq([kind : {"tx", "noTx", "seed"}, statements : Nat])
    /\ Files # <<>>

VARIABLES
    recorded,   \* schema_migrations: per file "none", "applied" or "skipped"
    executed,   \* per file, how often each of its statements took effect
    file,       \* the file the run is at, 0 when no run is active
    stmt,       \* the next statement of a file run outside a transaction
    attempt,
    seedDemo,   \* DTWIN_SEED_DEMO of this run
    broken,     \* a run failed part-way through a file outside a transaction
    runsDone

migvars == <<recorded, executed, file, stmt, attempt, seedDemo, broken, runsDone>>

Kind(f) == Files[f].kind
Statements(f) == 1..Files[f].statements
Pending(f) == recorded[f] = "none"
-----------------------------------------------------------------------------
(* main(): a run reads what is recorded and starts at the first file.      *)
StartRun(seed) ==
    /\ file = 0 /\ runsDone < MaxMigrations
    /\ file' = 1 /\ stmt' = 1 /\ attempt' = 1 /\ seedDemo' = seed
    /\ UNCHANGED <<recorded, executed, broken, runsDone>>

Advance ==
    /\ file' = (IF file = Len(Files) THEN 0 ELSE file + 1)
    /\ runsDone' = (IF file = Len(Files) THEN runsDone + 1 ELSE runsDone)
    /\ stmt' = 1 /\ attempt' = 1

(* Recorded already: skipped, applied or edited since, it is passed over.  *)
PassOver ==
    /\ file # 0 /\ ~Pending(file)
    /\ Advance
    /\ UNCHANGED <<recorded, executed, seedDemo, broken>>

RecordSkipped ==
    /\ file # 0 /\ Pending(file) /\ Kind(file) = "seed" /\ ~seedDemo
    /\ recorded' = [recorded EXCEPT ![file] = "skipped"]
    /\ Advance
    /\ UNCHANGED <<executed, seedDemo, broken>>

(* applyOne, in a transaction: the file and its record commit together.    *)
ApplyInTransaction ==
    /\ file # 0 /\ Pending(file)
    /\ Kind(file) = "tx" \/ (Kind(file) = "seed" /\ seedDemo)
    /\ executed' = [executed EXCEPT ![file] = [s \in Statements(file) |-> @[s] + 1]]
    /\ recorded' = [recorded EXCEPT ![file] = "applied"]
    /\ Advance
    /\ UNCHANGED <<seedDemo, broken>>

(* applyOne, statement by statement.                                       *)
AtStatement == file # 0 /\ Pending(file) /\ Kind(file) = "noTx" /\ stmt \in Statements(file)

ExecuteStatement ==
    /\ AtStatement
    /\ executed' = [executed EXCEPT ![file][stmt] = @ + 1]
    /\ stmt' = stmt + 1 /\ attempt' = 1
    /\ UNCHANGED <<recorded, file, seedDemo, broken, runsDone>>

(* A transient error: the statement did not take effect and is retried.    *)
RetryStatement ==
    /\ AtStatement /\ attempt < MaxAttempts
    /\ attempt' = attempt + 1
    /\ UNCHANGED <<recorded, executed, file, stmt, seedDemo, broken, runsDone>>

RecordsEarly ==
    /\ file # 0 /\ Pending(file) /\ Kind(file) = "noTx"
    /\ recorded' = [recorded EXCEPT ![file] = "applied"]
    /\ Advance
    /\ UNCHANGED <<executed, seedDemo, broken>>

RecordApplied ==
    /\ file # 0 /\ Pending(file) /\ Kind(file) = "noTx" /\ stmt = Files[file].statements + 1
    /\ recorded' = [recorded EXCEPT ![file] = "applied"]
    /\ Advance
    /\ UNCHANGED <<executed, seedDemo, broken>>

(* A run ends early: the error of a statement (permanent, or transient for *)
(* the last time), a rolled-back file, or the process dying where it is.   *)
MigrationFails ==
    /\ file # 0
    /\ broken' = (broken \/ (Kind(file) = "noTx" /\ Pending(file) /\ stmt > 1))
    /\ file' = 0 /\ runsDone' = runsDone + 1
    /\ UNCHANGED <<recorded, executed, stmt, attempt, seedDemo>>

MigInit ==
    /\ recorded = [f \in DOMAIN Files |-> "none"]
    /\ executed = [f \in DOMAIN Files |-> [s \in Statements(f) |-> 0]]
    /\ file = 0 /\ stmt = 1 /\ attempt = 1 /\ seedDemo = FALSE /\ broken = FALSE /\ runsDone = 0

MigNext ==
    \/ \E b \in BOOLEAN : StartRun(b)
    \/ PassOver \/ RecordSkipped \/ ApplyInTransaction
    \/ ExecuteStatement \/ RetryStatement \/ RecordApplied \/ MigrationFails

MigSpec == MigInit /\ [][MigNext]_migvars
-----------------------------------------------------------------------------
(* The record tells the truth across crashes: an applied file has had all  *)
(* its statements take effect, a skipped or pending one none unless a run  *)
(* broke inside it, and the files take effect in order.                    *)
RecordIsTrue ==
    \A f \in DOMAIN Files :
        /\ recorded[f] = "applied" => \A s \in Statements(f) : executed[f][s] > 0
        /\ recorded[f] = "skipped" => \A s \in Statements(f) : executed[f][s] = 0
        /\ \A s \in Statements(f) : executed[f][s] > 0 =>
              \A g \in DOMAIN Files : g < f => recorded[g] # "none"

(* No statement takes effect twice, unless a run broke part-way through a  *)
(* file outside a transaction: that is the case whose error tells the      *)
(* operator to drop the database rather than to re-run.                    *)
OnceUnlessBroken ==
    ~broken => \A f \in DOMAIN Files : \A s \in Statements(f) : executed[f][s] <= 1

(* The record of applied files is what happened to the schema, and nothing *)
(* happens to it twice (migrate.ts).                                       *)
MigrationsAreTrue == RecordIsTrue /\ OnceUnlessBroken
=============================================================================
