------------------------------ MODULE ToolTurn ------------------------------
(***************************************************************************)
(* The tool calls of specialist tasks that run side by side on one         *)
(* request.  A turn's calls start together and finish in any order; when   *)
(* the last is in, their records are numbered in the order they were asked *)
(* for, each claiming a place in the request's ledger that the tasks       *)
(* share.  Stop or the deadline may come while reads are out.              *)
(***************************************************************************)
EXTENDS Integers, Sequences, FiniteSets

CONSTANTS
    Tasks,
    PerTurn, PerTask,   \* limits.maxToolCallsPerTurn, maxToolCallsPerTask
    MaxEvidence,        \* limits.maxEvidencePerRequest
    MaxTurns,           \* bound: turns of a task
    CallLists           \* the lists of calls a model may send

Read == "read"
Finding == "report_finding"
Waiting == "waiting"

VARIABLES
    interrupted,    \* the request was stopped or passed its deadline
    evidenceCount,  \* RunRegistry's count of the request
    calls,          \* task -> the calls of its turn in hand
    outcome,        \* task -> what became of each
    toolCalls, evidenceSeq,   \* task -> its sum channels
    ttTurns,        \* task -> turns taken
    records,        \* task -> its records, in order of sealing: id, and when its call was asked
    readsRun        \* task -> reads that really ran

ASSUME ToolAssumption ==
    /\ PerTurn \in Nat /\ PerTask \in Nat /\ MaxEvidence \in Nat
    /\ CallLists \subseteq Seq({Read, Finding})

ttvars == <<interrupted, evidenceCount, calls, outcome, toolCalls, evidenceSeq, ttTurns, records, readsRun>>

ToolInit ==
    /\ interrupted = FALSE /\ evidenceCount = 0
    /\ calls = [t \in Tasks |-> <<>>] /\ outcome = [t \in Tasks |-> <<>>]
    /\ toolCalls = [t \in Tasks |-> 0] /\ evidenceSeq = [t \in Tasks |-> 0] /\ ttTurns = [t \in Tasks |-> 0]
    /\ records = [t \in Tasks |-> <<>>] /\ readsRun = [t \in Tasks |-> 0]

----------------------------------------------------------------------------
\* How many of the first i calls spend the task's budget.
Spends(cs, i) == Cardinality({j \in 1..i : cs[j] # Finding})
\* runSpecialistTools: past a bound a call is answered at once.
MayRun(t, cs, i) ==
    /\ i <= PerTurn
    /\ cs[i] # Finding => Spends(cs, i) <= PerTask - toolCalls[t]

\* execute, before anything is awaited: past Stop or the deadline only a finding is taken.
Refused(call) == interrupted /\ call # Finding

TurnBegins(t, cs) ==
    /\ calls[t] = <<>> /\ ttTurns[t] < MaxTurns
    /\ calls' = [calls EXCEPT ![t] = cs]
    /\ outcome' = [outcome EXCEPT ![t] = [i \in DOMAIN cs |-> IF MayRun(t, cs, i) /\ ~Refused(cs[i]) THEN Waiting ELSE "error"]]
    /\ toolCalls' = [toolCalls EXCEPT ![t] = @ + Cardinality({i \in DOMAIN cs : MayRun(t, cs, i)})]
    /\ readsRun' = [readsRun EXCEPT ![t] = @ + Cardinality({i \in DOMAIN cs : cs[i] = Read /\ MayRun(t, cs, i)})]
    /\ ttTurns' = [ttTurns EXCEPT ![t] = @ + 1]
    /\ UNCHANGED <<interrupted, evidenceCount, evidenceSeq, records>>

\* execute: a read is a draft, or is refused, fails or is too large; a
\* finding is recorded or refused.
CallEnds(t, i, how) ==
    /\ i \in DOMAIN calls[t] /\ outcome[t][i] = Waiting
    /\ how = "evidence" => calls[t][i] = Read
    /\ how = "report" => calls[t][i] = Finding
    /\ outcome' = [outcome EXCEPT ![t][i] = how]
    /\ UNCHANGED <<interrupted, evidenceCount, calls, toolCalls, evidenceSeq, ttTurns, records, readsRun>>

Interrupt ==
    /\ ~interrupted
    /\ interrupted' = TRUE
    /\ UNCHANGED <<evidenceCount, calls, outcome, toolCalls, evidenceSeq, ttTurns, records, readsRun>>

\* The drafts of a turn, in the order asked; those the ledger has room for.
InOrder(d) == CHOOSE s \in [1..Cardinality(d) -> d] : \A j, k \in 1..Cardinality(d) : j < k => s[j] < s[k]
Drafts(t) == InOrder({i \in DOMAIN calls[t] : outcome[t][i] = "evidence"})
ClaimsAnyway(n) == n
\* claimEvidence, n times: how many succeed.
Claimed(n) == IF n <= MaxEvidence - evidenceCount THEN n ELSE MaxEvidence - evidenceCount
\* The allocator numbers on from what the task numbered in earlier turns.
NumbersAfresh(t, k) == k
EvidenceId(t, k) == evidenceSeq[t] + k
TurnEnds(t) ==
    /\ calls[t] # <<>> /\ \A i \in DOMAIN calls[t] : outcome[t][i] # Waiting
    /\ LET ds == Drafts(t)
           n  == Claimed(Len(ds))
       IN  /\ records' = [records EXCEPT ![t] =
                             @ \o [k \in 1..n |-> [id |-> EvidenceId(t, k), turn |-> ttTurns[t], call |-> ds[k]]]]
           /\ evidenceCount' = evidenceCount + n
           /\ evidenceSeq' = [evidenceSeq EXCEPT ![t] = @ + n]
    /\ calls' = [calls EXCEPT ![t] = <<>>] /\ outcome' = [outcome EXCEPT ![t] = <<>>]
    /\ UNCHANGED <<interrupted, toolCalls, ttTurns, readsRun>>

ToolNext ==
    \/ Interrupt
    \/ \E t \in Tasks :
        \/ \E cs \in CallLists : TurnBegins(t, cs)
        \/ TurnEnds(t)
        \/ \E i \in 1..PerTurn, how \in {"evidence", "report", "error"} : CallEnds(t, i, how)

ToolSpec == ToolInit /\ [][ToolNext]_ttvars

----------------------------------------------------------------------------
CountOf(f) == Cardinality(UNION {{t} \X (1..f[t]) : t \in DOMAIN f})
(***************************************************************************)
(* Whatever order the reads of a turn come back in and however the tasks   *)
(* interleave, a task's records are numbered 1, 2, 3 ... over its turns in *)
(* the order the model asked, none twice and no gap where a call was       *)
(* refused, and the records of all tasks are what the ledger counts, never *)
(* more than its bound.                                                    *)
(***************************************************************************)
RecordsAreNumberedAsAsked ==
    /\ \A t \in Tasks : \A k \in 1..Len(records[t]) :
          /\ records[t][k].id = k
          /\ k > 1 => \/ records[t][k - 1].turn < records[t][k].turn
                      \/ records[t][k - 1].turn = records[t][k].turn /\ records[t][k - 1].call < records[t][k].call
    /\ CountOf([t \in Tasks |-> Len(records[t])]) = evidenceCount
    /\ evidenceCount <= MaxEvidence
(***************************************************************************)
(* A task's reads never pass its budget, over all its turns, and a turn    *)
(* waiting on nothing can always be closed: a finding is never refused     *)
(* because the budget is spent.                                            *)
(***************************************************************************)
ReadsWithinBudget ==
    \A t \in Tasks :
        /\ readsRun[t] <= PerTask
        /\ \A i \in DOMAIN calls[t] : i <= PerTurn /\ calls[t][i] = Finding => MayRun(t, calls[t], i)

(* What a task's records are worth to the answer that cites them           *)
(* (tools/index.ts).                                                       *)
RecordsAreKept == RecordsAreNumberedAsAsked /\ ReadsWithinBudget
=============================================================================
