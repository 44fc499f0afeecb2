------------------------------- MODULE DbPool -------------------------------
(***************************************************************************)
(* The database client (packages/db/src/client.ts): a pool of connections, *)
(* withTenant (a transaction whose first statement sets the tenant for the *)
(* transaction only), withoutTenant, and the row-level security policies   *)
(* that read the setting (migrations/007_tenancy.sql).  A connection       *)
(* serves the statements queued on it in order; resolveApiKey leaves one   *)
(* queued when it gives its connection back (auth.ts).                     *)
(***************************************************************************)
EXTENDS Integers, Sequences, FiniteSets, SequencesExt

CONSTANTS PoolConns,  \* PGPOOL_MAX connections
          Jobs,       \* concurrent callers
          JobTenant,  \* the tenant each works for, "none" for withoutTenant
          JobReadOnly \* opts.readOnly of each

\* withoutTenant takes no options.
ASSUME PoolAssumption ==
    /\ 0 \notin PoolConns
    /\ JobReadOnly \in [Jobs -> BOOLEAN]
    /\ \A j \in Jobs : JobReadOnly[j] => JobTenant[j] # "none"

VARIABLES
    conns,   \* per connection: transaction-local and session-level tenant, mode, statements queued
    job,     \* per caller: its step and its connection
    seen,    \* per caller: the tenants its statements ran under
    wrote    \* per caller: a write of it took effect

poolvars == <<conns, job, seen, wrote>>

Outside == [local |-> "none", session |-> "none", tx |-> "none", queue |-> <<>>]
CurrentTenant(c) == IF conns[c].local # "none" THEN conns[c].local ELSE conns[c].session
Free(c) == \A j \in Jobs : job[j].conn # c
Scoped(j) == JobTenant[j] # "none"
Issue(j, what) == conns' = [conns EXCEPT ![job[j].conn].queue = Append(@, [job |-> j, what |-> what])]
Waiting(j) == \E i \in DOMAIN conns[job[j].conn].queue : conns[job[j].conn].queue[i].job = j
-----------------------------------------------------------------------------
(* getPool().connect(); withTenant then begins and sets the scope.         *)
Connect(j, c) ==
    /\ job[j].step = "start" /\ Free(c)
    /\ job' = [job EXCEPT ![j] = [step |-> IF Scoped(j) THEN "begin" ELSE "work", conn |-> c]]
    /\ UNCHANGED <<conns, seen, wrote>>

BeginTransaction(j) ==
    /\ job[j].step = "begin"
    /\ Issue(j, "begin")
    /\ job' = [job EXCEPT ![j].step = "scope"]
    /\ UNCHANGED <<seen, wrote>>

SetScope(j) ==
    /\ job[j].step = "scope" /\ ~Waiting(j)
    /\ Issue(j, "set_config")
    /\ job' = [job EXCEPT ![j].step = "work"]
    /\ UNCHANGED <<seen, wrote>>

(* fn(client): a statement of the caller's, awaited.                       *)
Work(j, what) ==
    /\ job[j].step = "work" /\ ~Waiting(j)
    /\ what \in {"read", "write"} /\ Issue(j, what)
    /\ job' = [job EXCEPT ![j].step = "done"]
    /\ UNCHANGED <<seen, wrote>>

(* COMMIT, or ROLLBACK when the work threw.                                *)
EndTransaction(j, how) ==
    /\ job[j].step = "done" /\ Scoped(j) /\ ~Waiting(j)
    /\ how \in {"commit", "rollback"} /\ Issue(j, how)
    /\ job' = [job EXCEPT ![j].step = "release"]
    /\ UNCHANGED <<seen, wrote>>

(* client.release(); an unscoped caller may leave a statement unanswered.  *)
Release(j) ==
    /\ \/ job[j].step = "release" /\ ~Waiting(j)
       \/ job[j].step = "done" /\ ~Scoped(j)
    /\ job' = [job EXCEPT ![j] = [step |-> "over", conn |-> 0]]
    /\ UNCHANGED <<conns, seen, wrote>>

(* What the server does with a statement.                                  *)
SetsForTheSession(c, m) ==
    CASE m.what = "begin" -> [conns[c] EXCEPT !.tx = IF JobReadOnly[m.job] THEN "ro" ELSE "rw"]
      [] m.what = "set_config" -> [conns[c] EXCEPT !.session = JobTenant[m.job]]
      [] m.what \in {"commit", "rollback"} -> [conns[c] EXCEPT !.tx = "none"]
      [] OTHER -> conns[c]

Serve(c, m) ==
    CASE m.what = "begin" -> [conns[c] EXCEPT !.tx = IF JobReadOnly[m.job] THEN "ro" ELSE "rw"]
      [] m.what = "set_config" -> [conns[c] EXCEPT !.local = JobTenant[m.job]]
      [] m.what \in {"commit", "rollback"} -> [conns[c] EXCEPT !.tx = "none", !.local = "none"]
      [] OTHER -> conns[c]

ServeStatement(c) ==
    /\ conns[c].queue # <<>>
    /\ LET m == Head(conns[c].queue)
       IN  /\ conns' = [conns EXCEPT ![c] = [Serve(c, m) EXCEPT !.queue = Tail(@)]]
           /\ seen' = IF m.what \in {"read", "write"}
                      THEN [seen EXCEPT ![m.job] = @ \cup {CurrentTenant(c)}] ELSE seen
           /\ wrote' = IF m.what = "write" /\ conns[c].tx # "ro" THEN [wrote EXCEPT ![m.job] = TRUE] ELSE wrote
    /\ UNCHANGED job

PoolInit ==
    /\ conns = [c \in PoolConns |-> Outside]
    /\ job = [j \in Jobs |-> [step |-> "start", conn |-> 0]]
    /\ seen = [j \in Jobs |-> {}] /\ wrote = [j \in Jobs |-> FALSE]

PoolNext ==
    \/ \E j \in Jobs : \/ \E c \in PoolConns : Connect(j, c)
                       \/ BeginTransaction(j) \/ SetScope(j) \/ Release(j)
                       \/ \E w \in {"read", "write"} : Work(j, w)
                       \/ \E h \in {"commit", "rollback"} : EndTransaction(j, h)
    \/ \E c \in PoolConns : ServeStatement(c)

PoolSpec == PoolInit /\ [][PoolNext]_poolvars
-----------------------------------------------------------------------------
(* Every statement runs under its own caller's tenant and no other: the    *)
(* scope ends with the transaction, so no connection carries one to the    *)
(* next caller, an unscoped one above all, and a statement left queued at  *)
(* release runs before the next caller's BEGIN.                            *)
ScopeIsOwn == \A j \in Jobs : seen[j] \subseteq {JobTenant[j]}

(* A reader cannot write, whichever connection it is given.                *)
ReadersNeverWrite == \A j \in Jobs : JobReadOnly[j] => ~wrote[j]

(* A pooled connection serves each job as its own tenant and with its own  *)
(* rights, whoever had it before (client.ts).                              *)
ScopesHold == ScopeIsOwn /\ ReadersNeverWrite
=============================================================================
