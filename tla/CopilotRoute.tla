---------------------------- MODULE CopilotRoute ----------------------------
(***************************************************************************)
(* What a web process holds for the people who use the copilot, and how it *)
(* lets go of it: the graphs, one per person, least recently used first;   *)
(* in each graph the threads the checkpointer keeps, the requests the run  *)
(* registry has open and the threads locked by a run.  A run ends, pauses  *)
(* with a plan on screen, or fails; the plan is decided by a later request.*)
(* Time is one clock for the process.                                      *)
(***************************************************************************)
EXTENDS Integers, Sequences, FiniteSets, SequencesExt

CONSTANTS
    People,      \* signed-in operators
    ThreadIds,   \* the conversations each of them has
    MaxGraphs,   \* limits.maxGraphs
    MaxThreads,  \* limits.maxThreadsPerGraph
    RunDeadline, \* limits.deadlineS
    ProbeTime,   \* how long a dry run started before the deadline may last
    PlanLife,    \* limits.planTtlS
    MaxBuilt,    \* bound: graphs built
    MaxClock     \* bound: the clock

ASSUME RouteAssumption == MaxGraphs \in Nat \ {0} /\ MaxThreads \in Nat \ {0}
                          /\ RunDeadline \in Nat /\ PlanLife \in Nat /\ ProbeTime \in Nat

VARIABLES
    rtClock,
    held,      \* GraphCache: the graphs held, least recently used first
    owner,     \* graph -> the person it was built for
    locks,     \* graph -> threads locked
    entries,   \* graph -> thread -> when its open request began, or None
    recent,    \* graph -> threads the checkpointer keeps, least recent first
    plans,     \* graph -> thread -> when the plan paused at confirm expires, or None
    rtRuns,    \* requests under way: [g, t, kind, st, since]
    offered    \* history: plans shown and not yet decided: [p, t, until, inTime]

rtvars == <<rtClock, held, owner, locks, entries, recent, plans, rtRuns, offered>>

None == -1
Built == DOMAIN owner
Retain == RunDeadline + PlanLife
Fresh == [t \in ThreadIds |-> None]

RtInit ==
    /\ rtClock = 0 /\ held = <<>> /\ rtRuns = {} /\ offered = {}
    /\ owner = <<>> /\ locks = <<>> /\ entries = <<>> /\ recent = <<>> /\ plans = <<>>

\* registry.ts #sweep: a request older than its deadline and any plan's life.
Swept(e) == [t \in ThreadIds |-> IF e[t] # None /\ rtClock - e[t] >= Retain THEN None ELSE e[t]]

\* graphBusy, after the sweep anyOpen makes.
GraphBusy(g) == locks[g] # {} \/ \E t \in ThreadIds : Swept(entries[g])[t] # None

\* A Map keeps a key once, where it was last set: delete, then set again.
MovedToBack(s, x) == Append(RemoveFirst(s, x), x)
HeldBy(p) == {g \in ToSet(held) : owner[g] = p}

\* The graphs the eviction loop looks at: up to the first that is not busy.
FirstIdle == {i \in 1..Len(held) : ~GraphBusy(held[i]) /\ \A j \in 1..(i - 1) : GraphBusy(held[j])}
Examined == {held[i] : i \in {k \in 1..Len(held) : \A j \in 1..(k - 1) : GraphBusy(held[j])}}
Full == Len(held) >= MaxGraphs

\* getOrBuild: the person's graph, moved to the back, or a new one.
UseHeld(p, g) ==
    /\ g \in HeldBy(p)
    /\ held' = MovedToBack(held, g)
    /\ UNCHANGED <<owner, entries, recent, plans>>
Build(p, g) ==
    /\ HeldBy(p) = {}
    /\ g = Cardinality(Built) + 1 /\ g <= MaxBuilt
    /\ owner' = Append(owner, p)
    /\ recent' = Append(recent, <<>>)
    /\ plans' = Append(plans, Fresh)
    /\ \/ /\ ~Full
          /\ held' = Append(held, g)
          /\ entries' = Append(entries, Fresh)
       \/ /\ Full
          /\ \E i \in FirstIdle : held' = Append(RemoveAt(held, i), g)
          /\ entries' = Append([h \in Built |-> IF h \in Examined THEN Swept(entries[h]) ELSE entries[h]], Fresh)
LocksWith(g) == IF g \in Built THEN locks ELSE Append(locks, {})

\* A POST that is not a Stop: the graph, then the thread's lock, with no await
\* between.  A thread already locked is a 409; the graph has been used all the same.
GraphFor(p, g) == UseHeld(p, g) \/ Build(p, g)
Post(p, t, kind) ==
    /\ \E g \in 1..MaxBuilt :
        /\ GraphFor(p, g)
        /\ IF t \in LocksWith(g)[g]
           THEN UNCHANGED <<locks, rtRuns>>
           ELSE /\ locks' = [LocksWith(g) EXCEPT ![g] = @ \union {t}]
                /\ rtRuns' = rtRuns \union {[g |-> g, t |-> t, kind |-> kind,
                                             st |-> IF kind = "message" THEN "begin" ELSE "gate", since |-> None]}
    /\ UNCHANGED <<rtClock, offered>>

\* Every graph busy: 503, and only the sweep is left of it.
GraphsBusy(p) ==
    /\ HeldBy(p) = {} /\ Full /\ FirstIdle = {}
    /\ entries' = [h \in Built |-> IF h \in ToSet(held) THEN Swept(entries[h]) ELSE entries[h]]
    /\ UNCHANGED <<rtClock, held, owner, locks, recent, plans, rtRuns, offered>>

\* GET ?threadId, and Stop: the graph if one is held, never a new one.
Look(p, t) ==
    /\ \E g \in HeldBy(p) :
        /\ held' = MovedToBack(held, g)
        /\ recent' = IF t \in ToSet(recent[g]) THEN [recent EXCEPT ![g] = MovedToBack(@, t)] ELSE recent
    /\ UNCHANGED <<rtClock, owner, locks, entries, plans, rtRuns, offered>>
PressStop(p) ==
    /\ \E g \in HeldBy(p) : held' = MovedToBack(held, g)
    /\ UNCHANGED <<rtClock, owner, locks, entries, recent, plans, rtRuns, offered>>

----------------------------------------------------------------------------
\* BoundedMemorySaver #evict: least recent first, passing over open requests,
\* until at most MaxThreads are left.
EvictIgnoresOpen(s, e) ==
    LET kept[i \in 0..Len(s)] ==
          IF i = 0 THEN s
          ELSE IF Len(kept[i - 1]) <= MaxThreads THEN kept[i - 1] ELSE RemoveFirst(kept[i - 1], s[i])
    IN  kept[Len(s)]
Evict(s, e) ==
    LET kept[i \in 0..Len(s)] ==
          IF i = 0 THEN s
          ELSE IF Len(kept[i - 1]) <= MaxThreads \/ e[s[i]] # None THEN kept[i - 1]
          ELSE RemoveFirst(kept[i - 1], s[i])
    IN  kept[Len(s)]

\* put: the thread is the most recent, then the bound is applied.
Put(s, t, e) == Evict(MovedToBack(s, t), e)

\* What deleteThread takes with it.
PlansKept(f, s) == [t \in ThreadIds |-> IF t \in ToSet(s) THEN f[t] ELSE None]

Undecided(g, t) == {o \in offered : ~(o.p = owner[g] /\ o.t = t)}
Became(r, st) == (rtRuns \ {r}) \union {[r EXCEPT !.st = st]}

\* The run of a message: the input is saved, intake opens the request, the step is saved.
RunBegins(r) ==
    LET kept   == Put(recent[r.g], r.t, entries[r.g])
        opened == [Swept(entries[r.g]) EXCEPT ![r.t] = rtClock]
        after  == Put(kept, r.t, opened)
    IN  /\ r.st = "begin"
        /\ rtRuns' = (rtRuns \ {r}) \union {[r EXCEPT !.st = "going", !.since = rtClock]}
        /\ entries' = [entries EXCEPT ![r.g] = opened]
        /\ recent' = [recent EXCEPT ![r.g] = after]
        /\ plans' = [plans EXCEPT ![r.g] = PlansKept([@ EXCEPT ![r.t] = None], after)]
        /\ offered' = Undecided(r.g, r.t)
        /\ UNCHANGED <<rtClock, held, owner, locks>>

\* A plan passes plan_check and the run pauses at confirm: the last dry run
\* was started before the deadline.  The request stays open; the lock does not.
RunSuspends(r) ==
    /\ r.st = "going" /\ r.kind = "message"
    /\ rtClock <= r.since + RunDeadline + ProbeTime
    /\ plans' = [plans EXCEPT ![r.g] = PlansKept([@ EXCEPT ![r.t] = rtClock + PlanLife],
                                                 Put(recent[r.g], r.t, entries[r.g]))]
    /\ recent' = [recent EXCEPT ![r.g] = Put(@, r.t, entries[r.g])]
    /\ offered' = offered \union {[p |-> owner[r.g], t |-> r.t, until |-> rtClock + PlanLife,
                                   inTime |-> rtClock <= r.since + RunDeadline]}
    /\ rtRuns' = rtRuns \ {r}
    /\ locks' = [locks EXCEPT ![r.g] = @ \ {r.t}]
    /\ UNCHANGED <<rtClock, held, owner, entries>>

\* finish closes the request, then its step is saved: the thread is no longer busy.
RunFinishes(r) ==
    LET closed == [entries[r.g] EXCEPT ![r.t] = None]
        after  == Put(recent[r.g], r.t, closed)
    IN  /\ r.st = "going"
        /\ entries' = [entries EXCEPT ![r.g] = closed]
        /\ recent' = [recent EXCEPT ![r.g] = after]
        /\ plans' = [plans EXCEPT ![r.g] = PlansKept([@ EXCEPT ![r.t] = None], after)]
        /\ offered' = Undecided(r.g, r.t)
        /\ rtRuns' = rtRuns \ {r}
        /\ locks' = [locks EXCEPT ![r.g] = @ \ {r.t}]
        /\ UNCHANGED <<rtClock, held, owner>>

\* failed: the request is abandoned, and the lock released in the finally.
RunFails(r) ==
    /\ r.st \in {"begin", "going"}
    /\ entries' = [entries EXCEPT ![r.g][r.t] = None]
    /\ plans' = [plans EXCEPT ![r.g][r.t] = None]
    /\ offered' = Undecided(r.g, r.t)
    /\ rtRuns' = rtRuns \ {r}
    /\ locks' = [locks EXCEPT ![r.g] = @ \ {r.t}]
    /\ UNCHANGED <<rtClock, held, owner, recent>>

\* pendingDecision: the plan named must be the one pending, and in date.
PlanStands(g, t) == plans[g][t] # None /\ plans[g][t] > rtClock
CheckDecision(r) ==
    /\ r.st \in {"gate", "recheck"}
    /\ recent' = IF r.t \in ToSet(recent[r.g]) THEN [recent EXCEPT ![r.g] = MovedToBack(@, r.t)] ELSE recent
    /\ \/ /\ ~PlanStands(r.g, r.t)
          /\ rtRuns' = rtRuns \ {r}
          /\ locks' = [locks EXCEPT ![r.g] = @ \ {r.t}]
          /\ UNCHANGED <<plans, offered>>
       \/ /\ PlanStands(r.g, r.t) /\ r.st = "gate"
          /\ rtRuns' = Became(r, "recheck")
          /\ UNCHANGED <<locks, plans, offered>>
       \/ /\ PlanStands(r.g, r.t) /\ r.st = "recheck"
          /\ rtRuns' = Became(r, "going")
          /\ plans' = [plans EXCEPT ![r.g][r.t] = None]
          /\ offered' = Undecided(r.g, r.t)
          /\ UNCHANGED locks
    /\ UNCHANGED <<rtClock, held, owner, entries>>

RtTick ==
    /\ rtClock < MaxClock
    /\ rtClock' = rtClock + 1
    /\ UNCHANGED <<held, owner, locks, entries, recent, plans, rtRuns, offered>>

RtNext ==
    \/ \E p \in People, t \in ThreadIds, k \in {"message", "decision"} : Post(p, t, k)
    \/ \E p \in People : GraphsBusy(p) \/ PressStop(p)
    \/ \E p \in People, t \in ThreadIds : Look(p, t)
    \/ \E r \in rtRuns : RunBegins(r) \/ RunSuspends(r) \/ RunFinishes(r) \/ RunFails(r) \/ CheckDecision(r)
    \/ RtTick

RtSpec == RtInit /\ [][RtNext]_rtvars

----------------------------------------------------------------------------
(***************************************************************************)
(* A person's thread is worked on by one run at a time, whatever graphs    *)
(* have come and gone: no eviction drops a graph and its lock under a run, *)
(* so that the next request builds a second graph and runs beside it       *)
(* (the defect the header of graph-cache.ts tells of).                     *)
(***************************************************************************)
OneRunPerThread ==
    \A r, q \in rtRuns : owner[r.g] = owner[q.g] /\ r.t = q.t => r = q

(***************************************************************************)
(* A plan checked by its run's deadline and still in date can be decided:  *)
(* neither the bound on graphs nor the one on threads, nor the sweep of    *)
(* old requests that both consult, has forgotten it.                       *)
(***************************************************************************)
PlanSurvives ==
    \A o \in offered : o.inTime /\ o.until > rtClock =>
        \E g \in HeldBy(o.p) : plans[g][o.t] = o.until /\ o.t \in ToSet(recent[g])

(***************************************************************************)
(* Every lock is held by a request under way and every request under way   *)
(* holds its lock: no path of the route, refusals and failures included,   *)
(* leaves a thread answering 409 for ever.                                 *)
(***************************************************************************)
LocksAreRuns ==
    \A g \in Built : locks[g] = {r.t : r \in {q \in rtRuns : q.g = g}}

(* What holds of graphs, threads and locks over concurrent requests,       *)
(* decisions and evictions (route.ts, graph-cache.ts, checkpoints.ts).     *)
RouteIsSound == OneRunPerThread /\ PlanSurvives /\ LocksAreRuns
=============================================================================
