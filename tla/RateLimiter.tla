----------------------------- MODULE RateLimiter ----------------------------
(***************************************************************************)
(* The keyed token bucket both services ration with                        *)
(* (packages/types/src/limiter.ts), and the two ways ingest spends it:     *)
(* take() for requests and readings (apps/ingest/src/server.ts), and       *)
(* exhausted() before a key is looked up with take() once it fails         *)
(* (apps/ingest/src/auth.ts).  One token is added per unit of time.        *)
(***************************************************************************)
EXTENDS Integers, FiniteSets

CONSTANTS Callers, Burst, MaxKeys, MaxCost, MaxClock,
          MaxLookups  \* bound on key lookups running at once for one address

(* The constructor refuses an empty burst and an empty map.                *)
ASSUME LimiterAssumption ==
    /\ Burst \in Nat \ {0} /\ MaxKeys \in Nat \ {0}
    /\ MaxCost \in Nat /\ MaxClock \in Nat /\ MaxLookups \in Nat

VARIABLES
    buckets,    \* #buckets: per key the tokens and their moment, or Absent
    overflow,   \* #overflow, or Absent
    rclock,
    spent,      \* per key: what its own buckets have granted so far
    shared,     \* what the overflow bucket has granted so far
    lookups,    \* per key: lookups running
    failed      \* per key: lookups that failed while its address was tracked

rlvars == <<buckets, overflow, rclock, spent, shared, lookups, failed>>

Absent == [tokens |-> -1, at |-> 0]
Full == [tokens |-> Burst, at |-> rclock]
Tracked(bs) == {k \in Callers : bs[k] # Absent}

RlTypeOK ==
    /\ buckets \in [Callers -> {Absent} \cup [tokens : 0..Burst, at : 0..MaxClock]]
    /\ Cardinality(Tracked(buckets)) <= MaxKeys
    /\ overflow \in {Absent} \cup [tokens : 0..Burst, at : 0..MaxClock]
-----------------------------------------------------------------------------
(* #refill.                                                                *)
Refill(b) ==
    LET refilled == b.tokens + (rclock - b.at)
    IN  [tokens |-> IF refilled > Burst THEN Burst ELSE refilled, at |-> rclock]

(* #sweep, when the map is full: only buckets that are full again go.      *)
ForgetsEveryone(bs) == IF Cardinality(Tracked(bs)) < MaxKeys THEN bs ELSE [k \in Callers |-> Absent]

Sweep(bs) ==
    IF Cardinality(Tracked(bs)) < MaxKeys THEN bs
    ELSE [k \in Callers |-> IF bs[k] = Absent \/ Refill(bs[k]).tokens >= Burst THEN Absent
                         ELSE Refill(bs[k])]

(* take: from the key's own bucket, made full when there is room for one,  *)
(* and otherwise from the bucket newcomers share.                          *)
Take(k, cost) ==
    LET swept == IF buckets[k] # Absent THEN buckets ELSE Sweep(buckets)
        own == buckets[k] # Absent \/ Cardinality(Tracked(swept)) < MaxKeys
        b == IF own THEN IF buckets[k] # Absent THEN Refill(buckets[k]) ELSE Full
             ELSE IF overflow = Absent THEN Full ELSE Refill(overflow)
        ok == b.tokens >= cost
        left == IF ok THEN [b EXCEPT !.tokens = @ - cost] ELSE b
    IN  /\ buckets' = IF own THEN [swept EXCEPT ![k] = left] ELSE swept
        /\ overflow' = IF own THEN overflow ELSE left
        /\ spent' = IF own /\ ok THEN [spent EXCEPT ![k] = @ + cost] ELSE spent
        /\ shared' = IF ~own /\ ok THEN shared + cost ELSE shared

(* POST /ingest and the socket's frames: charged as they come.             *)
Request(k, cost) == Take(k, cost) /\ UNCHANGED <<rclock, lookups, failed>>

(* exhausted: asked without spending; an untracked key is never out.       *)
Exhausted(k) == buckets[k] # Absent /\ Refill(buckets[k]).tokens < 1

(* authenticate: the budget is asked before the lookup...                  *)
BeginLookup(k) ==
    /\ ~Exhausted(k) /\ lookups[k] < MaxLookups
    /\ lookups' = [lookups EXCEPT ![k] = @ + 1]
    /\ UNCHANGED <<buckets, overflow, rclock, spent, shared, failed>>

(* ... and charged when the key does not resolve or lacks the scope.       *)
LookupFails(k) ==
    /\ lookups[k] > 0
    /\ Take(k, 1)
    /\ lookups' = [lookups EXCEPT ![k] = @ - 1]
    /\ failed' = IF buckets'[k] # Absent THEN [failed EXCEPT ![k] = @ + 1] ELSE failed
    /\ UNCHANGED rclock

LookupSucceeds(k) ==
    /\ lookups[k] > 0
    /\ lookups' = [lookups EXCEPT ![k] = @ - 1]
    /\ UNCHANGED <<buckets, overflow, rclock, spent, shared, failed>>

RlTick == rclock < MaxClock /\ rclock' = rclock + 1
          /\ UNCHANGED <<buckets, overflow, spent, shared, lookups, failed>>

RlInit ==
    /\ buckets = [k \in Callers |-> Absent] /\ overflow = Absent /\ rclock = 0
    /\ spent = [k \in Callers |-> 0] /\ shared = 0
    /\ lookups = [k \in Callers |-> 0] /\ failed = [k \in Callers |-> 0]

RlNext ==
    \/ \E k \in Callers : BeginLookup(k) \/ LookupFails(k) \/ LookupSucceeds(k)
                       \/ \E c \in 1..MaxCost : Request(k, c)
    \/ RlTick
-----------------------------------------------------------------------------
(* Forgetting a key hands its owner no fresh burst: whatever the sweeps,   *)
(* a key's own buckets grant at most one burst plus the rate, and so does  *)
(* the bucket the newcomers share.                                         *)
BudgetHolds ==
    /\ \A k \in Callers : spent[k] <= Burst + rclock
    /\ shared <= Burst + rclock

(* Failed lookups of a tracked address stay within its budget, but for the *)
(* lookups that were already running when the last token went: the budget  *)
(* is asked before the await and charged after it.                         *)
FailuresRationed == \A k \in Callers : failed[k] <= MaxLookups * (Burst + rclock)

(* What the limiter holds to while lookups overlap, keys are forgotten and *)
(* the table of buckets is full (limiter.ts, auth.ts).                     *)
LimiterIsSound == RlTypeOK /\ BudgetHolds /\ FailuresRationed
=============================================================================
