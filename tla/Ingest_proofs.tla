---------------------------- MODULE Ingest_proofs ----------------------------
(***************************************************************************)
(* The three parts of the ingest server, each on its own: the limiter      *)
(* grants no caller more than its budget (RateLimiter), the writer loses   *)
(* nothing and sheds the oldest first (TelemetryWriter), and the gate      *)
(* writes each row for its sender alone (IngestGate).                      *)
(***************************************************************************)
EXTENDS RateLimiter, TelemetryWriter, IngestGate, FiniteSetTheorems,
        SequenceTheorems, TLAPS

Bucket == [tokens : 0..Burst, at : 0..MaxClock]

(* What a bucket and the grants made from it so far leave: an absent one   *)
(* may be made full again because the rate has paid for the old burst.     *)
Owes(b, granted) == IF b = Absent THEN granted <= rclock
                    ELSE b.at <= rclock /\ granted + b.tokens <= Burst + b.at

(* The lookups of a caller that can fail without another token being spent.*)
Pending(k) == IF Exhausted(k) THEN lookups[k] ELSE 0

LimiterTypes ==
    /\ RlTypeOK /\ IsFiniteSet(Tracked(buckets))
    /\ rclock \in 0..MaxClock
    /\ spent \in [Callers -> Nat] /\ shared \in Nat
    /\ failed \in [Callers -> Nat] /\ lookups \in [Callers -> 0..MaxLookups]

(* Inductive: the budgets, and with each token spent at most MaxLookups    *)
(* failures, those still to come of an exhausted caller included.          *)
LimiterInv ==
    /\ LimiterTypes
    /\ \A k \in Callers : Owes(buckets[k], spent[k])
    /\ Owes(overflow, shared)
    /\ \A k \in Callers : failed[k] + Pending(k) <= MaxLookups * spent[k]
-----------------------------------------------------------------------------
(* Refilling keeps the account, is done once per moment, and a bucket that *)
(* is full again may be forgotten (limiter.ts, #refill and #sweep).        *)
LEMMA RefillKeepsAccount ==
    ASSUME NEW b \in Bucket, NEW g \in Nat, rclock \in 0..MaxClock, Owes(b, g)
    PROVE  /\ b # Absent /\ Refill(b) \in Bucket /\ Refill(b) # Absent
           /\ Owes(Refill(b), g) /\ Refill(Refill(b)) = Refill(b)
           /\ Refill(b).at = rclock
           /\ Refill(b).tokens >= Burst => Owes(Absent, g)
BY LimiterAssumption DEF Bucket, Owes, Refill, Absent

LEMMA FullKeepsAccount ==
    ASSUME NEW g \in Nat, rclock \in 0..MaxClock, g <= rclock
    PROVE  /\ Full \in Bucket /\ Full # Absent /\ Owes(Full, g) /\ Refill(Full) = Full
           /\ Full.tokens = Burst /\ Full.at = rclock
BY LimiterAssumption DEF Bucket, Owes, Refill, Absent, Full

(* A sweep forgets only callers that are full again: the accounts stay in  *)
(* order and nobody's exhaustion is forgiven (limiter.ts, #sweep).         *)
LEMMA SweepKeepsAccounts ==
    ASSUME LimiterInv
    PROVE  /\ Sweep(buckets) \in [Callers -> {Absent} \cup Bucket]
           /\ Tracked(Sweep(buckets)) \subseteq Tracked(buckets)
           /\ \A j \in Callers :
                /\ Owes(Sweep(buckets)[j], spent[j])
                /\ buckets[j] = Absent => Sweep(buckets)[j] = Absent
                /\ Sweep(buckets)[j] # Absent =>
                     buckets[j] # Absent /\ Refill(Sweep(buckets)[j]) = Refill(buckets[j])
                /\ Exhausted(j) => Sweep(buckets)[j] # Absent
<1>1. buckets \in [Callers -> {Absent} \cup Bucket] /\ rclock \in 0..MaxClock /\ spent \in [Callers -> Nat]
  BY DEF LimiterInv, LimiterTypes, RlTypeOK, Bucket
<1>2. CASE Cardinality(Tracked(buckets)) < MaxKeys
  BY <1>1, <1>2 DEF Sweep, LimiterInv, Exhausted
<1>3. CASE ~(Cardinality(Tracked(buckets)) < MaxKeys)
  <2>1. Sweep(buckets) = [j \in Callers |->
            IF buckets[j] = Absent \/ Refill(buckets[j]).tokens >= Burst THEN Absent ELSE Refill(buckets[j])]
    BY <1>3 DEF Sweep
  <2>2. ASSUME NEW j \in Callers
        PROVE  /\ Sweep(buckets)[j] \in {Absent} \cup Bucket
               /\ Owes(Sweep(buckets)[j], spent[j])
               /\ buckets[j] = Absent => Sweep(buckets)[j] = Absent
               /\ Sweep(buckets)[j] # Absent =>
                    buckets[j] # Absent /\ Refill(Sweep(buckets)[j]) = Refill(buckets[j])
               /\ Exhausted(j) => Sweep(buckets)[j] # Absent
    <3>1. Sweep(buckets)[j] = IF buckets[j] = Absent \/ Refill(buckets[j]).tokens >= Burst
                              THEN Absent ELSE Refill(buckets[j])
      BY <2>1
    <3>2. CASE buckets[j] = Absent
      BY <3>1, <3>2 DEF LimiterInv, Exhausted
    <3>3. CASE buckets[j] # Absent
      <4>1. buckets[j] \in Bucket /\ spent[j] \in Nat /\ Owes(buckets[j], spent[j])
        BY <1>1, <3>3 DEF LimiterInv
      <4>2. PICK r \in Bucket : r = Refill(buckets[j])
        BY <4>1, <1>1, RefillKeepsAccount
      <4>3. /\ r # Absent /\ Owes(r, spent[j]) /\ Refill(r) = r
            /\ r.tokens >= Burst => Owes(Absent, spent[j])
        BY <4>1, <4>2, <1>1, RefillKeepsAccount
      <4>4. Exhausted(j) => r.tokens < 1
        BY <4>2 DEF Exhausted
      <4>5. r.tokens \in 0..Burst /\ Burst \in Nat \ {0}
        BY <4>2, LimiterAssumption DEF Bucket
      <4> QED BY <3>1, <3>3, <4>2, <4>3, <4>4, <4>5
    <3> QED BY <3>2, <3>3
  <2>3. Sweep(buckets) \in [Callers -> {Absent} \cup Bucket]
    BY <2>1, <2>2
  <2> QED BY <2>2, <2>3 DEF Tracked
<1> QED BY <1>2, <1>3

(* One take: the accounts stay in order, nobody else's exhaustion ends,    *)
(* and the caller either spends or stays as exhausted as it was            *)
(* (limiter.ts, take and #bucket).                                         *)
LEMMA TakeKeepsAccounts ==
    ASSUME LimiterInv, NEW k \in Callers, NEW cost \in Nat \ {0}, Take(k, cost), rclock' = rclock
    PROVE  /\ RlTypeOK' /\ IsFiniteSet(Tracked(buckets'))
           /\ spent' \in [Callers -> Nat] /\ shared' \in Nat
           /\ \A j \in Callers : Owes(buckets[j], spent[j])'
           /\ Owes(overflow, shared)'
           /\ \A j \in Callers \ {k} : spent'[j] = spent[j] /\ (Exhausted(j)' => Exhausted(j))
           /\ \/ spent'[k] >= spent[k] + 1
              \/ /\ spent'[k] = spent[k] /\ (Exhausted(k)' => Exhausted(k))
                 /\ cost = 1 /\ buckets'[k] # Absent => Exhausted(k)
<1> DEFINE swept == IF buckets[k] # Absent THEN buckets ELSE Sweep(buckets)
           own == buckets[k] # Absent \/ Cardinality(Tracked(swept)) < MaxKeys
           b == IF own THEN IF buckets[k] # Absent THEN Refill(buckets[k]) ELSE Full
                ELSE IF overflow = Absent THEN Full ELSE Refill(overflow)
           ok == b.tokens >= cost
           left == IF ok THEN [b EXCEPT !.tokens = @ - cost] ELSE b
<1>1. /\ buckets' = IF own THEN [swept EXCEPT ![k] = left] ELSE swept
      /\ overflow' = IF own THEN overflow ELSE left
      /\ spent' = IF own /\ ok THEN [spent EXCEPT ![k] = @ + cost] ELSE spent
      /\ shared' = IF ~own /\ ok THEN shared + cost ELSE shared
  BY DEF Take
<1>2. /\ buckets \in [Callers -> {Absent} \cup Bucket] /\ overflow \in {Absent} \cup Bucket
      /\ rclock \in 0..MaxClock /\ spent \in [Callers -> Nat] /\ shared \in Nat
      /\ IsFiniteSet(Tracked(buckets)) /\ Cardinality(Tracked(buckets)) <= MaxKeys
  BY DEF LimiterInv, LimiterTypes, RlTypeOK, Bucket
<1>3. /\ swept \in [Callers -> {Absent} \cup Bucket]
      /\ Tracked(swept) \subseteq Tracked(buckets)
      /\ \A j \in Callers :
           /\ Owes(swept[j], spent[j])
           /\ buckets[j] = Absent => swept[j] = Absent
           /\ swept[j] # Absent => buckets[j] # Absent /\ Refill(swept[j]) = Refill(buckets[j])
           /\ Exhausted(j) => swept[j] # Absent
  <2>1. CASE buckets[k] # Absent
    BY <1>2, <2>1 DEF LimiterInv, Exhausted
  <2>2. CASE buckets[k] = Absent
    BY <2>2, SweepKeepsAccounts
  <2> QED BY <2>1, <2>2
<1>4. IsFiniteSet(Tracked(swept)) /\ Cardinality(Tracked(swept)) <= MaxKeys
  <2>1. IsFiniteSet(Tracked(swept)) /\ Cardinality(Tracked(swept)) <= Cardinality(Tracked(buckets))
    BY <1>2, <1>3, FS_Subset
  <2>2. Cardinality(Tracked(swept)) \in Nat /\ Cardinality(Tracked(buckets)) \in Nat /\ MaxKeys \in Nat
    BY <1>2, <2>1, FS_CardinalityType, LimiterAssumption
  <2> QED BY <2>1, <2>2, <1>2
<1>5. /\ b \in Bucket /\ b # Absent /\ Refill(b) = b /\ b.at = rclock
      /\ Owes(b, IF own THEN spent[k] ELSE shared)
      /\ own /\ buckets[k] # Absent => b = Refill(buckets[k])
      /\ own /\ buckets[k] = Absent => b.tokens = Burst
  <2>1. Owes(buckets[k], spent[k]) /\ Owes(overflow, shared) /\ spent[k] \in Nat
    BY <1>2 DEF LimiterInv
  <2>2. CASE own /\ buckets[k] # Absent
    BY <2>1, <2>2, <1>2, RefillKeepsAccount
  <2>3. CASE own /\ buckets[k] = Absent
    <3>1. spent[k] <= rclock
      BY <2>1, <2>3 DEF Owes
    <3> QED BY <2>1, <2>3, <3>1, <1>2, FullKeepsAccount
  <2>4. CASE ~own /\ overflow # Absent
    BY <2>1, <2>4, <1>2, RefillKeepsAccount
  <2>5. CASE ~own /\ overflow = Absent
    <3>1. shared <= rclock
      BY <2>1, <2>5 DEF Owes
    <3> QED BY <2>1, <2>5, <3>1, <1>2, FullKeepsAccount
  <2> QED BY <2>2, <2>3, <2>4, <2>5
<1>6. PICK c \in Bucket : c = b
  BY <1>5
<1> DEFINE left1 == IF c.tokens >= cost THEN [c EXCEPT !.tokens = @ - cost] ELSE c
<1>7. PICK l : l = left1
  OBVIOUS
<1>8. l = left
  BY <1>6, <1>7
<1> HIDE DEF b
<1>9. /\ l \in Bucket /\ l # Absent /\ l.at = c.at
      /\ c.tokens >= cost => l.tokens = c.tokens - cost
      /\ ~(c.tokens >= cost) => l = c
  <2>1. CASE c.tokens >= cost
    <3>1. l = [tokens |-> c.tokens - cost, at |-> c.at]
      BY <1>6, <1>7, <2>1 DEF Bucket
    <3>2. c.tokens \in 0..Burst /\ Burst \in Nat /\ c.at \in 0..MaxClock
      BY <1>6, LimiterAssumption DEF Bucket
    <3>3. c.tokens - cost \in 0..Burst /\ c.tokens - cost # -1
      BY <3>2, <2>1
    <3> QED BY <3>1, <3>2, <3>3, <2>1 DEF Bucket, Absent
  <2>2. CASE ~(c.tokens >= cost)
    <3>1. l = c
      BY <1>7, <2>2
    <3> QED BY <3>1, <2>2, <1>5, <1>6
  <2> QED BY <2>1, <2>2
<1>10. /\ buckets' = IF own THEN [swept EXCEPT ![k] = l] ELSE swept
       /\ overflow' = IF own THEN overflow ELSE l
       /\ spent' = IF own /\ c.tokens >= cost THEN [spent EXCEPT ![k] = @ + cost] ELSE spent
       /\ shared' = IF ~own /\ c.tokens >= cost THEN shared + cost ELSE shared
  BY <1>1, <1>6, <1>8
<1>11. /\ c # Absent /\ Refill(c) = c /\ c.at = rclock
       /\ Owes(c, IF own THEN spent[k] ELSE shared)
       /\ own /\ buckets[k] # Absent => c = Refill(buckets[k])
       /\ own /\ buckets[k] = Absent => c.tokens = Burst
       /\ ~own => buckets[k] = Absent
  BY <1>5, <1>6 DEF own
<1>12. own /\ buckets[k] = Absent => Cardinality(Tracked(swept)) < MaxKeys
  OBVIOUS
<1>13. ASSUME NEW g \in Nat, Owes(c, g)
       PROVE  Owes(l, IF c.tokens >= cost THEN g + cost ELSE g)
  <2>1. c.tokens \in Nat /\ c.at \in Nat /\ Burst \in Nat
    BY <1>6, LimiterAssumption DEF Bucket
  <2> QED BY <2>1, <1>9, <1>11, <1>13 DEF Owes
<1> HIDE DEF left1, left, swept, own, ok
<1>14. CASE own
  <2>1. /\ buckets' = [swept EXCEPT ![k] = l] /\ overflow' = overflow /\ shared' = shared
        /\ spent' = [spent EXCEPT ![k] = IF c.tokens >= cost THEN spent[k] + cost ELSE spent[k]]
        /\ buckets'[k] = l
    BY <1>2, <1>3, <1>10, <1>14
  <2>2. buckets' \in [Callers -> {Absent} \cup Bucket] /\ spent' \in [Callers -> Nat]
    BY <2>1, <1>2, <1>3, <1>9
  <2>3. Tracked(buckets') = Tracked(swept) \cup {k}
    BY <2>1, <1>3, <1>9 DEF Tracked
  <2>4. IsFiniteSet(Tracked(buckets')) /\ Cardinality(Tracked(buckets')) <= MaxKeys
    <3>1. /\ IsFiniteSet(Tracked(buckets'))
          /\ Cardinality(Tracked(buckets')) = IF k \in Tracked(swept) THEN Cardinality(Tracked(swept))
                                              ELSE Cardinality(Tracked(swept)) + 1
      BY <2>3, <1>4, FS_AddElement
    <3>2. k \in Tracked(swept) \/ Cardinality(Tracked(swept)) < MaxKeys
      <4>1. CASE buckets[k] # Absent
        BY <4>1 DEF Tracked, swept
      <4>2. CASE buckets[k] = Absent
        BY <4>2, <1>12, <1>14
      <4> QED BY <4>1, <4>2
    <3>3. Cardinality(Tracked(swept)) \in Nat /\ MaxKeys \in Nat
      BY <1>4, FS_CardinalityType, LimiterAssumption
    <3> QED BY <3>1, <3>2, <3>3, <1>4
  <2>5. ASSUME NEW j \in Callers \ {k}
        PROVE  /\ Owes(buckets[j], spent[j])' /\ spent'[j] = spent[j]
               /\ Exhausted(j)' => Exhausted(j)
    <3>1. buckets'[j] = swept[j] /\ spent'[j] = spent[j]
      BY <2>1, <1>2, <1>3
    <3> QED BY <3>1, <1>3 DEF Owes, Exhausted, Refill
  <2>6. Owes(buckets[k], spent[k])'
    <3>1. spent'[k] = IF c.tokens >= cost THEN spent[k] + cost ELSE spent[k]
      BY <2>1, <1>2
    <3>2. Owes(l, spent'[k])
      BY <3>1, <1>2, <1>11, <1>13, <1>14
    <3> QED BY <3>2, <2>1 DEF Owes
  <2>7. \/ spent'[k] >= spent[k] + 1
        \/ /\ spent'[k] = spent[k] /\ (Exhausted(k)' => Exhausted(k))
           /\ cost = 1 /\ buckets'[k] # Absent => Exhausted(k)
    <3>1. spent[k] \in Nat /\ c.tokens \in 0..Burst /\ Burst \in Nat \ {0}
      BY <1>2, <1>6, LimiterAssumption DEF Bucket
    <3>2. CASE c.tokens >= cost
      BY <2>1, <1>2, <3>1, <3>2
    <3>3. CASE ~(c.tokens >= cost)
      <4>1. spent'[k] = spent[k] /\ buckets'[k] = c
        BY <2>1, <1>2, <1>9, <3>3
      <4>2. CASE buckets[k] # Absent
        <5>1. c = Refill(buckets[k])
          BY <4>2, <1>11, <1>14
        <5>2. Exhausted(k)' => c.tokens < 1
          BY <4>1, <1>11 DEF Exhausted, Refill
        <5>3. c.tokens < 1 => Exhausted(k)
          BY <4>2, <5>1 DEF Exhausted
        <5>4. cost = 1 => c.tokens < 1
          BY <3>1, <3>3
        <5> QED BY <4>1, <5>2, <5>3, <5>4
      <4>3. CASE buckets[k] = Absent
        <5>1. c.tokens = Burst
          BY <4>3, <1>11, <1>14
        <5>2. ~Exhausted(k)'
          BY <4>1, <5>1, <1>11, <3>1 DEF Exhausted, Refill
        <5>3. cost # 1
          BY <3>1, <3>3, <5>1
        <5> QED BY <4>1, <5>2, <5>3
      <4> QED BY <4>2, <4>3
    <3> QED BY <3>2, <3>3
  <2>8. Owes(overflow, shared)'
    BY <2>1, rclock' = rclock DEF LimiterInv, Owes
  <2> QED BY <2>1, <2>2, <2>4, <2>5, <2>6, <2>7, <2>8, <1>2 DEF RlTypeOK, Bucket
<1>15. CASE ~own
  <2>1. /\ buckets' = swept /\ overflow' = l /\ spent' = spent
        /\ shared' = IF c.tokens >= cost THEN shared + cost ELSE shared
    BY <1>10, <1>15
  <2>2. Owes(overflow, shared)' /\ shared' \in Nat
    <3>1. Owes(l, shared')
      BY <2>1, <1>2, <1>11, <1>13, <1>15
    <3> QED BY <3>1, <2>1, <1>2 DEF Owes
  <2>3. ASSUME NEW j \in Callers
        PROVE  /\ Owes(buckets[j], spent[j])' /\ spent'[j] = spent[j]
               /\ Exhausted(j)' => Exhausted(j)
    BY <2>1, <1>3 DEF Owes, Exhausted, Refill
  <2>4. buckets'[k] = Absent
    BY <2>1, <1>3, <1>11, <1>15
  <2>5. spent'[k] = spent[k] /\ (Exhausted(k)' => Exhausted(k))
    BY <2>3
  <2> QED BY <2>1, <2>2, <2>3, <2>4, <2>5, <1>2, <1>3, <1>4, <1>9 DEF RlTypeOK, Bucket
<1> QED BY <1>14, <1>15

-----------------------------------------------------------------------------
LEMMA LimiterInit == RlInit => LimiterInv
<1> SUFFICES ASSUME RlInit PROVE LimiterInv
  OBVIOUS
<1>1. Tracked(buckets) = {}
  BY DEF RlInit, Tracked
<1>2. IsFiniteSet(Tracked(buckets)) /\ Cardinality(Tracked(buckets)) = 0
  BY <1>1, FS_EmptySet
<1>3. LimiterTypes
  BY <1>2, LimiterAssumption DEF RlInit, LimiterTypes, RlTypeOK
<1>4. \A k \in Callers : ~Exhausted(k)
  BY DEF RlInit, Exhausted
<1>5. \A k \in Callers : failed[k] + Pending(k) <= MaxLookups * spent[k]
  <2> SUFFICES ASSUME NEW k \in Callers PROVE failed[k] + Pending(k) <= MaxLookups * spent[k]
    OBVIOUS
  <2>1. failed[k] = 0 /\ Pending(k) = 0 /\ spent[k] = 0
    BY <1>4 DEF RlInit, Pending
  <2>2. MaxLookups * 0 = 0
    BY LimiterAssumption
  <2> QED BY <2>1, <2>2
<1> QED BY <1>3, <1>5 DEF RlInit, LimiterInv, Owes

LEMMA OneTokenPaysForAll ==
    ASSUME NEW s \in Nat, NEW t \in Nat, t >= s + 1
    PROVE  MaxLookups * s + MaxLookups <= MaxLookups * t
<1>1. PICK d \in Nat : t = s + 1 + d
  <2>1. t - (s + 1) \in Nat /\ t = s + 1 + (t - (s + 1))
    OBVIOUS
  <2> QED BY <2>1
<1>2. MaxLookups * t = MaxLookups * s + MaxLookups + MaxLookups * d
  BY <1>1, LimiterAssumption
<1>3. MaxLookups * d \in Nat /\ MaxLookups * s \in Nat
  BY LimiterAssumption
<1> QED BY <1>2, <1>3, LimiterAssumption

(* The account of failures after a step that takes for k.                  *)
LEMMA TakePays ==
    ASSUME LimiterInv, NEW k \in Callers, NEW cost \in Nat \ {0}, Take(k, cost), rclock' = rclock,
           lookups' \in [Callers -> 0..MaxLookups], failed' \in [Callers -> Nat],
           \A j \in Callers \ {k} : lookups'[j] = lookups[j] /\ failed'[j] = failed[j],
           \/ failed'[k] = failed[k] /\ lookups'[k] = lookups[k]
           \/ /\ failed'[k] = failed[k] /\ lookups'[k] = lookups[k] - 1
              /\ buckets'[k] = Absent
           \/ /\ failed'[k] = failed[k] + 1 /\ lookups'[k] = lookups[k] - 1
              /\ cost = 1 /\ buckets'[k] # Absent
    PROVE  LimiterInv'
<1>1. LimiterTypes'
  BY TakeKeepsAccounts DEF LimiterInv, LimiterTypes, RlTypeOK
<1>2. /\ \A j \in Callers : failed[j] \in Nat /\ lookups[j] \in 0..MaxLookups /\ spent[j] \in Nat
      /\ \A j \in Callers : failed'[j] \in Nat /\ lookups'[j] \in 0..MaxLookups /\ spent'[j] \in Nat
      /\ MaxLookups \in Nat
  BY <1>1, LimiterAssumption DEF LimiterInv, LimiterTypes
<1>3. ASSUME NEW j \in Callers \ {k}
      PROVE  (failed[j] + Pending(j) <= MaxLookups * spent[j])'
  <2>1. /\ failed'[j] = failed[j] /\ lookups'[j] = lookups[j] /\ spent'[j] = spent[j]
        /\ Exhausted(j)' => Exhausted(j)
    BY TakeKeepsAccounts
  <2>2. Pending(j)' <= Pending(j) /\ Pending(j) \in Nat /\ Pending(j)' \in Nat
    BY <2>1, <1>2 DEF Pending
  <2>3. failed[j] + Pending(j) <= MaxLookups * spent[j] /\ MaxLookups * spent[j] \in Nat
    BY <1>2 DEF LimiterInv
  <2> QED BY <2>1, <2>2, <2>3, <1>2
<1>4. (failed[k] + Pending(k) <= MaxLookups * spent[k])'
  <2>1. failed[k] + Pending(k) <= MaxLookups * spent[k]
    BY DEF LimiterInv
  <2>2. PICK m \in Nat : m = MaxLookups * spent[k]
    BY <1>2
  <2>3. PICK n \in Nat : n = MaxLookups * spent'[k]
    BY <1>2
  <2>4. /\ Pending(k) = IF Exhausted(k) THEN lookups[k] ELSE 0
        /\ Pending(k)' = IF Exhausted(k)' THEN lookups'[k] ELSE 0
    BY DEF Pending
  <2>5. CASE spent'[k] >= spent[k] + 1
    <3>1. m + MaxLookups <= n
      BY <2>2, <2>3, <2>5, <1>2, OneTokenPaysForAll
    <3>2. failed[k] <= m
      BY <2>1, <2>2, <2>4, <1>2
    <3>3. failed'[k] + Pending(k)' <= failed[k] + MaxLookups
      BY <2>4, <1>2
    <3> QED BY <3>1, <3>2, <3>3, <2>3, <2>4, <1>2
  <2>6. CASE /\ spent'[k] = spent[k] /\ (Exhausted(k)' => Exhausted(k))
             /\ (cost = 1 /\ buckets'[k] # Absent => Exhausted(k))
    <3>1. failed'[k] + Pending(k)' <= failed[k] + Pending(k)
      BY <2>4, <2>6, <1>2
    <3> QED BY <3>1, <2>1, <2>2, <2>3, <2>4, <2>6, <1>2
  <2> QED BY <2>5, <2>6, TakeKeepsAccounts
<1> QED BY <1>1, <1>3, <1>4, TakeKeepsAccounts DEF LimiterInv

LEMMA LimiterStep == LimiterInv /\ [RlNext]_rlvars => LimiterInv'
<1> SUFFICES ASSUME LimiterInv, [RlNext]_rlvars PROVE LimiterInv'
  OBVIOUS
<1>1. /\ \A j \in Callers : failed[j] \in Nat /\ lookups[j] \in 0..MaxLookups /\ spent[j] \in Nat
      /\ failed \in [Callers -> Nat] /\ lookups \in [Callers -> 0..MaxLookups]
      /\ rclock \in 0..MaxClock /\ buckets \in [Callers -> {Absent} \cup Bucket]
      /\ overflow \in {Absent} \cup Bucket
      /\ MaxLookups \in Nat /\ MaxClock \in Nat /\ Burst \in Nat
  BY LimiterAssumption DEF LimiterInv, LimiterTypes, RlTypeOK, Bucket
<1>2. ASSUME NEW k \in Callers, BeginLookup(k)
      PROVE  LimiterInv'
  <2>1. lookups' = [lookups EXCEPT ![k] = lookups[k] + 1] /\ lookups[k] + 1 \in 0..MaxLookups
    BY <1>1, <1>2 DEF BeginLookup
  <2>2. LimiterTypes'
    BY <1>1, <1>2, <2>1 DEF BeginLookup, LimiterInv, LimiterTypes, RlTypeOK, Tracked
  <2>3. \A j \in Callers : Owes(buckets[j], spent[j])'
    BY <1>2 DEF BeginLookup, LimiterInv, Owes
  <2>4. ASSUME NEW j \in Callers
        PROVE  (failed[j] + Pending(j) <= MaxLookups * spent[j])'
    <3>1. Exhausted(j)' = Exhausted(j)
      BY <1>2 DEF BeginLookup, Exhausted, Refill
    <3>2. j = k => ~Exhausted(j)
      BY <1>2 DEF BeginLookup
    <3>3. j # k => lookups'[j] = lookups[j]
      BY <1>1, <2>1
    <3>4. Pending(j)' = Pending(j)
      BY <3>1, <3>2, <3>3 DEF Pending
    <3> QED BY <3>4, <1>2 DEF BeginLookup, LimiterInv
  <2> QED BY <2>2, <2>3, <2>4, <1>2 DEF BeginLookup, LimiterInv, Owes
<1>3. ASSUME NEW k \in Callers, LookupFails(k)
      PROVE  LimiterInv'
  <2>1. /\ Take(k, 1) /\ rclock' = rclock /\ lookups[k] > 0
        /\ lookups' = [lookups EXCEPT ![k] = lookups[k] - 1]
        /\ failed' = IF buckets'[k] # Absent THEN [failed EXCEPT ![k] = failed[k] + 1] ELSE failed
    BY <1>3 DEF LookupFails
  <2>2. /\ lookups' \in [Callers -> 0..MaxLookups] /\ failed' \in [Callers -> Nat]
        /\ \A j \in Callers \ {k} : lookups'[j] = lookups[j] /\ failed'[j] = failed[j]
        /\ lookups'[k] = lookups[k] - 1
        /\ failed'[k] = IF buckets'[k] # Absent THEN failed[k] + 1 ELSE failed[k]
    BY <1>1, <2>1
  <2> QED BY <2>1, <2>2, TakePays
<1>4. ASSUME NEW k \in Callers, LookupSucceeds(k)
      PROVE  LimiterInv'
  <2>1. lookups' = [lookups EXCEPT ![k] = lookups[k] - 1] /\ lookups[k] - 1 \in 0..MaxLookups
    BY <1>1, <1>4 DEF LookupSucceeds
  <2>2. LimiterTypes'
    BY <1>1, <1>4, <2>1 DEF LookupSucceeds, LimiterInv, LimiterTypes, RlTypeOK, Tracked
  <2>3. \A j \in Callers : Owes(buckets[j], spent[j])'
    BY <1>4 DEF LookupSucceeds, LimiterInv, Owes
  <2>4. ASSUME NEW j \in Callers
        PROVE  (failed[j] + Pending(j) <= MaxLookups * spent[j])'
    <3>1. Exhausted(j)' = Exhausted(j)
      BY <1>4 DEF LookupSucceeds, Exhausted, Refill
    <3>2. lookups'[j] <= lookups[j] /\ lookups'[j] \in Nat
      BY <1>1, <2>1
    <3>3. Pending(j)' <= Pending(j) /\ Pending(j) \in Nat /\ Pending(j)' \in Nat
      BY <3>1, <3>2, <1>1 DEF Pending
    <3>4. failed[j] + Pending(j) <= MaxLookups * spent[j] /\ MaxLookups * spent[j] \in Nat
      BY <1>1 DEF LimiterInv
    <3> QED BY <3>3, <3>4, <1>1, <1>4 DEF LookupSucceeds
  <2> QED BY <2>2, <2>3, <2>4, <1>4 DEF LookupSucceeds, LimiterInv, Owes
<1>5. ASSUME NEW k \in Callers, NEW c \in 1..MaxCost, Request(k, c)
      PROVE  LimiterInv'
  <2>1. c \in Nat \ {0} /\ Take(k, c) /\ rclock' = rclock /\ lookups' = lookups /\ failed' = failed
    BY <1>5, LimiterAssumption DEF Request
  <2> QED BY <2>1, <1>1, TakePays
<1>6. CASE RlTick
  <2>1. /\ rclock' = rclock + 1 /\ rclock' \in 0..MaxClock
        /\ UNCHANGED <<buckets, overflow, spent, shared, lookups, failed>>
    BY <1>1, <1>6 DEF RlTick
  <2>2. LimiterTypes'
    BY <1>1, <2>1 DEF LimiterInv, LimiterTypes, RlTypeOK, Tracked
  <2>3. (\A j \in Callers : Owes(buckets[j], spent[j])') /\ Owes(overflow, shared)'
    <3>1. shared \in Nat
      BY DEF LimiterInv, LimiterTypes
    <3> QED BY <3>1, <2>1, <1>1 DEF LimiterInv, Owes, Bucket
  <2>4. ASSUME NEW j \in Callers
        PROVE  (failed[j] + Pending(j) <= MaxLookups * spent[j])'
    <3>1. Exhausted(j)' => Exhausted(j)
      <4>1. CASE buckets[j] = Absent
        BY <2>1, <4>1 DEF Exhausted
      <4>2. CASE buckets[j] # Absent
        <5>1. buckets[j].tokens \in Nat /\ buckets[j].at \in Nat /\ rclock \in Nat
          BY <4>2, <1>1 DEF Bucket
        <5> QED BY <5>1, <2>1, <4>2, <1>1 DEF Exhausted, Refill
      <4> QED BY <4>1, <4>2
    <3>2. Pending(j)' <= Pending(j) /\ Pending(j) \in Nat /\ Pending(j)' \in Nat
      BY <3>1, <2>1, <1>1 DEF Pending
    <3>3. failed[j] + Pending(j) <= MaxLookups * spent[j] /\ MaxLookups * spent[j] \in Nat
      BY <1>1 DEF LimiterInv
    <3> QED BY <3>2, <3>3, <2>1, <1>1
  <2> QED BY <2>2, <2>3, <2>4 DEF LimiterInv
<1>7. CASE UNCHANGED rlvars
  BY <1>7 DEF rlvars, LimiterInv, LimiterTypes, RlTypeOK, Tracked, Owes, Pending, Exhausted, Refill
<1> QED BY <1>2, <1>3, <1>4, <1>5, <1>6, <1>7 DEF RlNext

LEMMA LimiterInvSound == LimiterInv => LimiterIsSound
<1> SUFFICES ASSUME LimiterInv PROVE LimiterIsSound
  OBVIOUS
<1>1. RlTypeOK /\ rclock \in Nat /\ MaxLookups \in Nat /\ Burst \in Nat
  BY LimiterAssumption DEF LimiterInv, LimiterTypes
<1>2. /\ buckets \in [Callers -> {Absent} \cup Bucket] /\ overflow \in {Absent} \cup Bucket
      /\ spent \in [Callers -> Nat] /\ shared \in Nat /\ failed \in [Callers -> Nat]
      /\ lookups \in [Callers -> 0..MaxLookups]
  BY DEF LimiterInv, LimiterTypes, RlTypeOK, Bucket
<1>3. ASSUME NEW b \in {Absent} \cup Bucket, NEW g \in Nat, Owes(b, g)
      PROVE  g <= Burst + rclock
  <2>1. b # Absent => b.tokens \in Nat /\ b.at \in Nat
    BY DEF Bucket
  <2> QED BY <2>1, <1>1, <1>3 DEF Owes
<1>4. BudgetHolds
  BY <1>2, <1>3 DEF LimiterInv, BudgetHolds
<1>5. FailuresRationed
  <2> SUFFICES ASSUME NEW k \in Callers PROVE failed[k] <= MaxLookups * (Burst + rclock)
    BY DEF FailuresRationed
  <2>1. spent[k] \in Nat /\ failed[k] \in Nat /\ lookups[k] \in Nat /\ spent[k] <= Burst + rclock
    BY <1>1, <1>2, <1>4 DEF BudgetHolds
  <2>2. failed[k] <= MaxLookups * spent[k]
    <3>1. failed[k] + Pending(k) <= MaxLookups * spent[k] /\ MaxLookups * spent[k] \in Nat
      BY <1>1, <2>1 DEF LimiterInv
    <3>2. Pending(k) \in Nat
      BY <2>1 DEF Pending
    <3> QED BY <2>1, <3>1, <3>2
  <2>3. MaxLookups * spent[k] <= MaxLookups * (Burst + rclock)
    <3>1. PICK t \in Nat : t = Burst + rclock
      BY <1>1
    <3>2. CASE t = spent[k]
      BY <2>1, <3>1, <3>2, <1>1
    <3>3. CASE t >= spent[k] + 1
      <4>1. MaxLookups * spent[k] + MaxLookups <= MaxLookups * t
        BY <2>1, <3>1, <3>3, OneTokenPaysForAll
      <4>2. MaxLookups * spent[k] \in Nat /\ MaxLookups * t \in Nat
        BY <1>1, <2>1, <3>1
      <4> QED BY <4>1, <4>2, <3>1, <1>1
    <3> QED BY <2>1, <3>1, <3>2, <3>3
  <2>4. MaxLookups * spent[k] \in Nat /\ MaxLookups * (Burst + rclock) \in Nat
    BY <1>1, <2>1
  <2> QED BY <2>1, <2>2, <2>3, <2>4
<1> QED BY <1>1, <1>4, <1>5 DEF LimiterIsSound

(* However lookups overlap, keys are forgotten and newcomers share a       *)
(* bucket, nobody is granted more than a burst and the rate, and failed    *)
(* lookups are rationed (limiter.ts, take; auth.ts, authenticate).         *)
THEOREM LimiterSound == RlInit /\ [][RlNext]_rlvars => []LimiterIsSound
BY LimiterInit, LimiterStep, LimiterInvSound, PTL

-----------------------------------------------------------------------------
Increasing(s) == \A i, j \in 1..Len(s) : i < j => s[i] < s[j]

(* Inductive: what is in memory is in order, the batch before the buffer;  *)
(* everything shed is older than the buffer, and than the batch too unless *)
(* the buffer is full, when a batch that comes back is shed itself.        *)
InOrder ==
    /\ Increasing(buffer) /\ Increasing(flush.batch)
    /\ \A r \in Range(flush.batch), q \in Range(buffer) : r < q
    /\ \A d \in dropped, q \in Range(buffer) : d < q
    /\ Len(buffer) = BufferMax \/ \A d \in dropped, r \in Range(flush.batch) : d < r

(* What the transactions still to come will store, or have stored.         *)
BatchAccounted ==
    \A r \in Range(flush.batch) :
        \/ Settled(r)
        \/ flush.at = "inserting" /\ TenantOf[Key(r)[1]] \in flush.tenants

(* What waits has a sensor to mark.                                        *)
SomethingTouched ==
    /\ buffer # <<>> => touched # {}
    /\ flush.at # "none" => flush.touched # {}

FlushType == [at : {"none", "inserting", "marking"}, batch : Seq(Readings),
              touched : SUBSET Sensors, tenants : SUBSET Tenants]

WriterInv ==
    /\ WriterIsSound /\ flush \in FlushType
    /\ InOrder /\ BatchAccounted /\ SomethingTouched
-----------------------------------------------------------------------------
(* Shedding keeps the newest, in order (writer.ts, enqueue).               *)
LEMMA ShedKeepsNewest ==
    ASSUME NEW S, S \subseteq Nat, NEW s \in Seq(S), Increasing(s)
    PROVE  /\ Shed(s) \in Seq(S) /\ Increasing(Shed(s)) /\ Len(Shed(s)) <= BufferMax
           /\ \E c \in Nat : /\ Len(s) = Len(Shed(s)) + c
                            /\ (c # 0 => Len(Shed(s)) = BufferMax)
                            /\ \A i \in 1..Len(Shed(s)) : Shed(s)[i] = s[i + c]
           /\ Range(Shed(s)) \subseteq Range(s)
           /\ s # <<>> => Shed(s) # <<>>
           /\ Range(Shed(s)) # Range(s) => Len(Shed(s)) = BufferMax
           /\ \A d \in Range(s) \ Range(Shed(s)), q \in Range(Shed(s)) : d < q
<1>1. PICK n \in Nat : n = Len(s)
  <2>1. Len(s) \in Nat
    BY LenProperties
  <2> QED BY <2>1
<1>2. BufferMax \in Nat \ {0} /\ DOMAIN s = 1..n /\ \A i \in 1..n : s[i] \in S /\ s[i] \in Nat
  <2>1. s \in [1..n -> S]
    BY <1>1, LenProperties
  <2> QED BY <2>1, WriterAssumption
<1> DEFINE Newest(t, c) ==
             /\ t \in Seq(S) /\ Len(t) + c = n /\ Len(t) <= BufferMax
             /\ c # 0 => Len(t) = BufferMax
             /\ \A i \in 1..Len(t) : t[i] = s[i + c]
             /\ c = 0 => t = s
<1>0. \E c \in Nat : Newest(Shed(s), c)
  <2>1. CASE n <= BufferMax
    <3>1. Shed(s) = s
      BY <1>1, <2>1 DEF Shed
    <3>2. Newest(s, 0)
      BY <1>1, <2>1
    <3> QED BY <3>1, <3>2
  <2>2. CASE n > BufferMax
    <3>0. BufferMax \in Nat /\ n \in Nat
      BY <1>1, <1>2
    <3>1. PICK c \in Nat : c = n - BufferMax
      <4>1. n - BufferMax \in Nat
        BY <3>0, <2>2
      <4> QED BY <4>1
    <3>2. n = c + BufferMax /\ c # 0
      BY <3>0, <3>1, <2>2
    <3>3. PICK a \in Nat : a = c + 1
      BY <3>1
    <3>4. a <= n /\ n - a + 1 = BufferMax /\ a \in Int /\ n \in Int
      BY <3>0, <3>2, <3>3, <1>2
    <3>5. Shed(s) = SubSeq(s, a, n)
      <4>1. n - BufferMax + 1 = a /\ ~(n <= BufferMax)
        BY <3>0, <3>1, <3>3, <2>2
      <4>2. Shed(s) = SubSeq(s, n - BufferMax + 1, n)
        BY <4>1, <1>1 DEF Shed
      <4> QED BY <4>1, <4>2
    <3>6. \A i \in a..n : s[i] \in S
      BY <1>2, <3>3
    <3>7. /\ SubSeq(s, a, n) \in Seq(S)
          /\ Len(SubSeq(s, a, n)) = IF a <= n THEN n - a + 1 ELSE 0
          /\ \A i \in 1..n - a + 1 : SubSeq(s, a, n)[i] = s[a + i - 1]
      BY <3>4, <3>6, SubSeqProperties
    <3>8. \A i \in 1..BufferMax : a + i - 1 = i + c
      BY <3>1, <3>3, <1>2
    <3>9. \A i \in 1..BufferMax : Shed(s)[i] = s[i + c]
      BY <3>4, <3>5, <3>7, <3>8
    <3>10. Newest(Shed(s), c)
      BY <3>0, <3>2, <3>4, <3>5, <3>7, <3>9
    <3> QED BY <3>10
  <2> QED BY <1>1, <1>2, <2>1, <2>2
<1> PICK t : t = Shed(s)
  OBVIOUS
<1>3. PICK c \in Nat : Newest(t, c)
  BY <1>0
<1>4. PICK m \in Nat : m = Len(t) /\ DOMAIN t = 1..m
  BY <1>3
<1>5. \A i \in 1..m : i + c \in 1..n /\ t[i] = s[i + c]
  BY <1>1, <1>3, <1>4
<1>6. \A i, j \in 1..n : i < j => s[i] < s[j]
  BY <1>1 DEF Increasing
<1>7. Increasing(t)
  <2> SUFFICES ASSUME NEW i \in 1..m, NEW j \in 1..m, i < j PROVE t[i] < t[j]
    BY <1>4 DEF Increasing
  <2>1. i + c < j + c
    BY <1>3, <1>4
  <2> QED BY <2>1, <1>5, <1>6
<1>8. Range(t) \subseteq Range(s)
  BY <1>2, <1>4, <1>5 DEF Range
<1>9. s # <<>> => t # <<>>
  BY <1>1, <1>2, <1>3
<1>10. Range(t) # Range(s) => Len(t) = BufferMax
  BY <1>3
<1>11. ASSUME NEW d \in Range(s) \ Range(t), NEW q \in Range(t)
       PROVE  d < q
  <2>1. PICK i \in 1..n : d = s[i]
    BY <1>2 DEF Range
  <2>2. PICK j \in 1..m : q = t[j]
    BY <1>4 DEF Range
  <2>3. i <= c
    <3> SUFFICES ASSUME i > c PROVE FALSE
      BY <1>1, <1>3
    <3>1. PICK h \in 1..m : i = h + c
      <4>1. i - c \in 1..m /\ i = (i - c) + c
        BY <1>1, <1>3, <1>4
      <4> QED BY <4>1
    <3>2. d = t[h]
      BY <2>1, <3>1, <1>5
    <3> QED BY <3>2, <1>4 DEF Range
  <2>4. i < j + c
    BY <2>3, <1>1, <1>3, <1>4
  <2> QED BY <2>1, <2>2, <2>4, <1>5, <1>6
<1> QED BY <1>1, <1>3, <1>7, <1>8, <1>9, <1>10, <1>11

(* A set of indices has a last one: else the step to the next index would  *)
(* map the indices below to themselves without reaching the first.         *)
LEMMA LargestIndex ==
    ASSUME NEW n \in Nat, NEW I, I \subseteq 1..n, I # {}
    PROVE  \E m \in I : \A i \in I : i <= m
<1> SUFFICES ASSUME \A m \in I : \E i \in I : i > m
             PROVE  FALSE
  <2>1. \A m, i \in I : i <= m \/ i > m
    OBVIOUS
  <2> QED BY <2>1
<1> DEFINE S == {i \in 1..n : \E j \in I : j >= i}
           f == [i \in S |-> i + 1]
<1>1. IsFiniteSet(S)
  <2>1. IsFiniteSet(1..n)
    BY FS_Interval
  <2> QED BY <2>1, FS_Subset
<1>2. \A i \in S : i + 1 \in S
  <2> SUFFICES ASSUME NEW i \in S PROVE i + 1 \in S
    OBVIOUS
  <2>1. PICK j \in I : j >= i
    OBVIOUS
  <2>2. PICK h \in I : h > j
    OBVIOUS
  <2>3. i \in 1..n /\ j \in 1..n /\ h \in 1..n
    OBVIOUS
  <2>4. h >= i + 1 /\ i + 1 \in 1..n
    BY <2>1, <2>2, <2>3
  <2> QED BY <2>4
<1>3. f \in Injection(S, S)
  <2>1. f \in [S -> S]
    BY <1>2
  <2>2. \A a, b \in S : f[a] = f[b] => a = b
    OBVIOUS
  <2> QED BY <2>1, <2>2 DEF Injection, IsInjective
<1>4. f \in Surjection(S, S)
  BY <1>1, <1>3, FS_Injection
<1>5. 1 \in S
  <2>1. PICK j \in I : j \in 1..n
    OBVIOUS
  <2>2. 1 \in 1..n /\ j >= 1
    BY <2>1
  <2> QED BY <2>2
<1>6. PICK i \in S : f[i] = 1
  BY <1>4, <1>5 DEF Surjection
<1>7. i + 1 = 1 /\ i \in 1..n
  BY <1>6
<1> QED BY <1>7

(* Of every key in the batch one reading is left, the last (dedupe).       *)
LEMMA DedupeKeepsKeys ==
    ASSUME NEW S, NEW s \in Seq(S)
    PROVE  /\ dedupe(s) \subseteq Range(s)
           /\ \A r \in Range(s) : \E q \in dedupe(s) : Key(q) = Key(r)
<1>1. PICK n \in Nat : n = Len(s) /\ DOMAIN s = 1..n
  <2>1. Len(s) \in Nat /\ DOMAIN s = 1..Len(s)
    BY LenProperties
  <2> QED BY <2>1
<1>2. dedupe(s) \subseteq Range(s)
  BY DEF dedupe, Range
<1>3. ASSUME NEW r \in Range(s)
      PROVE  \E q \in dedupe(s) : Key(q) = Key(r)
  <2> DEFINE I == {i \in 1..n : Key(s[i]) = Key(r)}
  <2>1. I # {} /\ I \subseteq 1..n
    BY <1>1 DEF Range
  <2> HIDE DEF I
  <2>2. PICK m \in I : \A i \in I : i <= m
    BY <2>1, LargestIndex
  <2>3. m \in 1..n /\ Key(s[m]) = Key(r)
    BY <2>2 DEF I
  <2>4. \A i \in DOMAIN s : i > m => Key(s[i]) # Key(s[m])
    BY <2>2, <2>3, <1>1 DEF I
  <2>5. s[m] \in dedupe(s)
    BY <2>3, <2>4, <1>1 DEF dedupe
  <2> QED BY <2>3, <2>5
<1> QED BY <1>2, <1>3

(* What a batch stores of a key is the last of its values in that batch.   *)
LEMMA DedupeKeepsNewest ==
    ASSUME NEW S, S \subseteq Nat, NEW s \in Seq(S), Increasing(s), NEW q \in dedupe(s),
           NEW r \in Range(s), r > q
    PROVE  Key(r) # Key(q)
<1>1. DOMAIN s = 1..Len(s) /\ Len(s) \in Nat
  BY LenProperties
<1>2. PICK i \in 1..Len(s) : q = s[i] /\ \A k \in DOMAIN s : k > i => Key(s[k]) # Key(s[i])
  BY <1>1 DEF dedupe
<1>3. PICK j \in 1..Len(s) : r = s[j]
  BY <1>1 DEF Range
<1>4. j > i
  <2> SUFFICES ASSUME j <= i PROVE FALSE
    BY <1>1
  <2>1. s[i] \in Nat /\ s[j] \in Nat
    BY <1>1, LenProperties
  <2>2. s[j] < s[i] \/ j = i
    BY <1>1 DEF Increasing
  <2> QED BY <2>1, <2>2, <1>2, <1>3
<1> QED BY <1>1, <1>2, <1>3, <1>4

-----------------------------------------------------------------------------
LEMMA WriterInit0 == WriterInit => WriterInv
<1> SUFFICES ASSUME WriterInit PROVE WriterInv
  OBVIOUS
<1>1. Readings = {} /\ Len(buffer) = 0 /\ flush = NoFlush /\ buffer = <<>> /\ flush.batch = <<>>
  BY DEF WriterInit, Readings, NoFlush
<1>2. Range(buffer) = {} /\ Range(flush.batch) = {}
  BY <1>1 DEF Range
<1>3. flush \in FlushType
  BY <1>1 DEF FlushType, NoFlush
<1>4. WriterTypeOK
  BY <1>1, WriterAssumption DEF WriterInit, WriterTypeOK, NoFlush
<1>5. InOrder
  BY <1>1, <1>2 DEF WriterInit, InOrder, Increasing
<1>6. NothingVanishes /\ ShedsOldestFirst /\ BatchAccounted /\ SomethingTouched
  BY <1>1, <1>2, WriterAssumption
     DEF WriterInit, NothingVanishes, ShedsOldestFirst, BatchAccounted, SomethingTouched, NoFlush
<1> QED BY <1>3, <1>4, <1>5, <1>6 DEF WriterInv, WriterIsSound

(* The parts of the invariant, as the steps use them.                      *)
LEMMA WriterFacts ==
    ASSUME WriterInv
    PROVE  /\ accepted \in Seq(Keys) /\ Len(accepted) \in Nat
           /\ \A r \in Readings : Key(r) \in Keys /\ Key(r)[1] \in Sensors
           /\ \A s \in Sensors : TenantOf[s] \in Tenants
           /\ Readings \subseteq Nat /\ 0 \notin Readings
           /\ buffer \in Seq(Readings) /\ flush.batch \in Seq(Readings)
           /\ buffer \in Seq(Nat) /\ flush.batch \in Seq(Nat)
           /\ Range(buffer) \subseteq Readings /\ Range(flush.batch) \subseteq Readings
           /\ dropped \subseteq Readings
           /\ BufferMax \in Nat \ {0} /\ Len(buffer) \in Nat
<1>1. accepted \in Seq(Keys) /\ Len(accepted) \in Nat /\ accepted \in [1..Len(accepted) -> Keys]
  BY LenProperties DEF WriterInv, WriterIsSound, WriterTypeOK
<1>2. buffer \in Seq(Readings) /\ flush.batch \in Seq(Readings) /\ dropped \subseteq Readings
  BY DEF WriterInv, WriterIsSound, WriterTypeOK
<1>3. /\ Len(buffer) \in Nat /\ buffer \in [1..Len(buffer) -> Readings]
      /\ flush.batch \in [1..Len(flush.batch) -> Readings]
  BY <1>2, LenProperties
<1>4. \A r \in Readings : Key(r) \in Keys /\ Key(r)[1] \in Sensors
  BY <1>1 DEF Readings, Key, Keys
<1>5. Readings \subseteq Nat /\ 0 \notin Readings
  BY <1>1 DEF Readings
<1>6. buffer \in Seq(Nat) /\ flush.batch \in Seq(Nat)
  <2>1. /\ buffer \in [1..Len(buffer) -> Nat] /\ flush.batch \in [1..Len(flush.batch) -> Nat]
        /\ Len(flush.batch) \in Nat
    BY <1>2, <1>3, <1>5, LenProperties
  <2> QED BY <2>1, <1>3
<1>7. Range(buffer) \subseteq Readings /\ Range(flush.batch) \subseteq Readings
  BY <1>3 DEF Range
<1> QED BY <1>1, <1>2, <1>3, <1>4, <1>5, <1>6, <1>7, WriterAssumption

Joined(s, t) == s \o t

(* A sequence over a set is one over any set that holds its elements.      *)
LEMMA SeqByRange ==
    ASSUME NEW S, NEW s \in Seq(Nat), Range(s) \subseteq S
    PROVE  s \in Seq(S)
<1>1. s \in [1..Len(s) -> Nat] /\ Len(s) \in Nat
  BY LenProperties
<1>2. \A i \in 1..Len(s) : s[i] \in S
  BY <1>1 DEF Range
<1>3. s \in [1..Len(s) -> S]
  BY <1>1, <1>2
<1> QED BY <1>1, <1>3

(* The readings of a joined sequence: of the one, then of the other.       *)
LEMMA JoinIndices ==
    ASSUME NEW s \in Seq(Nat), NEW t \in Seq(Nat)
    PROVE  /\ Joined(s, t) \in Seq(Nat) /\ Len(Joined(s, t)) = Len(s) + Len(t)
           /\ DOMAIN Joined(s, t) = 1..(Len(s) + Len(t))
           /\ \A i \in 1..Len(s) : Joined(s, t)[i] = s[i]
           /\ \A i \in 1..Len(t) : Joined(s, t)[Len(s) + i] = t[i]
<1>1. PICK a \in Nat : a = Len(s)
  <2>1. Len(s) \in Nat
    BY LenProperties
  <2> QED BY <2>1
<1>2. PICK b \in Nat : b = Len(t)
  <2>1. Len(t) \in Nat
    BY LenProperties
  <2> QED BY <2>1
<1>3. PICK u : u = Joined(s, t)
  OBVIOUS
<1>4. /\ u \in Seq(Nat) /\ Len(u) = a + b
      /\ \A i \in 1..(a + b) : u[i] = IF i <= a THEN s[i] ELSE t[i - a]
  <2>1. /\ s \o t \in Seq(Nat) /\ Len(s \o t) = Len(s) + Len(t)
        /\ \A i \in 1..Len(s) + Len(t) :
             (s \o t)[i] = IF i <= Len(s) THEN s[i] ELSE t[i - Len(s)]
    BY ConcatProperties
  <2> QED BY <2>1, <1>1, <1>2, <1>3 DEF Joined
<1>5. DOMAIN u = 1..(a + b)
  BY <1>4, LenProperties
<1>6. \A i \in 1..a : u[i] = s[i]
  <2>1. \A i \in 1..a : i \in 1..(a + b) /\ i <= a
    OBVIOUS
  <2> QED BY <2>1, <1>4
<1>7. \A i \in 1..b : u[a + i] = t[i]
  <2>1. \A i \in 1..b : a + i \in 1..(a + b) /\ ~(a + i <= a) /\ (a + i) - a = i
    OBVIOUS
  <2> QED BY <2>1, <1>4
<1> QED BY <1>1, <1>2, <1>3, <1>4, <1>5, <1>6, <1>7

LEMMA SplitIndex ==
    ASSUME NEW a \in Nat, NEW b \in Nat, NEW i \in 1..(a + b)
    PROVE  i \in 1..a \/ (\E j \in 1..b : i = a + j)
<1>1. CASE i > a
  <2>1. i - a \in 1..b /\ i = a + (i - a)
    BY <1>1
  <2> QED BY <2>1
<1> QED BY <1>1

(* Two sequences in order, one before the other, are in order together.    *)
LEMMA JoinInOrder ==
    ASSUME NEW s \in Seq(Nat), NEW t \in Seq(Nat)
    PROVE  /\ Range(Joined(s, t)) = Range(s) \cup Range(t)
           /\ (Increasing(s) /\ Increasing(t) /\ (\A x \in Range(s), y \in Range(t) : x < y))
                => Increasing(Joined(s, t))
<1>1. PICK a \in Nat : a = Len(s) /\ DOMAIN s = 1..a
  <2>1. Len(s) \in Nat /\ DOMAIN s = 1..Len(s)
    BY LenProperties
  <2> QED BY <2>1
<1>2. PICK b \in Nat : b = Len(t) /\ DOMAIN t = 1..b
  <2>1. Len(t) \in Nat /\ DOMAIN t = 1..Len(t)
    BY LenProperties
  <2> QED BY <2>1
<1>3. PICK u : u = Joined(s, t)
  OBVIOUS
<1>4. /\ Len(u) = a + b /\ DOMAIN u = 1..(a + b)
      /\ \A i \in 1..a : u[i] = s[i]
      /\ \A i \in 1..b : u[a + i] = t[i]
  BY <1>1, <1>2, <1>3, JoinIndices
<1>5. Range(u) \subseteq Range(s) \cup Range(t)
  <2> SUFFICES ASSUME NEW i \in 1..(a + b) PROVE u[i] \in Range(s) \cup Range(t)
    BY <1>4 DEF Range
  <2>1. CASE i \in 1..a
    BY <2>1, <1>1, <1>4 DEF Range
  <2>2. ASSUME NEW j \in 1..b, i = a + j PROVE u[i] \in Range(t)
    BY <2>2, <1>2, <1>4 DEF Range
  <2> QED BY <2>1, <2>2, SplitIndex
<1>6. Range(s) \subseteq Range(u) /\ Range(t) \subseteq Range(u)
  <2>1. (\A i \in 1..a : i \in 1..(a + b)) /\ (\A i \in 1..b : a + i \in 1..(a + b))
    OBVIOUS
  <2>2. ASSUME NEW i \in 1..a PROVE s[i] \in Range(u)
    BY <2>1, <1>4 DEF Range
  <2>3. ASSUME NEW i \in 1..b PROVE t[i] \in Range(u)
    BY <2>1, <1>4 DEF Range
  <2> QED BY <2>2, <2>3, <1>1, <1>2 DEF Range
<1>7. ASSUME Increasing(s), Increasing(t), \A x \in Range(s), y \in Range(t) : x < y,
             NEW i \in 1..(a + b), NEW j \in 1..(a + b), i < j
      PROVE  u[i] < u[j]
  <2>1. CASE i \in 1..a /\ j \in 1..a
    BY <2>1, <1>1, <1>4, <1>7 DEF Increasing
  <2>2. ASSUME i \in 1..a, NEW k \in 1..b, j = a + k PROVE u[i] < u[j]
    <3>1. s[i] \in Range(s) /\ t[k] \in Range(t)
      BY <2>2, <1>1, <1>2 DEF Range
    <3> QED BY <3>1, <2>2, <1>4, <1>7
  <2>3. ASSUME NEW h \in 1..b, i = a + h, NEW k \in 1..b, j = a + k PROVE u[i] < u[j]
    <3>1. h < k
      BY <2>3, <1>7
    <3>2. u[i] = t[h] /\ u[j] = t[k]
      BY <2>3, <1>4
    <3>3. \A x, y \in 1..b : x < y => t[x] < t[y]
      BY <1>2, <1>7 DEF Increasing
    <3> QED BY <3>1, <3>2, <3>3
  <2>4. ASSUME NEW h \in 1..b, i = a + h, j \in 1..a PROVE FALSE
    BY <2>4, <1>7
  <2> QED BY <2>1, <2>2, <2>3, <2>4, SplitIndex
<1>8. (Increasing(s) /\ Increasing(t) /\ (\A x \in Range(s), y \in Range(t) : x < y)) => Increasing(u)
  BY <1>4, <1>7 DEF Increasing
<1> QED BY <1>3, <1>5, <1>6, <1>8

Fresh(p, n) == [i \in 1..n |-> p + i]

(* Starting a flush of what is in memory: the batch takes it over.         *)
LEMMA FlushTakesOver ==
    ASSUME NEW buf, NEW tch, NEW acc, acc = accepted', StartFlush(buf, tch, acc),
           accepted' \in Seq(Keys), buf \in Seq(Readings'), Increasing(buf), buf # <<>>,
           tch \subseteq Sensors, tch # {}, dropped' \subseteq Readings',
           stored' \in [Keys -> 0..Len(accepted')], seen' \subseteq Sensors,
           process' \in {"running", "stopping", "closing", "closed", "exited"},
           writeFaults' \in 0..MaxWriteFaults,
           \A d \in dropped', q \in Range(buf) : d < q,
           \A r \in Readings' : r \in Range(buf) \/ r \in dropped' \/ Settled(r)'
    PROVE  WriterInv'
<1>1. /\ flush' = [at |-> "inserting", batch |-> buf, touched |-> tch,
                   tenants |-> {TenantOf[acc[r][1]] : r \in Range(buf)}]
      /\ buffer' = <<>> /\ touched' = {}
  BY DEF StartFlush
<1>2. Len(accepted') \in Nat /\ \A r \in Readings' : accepted'[r] \in Keys /\ accepted'[r][1] \in Sensors
  <2>1. accepted' \in [1..Len(accepted') -> Keys] /\ Len(accepted') \in Nat
    BY LenProperties
  <2> QED BY <2>1 DEF Readings, Keys
<1>3. Range(buf) \subseteq Readings' /\ Range(buf) # {}
  <2>1. buf \in [1..Len(buf) -> Readings'] /\ Len(buf) \in Nat /\ Len(buf) # 0
    BY LenProperties
  <2>2. 1 \in 1..Len(buf)
    BY <2>1
  <2> QED BY <2>1, <2>2 DEF Range
<1>4. flush'.tenants \subseteq Tenants /\ flush'.tenants # {}
  BY <1>1, <1>2, <1>3, WriterAssumption
<1>5. flush' \in FlushType'
  BY <1>1, <1>4 DEF FlushType
<1>6. Range(buffer') = {} /\ Len(buffer') = 0 /\ buffer' \in Seq(Readings')
  BY <1>1 DEF Range
<1>7. WriterTypeOK'
  BY <1>1, <1>2, <1>4, <1>6 DEF WriterTypeOK, NoFlush
<1>8. NothingVanishes' /\ ShedsOldestFirst'
  BY <1>1, <1>6, WriterAssumption DEF NothingVanishes, ShedsOldestFirst
<1>9. InOrder'
  BY <1>1, <1>6 DEF InOrder, Increasing
<1>10. BatchAccounted' /\ SomethingTouched'
  BY <1>1 DEF BatchAccounted, SomethingTouched, Key
<1> QED BY <1>5, <1>7, <1>8, <1>9, <1>10 DEF WriterInv, WriterIsSound

LEMMA EnqueueStep ==
    ASSUME WriterInv, NEW n \in 1..MaxPush, NEW keys \in [1..n -> Keys], enqueue(keys)
    PROVE  WriterInv'
<1>1. PICK p \in Nat : p = Len(accepted) /\ Readings = 1..p
  BY WriterFacts DEF Readings
<1>2. PICK acc : acc = accepted \o keys
  OBVIOUS
<1>3. PICK all : all = buffer \o Fresh(p, n)
  OBVIOUS
<1>4. PICK buf : buf = Shed(all)
  OBVIOUS
<1>5. PICK tch : tch = touched \cup {keys[i][1] : i \in DOMAIN keys}
  OBVIOUS
<1>6. n \in Nat \ {0}
  BY WriterAssumption
<1>7. /\ Len(keys) = n /\ DOMAIN keys = 1..n
      /\ acc \in Seq(Keys) /\ Len(acc) = p + n
      /\ \A r \in Readings : acc[r] = Key(r)
      /\ all \in Seq(1..(p + n)) /\ Increasing(all) /\ all # <<>>
      /\ Len(all) = Len(buffer) + n
      /\ Range(all) = Range(buffer) \cup {p + i : i \in 1..n}
  <2>1. keys \in Seq(Keys) /\ Len(keys) = n /\ DOMAIN keys = 1..n
    OBVIOUS
  <2>2. PICK new : new = Fresh(p, n)
    OBVIOUS
  <2>3. /\ new \in Seq(Nat) /\ Len(new) = n /\ Increasing(new)
        /\ Range(new) = {p + i : i \in 1..n}
    <3>1. n \in Nat /\ \A i \in 1..n : p + i \in Nat
      BY <2>2, <1>1, <1>6
    <3>2. DOMAIN new = 1..n /\ \A i \in 1..n : new[i] = p + i
      BY <2>2 DEF Fresh
    <3>3. new \in Seq(Nat) /\ Len(new) = n
      BY <3>1, <2>2 DEF Fresh
    <3>4. Increasing(new)
      BY <3>2, <3>3 DEF Increasing
    <3> QED BY <3>2, <3>3, <3>4 DEF Range
  <2>4. /\ acc \in Seq(Keys) /\ Len(acc) = p + n
        /\ \A r \in Readings : acc[r] = Key(r)
    <3>1. /\ accepted \o keys \in Seq(Keys) /\ Len(accepted \o keys) = Len(accepted) + Len(keys)
          /\ \A i \in 1..Len(accepted) + Len(keys) :
               (accepted \o keys)[i] = IF i <= Len(accepted) THEN accepted[i] ELSE keys[i - Len(accepted)]
      BY <2>1, WriterFacts, ConcatProperties
    <3>2. \A r \in 1..p : r \in 1..(p + n) /\ r <= p
      BY <1>1, <1>6
    <3> QED BY <3>1, <3>2, <2>1, <1>1, <1>2 DEF Key
  <2>5. buffer \in Seq(Nat) /\ Range(buffer) \subseteq 1..p /\ Increasing(buffer)
    <3>1. buffer \in Seq(Readings) /\ Range(buffer) \subseteq Readings /\ Readings \subseteq Nat
      BY WriterFacts
    <3>2. buffer \in Seq(Nat) /\ Increasing(buffer)
      BY WriterFacts DEF WriterInv, InOrder
    <3> QED BY <3>1, <3>2, <1>1
  <2>6. \A x \in Range(buffer), y \in Range(new) : x < y
    <3>1. \A x \in 1..p, i \in 1..n : x < p + i
      BY <1>1, <1>6
    <3> QED BY <3>1, <2>3, <2>5
  <2>7. all = Joined(buffer, new)
    BY <2>2, <1>3 DEF Joined
  <2>8. /\ all \in Seq(1..(p + n)) /\ Len(all) = Len(buffer) + Len(new) /\ Increasing(all)
        /\ Range(all) = Range(buffer) \cup Range(new)
    <3>1. all \in Seq(Nat) /\ Len(all) = Len(buffer) + Len(new)
      BY <2>3, <2>5, <2>7, JoinIndices
    <3>2. Increasing(all) /\ Range(all) = Range(buffer) \cup Range(new)
      BY <2>3, <2>5, <2>6, <2>7, JoinInOrder
    <3>3. Range(all) \subseteq 1..(p + n)
      <4>1. (\A x \in 1..p : x \in 1..(p + n)) /\ (\A i \in 1..n : p + i \in 1..(p + n))
        BY <1>1, <1>6
      <4> QED BY <4>1, <3>2, <2>3, <2>5
    <3> QED BY <3>1, <3>2, <3>3, SeqByRange
  <2>9. all # <<>>
    <3>1. Len(buffer) \in Nat
      BY WriterFacts
    <3> QED BY <3>1, <2>3, <2>8, <1>6
  <2> QED BY <2>1, <2>2, <2>3, <2>4, <2>8, <2>9
<1>8. /\ accepted' = acc
      /\ dropped' = dropped \cup (Range(all) \ Range(buf))
      /\ IF Len(buf) >= FlushMax /\ flush = NoFlush
         THEN StartFlush(buf, tch, acc)
         ELSE buffer' = buf /\ touched' = tch /\ UNCHANGED flush
      /\ UNCHANGED <<stored, seen, process, writeFaults>>
  BY <1>1, <1>2, <1>3, <1>4, <1>5, <1>7 DEF enqueue, Fresh
<1>9. /\ buf \in Seq(1..(p + n)) /\ Increasing(buf) /\ Len(buf) <= BufferMax
      /\ Range(buf) \subseteq Range(all) /\ buf # <<>>
      /\ Range(buf) # Range(all) => Len(buf) = BufferMax
      /\ Len(all) > BufferMax => Len(buf) = BufferMax
      /\ \A d \in Range(all) \ Range(buf), q \in Range(buf) : d < q
  <2>1. PICK R : R = 1..(p + n)
    OBVIOUS
  <2>2. R \subseteq Nat
    BY <2>1, <1>1, <1>6
  <2>3. all \in Seq(R) /\ Increasing(all)
    BY <2>1, <1>7
  <2>4. /\ buf \in Seq(R) /\ Increasing(buf) /\ Len(buf) <= BufferMax
        /\ \E c \in Nat : /\ Len(all) = Len(buf) + c
                         /\ (c # 0 => Len(buf) = BufferMax)
        /\ Range(buf) \subseteq Range(all) /\ buf # <<>>
        /\ Range(buf) # Range(all) => Len(buf) = BufferMax
        /\ \A d \in Range(all) \ Range(buf), q \in Range(buf) : d < q
    BY <2>2, <2>3, <1>4, <1>7, ShedKeepsNewest
  <2>5. BufferMax \in Nat /\ Len(buf) \in Nat
    <3>1. buf \in Seq(R)
      BY <2>4
    <3>2. Len(buf) \in Nat
      BY <3>1, LenProperties
    <3> QED BY <3>2, WriterAssumption
  <2>6. Len(all) > BufferMax => Len(buf) = BufferMax
    <3>1. PICK c \in Nat : Len(all) = Len(buf) + c /\ (c # 0 => Len(buf) = BufferMax)
      BY <2>4
    <3>2. PICK l, a : l = Len(buf) /\ a = Len(all)
      OBVIOUS
    <3>3. l \in Nat /\ l <= BufferMax /\ a = l + c
      BY <2>4, <2>5, <3>1, <3>2
    <3>4. a > BufferMax => c # 0
      BY <2>5, <3>3
    <3> QED BY <3>1, <3>2, <3>4
  <2> QED BY <2>1, <2>4, <2>6
<1>10. Readings' = 1..(p + n) /\ Readings \subseteq Readings'
       /\ \A r \in Readings' : r \in Readings \/ r \in {p + i : i \in 1..n}
  <2>1. 1..p \subseteq 1..(p + n)
    BY <1>1, <1>6
  <2>2. \A r \in 1..(p + n) : r \in 1..p \/ (r = p + (r - p) /\ r - p \in 1..n)
    BY <1>1, <1>6
  <2>3. Readings' = 1..(p + n)
    BY <1>7, <1>8 DEF Readings
  <2> QED BY <2>1, <2>2, <2>3, <1>1
<1>11. tch \subseteq Sensors /\ tch # {}
  <2>1. touched \subseteq Sensors
    BY DEF WriterInv, WriterIsSound, WriterTypeOK
  <2>2. \A i \in 1..n : keys[i][1] \in Sensors
    <3> SUFFICES ASSUME NEW i \in 1..n PROVE keys[i][1] \in Sensors
      OBVIOUS
    <3>1. keys[i] \in Sensors \X Times
      <4>1. keys[i] \in Keys
        OBVIOUS
      <4> QED BY <4>1 DEF Keys
    <3> QED BY <3>1
  <2>3. 1 \in 1..n
    BY <1>6
  <2>4. tch \subseteq Sensors
    BY <2>1, <2>2, <1>5, <1>7
  <2>5. keys[1][1] \in tch
    BY <2>3, <1>5, <1>7
  <2> QED BY <2>4, <2>5
<1>12. \A d \in dropped', q \in Range(buf) : d < q
  <2> SUFFICES ASSUME NEW d \in dropped, NEW q \in Range(all) PROVE d < q
    BY <1>8, <1>9
  <2>1. d \in 1..p
    BY <1>1, WriterFacts
  <2>2. CASE q \in Range(buffer)
    BY <2>2 DEF WriterInv, InOrder
  <2>3. CASE q \in {p + i : i \in 1..n}
    BY <2>1, <2>3, <1>1, <1>6
  <2> QED BY <2>2, <2>3, <1>7
<1>13. \A r \in Readings : Key(r)' = Key(r) /\ (Settled(r)' <=> Settled(r))
  BY <1>7, <1>8 DEF Key, Settled
<1>14. dropped' \subseteq Readings'
  BY <1>1, <1>7, <1>8, <1>10, WriterFacts
<1>15. \A r \in Readings' : r \in Range(buf) \/ r \in dropped' \/ r \in Readings
  BY <1>7, <1>8, <1>10
<1>16. /\ stored' \in [Keys -> 0..Len(accepted')] /\ seen' \subseteq Sensors
       /\ process' \in {"running", "stopping", "closing", "closed", "exited"}
       /\ writeFaults' \in 0..MaxWriteFaults
  <2>1. 0..p \subseteq 0..(p + n)
    BY <1>1, <1>6
  <2> QED BY <2>1, <1>1, <1>7, <1>8 DEF WriterInv, WriterIsSound, WriterTypeOK
<1>17. CASE Len(buf) >= FlushMax /\ flush = NoFlush
  <2>1. \A r \in Readings' : r \in Range(buf) \/ r \in dropped' \/ Settled(r)'
    <3> SUFFICES ASSUME NEW r \in Readings PROVE r \in Range(buf) \/ r \in dropped' \/ Settled(r)'
      BY <1>15
    <3>1. Range(flush.batch) = {}
      BY <1>17 DEF NoFlush, Range
    <3>2. r \in Range(buffer) \/ r \in dropped \/ Settled(r)
      BY <3>1 DEF WriterInv, WriterIsSound, NothingVanishes
    <3> QED BY <3>2, <1>7, <1>8, <1>13
  <2>2. StartFlush(buf, tch, acc)
    BY <1>8, <1>17
  <2> QED BY <2>1, <2>2, <1>7, <1>8, <1>9, <1>10, <1>11, <1>12, <1>14, <1>16, FlushTakesOver
<1>18. CASE ~(Len(buf) >= FlushMax /\ flush = NoFlush)
  <2>1. buffer' = buf /\ touched' = tch /\ flush' = flush
    BY <1>8, <1>18
  <2>2. flush' \in FlushType' /\ flush.batch \in Seq(Readings') /\ Range(flush.batch) \subseteq Readings
    <3>1. flush.batch \in Seq(Readings')
      <4>1. flush.batch \in Seq(Nat) /\ Range(flush.batch) \subseteq Readings'
        BY <1>10, WriterFacts
      <4> QED BY <4>1, SeqByRange
    <3> QED BY <3>1, <2>1, WriterFacts DEF WriterInv, FlushType
  <2>3. WriterTypeOK'
    BY <2>1, <2>2, <1>7, <1>8, <1>9, <1>10, <1>11, <1>14, <1>16 DEF WriterInv, WriterIsSound, WriterTypeOK
  <2>4. NothingVanishes'
    <3> SUFFICES ASSUME NEW r \in Readings' 
                 PROVE  r \in Range(buf) \/ r \in Range(flush.batch) \/ r \in dropped' \/ Settled(r)'
      BY <2>1 DEF NothingVanishes
    <3>1. r \in Readings => r \in Range(buffer) \/ r \in Range(flush.batch) \/ r \in dropped \/ Settled(r)
      BY DEF WriterInv, WriterIsSound, NothingVanishes
    <3> QED BY <3>1, <1>7, <1>8, <1>13, <1>15
  <2>5. ShedsOldestFirst'
    BY <2>1, <1>9, <1>12 DEF ShedsOldestFirst
  <2>6. InOrder'
    <3>1. \A r \in Range(flush.batch), q \in Range(buf) : r < q
      <4> SUFFICES ASSUME NEW r \in Range(flush.batch), NEW q \in Range(all) PROVE r < q
        BY <1>9
      <4>1. r \in 1..p
        BY <1>1, <2>2
      <4>2. CASE q \in Range(buffer)
        BY <4>2 DEF WriterInv, InOrder
      <4>3. CASE q \in {p + i : i \in 1..n}
        BY <4>1, <4>3, <1>1, <1>6
      <4> QED BY <4>2, <4>3, <1>7
    <3>2. Len(buf) = BufferMax \/ \A d \in dropped', r \in Range(flush.batch) : d < r
      <4> SUFFICES ASSUME Range(buf) = Range(all)
                   PROVE  Len(buf) = BufferMax \/ \A d \in dropped', r \in Range(flush.batch) : d < r
        BY <1>9
      <4>1. dropped' = dropped
        BY <1>8
      <4>2. CASE \A d \in dropped, r \in Range(flush.batch) : d < r
        BY <4>1, <4>2
      <4>3. CASE Len(buffer) = BufferMax
        BY <4>3, <1>6, <1>7, <1>9, WriterAssumption
      <4> QED BY <4>2, <4>3 DEF WriterInv, InOrder
    <3> QED BY <3>1, <3>2, <2>1, <1>9, <1>12 DEF WriterInv, InOrder
  <2>7. BatchAccounted' /\ SomethingTouched'
    <3>1. \A r \in Range(flush.batch) : Key(r)' = Key(r) /\ (Settled(r)' <=> Settled(r))
      BY <2>2, <1>13
    <3> QED BY <3>1, <2>1, <1>11 DEF WriterInv, BatchAccounted, SomethingTouched
  <2> QED BY <2>2, <2>3, <2>4, <2>5, <2>6, <2>7, <2>1 DEF WriterInv, WriterIsSound
<1> QED BY <1>17, <1>18

LEMMA StartedFlush ==
    ASSUME WriterInv, flush = NoFlush, buffer # <<>>, StartFlush(buffer, touched, accepted),
           process' \in {"running", "stopping", "closing", "closed", "exited"},
           UNCHANGED <<accepted, stored, seen, dropped, writeFaults>>
    PROVE  WriterInv'
<1>1. PICK buf, tch, acc : buf = buffer /\ tch = touched /\ acc = accepted
  OBVIOUS
<1>2. /\ acc = accepted' /\ StartFlush(buf, tch, acc) /\ Readings' = Readings
      /\ \A r \in Readings : Settled(r)' <=> Settled(r)
  BY <1>1 DEF Readings, Settled, Key
<1>3. /\ accepted' \in Seq(Keys) /\ buf \in Seq(Readings') /\ buf # <<>>
      /\ tch \subseteq Sensors /\ tch # {} /\ dropped' \subseteq Readings'
      /\ stored' \in [Keys -> 0..Len(accepted')] /\ seen' \subseteq Sensors
      /\ writeFaults' \in 0..MaxWriteFaults
  BY <1>1, <1>2 DEF WriterInv, WriterIsSound, WriterTypeOK, SomethingTouched
<1>4. Increasing(buf) /\ \A d \in dropped', q \in Range(buf) : d < q
  BY <1>1 DEF WriterInv, InOrder
<1>5. \A r \in Readings' : r \in Range(buf) \/ r \in dropped' \/ Settled(r)'
  <2>1. Range(flush.batch) = {}
    BY DEF NoFlush, Range
  <2> QED BY <2>1, <1>1, <1>2 DEF WriterInv, WriterIsSound, NothingVanishes
<1> QED BY <1>2, <1>3, <1>4, <1>5, FlushTakesOver

LEMMA FlushFailsStep == ASSUME WriterInv, FlushFails PROVE WriterInv'
<1>1. /\ flush.at \in {"inserting", "marking"} /\ flush.touched # {}
      /\ writeFaults' \in 0..MaxWriteFaults
      /\ buffer' = Shed(Requeued)
      /\ dropped' = dropped \cup (Range(Requeued) \ Range(Shed(Requeued)))
      /\ touched' = touched \cup flush.touched /\ flush' = NoFlush
      /\ UNCHANGED <<accepted, stored, seen, process>>
  BY WriterAssumption DEF FlushFails, AfterFailure, Retouched, WriterInv, WriterIsSound, WriterTypeOK,
                          SomethingTouched
<1>2. /\ Readings' = Readings /\ Readings \subseteq Nat
      /\ \A r \in Readings : Settled(r)' <=> Settled(r)
  BY <1>1, WriterFacts DEF Readings, Settled, Key
<1>3. PICK all : all = Requeued
  OBVIOUS
<1>4. /\ all \in Seq(Nat) /\ Len(all) = Len(flush.batch) + Len(buffer)
      /\ \A i \in 1..Len(buffer) : all[Len(flush.batch) + i] = buffer[i]
      /\ Increasing(all) /\ Range(all) = Range(flush.batch) \cup Range(buffer)
  <2>1. all = Joined(flush.batch, buffer)
    BY <1>3 DEF Requeued, Joined
  <2>2. flush.batch \in Seq(Nat) /\ buffer \in Seq(Nat)
    BY WriterFacts
  <2>3. /\ Increasing(flush.batch) /\ Increasing(buffer)
        /\ \A x \in Range(flush.batch), y \in Range(buffer) : x < y
    BY DEF WriterInv, InOrder
  <2>4. /\ all \in Seq(Nat) /\ Len(all) = Len(flush.batch) + Len(buffer)
        /\ \A i \in 1..Len(buffer) : all[Len(flush.batch) + i] = buffer[i]
    BY <2>1, <2>2, JoinIndices
  <2> QED BY <2>1, <2>2, <2>3, <2>4, JoinInOrder
<1>5. all \in Seq(Readings) /\ Range(all) \subseteq Readings
  BY <1>4, WriterFacts, SeqByRange
<1>6. PICK buf : buf = Shed(all) /\ buf = buffer'
  BY <1>1, <1>3
<1>7. /\ buf \in Seq(Readings) /\ Increasing(buf) /\ Len(buf) <= BufferMax
      /\ Range(buf) \subseteq Range(all) /\ (all # <<>> => buf # <<>>)
      /\ \A d \in Range(all) \ Range(buf), q \in Range(buf) : d < q
  BY <1>2, <1>4, <1>5, <1>6, ShedKeepsNewest
<1>8. PICK c \in Nat : /\ Len(all) = Len(buf) + c
                       /\ (c # 0 => Len(buf) = BufferMax)
                       /\ \A i \in 1..Len(buf) : buf[i] = all[i + c]
  <2>1. Nat \subseteq Nat /\ all \in Seq(Nat) /\ Increasing(all)
    BY <1>4
  <2>2. \E c \in Nat : /\ Len(all) = Len(Shed(all)) + c
                      /\ (c # 0 => Len(Shed(all)) = BufferMax)
                      /\ \A i \in 1..Len(Shed(all)) : Shed(all)[i] = all[i + c]
    BY <2>1, ShedKeepsNewest
  <2>3. buf = Shed(all)
    BY <1>6
  <2> QED BY <2>2, <2>3, Zenon
<1>9. all # <<>>
  <2>1. flush.batch # <<>> /\ flush.batch \in Seq(Nat) /\ Len(buffer) \in Nat
    BY <1>1, WriterFacts DEF WriterInv, WriterIsSound, WriterTypeOK
  <2>2. Len(flush.batch) \in Nat /\ Len(flush.batch) # 0
    BY <2>1, LenProperties
  <2> QED BY <2>1, <2>2, <1>4
<1>10. \A d \in dropped, q \in Range(buf) : d < q
  <2>1. CASE \A d \in dropped, r \in Range(flush.batch) : d < r
    BY <2>1, <1>4, <1>7 DEF WriterInv, InOrder
  <2>2. CASE Len(buffer) = BufferMax
    <3>1. PICK m \in Nat : m = Len(flush.batch)
      <4>1. Len(flush.batch) \in Nat
        BY WriterFacts, LenProperties
      <4> QED BY <4>1
    <3>2. PICK l \in Nat : l = Len(buf) /\ DOMAIN buf = 1..l
      <4>1. Len(buf) \in Nat /\ DOMAIN buf = 1..Len(buf)
        BY <1>7, LenProperties
      <4> QED BY <4>1
    <3>3. BufferMax \in Nat \ {0} /\ m + BufferMax = l + c /\ l <= BufferMax /\ (c # 0 => l = BufferMax)
      BY <2>2, <3>1, <3>2, <1>4, <1>7, <1>8, WriterAssumption
    <3>4. c = m /\ l = BufferMax
      BY <3>1, <3>2, <3>3, <1>8
    <3>5. \A i \in 1..l : buf[i] = buffer[i]
      <4> SUFFICES ASSUME NEW i \in 1..l PROVE buf[i] = buffer[i]
        OBVIOUS
      <4>1. buf[i] = all[i + c] /\ i + c = m + i
        BY <3>2, <3>4, <1>8
      <4>2. all[m + i] = buffer[i]
        BY <2>2, <3>1, <3>4, <1>4
      <4> QED BY <4>1, <4>2
    <3>6. DOMAIN buffer = 1..l
      BY <2>2, <3>4, WriterFacts, LenProperties
    <3>7. Range(buf) \subseteq Range(buffer)
      BY <3>2, <3>5, <3>6 DEF Range
    <3> QED BY <3>7 DEF WriterInv, InOrder
  <2> QED BY <2>1, <2>2 DEF WriterInv, InOrder
<1>11. dropped' \subseteq Readings' /\ \A d \in dropped', q \in Range(buf) : d < q
  BY <1>1, <1>2, <1>3, <1>5, <1>6, <1>7, <1>10, WriterFacts
<1>12. flush'.batch = <<>> /\ Range(flush'.batch) = {} /\ flush'.at = "none"
       /\ flush'.touched = {} /\ flush'.tenants = {} /\ flush' \in FlushType'
  BY <1>1 DEF NoFlush, Range, FlushType
<1>13. touched' \subseteq Sensors /\ touched' # {}
  BY <1>1 DEF WriterInv, WriterIsSound, WriterTypeOK
<1>14. WriterTypeOK'
  BY <1>1, <1>2, <1>6, <1>7, <1>11, <1>12, <1>13 DEF WriterInv, WriterIsSound, WriterTypeOK
<1>15. NothingVanishes'
  <2> SUFFICES ASSUME NEW r \in Readings PROVE r \in Range(buf) \/ r \in dropped' \/ Settled(r)'
    BY <1>2, <1>6 DEF NothingVanishes
  <2>1. r \in Range(buffer) \/ r \in Range(flush.batch) \/ r \in dropped \/ Settled(r)
    BY DEF WriterInv, WriterIsSound, NothingVanishes
  <2> QED BY <2>1, <1>1, <1>2, <1>3, <1>4, <1>6
<1>16. ShedsOldestFirst'
  BY <1>6, <1>7, <1>11 DEF ShedsOldestFirst
<1>17. InOrder'
  <2>1. Increasing(flush'.batch)
    BY <1>12 DEF Increasing
  <2> QED BY <2>1, <1>6, <1>7, <1>11, <1>12 DEF InOrder
<1>18. BatchAccounted' /\ SomethingTouched'
  BY <1>12, <1>13 DEF BatchAccounted, SomethingTouched
<1> QED BY <1>12, <1>14, <1>15, <1>16, <1>17, <1>18 DEF WriterInv, WriterIsSound

(* insertReadings stores, of each key of the tenant that has no value yet, *)
(* the last value of the batch, and changes nothing else in the table.     *)
LEMMA InsertStores ==
    ASSUME WriterInv, NEW t \in Tenants, insertReadings(t), NEW k \in Keys
    PROVE  \/ stored'[k] = stored[k]
              /\ \A r \in Range(flush.batch) : Key(r) = k /\ TenantOf[k[1]] = t => stored[k] # 0
           \/ stored[k] = 0 /\ stored'[k] \in dedupe(flush.batch) /\ Key(stored'[k]) = k
<1> DEFINE new == {r \in dedupe(flush.batch) : Key(r) = k /\ TenantOf[k[1]] = t}
<1>1. stored'[k] = IF stored[k] = 0 /\ new # {} THEN CHOOSE r \in new : TRUE ELSE stored[k]
  BY DEF insertReadings
<1>2. CASE stored[k] = 0 /\ new # {}
  <2>1. stored'[k] \in new
    BY <1>1, <1>2
  <2> QED BY <2>1, <1>2
<1>3. CASE stored[k] # 0
  BY <1>1, <1>3
<1>4. CASE stored[k] = 0 /\ new = {}
  <2>1. ASSUME NEW r \in Range(flush.batch), Key(r) = k, TenantOf[k[1]] = t
        PROVE  FALSE
    <3>1. PICK q \in dedupe(flush.batch) : Key(q) = Key(r)
      <4>1. flush.batch \in Seq(Nat)
        BY WriterFacts
      <4> QED BY <4>1, DedupeKeepsKeys
    <3>2. q \in new
      BY <2>1, <3>1
    <3> QED BY <3>2, <1>4
  <2> QED BY <2>1, <1>1, <1>4
<1> QED BY <1>2, <1>3, <1>4

LEMMA InsertStep ==
    ASSUME WriterInv, NEW t \in Tenants, insertReadings(t),
           process' \in {"running", "stopping", "closing", "closed", "exited"}
    PROVE  WriterInv'
<1>1. /\ flush.at = "inserting" /\ t \in flush.tenants
      /\ UNCHANGED <<accepted, buffer, touched, seen, dropped, writeFaults>>
  BY DEF insertReadings
<1>2. flush \in FlushType /\ DOMAIN flush = {"at", "batch", "touched", "tenants"}
      /\ flush.touched \subseteq Sensors /\ flush.touched # {} /\ flush.batch # <<>>
  BY <1>1 DEF WriterInv, WriterIsSound, WriterTypeOK, FlushType, SomethingTouched
<1>3. /\ flush'.batch = flush.batch /\ flush'.touched = flush.touched
      /\ flush'.at \in {"inserting", "marking"} /\ flush'.tenants \subseteq Tenants /\ flush'.tenants # {}
      /\ flush' \in FlushType
      /\ flush'.at = "inserting" => flush'.tenants = flush.tenants \ {t}
      /\ flush'.at = "marking" => flush.tenants = {t}
  <2>1. CASE flush.tenants \ {t} # {}
    <3>1. flush' = [flush EXCEPT !.tenants = flush.tenants \ {t}]
      BY <2>1 DEF insertReadings
    <3> QED BY <3>1, <2>1, <1>1, <1>2 DEF FlushType
  <2>2. CASE flush.tenants \ {t} = {}
    <3>1. flush' = [flush EXCEPT !.at = "marking", !.tenants = {TenantOf[s] : s \in flush.touched}]
      BY <2>2 DEF insertReadings
    <3>2. {TenantOf[s] : s \in flush.touched} \subseteq Tenants /\ {TenantOf[s] : s \in flush.touched} # {}
      BY <1>2, WriterAssumption
    <3> QED BY <3>1, <3>2, <2>2, <1>1, <1>2 DEF FlushType
  <2> QED BY <2>1, <2>2
<1>4. /\ Readings' = Readings /\ \A r \in Readings : Key(r)' = Key(r)
  BY <1>1 DEF Readings, Key
<1>5. stored' \in [Keys -> 0..Len(accepted)] /\ \A k \in Keys : stored[k] # 0 => stored'[k] # 0
  <2>1. stored \in [Keys -> 0..Len(accepted)]
    BY DEF WriterInv, WriterIsSound, WriterTypeOK
  <2>2. DOMAIN stored' = Keys /\ stored' = [k \in Keys |-> stored'[k]]
    BY DEF insertReadings
  <2>3. ASSUME NEW k \in Keys
        PROVE  stored'[k] \in 0..Len(accepted) /\ (stored[k] # 0 => stored'[k] # 0)
    <3>1. CASE stored'[k] = stored[k]
      BY <3>1, <2>1
    <3>2. CASE stored[k] = 0 /\ stored'[k] \in dedupe(flush.batch)
      <4>1. dedupe(flush.batch) \subseteq Range(flush.batch)
        <5>1. flush.batch \in Seq(Nat)
          BY WriterFacts
        <5> QED BY <5>1, DedupeKeepsKeys
      <4>2. stored'[k] \in Readings
        BY <3>2, <4>1, WriterFacts
      <4>3. Readings \subseteq 0..Len(accepted)
        BY WriterFacts DEF Readings
      <4> QED BY <3>2, <4>2, <4>3
    <3> QED BY <3>1, <3>2, InsertStores
  <2> QED BY <2>2, <2>3
<1>6. \A r \in Readings : Settled(r) => Settled(r)'
  BY <1>4, <1>5, WriterFacts DEF Settled
<1>7. ASSUME NEW r \in Range(flush.batch), TenantOf[Key(r)[1]] = t
      PROVE  Settled(r)'
  <2>1. r \in Readings /\ Key(r) \in Keys
    BY WriterFacts
  <2>2. PICK k \in Keys : k = Key(r)
    BY <2>1
  <2>3. stored'[k] # 0
    <3>1. CASE stored'[k] = stored[k] /\ stored[k] # 0
      BY <3>1
    <3>2. CASE stored'[k] \in dedupe(flush.batch)
      <4>1. dedupe(flush.batch) \subseteq Range(flush.batch)
        <5>1. flush.batch \in Seq(Nat)
          BY WriterFacts
        <5> QED BY <5>1, DedupeKeepsKeys
      <4> QED BY <3>2, <4>1, WriterFacts
    <3> QED BY <2>2, <3>1, <3>2, <1>7, InsertStores
  <2> QED BY <2>1, <2>2, <2>3, <1>4 DEF Settled
<1>8. BatchAccounted'
  <2> SUFFICES ASSUME NEW r \in Range(flush.batch)
               PROVE  Settled(r)' \/ (flush'.at = "inserting" /\ TenantOf[Key(r)[1]] \in flush'.tenants)
    BY <1>3, <1>4, WriterFacts DEF BatchAccounted
  <2>1. r \in Readings
    BY WriterFacts
  <2>2. Settled(r) \/ TenantOf[Key(r)[1]] \in flush.tenants
    BY DEF WriterInv, BatchAccounted
  <2> QED BY <2>1, <2>2, <1>3, <1>6, <1>7
<1>9. WriterTypeOK'
  <2>1. flush' # NoFlush
    BY <1>3 DEF NoFlush
  <2> QED BY <2>1, <1>1, <1>2, <1>3, <1>4, <1>5 DEF WriterInv, WriterIsSound, WriterTypeOK
<1>10. NothingVanishes' /\ ShedsOldestFirst'
  BY <1>1, <1>3, <1>4, <1>6 DEF WriterInv, WriterIsSound, NothingVanishes, ShedsOldestFirst
<1>11. InOrder' /\ SomethingTouched'
  BY <1>1, <1>2, <1>3 DEF WriterInv, InOrder, SomethingTouched
<1>12. flush' \in FlushType'
  BY <1>3, <1>4 DEF FlushType
<1> QED BY <1>8, <1>9, <1>10, <1>11, <1>12 DEF WriterInv, WriterIsSound

LEMMA MarkStep ==
    ASSUME WriterInv, NEW t \in Tenants, markSeen(t),
           process' \in {"running", "stopping", "closing", "closed", "exited"}
    PROVE  WriterInv'
<1>1. /\ flush.at = "marking" /\ t \in flush.tenants
      /\ seen' = seen \cup {s \in flush.touched : TenantOf[s] = t} /\ buffer' = buffer
      /\ UNCHANGED <<accepted, touched, stored, dropped, writeFaults>>
  BY DEF markSeen, FlushEnds
<1>2. /\ Readings' = Readings /\ flush.touched \subseteq Sensors /\ seen' \subseteq Sensors
      /\ \A r \in Readings : Key(r)' = Key(r) /\ (Settled(r)' <=> Settled(r))
  BY <1>1 DEF Readings, Key, Settled, WriterInv, WriterIsSound, WriterTypeOK
<1>3. \A r \in Range(flush.batch) : r \in Readings /\ Settled(r)
  BY <1>1, WriterFacts DEF WriterInv, BatchAccounted
<1>4. CASE flush.tenants = {t}
  <2>1. flush' = NoFlush /\ Range(flush'.batch) = {} /\ flush' \in FlushType' /\ Increasing(flush'.batch)
    <3>1. flush' = NoFlush
      BY <1>4 DEF markSeen, FlushEnds
    <3>2. flush'.batch = <<>>
      BY <3>1 DEF NoFlush
    <3>3. flush' \in FlushType'
      BY <3>1 DEF NoFlush, FlushType
    <3> QED BY <3>1, <3>2, <3>3 DEF Range, Increasing
  <2>2. flush'.at = "none" /\ flush'.touched = {} /\ flush'.tenants = {} /\ flush'.batch = <<>>
    BY <2>1 DEF NoFlush
  <2>3. WriterTypeOK'
    BY <2>1, <2>2, <1>1, <1>2 DEF WriterInv, WriterIsSound, WriterTypeOK
  <2>4. NothingVanishes' /\ ShedsOldestFirst'
    BY <2>1, <1>1, <1>2, <1>3 DEF WriterInv, WriterIsSound, NothingVanishes, ShedsOldestFirst
  <2>5. InOrder' /\ BatchAccounted' /\ SomethingTouched'
    BY <2>1, <2>2, <1>1 DEF WriterInv, InOrder, BatchAccounted, SomethingTouched
  <2> QED BY <2>1, <2>3, <2>4, <2>5 DEF WriterInv, WriterIsSound
<1>5. CASE flush.tenants # {t}
  <2>1. flush' = [flush EXCEPT !.tenants = flush.tenants \ {t}]
    BY <1>1, <1>5 DEF markSeen
  <2>2. flush \in FlushType /\ DOMAIN flush = {"at", "batch", "touched", "tenants"}
    BY DEF WriterInv, FlushType
  <2>3. /\ flush'.at = "marking" /\ flush'.batch = flush.batch /\ flush'.touched = flush.touched
        /\ flush'.tenants = flush.tenants \ {t} /\ flush'.tenants # {} /\ flush' \in FlushType'
        /\ flush' # NoFlush
    BY <2>1, <2>2, <1>1, <1>2, <1>5 DEF FlushType, NoFlush
  <2>4. WriterTypeOK'
    BY <2>3, <1>1, <1>2 DEF WriterInv, WriterIsSound, WriterTypeOK
  <2>5. NothingVanishes' /\ ShedsOldestFirst'
    BY <2>3, <1>1, <1>2 DEF WriterInv, WriterIsSound, NothingVanishes, ShedsOldestFirst
  <2>6. InOrder' /\ BatchAccounted' /\ SomethingTouched'
    BY <2>3, <1>1, <1>2, <1>3 DEF WriterInv, InOrder, BatchAccounted, SomethingTouched
  <2> QED BY <2>3, <2>4, <2>5, <2>6 DEF WriterInv, WriterIsSound
<1> QED BY <1>4, <1>5

(* A step that moves only the process leaves the memory as it was.         *)
LEMMA OnlyProcessMoves ==
    ASSUME WriterInv, UNCHANGED <<accepted, buffer, touched, flush, stored, seen, dropped, writeFaults>>,
           process' \in {"running", "stopping", "closing", "closed", "exited"}
    PROVE  WriterInv'
<1>1. Readings' = Readings /\ \A r : Settled(r)' <=> Settled(r)
  BY DEF Readings, Settled, Key
<1>2. WriterTypeOK' /\ NothingVanishes' /\ ShedsOldestFirst'
  BY <1>1 DEF WriterInv, WriterIsSound, WriterTypeOK, NothingVanishes, ShedsOldestFirst
<1>3. InOrder' /\ BatchAccounted' /\ SomethingTouched' /\ flush' \in FlushType'
  BY <1>1 DEF WriterInv, InOrder, BatchAccounted, SomethingTouched, FlushType, Key
<1> QED BY <1>2, <1>3 DEF WriterInv, WriterIsSound

LEMMA WriterStep == WriterInv /\ [WriterNext]_writervars => WriterInv'
<1> SUFFICES ASSUME WriterInv, [WriterNext]_writervars PROVE WriterInv'
  OBVIOUS
<1>0. process \in {"running", "stopping", "closing", "closed", "exited"}
  BY DEF WriterInv, WriterIsSound, WriterTypeOK
<1>1. ASSUME NEW n \in 1..MaxPush, NEW keys \in [1..n -> Keys], enqueue(keys)
      PROVE  WriterInv'
  BY <1>1, EnqueueStep
<1>2. CASE TimedFlush
  BY <1>2, StartedFlush DEF TimedFlush
<1>3. CASE Write
  <2>1. process' \in {"running", "stopping", "closing", "closed", "exited"}
    BY <1>3, <1>0 DEF Write
  <2>2. PICK t \in Tenants : insertReadings(t) \/ markSeen(t)
    BY <1>3 DEF Write
  <2> QED BY <2>1, <2>2, InsertStep, MarkStep
<1>4. CASE FlushFails
  BY <1>4, FlushFailsStep
<1>5. CASE stop
  <2>1. CASE flush = NoFlush /\ buffer # <<>>
    BY <2>1, <1>5, StartedFlush DEF stop
  <2>2. CASE ~(flush = NoFlush /\ buffer # <<>>)
    BY <2>2, <1>5, OnlyProcessMoves DEF stop
  <2> QED BY <2>1, <2>2
<1>6. CASE Stopped
  BY <1>6, OnlyProcessMoves DEF Stopped
<1>7. CASE Exit
  BY <1>7, OnlyProcessMoves DEF Exit
<1>8. CASE UNCHANGED writervars
  BY <1>0, <1>8, OnlyProcessMoves DEF writervars
<1> QED BY <1>1, <1>2, <1>3, <1>4, <1>5, <1>6, <1>7, <1>8 DEF WriterNext

(* Through outages, overflow and flushes that fail half-way, no accepted   *)
(* reading is unaccounted for, the buffer keeps its cap, and what is shed  *)
(* is the oldest (writer.ts, enqueue and flush; server.ts, shutdown).      *)
THEOREM WriterSound == WriterSpec => []WriterIsSound
<1>1. WriterInv => WriterIsSound
  BY DEF WriterInv
<1> QED BY <1>1, WriterInit0, WriterStep, PTL DEF WriterSpec

(* A step of the writer stores a value only for a key that has none, and   *)
(* the newest the flush holds of it.                                       *)
LEMMA NewestStep ==
    ASSUME WriterInv, [WriterNext]_writervars, NEW k \in Keys, stored'[k] # stored[k]
    PROVE  /\ stored[k] = 0
           /\ \A r \in Readings : Key(r) = k /\ r > stored'[k] => r \notin Range(flush.batch)
<1>1. PICK t \in Tenants : insertReadings(t)
  BY DEF WriterNext, writervars, enqueue, TimedFlush, Write, markSeen, FlushFails, stop, Stopped, Exit
<1>2. stored[k] = 0 /\ stored'[k] \in dedupe(flush.batch) /\ Key(stored'[k]) = k
  BY <1>1, InsertStores
<1>3. flush.batch \in Seq(Nat) /\ Increasing(flush.batch)
  BY WriterFacts DEF WriterInv, InOrder
<1>4. PICK b, q : b = flush.batch /\ q = stored'[k]
  OBVIOUS
<1>5. ASSUME NEW r \in Range(b), r > q PROVE Key(r) # Key(q)
  <2>1. Nat \subseteq Nat /\ b \in Seq(Nat) /\ Increasing(b) /\ q \in dedupe(b)
    BY <1>2, <1>3, <1>4
  <2> QED BY <2>1, <1>5, DedupeKeepsNewest
<1> QED BY <1>2, <1>4, <1>5

(* What a flush writes is never a value it holds a later correction of,    *)
(* also when the value comes from a batch that failed and was put back     *)
(* (writer.ts, dedupe).                                                    *)
THEOREM FlushWritesNewest == WriterSpec => NewestOfFlush
<1>1. WriterInv /\ [WriterNext]_writervars =>
        [\A k \in Keys :
           stored'[k] # stored[k] =>
             /\ stored[k] = 0
             /\ \A r \in Readings :
                  Key(r) = k /\ r > stored'[k] => r \notin Range(flush.batch)]_writervars
  BY NewestStep
<1> QED BY <1>1, WriterInit0, WriterStep, PTL DEF WriterSpec, NewestOfFlush

-----------------------------------------------------------------------------
Missed(u) == {k \in GatePoints : u[k] # Never}

(* Inductive: what is counted is finite, and a load in progress is within  *)
(* the ceiling before its maps are swapped in.                             *)
GateInv ==
    /\ GateIsSound
    /\ IsFiniteSet(provisioned) /\ IsFiniteSet(registry) /\ IsFiniteSet(Missed(unknown))
    /\ IsFiniteSet(loading.built) /\ Cardinality(loading.built) <= MaxSensors

LEMMA FirstTenant == GateTenants[1] \in TenantSet /\ Len(GateTenants) \in Nat \ {0}
<1>1. Len(GateTenants) \in Nat /\ GateTenants \in [1..Len(GateTenants) -> TenantSet]
  BY GateAssumption, LenProperties DEF TenantSet
<1>2. Len(GateTenants) # 0
  BY GateAssumption
<1>3. 1 \in 1..Len(GateTenants)
  BY <1>1, <1>2
<1> QED BY <1>1, <1>2, <1>3

LEMMA NothingMissed ==
    ASSUME NEW u, u = [k \in GatePoints |-> Never]
    PROVE  /\ u \in [GatePoints -> {Never} \cup 0..MaxGateTime]
           /\ Missed(u) = {} /\ IsFiniteSet(Missed(u)) /\ Cardinality(Missed(u)) = 0
<1>1. Missed(u) = {}
  BY DEF Missed
<1> QED BY <1>1, FS_EmptySet

LEMMA GateInit0 == GateInit => GateInv
<1> SUFFICES ASSUME GateInit PROVE GateInv
  OBVIOUS
<1>1. PICK p : p = <<GateTenants[1], CHOOSE i \in ExternalIds : TRUE>>
  OBVIOUS
<1>2. p \in GatePoints
  BY <1>1, FirstTenant, GateAssumption DEF GatePoints
<1>3. provisioned = {} \/ provisioned = {p}
  BY <1>1 DEF GateInit
<1>4. IsFiniteSet(provisioned) /\ Cardinality(provisioned) <= 1 /\ Cardinality(provisioned) \in Nat
  <2>1. IsFiniteSet({}) /\ Cardinality({}) = 0 /\ IsFiniteSet({p}) /\ Cardinality({p}) = 1
    BY FS_EmptySet, FS_Singleton
  <2>2. CASE provisioned = {}
    BY <2>1, <2>2
  <2>3. CASE provisioned = {p}
    BY <2>1, <2>3
  <2> QED BY <1>3, <2>2, <2>3
<1>5. IsFiniteSet({}) /\ Cardinality({}) = 0
  BY FS_EmptySet
<1>6. GateTypeOK
  <2>1. loading \in [next : 0..Len(GateTenants) + 1, built : SUBSET GatePoints]
    BY FirstTenant DEF GateInit, Idle
  <2>2. unknown \in [GatePoints -> {Never} \cup 0..MaxGateTime] /\ Cardinality(Missed(unknown)) = 0
    BY NothingMissed DEF GateInit
  <2>3. provisioned \subseteq GatePoints
    BY <1>2, <1>3
  <2>4. Cardinality(registry) <= MaxSensors
    BY <1>4, GateAssumption DEF GateInit
  <2>5. Cardinality({k \in GatePoints : unknown[k] # Never}) <= UnknownMax
    BY <2>2, GateAssumption DEF Missed
  <2>6. registry \subseteq GatePoints /\ ruled \subseteq GatePoints
    BY <2>3 DEF GateInit
  <2>7. timerWaits \in BOOLEAN
    BY DEF GateInit
  <2>8. gateClock \in 0..MaxGateTime
    <3>1. gateClock = 0
      BY DEF GateInit
    <3> QED BY <3>1, GateAssumption
  <2> QED BY <2>1, <2>2, <2>3, <2>4, <2>5, <2>6, <2>7, <2>8 DEF GateTypeOK
<1>7. RowsAreTheSendersOwn
  <2>1. gateRows = NoBatch
    BY DEF GateInit
  <2> QED BY <2>1, <1>5 DEF RowsAreTheSendersOwn, NoBatch
<1>8. IsFiniteSet(Missed(unknown))
  BY NothingMissed DEF GateInit
<1>9. loading.built = {} /\ registry = provisioned
  BY DEF GateInit, Idle
<1> QED BY <1>4, <1>5, <1>6, <1>7, <1>8, <1>9, GateAssumption DEF GateInv, GateIsSound

(* One reading in: it is a row of its sender's tenant, or it is reported   *)
(* back once (pipeline.ts, ingestRaw; quality.ts, assessQuality).          *)
LEMMA RowsOfOneReading ==
    ASSUME NEW t \in TenantSet, NEW raw \in Raw, IngestRaw(t, raw)
    PROVE  RowsAreTheSendersOwn'
<1> DEFINE key == <<t, raw.externalId>>
           late == raw.ahead > MaxSkew
           row == [key |-> t, tenant |-> t, raw |-> raw, quality |-> AssessQuality(raw)]
<1>1. PICK found : found = Lookup(t, raw.externalId)
  OBVIOUS
<1>2. PICK new : new = gateRows'
  OBVIOUS
<1>3. found = {} \/ found = {key}
  BY <1>1 DEF Lookup
<1>4. new = [sent |-> 1,
             rows |-> IF late THEN {}
                      ELSE {[key |-> t, tenant |-> s[1], raw |-> raw,
                             quality |-> AssessQuality(raw)] : s \in found},
             unknownIds |-> IF found = {} THEN {raw.externalId} ELSE {},
             futureDated |-> IF late /\ found # {} THEN 1 ELSE 0]
  BY <1>1, <1>2 DEF IngestRaw
<1>5. /\ new.rows = (IF late \/ found = {} THEN {} ELSE {row})
      /\ new.unknownIds = (IF found = {} THEN {raw.externalId} ELSE {})
      /\ new.futureDated = (IF late /\ found # {} THEN 1 ELSE 0)
      /\ new.sent = 1
  BY <1>3, <1>4
<1> HIDE DEF late, row
<1>6. Cardinality(new.rows) + Cardinality(new.unknownIds) + new.futureDated = new.sent
  <2>1. Cardinality({}) = 0 /\ Cardinality({row}) = 1 /\ Cardinality({raw.externalId}) = 1
    BY FS_EmptySet, FS_Singleton
  <2>2. CASE found = {}
    <3>1. new.rows = {} /\ new.unknownIds = {raw.externalId} /\ new.futureDated = 0 /\ new.sent = 1
      BY <2>2, <1>5
    <3> QED BY <3>1, <2>1
  <2>3. CASE found # {} /\ late
    <3>1. new.rows = {} /\ new.unknownIds = {} /\ new.futureDated = 1 /\ new.sent = 1
      BY <2>3, <1>5
    <3> QED BY <3>1, <2>1
  <2>4. CASE found # {} /\ ~late
    <3>1. new.rows = {row} /\ new.unknownIds = {} /\ new.futureDated = 0 /\ new.sent = 1
      BY <2>4, <1>5
    <3> QED BY <3>1, <2>1
  <2> QED BY <2>2, <2>3, <2>4
<1>7. ASSUME NEW r \in new.rows
      PROVE  /\ r.tenant = r.key /\ r.raw.ahead <= MaxSkew
             /\ r.quality = "good" => r.raw.declared # "fault" /\ r.raw.value = "plausible"
  <2>1. r = row /\ ~late
    BY <1>5, <1>7
  <2>2. raw.ahead \in Nat /\ ~(raw.ahead > MaxSkew) /\ MaxSkew \in Nat
    BY <2>1, GateAssumption DEF Raw, late
  <2>3. AssessQuality(raw) = "good" => raw.declared # "fault" /\ raw.value = "plausible"
    <3>1. raw.value \in {"plausible", "implausible", "infinite"}
      BY DEF Raw
    <3> QED BY <3>1 DEF AssessQuality
  <2>4. r.tenant = t /\ r.key = t /\ r.raw = raw /\ r.quality = AssessQuality(raw)
    BY <2>1 DEF row
  <2> QED BY <2>2, <2>3, <2>4
<1> QED BY <1>2, <1>6, <1>7 DEF RowsAreTheSendersOwn

(* What an unknown id leaves behind: it is remembered within the limit,    *)
(* and a load is started or joined (pipeline.ts, shouldRetryUnknown).      *)
LEMMA PostStep ==
    ASSUME GateInv, NEW t \in TenantSet, NEW raw \in Raw, IngestRaw(t, raw)
    PROVE  GateInv'
<1>1. /\ UNCHANGED <<provisioned, registry, timerWaits, ruled, gateClock>>
      /\ loading' = loading \/ loading' = StartLoad(loading)
      /\ \/ unknown' = unknown
         \/ /\ ShouldRetryUnknown(<<t, raw.externalId>>)
            /\ unknown' = [unknown EXCEPT ![<<t, raw.externalId>>] = gateClock]
  BY DEF IngestRaw
<1>2. /\ provisioned \subseteq GatePoints /\ registry \subseteq GatePoints /\ ruled \subseteq GatePoints
      /\ Cardinality(registry) <= MaxSensors
      /\ loading \in [next : 0..Len(GateTenants) + 1, built : SUBSET GatePoints]
      /\ timerWaits \in BOOLEAN /\ unknown \in [GatePoints -> {Never} \cup 0..MaxGateTime]
      /\ Cardinality(Missed(unknown)) <= UnknownMax /\ gateClock \in 0..MaxGateTime
      /\ IsFiniteSet(provisioned) /\ IsFiniteSet(registry) /\ IsFiniteSet(Missed(unknown))
      /\ IsFiniteSet(loading.built) /\ Cardinality(loading.built) <= MaxSensors
  BY DEF GateInv, GateIsSound, GateTypeOK, Missed
<1>3. /\ loading' \in [next : 0..Len(GateTenants) + 1, built : SUBSET GatePoints]
      /\ IsFiniteSet(loading'.built) /\ Cardinality(loading'.built) <= MaxSensors
  <2>1. CASE loading' = loading
    BY <2>1, <1>2
  <2>2. CASE loading' = [next |-> 1, built |-> {}]
    BY <2>2, FirstTenant, FS_EmptySet, GateAssumption
  <2> QED BY <2>1, <2>2, <1>1 DEF StartLoad
<1>4. /\ unknown' \in [GatePoints -> {Never} \cup 0..MaxGateTime]
      /\ IsFiniteSet(Missed(unknown')) /\ Cardinality(Missed(unknown')) <= UnknownMax
  <2>1. CASE unknown' = unknown
    BY <2>1, <1>2
  <2>2. PICK key : key = <<t, raw.externalId>>
    OBVIOUS
  <2>3. key \in GatePoints
    BY <2>2 DEF GatePoints, Raw
  <2>4. CASE ShouldRetryUnknown(key) /\ unknown' = [unknown EXCEPT ![key] = gateClock]
    <3>1. Missed(unknown') = Missed(unknown) \cup {key}
      BY <2>3, <2>4, <1>2 DEF Missed, Never
    <3>2. key \in Missed(unknown) \/ Cardinality(Missed(unknown)) < UnknownMax
      BY <2>3, <2>4 DEF ShouldRetryUnknown, Missed
    <3>3. /\ IsFiniteSet(Missed(unknown'))
          /\ Cardinality(Missed(unknown')) = IF key \in Missed(unknown) THEN Cardinality(Missed(unknown))
                                             ELSE Cardinality(Missed(unknown)) + 1
      BY <3>1, <1>2, FS_AddElement
    <3>4. Cardinality(Missed(unknown)) \in Nat
      BY <1>2, FS_CardinalityType
    <3>5. unknown' \in [GatePoints -> {Never} \cup 0..MaxGateTime]
      BY <2>3, <2>4, <1>2
    <3> QED BY <3>2, <3>3, <3>4, <3>5, <1>2, GateAssumption
  <2> QED BY <2>1, <2>2, <2>4, <1>1
<1>5. GateTypeOK'
  BY <1>1, <1>2, <1>3, <1>4 DEF GateTypeOK, Missed
<1>6. RowsAreTheSendersOwn'
  BY RowsOfOneReading
<1> QED BY <1>1, <1>2, <1>3, <1>4, <1>5, <1>6 DEF GateInv, GateIsSound

LEMMA GateStep == GateInv /\ [GateNext]_gatevars => GateInv'
<1> SUFFICES ASSUME GateInv, [GateNext]_gatevars PROVE GateInv'
  OBVIOUS
<1>1. /\ provisioned \subseteq GatePoints /\ registry \subseteq GatePoints /\ ruled \subseteq GatePoints
      /\ Cardinality(registry) <= MaxSensors
      /\ loading \in [next : 0..Len(GateTenants) + 1, built : SUBSET GatePoints]
      /\ timerWaits \in BOOLEAN /\ unknown \in [GatePoints -> {Never} \cup 0..MaxGateTime]
      /\ Cardinality(Missed(unknown)) <= UnknownMax /\ gateClock \in 0..MaxGateTime
      /\ IsFiniteSet(provisioned) /\ IsFiniteSet(registry) /\ IsFiniteSet(Missed(unknown))
      /\ IsFiniteSet(loading.built) /\ Cardinality(loading.built) <= MaxSensors
      /\ RowsAreTheSendersOwn
  BY DEF GateInv, GateIsSound, GateTypeOK, Missed
<1>2. /\ Idle \in [next : 0..Len(GateTenants) + 1, built : SUBSET GatePoints]
      /\ IsFiniteSet(Idle.built) /\ Cardinality(Idle.built) <= MaxSensors
      /\ StartLoad(loading) \in [next : 0..Len(GateTenants) + 1, built : SUBSET GatePoints]
      /\ IsFiniteSet(StartLoad(loading).built) /\ Cardinality(StartLoad(loading).built) <= MaxSensors
  BY <1>1, FirstTenant, FS_EmptySet, GateAssumption DEF StartLoad, Idle
<1>3. ASSUME NEW l \in [next : 0..Len(GateTenants) + 1, built : SUBSET GatePoints], loading' = l,
             IsFiniteSet(l.built), Cardinality(l.built) <= MaxSensors, timerWaits' \in BOOLEAN,
             UNCHANGED <<provisioned, registry, ruled, unknown, gateRows, gateClock>>
      PROVE  GateInv'
  <2>1. RowsAreTheSendersOwn'
    BY <1>1, <1>3 DEF RowsAreTheSendersOwn
  <2>2. GateTypeOK'
    BY <1>1, <1>3 DEF GateTypeOK, Missed
  <2> QED BY <2>1, <2>2, <1>1, <1>3 DEF GateInv, GateIsSound, Missed
<1>4. ASSUME NEW t \in TenantSet, NEW raw \in Raw, PostIngest(t, raw)
      PROVE  GateInv'
  BY <1>4, PostStep DEF PostIngest
<1>5. ASSUME NEW s \in GatePoints, ProvisionSensor(s)
      PROVE  GateInv'
  <2>1. /\ provisioned' = (IF s \in provisioned THEN provisioned \ {s} ELSE provisioned \cup {s})
        /\ UNCHANGED <<registry, loading, timerWaits, ruled, unknown, gateRows, gateClock>>
    BY <1>5 DEF ProvisionSensor
  <2>2. IsFiniteSet(provisioned') /\ provisioned' \subseteq GatePoints
    BY <2>1, <1>1, FS_AddElement, FS_RemoveElement
  <2>3. RowsAreTheSendersOwn' /\ GateTypeOK'
    BY <2>1, <2>2, <1>1 DEF RowsAreTheSendersOwn, GateTypeOK, Missed
  <2> QED BY <2>1, <2>2, <2>3, <1>1 DEF GateInv, GateIsSound, Missed
<1>6. CASE LoadTenant
  <2>1. PICK built : built = loading.built \cup {s \in provisioned : s[1] = GateTenants[loading.next]}
    OBVIOUS
  <2>2. IsFiniteSet(built) /\ built \subseteq GatePoints
    <3>1. IsFiniteSet({s \in provisioned : s[1] = GateTenants[loading.next]})
      BY <1>1, FS_Subset
    <3> QED BY <3>1, <2>1, <1>1, FS_Union
  <2>3. /\ loading.next \in 1..Len(GateTenants)
        /\ IF Cardinality(built) > MaxSensors
           THEN loading' = Idle /\ timerWaits' = FALSE
           ELSE loading' = [next |-> loading.next + 1, built |-> built] /\ UNCHANGED timerWaits
        /\ UNCHANGED <<provisioned, registry, ruled, unknown, gateRows, gateClock>>
    BY <2>1, <1>6 DEF LoadTenant
  <2>4. CASE Cardinality(built) > MaxSensors
    BY <2>3, <2>4, <1>2, <1>3
  <2>5. CASE ~(Cardinality(built) > MaxSensors)
    <3>1. PICK l : l = [next |-> loading.next + 1, built |-> built]
      OBVIOUS
    <3>2. l \in [next : 0..Len(GateTenants) + 1, built : SUBSET GatePoints]
      BY <3>1, <2>2, <2>3, FirstTenant
    <3>3. IsFiniteSet(l.built) /\ Cardinality(l.built) <= MaxSensors
      <4>1. Cardinality(built) \in Nat
        BY <2>2, FS_CardinalityType
      <4> QED BY <4>1, <3>1, <2>2, <2>5, GateAssumption
    <3>4. loading' = l /\ timerWaits' \in BOOLEAN
      BY <3>1, <2>3, <2>5, <1>1
    <3> QED BY <3>2, <3>3, <3>4, <2>3, <1>3
  <2> QED BY <2>4, <2>5
<1>7. CASE SwapMaps
  <2>1. /\ registry' = loading.built /\ unknown' = [k \in GatePoints |-> Never] /\ loading' = Idle
        /\ (ruled' = loading.built \/ ruled' = ruled) /\ timerWaits' = FALSE
        /\ UNCHANGED <<provisioned, gateRows, gateClock>>
    BY <1>7 DEF SwapMaps
  <2>2. /\ unknown' \in [GatePoints -> {Never} \cup 0..MaxGateTime]
        /\ IsFiniteSet(Missed(unknown')) /\ Cardinality(Missed(unknown')) = 0
    BY <2>1, NothingMissed
  <2>3. RowsAreTheSendersOwn'
    BY <2>1, <1>1 DEF RowsAreTheSendersOwn
  <2>4. GateTypeOK'
    <3>1. /\ provisioned' \subseteq GatePoints /\ registry' \subseteq GatePoints /\ ruled' \subseteq GatePoints
          /\ Cardinality(registry') <= MaxSensors
      BY <2>1, <1>1
    <3>2. loading' \in [next : 0..Len(GateTenants) + 1, built : SUBSET GatePoints]
      BY <2>1, <1>2
    <3>3. timerWaits' \in BOOLEAN
      BY <2>1
    <3>4. gateClock' \in 0..MaxGateTime
      BY <2>1, <1>1
    <3>5. Cardinality({k \in GatePoints : unknown'[k] # Never}) <= UnknownMax
      BY <2>2, GateAssumption DEF Missed
    <3> QED BY <3>1, <3>2, <3>3, <3>4, <3>5, <2>2 DEF GateTypeOK
  <2> QED BY <2>1, <2>2, <2>3, <2>4, <1>1, <1>2 DEF GateInv, GateIsSound
<1>8. CASE LoadFails
  BY <1>8, <1>2, <1>3 DEF LoadFails
<1>9. CASE RefreshTimer
  BY <1>9, <1>2, <1>3 DEF RefreshTimer
<1>10. CASE GateTick
  <2>1. /\ gateClock' = gateClock + 1 /\ gateClock < MaxGateTime
        /\ UNCHANGED <<provisioned, registry, loading, timerWaits, ruled, unknown, gateRows>>
    BY <1>10 DEF GateTick
  <2>2. gateClock' \in 0..MaxGateTime
    BY <2>1, <1>1, GateAssumption
  <2>3. RowsAreTheSendersOwn' /\ GateTypeOK'
    BY <2>1, <2>2, <1>1 DEF RowsAreTheSendersOwn, GateTypeOK, Missed
  <2> QED BY <2>1, <2>3, <1>1 DEF GateInv, GateIsSound, Missed
<1>11. CASE UNCHANGED gatevars
  BY <1>1, <1>3, <1>11 DEF gatevars
<1> QED BY <1>4, <1>5, <1>6, <1>7, <1>8, <1>9, <1>10, <1>11 DEF GateNext

(* While the registry reloads under it, the gate writes a row only for the *)
(* tenant whose key sent it, good only when device and value are, and      *)
(* keeps its limits (pipeline.ts, ingestRaw; registry.ts, refresh).        *)
THEOREM GateSound == GateInit /\ [][GateNext]_gatevars => []GateIsSound
<1>1. GateInv => GateIsSound
  BY DEF GateInv
<1> QED BY <1>1, GateInit0, GateStep, PTL
=============================================================================
