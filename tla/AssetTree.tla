----------------------------- MODULE AssetTree -----------------------------
(***************************************************************************)
(* The equipment tree as equipment_status and zone_timeline walk it: an    *)
(* item has at most one parent and serves zones directly; a zone's serving *)
(* chain goes up from what serves it, and the zones an item is said to     *)
(* serve are found going down, to a fixed depth.  The schema forbids an    *)
(* item being its own parent and nothing longer, so the walks meet cycles. *)
(***************************************************************************)
EXTENDS Integers, FiniteSets

CONSTANTS
    Items, AtZones,
    MaxDepth       \* levels walked up and down

NoItem == "none"

VARIABLES parent, serves
treevars == <<parent, serves>>

TreeInit == parent = [i \in Items |-> NoItem] /\ serves = {}

\* The register is edited: an item moves or is detached, a service is given or ended.
Attach(i, p) ==
    /\ p # i
    /\ parent' = [parent EXCEPT ![i] = p]
    /\ UNCHANGED serves
Serve(i, z) ==
    /\ serves' = IF <<i, z>> \in serves THEN serves \ {<<i, z>>} ELSE serves \union {<<i, z>>}
    /\ UNCHANGED parent
TreeNext ==
    \/ \E i \in Items, p \in Items \union {NoItem} : Attach(i, p)
    \/ \E i \in Items, z \in AtZones : Serve(i, z)

----------------------------------------------------------------------------
DirectTo(z) == {i \in Items : <<i, z>> \in serves}
ParentsOf(S) == {parent[i] : i \in S} \ {NoItem}
ChildrenOf(S) == {i \in Items : parent[i] \in S}

\* WITH RECURSIVE ... UNION: a repeated row ends the walk.
Closed[n \in 0..Cardinality(Items), S \in SUBSET Items] ==
    IF n = 0 \/ ParentsOf(S) \subseteq S THEN S ELSE Closed[n - 1, S \union ParentsOf(S)]
Chain(z) == Closed[Cardinality(Items), DirectTo(z)]

\* The rows the register answers with: by tag, by zone, or all of it.
Matched(tag, zone) ==
    {i \in Items : (tag = NoItem \/ i = tag) /\ (zone = NoItem \/ i \in Chain(zone))}

\* Ancestors, nearest first, to the depth of the walk.
ChainUp(i) == LET Up[d \in 1..MaxDepth] == IF d = 1 THEN parent[i]
                                           ELSE IF Up[d - 1] = NoItem THEN NoItem ELSE parent[Up[d - 1]]
              IN  Up
Down(i) == LET Level[d \in 0..MaxDepth] == IF d = 0 THEN {i} ELSE ChildrenOf(Level[d - 1])
           IN  UNION {Level[d] : d \in 0..MaxDepth}
Served(i) == {z \in AtZones : \E j \in Down(i) : <<j, z>> \in serves}
EquipmentStatus(tag, zone) ==
    [i \in Matched(tag, zone) |->
        [chain_up |-> ChainUp(i), served |-> Served(i)]]

----------------------------------------------------------------------------
\* Within the depth of the walks: i is reached from an item at most MaxDepth levels up.
Reaches(j, i) == i = j \/ \E d \in 1..MaxDepth : ChainUp(j)[d] = i
(***************************************************************************)
(* Up and down tell the same tree: an item asked for by zone is said to    *)
(* serve that zone, and an item that says it serves a zone is among those  *)
(* the zone answers with - with items shared, moved, or in a cycle - up to *)
(* the depth the walk down stops at.                                       *)
(***************************************************************************)
UpAndDownAgree ==
    \A z \in {s[2] : s \in serves}, i \in Items :
        /\ i \in DOMAIN EquipmentStatus(NoItem, z) /\ (\E j \in DirectTo(z) : Reaches(j, i))
              => z \in Served(i)
        /\ z \in Served(i) => i \in DOMAIN EquipmentStatus(NoItem, z)
=============================================================================
