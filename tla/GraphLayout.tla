----------------------------- MODULE GraphLayout -----------------------------
(***************************************************************************)
(* Where the panel draws the copilot graph: the nodes ranked by the edges  *)
(* themselves, the edges straight where that is clear and otherwise round  *)
(* a margin in a lane.  Nodes are numbered in the graph's insertion order  *)
(* and edges are added in any way at all, as nodes added later would.      *)
(* Coordinates are half-pixels; rounding, arrowheads' curves and labels    *)
(* are left out.                                                           *)
(***************************************************************************)
EXTENDS Integers, Sequences, FiniteSets, FiniteSetsExt, SequencesExt

CONSTANTS
    GraphNodes,   \* 1..n
    MaxEdges,     \* bound: edges
    PanelWidth, NodeW, NodeH, RankGap, MinGapX, LaneOffset, LanePitch, PortPitch, Pad

ASSUME LayoutAssumption == {PanelWidth, NodeW, NodeH, RankGap, PortPitch} \subseteq Nat \ {0}

VARIABLES
    graph,     \* the edges, as pairs
    placed,    \* what the panel drew of them: where the nodes stand,
    laned,     \* which edges go round a margin and how,
    lanes,     \* in which lane,
    points     \* along which points
layoutvars == <<graph, placed, laned, lanes, points>>

----------------------------------------------------------------------------
\* The nodes a node reaches; itself only on a cycle.
ReachFrom(g, n) ==
    LET step(S) == {e[2] : e \in {x \in g : x[1] \in S}}
        grow[k \in 0..Cardinality(GraphNodes)] == IF k = 0 THEN step({n}) ELSE grow[k - 1] \union step(grow[k - 1])
    IN  grow[Cardinality(GraphNodes)]
\* Against node order, and on a cycle.
BackEdges(g) == {e \in g : e[2] <= e[1] /\ e[1] \in ReachFrom(g, e[2])}

\* The longest path from a source over what is left, to a length no path without a cycle has.
Ranks(g) ==
    LET forward == g \ BackEdges(g)
        preds(n) == {e[1] : e \in {x \in forward : x[2] = n}}
        upTo[k \in 0..Cardinality(GraphNodes), n \in GraphNodes] ==
            IF k = 0 \/ preds(n) = {} THEN 0 ELSE 1 + Max({upTo[k - 1, m] : m \in preds(n)})
    IN  [n \in GraphNodes |-> upTo[Cardinality(GraphNodes), n]]

\* Placed: spread over a rank in node order, the picture widened for a full one.
Placed(g) ==
    LET rank    == Ranks(g)
        mates(n) == {m \in GraphNodes : rank[m] = rank[n]}
        widest  == Max({Cardinality(mates(n)) : n \in GraphNodes})
        width   == Max({PanelWidth, widest * (NodeW + MinGapX)})
    IN  [width |-> width,
         at |-> [n \in GraphNodes |->
                    [x |-> (width * (2 * Cardinality({m \in mates(n) : m < n}) + 1)) \div (2 * Cardinality(mates(n))),
                     y |-> rank[n] * RankGap]]]

\* segmentHitsBox: Liang-Barsky, in fractions <<numerator, positive denominator>>.
HitsBox(p, q, c, pad) ==
    LET dx == q[1] - p[1]
        dy == q[2] - p[2]
        clips == {<<-dx, p[1] - (c.x - NodeW \div 2 - pad)>>, <<dx, c.x + NodeW \div 2 + pad - p[1]>>,
                  <<-dy, p[2] - (c.y - NodeH \div 2 - pad)>>, <<dy, c.y + NodeH \div 2 + pad - p[2]>>}
        enter == {<<0, 1>>} \union {<<-k[2], -k[1]>> : k \in {z \in clips : z[1] < 0}}
        leave == {<<1, 1>>} \union {<<k[2], k[1]>> : k \in {z \in clips : z[1] > 0}}
    IN  /\ \A k \in clips : k[1] = 0 => k[2] >= 0
        /\ \A a \in enter, b \in leave : a[1] * b[2] < b[1] * a[2]
Clear(at, p, q, except) == \A n \in GraphNodes \ except : ~HitsBox(p, q, at[n], Pad)

EdgeList(g) == SetToSortSeq(g, LAMBDA a, b : a[1] < b[1] \/ (a[1] = b[1] /\ a[2] < b[2]))
SideX(c, side) == IF side = "right" THEN c.x + NodeW \div 2 ELSE c.x - NodeW \div 2
OuterX(at, side) == IF side = "right" THEN Max({at[n].x : n \in GraphNodes}) + NodeW \div 2
                    ELSE Min({at[n].x : n \in GraphNodes}) - NodeW \div 2
LaneX(at, side, lane) == IF side = "right" THEN OuterX(at, side) + LaneOffset + lane * LanePitch
                         ELSE OuterX(at, side) - LaneOffset - lane * LanePitch

\* The edges that go round a margin: which side, and whether each end runs
\* along its own row or through the gap next to it.
RowIsClear(at, n, side) ==
    Clear(at, <<SideX(at[n], side), at[n].y>>, <<LaneX(at, side, 0), at[n].y>>, {n})
Straight(g, at, e) ==
    /\ e \notin BackEdges(g)
    /\ Clear(at, <<at[e[1]].x, at[e[1]].y>>, <<at[e[2]].x, at[e[2]].y>>, {e[1], e[2]})
Laned(g, pic) ==
    LET sideOf(e) == IF e \in BackEdges(g) \/ 2 * pic.at[e[1]].x > pic.width THEN "right" ELSE "left"
        edges == EdgeList(g)
    IN  [i \in {k \in DOMAIN edges : ~Straight(g, pic.at, edges[k])} |->
            LET e == edges[i] side == sideOf(e)
            IN  [s |-> e[1], t |-> e[2], side |-> side, up |-> pic.at[e[2]].y < pic.at[e[1]].y,
                 exit |-> RowIsClear(pic.at, e[1], side), entry |-> RowIsClear(pic.at, e[2], side)]]

\* Ports: j-th (from 0) of k, about the middle of a side.
ShiftOf(j, k) == ((2 * j - (k - 1)) * PortPitch) \div 2
Stable(S, key(_)) == SetToSortSeq(S, LAMBDA a, b : key(a) < key(b) \/ (key(a) = key(b) /\ a < b))
IndexOf(seq, i) == CHOOSE j \in DOMAIN seq : seq[j] = i
ExitShift(at, l, i) ==
    LET group == {k \in DOMAIN l : l[k].s = l[i].s /\ l[k].exit = l[i].exit /\ (l[i].exit => l[k].side = l[i].side)}
        span(k) == LET d == at[l[k].t].y - at[l[k].s].y IN IF d < 0 THEN -d ELSE d
        ups   == Stable({k \in group : l[k].up}, span)
        downs == Stable({k \in group : ~l[k].up}, LAMBDA k : -span(k))
    IN  ShiftOf(IndexOf(ups \o downs, i) - 1, Cardinality(group))
EntryGroup(l, i) == {k \in DOMAIN l : l[k].t = l[i].t /\ l[k].entry = l[i].entry /\ (l[i].entry => l[k].side = l[i].side)}

ExitY(at, l, i) == IF l[i].exit THEN at[l[i].s].y + ExitShift(at, l, i) ELSE at[l[i].s].y + RankGap \div 2
EntryCentre(at, l, i) == IF l[i].entry THEN at[l[i].t].y ELSE at[l[i].t].y - RankGap \div 2
\* Broken variant: a lane is given out for where the port stands now.
NoSlack(l, i) == 0
\* The most an arrival's port can move.
EntrySlack(l, i) == IF l[i].entry THEN ((Cardinality(EntryGroup(l, i)) - 1) * PortPitch) \div 2 ELSE 0
Span(at, l, i) ==
    LET a == ExitY(at, l, i) b == EntryCentre(at, l, i) slack == EntrySlack(l, i)
    IN  <<Min({a, b - slack}), Max({a, b + slack})>>
\* Lanes, shortest span first, each edge in the first lane its span has free.
LanesOf(span, mine) ==
    LET free(taken, k, i) == \A j \in DOMAIN taken : taken[j] = k =>
                                 span[i][2] < span[j][1] \/ span[i][1] > span[j][2]
        place(taken, i) == [j \in DOMAIN taken \union {i} |->
                               IF j = i THEN Min({k \in 0..Cardinality(DOMAIN taken) : free(taken, k, i)}) ELSE taken[j]]
    IN  FoldLeft(place, [j \in {} |-> 0], Stable(mine, LAMBDA i : span[i][2] - span[i][1]))
Lanes(at, l) ==
    LET span == [i \in DOMAIN l |-> Span(at, l, i)]
        on == [side \in {"left", "right"} |-> LanesOf(span, {i \in DOMAIN l : l[i].side = side})]
    IN  [i \in DOMAIN l |-> on[l[i].side][i]]
EntryShift(at, l, n, i) ==
    LET group == EntryGroup(l, i)
        above == Stable({k \in group : ~l[k].up}, LAMBDA k : n[k])
        below == Stable({k \in group : l[k].up}, LAMBDA k : -n[k])
    IN  ShiftOf(IndexOf(above \o below, i) - 1, Cardinality(group))

\* The polylines of the edges that go round.
Points(at, l, n) ==
    [i \in DOMAIN l |->
        LET s == at[l[i].s] t == at[l[i].t] side == l[i].side
            x == LaneX(at, side, n[i])
            out == ExitShift(at, l, i)
            in  == EntryShift(at, l, n, i)
            y0 == ExitY(at, l, i)
            start == IF l[i].exit THEN << <<SideX(s, side), y0>> >>
                     ELSE << <<s.x + out, s.y + NodeH \div 2>>, <<s.x + out, y0>> >>
            end == IF l[i].entry THEN << <<x, t.y + in>>, <<SideX(t, side), t.y + in>> >>
                   ELSE << <<x, EntryCentre(at, l, i)>>, <<t.x + in, EntryCentre(at, l, i)>>,
                           <<t.x + in, t.y - NodeH \div 2>> >>
        IN  start \o << <<x, y0>> >> \o end]

\* The panel draws what it has, and draws it anew whenever the graph changes.
LayoutInit ==
    /\ graph = {} /\ placed = Placed(graph) /\ laned = Laned(graph, placed)
    /\ lanes = Lanes(placed.at, laned) /\ points = Points(placed.at, laned, lanes)
AddEdge(s, t) ==
    /\ Cardinality(graph) < MaxEdges /\ <<s, t>> \notin graph
    /\ \E g \in {graph \union {<<s, t>>}} : \E pic \in {Placed(g)} : \E l \in {Laned(g, pic)} :
       \E n \in {Lanes(pic.at, l)} :
         graph' = g /\ placed' = pic /\ laned' = l /\ lanes' = n /\ points' = Points(pic.at, l, n)
LayoutNext == \E s, t \in GraphNodes : AddEdge(s, t)

----------------------------------------------------------------------------
(***************************************************************************)
(* Whatever edges the graph has, cutting the back edges leaves no cycle:   *)
(* every other edge leads to a node drawn lower (the panel throws          *)
(* otherwise), and each node keeps a place of its own.                     *)
(***************************************************************************)
EdgesLeadDown ==
    /\ \A e \in graph \ BackEdges(graph) : placed.at[e[1]].y < placed.at[e[2]].y
    /\ \A n, m \in GraphNodes : n < m => \/ placed.at[n].y # placed.at[m].y
                                         \/ placed.at[n].x + NodeW < placed.at[m].x

(***************************************************************************)
(* No edge that goes round a margin passes through a node it does not      *)
(* join, whatever the graph: its legs run outside every node, along a row  *)
(* that is clear or in the gap between two rows - moved ports included.    *)
(***************************************************************************)
EdgesMissNodes ==
    \A i \in DOMAIN laned : \A k \in 1..(Len(points[i]) - 1) :
        \A n \in GraphNodes \ {laned[i].s, laned[i].t} :
            ~HitsBox(points[i][k], points[i][k + 1], placed.at[n], 0)

\* The leg of an edge that runs in its lane.
LaneLeg(i) ==
    LET x == LaneX(placed.at, laned[i].side, lanes[i])
        ys == {points[i][k][2] : k \in {j \in DOMAIN points[i] : points[i][j][1] = x}}
    IN  <<Min(ys), Max(ys)>>
(***************************************************************************)
(* Two edges share a lane only where they do not meet, although lanes are  *)
(* given out before the ports of the arrivals are known.                   *)
(***************************************************************************)
LanesAreNotShared ==
    \A i, j \in DOMAIN laned :
        i # j /\ laned[i].side = laned[j].side /\ lanes[i] = lanes[j] =>
            LaneLeg(i)[2] < LaneLeg(j)[1] \/ LaneLeg(j)[2] < LaneLeg(i)[1]

(* Every picture of the copilot graph can be read: its edges lead down,    *)
(* around the boxes and beside one another (layout.ts).                    *)
LayoutIsClear == EdgesLeadDown /\ EdgesMissNodes /\ LanesAreNotShared
=============================================================================
