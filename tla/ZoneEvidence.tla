---------------------------- MODULE ZoneEvidence ----------------------------
(***************************************************************************)
(* What the copilot reads of one zone's telemetry: the same 5-minute and   *)
(* hourly rollups read through several tools, each with its own window     *)
(* arithmetic.  Telemetry arrives while questions are asked, and a device  *)
(* whose clock runs ahead may already have filled a bucket that has not    *)
(* begun.  A bucket holds what its temperature samples came to (how many   *)
(* good, their sum, how many flagged) and its occupancy.  Times are in     *)
(* parts of a bucket; a mean is the pair of its sum and its weight.        *)
(***************************************************************************)
EXTENDS Integers, Sequences, FiniteSets, FiniteSetsExt

CONSTANTS
    Width,        \* a 5-minute bucket, in units of the clock
    PerHour,      \* buckets in an hour
    PerDay,       \* buckets in a day
    DayOffset,    \* the building's offset, in buckets
    HistorySpan,  \* limits.zoneHistory5mMaxSpanH
    Quiet,        \* a gap is more than this many buckets from one to the next
    Ahead,        \* how far ahead of the clock a reading may be stamped
    Tolerance,    \* limits.futureToleranceS
    BandTop,      \* designed setpoint + deadband / 2
    MaxBuckets    \* bound: buckets filled

ASSUME EvidenceAssumption == {Width, PerHour, PerDay} \subseteq Nat \ {0} /\ DayOffset \in Int

Null == -1
NoOccupancy == -1
\* What a bucket can have heard: nothing; only its occupancy; flagged samples
\* in a room without the sensor; in the band, empty; above it, occupied.
Samples(n, sum, bad) == [n |-> n, sum |-> sum, bad |-> bad]
Telemetry == {[t |-> Samples(0, 0, 0), occ |-> NoOccupancy], [t |-> Samples(0, 0, 0), occ |-> 1],
              [t |-> Samples(0, 0, 1), occ |-> NoOccupancy], [t |-> Samples(1, BandTop, 0), occ |-> 0],
              [t |-> Samples(2, 2 * BandTop + 2, 1), occ |-> 1]}

VARIABLES evNow, buckets   \* buckets[i] starts at (i - 1) * Width
evvars == <<evNow, buckets>>

EvInit == evNow = 0 /\ buckets = <<>>

\* A bucket's content, possible from the moment a device's clock is in it.
Heard(x) ==
    /\ Len(buckets) < MaxBuckets /\ Len(buckets) * Width <= evNow + Ahead
    /\ buckets' = Append(buckets, x)
    /\ UNCHANGED evNow
EvTick ==
    /\ evNow < Len(buckets) * Width
    /\ evNow' = evNow + 1
    /\ UNCHANGED buckets
EvNext == EvTick \/ \E x \in Telemetry : Heard(x)

----------------------------------------------------------------------------
CeilDiv(a, w) == (a + w - 1) \div w
Larger(a, b) == IF a > b THEN a ELSE b
Smaller(a, b) == IF a < b THEN a ELSE b
SumOver(S, f(_)) == FoldSet(LAMBDA x, acc : f(x) + acc, 0, S)

\* bucketStartsIn, and expectedUpToNow: the future holds none.
BucketStartsIn(from, to, w) == Larger(0, CeilDiv(to, w) - CeilDiv(from, w))
ExpectedUpToNow(from, to) == BucketStartsIn(from, Smaller(to, evNow), Width)

\* The rows of `bucket >= from AND bucket < to`, as bucket numbers from 0.
RowsIn(from, to) == {b \in 0..(Len(buckets) - 1) : b * Width >= from /\ b * Width < to}
At(b) == buckets[b + 1]
GoodRows(S) == {b \in S : At(b).t.n > 0}
\* goodMeanSql: weighted by the good samples of each bucket, null with none.
GoodMean(S) == [sum |-> SumOver(S, LAMBDA b : At(b).t.sum), weight |-> SumOver(S, LAMBDA b : At(b).t.n)]
Flagged(S) == SumOver(S, LAMBDA b : At(b).t.bad)
\* Minutes (in buckets) above the designed band while occupied; null when
\* occupancy is unknown, or no occupied bucket had a good temperature.
Occupied(S) == {b \in S : At(b).occ > 0}
AboveBand(S) ==
    IF \A b \in S : At(b).occ = NoOccupancy THEN Null
    ELSE IF Occupied(S) # {} /\ GoodRows(Occupied(S)) = {} THEN Null
    ELSE Cardinality({b \in GoodRows(Occupied(S)) : At(b).t.sum > BandTop * At(b).t.n})

\* Under 95% of the expected good buckets.
Partial(good, expected) == expected > 0 /\ 20 * good < 19 * expected

\* zone_conditions: the rows, and the record the tool makes of them.
ZoneConditions(from, to) ==
    LET S == RowsIn(from, to)
    IN  [mean |-> GoodMean(S), good |-> Cardinality(GoodRows(S)), expected |-> ExpectedUpToNow(from, to),
         flagged |-> Flagged(S), above |-> AboveBand(S)]
ZoneConditionsTool(from, to) ==
    LET r == ZoneConditions(from, to)
    IN  [coverage |-> [good |-> r.good, expected |-> r.expected], partial |-> Partial(r.good, r.expected)]

\* zone_history: 5-minute points for a short window and hourly ones beyond;
\* the tool lays them on an axis of its own, up to now, and drops the rest.
HourWidth == PerHour * Width
Resolution(from, to) == IF to - from <= HistorySpan THEN Width ELSE HourWidth
\* Buckets of the rollup of width w that starts in the window.
RollupRows(from, to, w) ==
    {b \in 0..(Len(buckets) - 1) : LET h == ((b * Width) \div w) * w IN h >= from /\ h < to}
ZoneHistory(from, to, w) ==
    LET rows == RollupRows(from, to, w)
    IN  [t \in {((b * Width) \div w) * w : b \in rows} |-> GoodMean({b \in rows : ((b * Width) \div w) * w = t})]
ZoneHistoryTool(from, to) ==
    LET w      == Resolution(from, to)
        points == ZoneHistory(from, to, w)
        start  == CeilDiv(from, w) * w
        n      == BucketStartsIn(from, Smaller(to, evNow), w)
        column == [i \in 0..(n - 1) |-> IF start + i * w \in DOMAIN points THEN points[start + i * w]
                                        ELSE [sum |-> 0, weight |-> 0]]
        good   == Cardinality({i \in DOMAIN column : column[i].weight > 0})
    IN  [at |-> start, column |-> column, coverage |-> [good |-> good, expected |-> n], partial |-> Partial(good, n)]

\* compare_zones: whole hours, the last of them included even if it is running;
\* what it covers ends no later than now.
HoursFrom(from) == CeilDiv(from, HourWidth) * HourWidth
HoursToUnrounded(from, to) == Larger(HoursFrom(from), to)
HoursTo(from, to) == Larger(HoursFrom(from), CeilDiv(to, HourWidth) * HourWidth)
CompareCovered(from, to) ==
    [from |-> HoursFrom(from), to |-> Larger(HoursFrom(from), Smaller(CeilDiv(to, HourWidth) * HourWidth, evNow))]
CompareZones(from, to) ==
    LET five == RowsIn(HoursFrom(from), HoursTo(from, to))
        hour == RollupRows(from, to, HourWidth)
    IN  [mean |-> GoodMean(hour), flagged |-> Flagged(hour),
         good |-> Cardinality(GoodRows(five)), above |-> AboveBand(five), covered |-> CompareCovered(from, to)]
CompareZonesTool(from, to) ==
    LET r        == CompareZones(from, to)
        expected == BucketStartsIn(r.covered.from, Smaller(r.covered.to, evNow), Width)
    IN  [coverage |-> [good |-> r.good, expected |-> expected], partial |-> Partial(r.good, expected)]

\* energy_by_end_use by local day: days generated on the local calendar,
\* joined to what each local day's buckets came to.
LocalDay(b) == (b + DayOffset) \div PerDay
UtcDay(b) == b \div PerDay
DaysOf(from, to) == LocalDay(from \div Width)..LocalDay((to - 1) \div Width)
DayStart(d) == (d * PerDay - DayOffset) * Width
Energy(S) == SumOver(GoodRows(S), LAMBDA b : At(b).t.sum \div At(b).t.n)
EnergyByDay(from, to) ==
    [d \in DaysOf(from, to) |->
        LET S == {b \in RowsIn(from, to) : LocalDay(b) = d}
        IN  [energy |-> Energy(S), good |-> Cardinality(GoodRows(S)),
             expected |-> ExpectedUpToNow(Larger(from, DayStart(d)), Smaller(to, DayStart(d + 1)))]]
\* The other groupings: one row, of every sensor of the group.
EnergyGrouped(from, to) ==
    LET S == RowsIn(from, to)
    IN  [energy |-> Energy(S), good |-> Cardinality(GoodRows(S)), expected |-> ExpectedUpToNow(from, to)]
EnergyTool(from, to) ==
    LET days == EnergyByDay(from, to)
    IN  [rows |-> days,
         coverage |-> [good |-> SumOver(DOMAIN days, LAMBDA d : days[d].good),
                       expected |-> SumOver(DOMAIN days, LAMBDA d : days[d].expected)],
         partial |-> \E d \in DOMAIN days : Partial(days[d].good, days[d].expected)]

\* zone_timeline: gaps between the buckets heard, with a virtual bucket on
\* either side of what the window has seen so far; runs of flagged buckets.
Edges(from, to) == {b \in RowsIn(from, to) : At(b).t.n + At(b).t.bad > 0}
                   \union {CeilDiv(from, Width) - 1, CeilDiv(Smaller(to, evNow), Width)}
DataGaps(from, to) ==
    {g \in Edges(from, to) \X Edges(from, to) :
        g[2] - g[1] > Quiet /\ ~\E e \in Edges(from, to) : g[1] < e /\ e < g[2]}
FlagEpisodes(from, to) ==
    LET bad == {b \in RowsIn(from, to) : At(b).t.bad > 0}
        grp(b) == b - Cardinality({c \in bad : c <= b})
    IN  {{c \in bad : grp(c) = grp(b)} : b \in bad}

\* checkWindow.
CheckWindow(from, to) == to > from /\ to <= evNow + Tolerance
Windows == LET last == Smaller(MaxBuckets * Width, evNow + Tolerance)
           IN  {w \in (0..last) \X (0..last) : CheckWindow(w[1], w[2])}

----------------------------------------------------------------------------
(***************************************************************************)
(* Asked about the same whole hours, the tools tell one story: the mean    *)
(* and the minutes above the band that rank a zone are the ones its own    *)
(* conditions give, and the points of its history, at either resolution,   *)
(* are the readings up to now, each once.                                  *)
(***************************************************************************)
ToolsAgree ==
    evNow > 0 => \A w \in Windows :
        LET h == <<HoursFrom(w[1]), HoursTo(w[1], w[2])>>
            c == CompareZones(w[1], w[2])
            z == ZoneConditions(h[1], h[2])
            y == ZoneHistoryTool(w[1], w[2])
            r == Resolution(w[1], w[2])
        IN  /\ c.mean = z.mean /\ c.above = z.above /\ c.good = z.good /\ c.flagged = z.flagged
            /\ SumOver(DOMAIN y.column, LAMBDA i : y.column[i].sum)
                  = GoodMean(RollupRows(w[1], Smaller(w[2], evNow), r)).sum

Begun(from, to) == {b \in 0..MaxBuckets : b * Width >= from /\ b * Width < Smaller(to, evNow)}
Told(record, from, to) ==
    /\ record.coverage.good <= record.coverage.expected
    /\ record.partial <=> \E b \in Begun(from, to) : b \notin GoodRows(RowsIn(from, to))
(***************************************************************************)
(* A coverage figure is a share, and a record says its cover was partial   *)
(* exactly when a bucket that had begun, in the window its label gives,    *)
(* had no good sample (with under twenty buckets, 95% is all of them).     *)
(* Unless a device's clock ran ahead and a bucket that has not begun is in *)
(* the window: then a figure may pass 100%, which bucketStartsIn denies.   *)
(***************************************************************************)
CoverageIsTold ==
    evNow > 0 /\ (Len(buckets) - 1) * Width < evNow =>
        \A w \in Windows :
            LET c == CompareCovered(w[1], w[2])
            IN  /\ Told(ZoneConditionsTool(w[1], w[2]), w[1], w[2])
                /\ Told(CompareZonesTool(w[1], w[2]), c.from, c.to)
                /\ Told(EnergyTool(w[1], w[2]), w[1], w[2])
                /\ Resolution(w[1], w[2]) = Width => Told(ZoneHistoryTool(w[1], w[2]), w[1], w[2])

(***************************************************************************)
(* The rows by local day are the window split up: no bucket is in two days *)
(* or in none, whatever the building's offset, and neither are the buckets *)
(* that should have been there.                                            *)
(***************************************************************************)
DaysAddUp ==
    evNow > 0 => \A w \in Windows :
        LET days  == EnergyByDay(w[1], w[2])
            whole == EnergyGrouped(w[1], w[2])
        IN  /\ SumOver(DOMAIN days, LAMBDA d : days[d].energy) = whole.energy
            /\ SumOver(DOMAIN days, LAMBDA d : days[d].good) = whole.good
            /\ SumOver(DOMAIN days, LAMBDA d : days[d].expected) = whole.expected

\* A silence: buckets begun, inside the window, with nothing heard, as long as can be.
Silences(from, to) ==
    LET begun == CeilDiv(from, Width)..(CeilDiv(Smaller(to, evNow), Width) - 1)
        still(b) == b \in begun /\ At(b).t.n + At(b).t.bad = 0
    IN  {r \in begun \X begun : /\ r[1] <= r[2] /\ r[2] - r[1] + 2 > Quiet
                                /\ \A b \in r[1]..r[2] : still(b)
                                /\ ~still(r[1] - 1) /\ ~still(r[2] + 1)}
(***************************************************************************)
(* The timeline's gaps are exactly the silences long enough to be one, a   *)
(* feed silent at the window's start or silent now included, and its flag  *)
(* episodes are exactly the runs of flagged buckets.                       *)
(***************************************************************************)
GapsAreTheSilences ==
    \A w \in Windows :
        /\ w[1] < evNow => {<<g[1] + 1, g[2] - 1>> : g \in DataGaps(w[1], w[2])} = Silences(w[1], w[2])
        /\ \A e \in FlagEpisodes(w[1], w[2]) :
              /\ e = Min(e)..Max(e)
              /\ \A b \in {Min(e) - 1, Max(e) + 1} \intersect RowsIn(w[1], w[2]) : At(b).t.bad = 0
=============================================================================
