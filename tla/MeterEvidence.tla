--------------------------- MODULE MeterEvidence ---------------------------
(***************************************************************************)
(* What the copilot says a cumulative meter consumed.  The counter is read *)
(* once a slot, some readings are lost, the counter may restart from zero, *)
(* and a reading may carry a jump no building draws.  The tool adds up the *)
(* hourly rollups by hour or by local day, judges each bucket and each     *)
(* step from one bucket to the next, and offers a total without what it    *)
(* suspects.                                                               *)
(***************************************************************************)
EXTENDS Integers, Sequences, FiniteSets, FiniteSetsExt, SequencesExt, Functions, TLC

CONSTANTS
    SlotsPerHour,
    HoursPerDay,
    Jump,             \* a counter jump
    SuspectMultiple,  \* SUSPECT_MEDIAN_MULTIPLE
    MaxSlots,         \* bound: slots read
    MaxOddities       \* bound: jumps and restarts

ASSUME MeterAssumption == {SlotsPerHour, HoursPerDay} \subseteq Nat \ {0}

NoFigure == -1

VARIABLES
    mtrCounter,  \* what the meter's register shows
    mtrHeard,    \* readings that arrived: [slot, v], in order
    mtrTrue      \* what was really drawn in each slot, and whether the counter jumped
mtrvars == <<mtrCounter, mtrHeard, mtrTrue>>

MeterInit == mtrCounter = 1 /\ mtrHeard = <<>> /\ mtrTrue = <<>>

MeterNow == Len(mtrTrue)
Oddities == Cardinality({i \in DOMAIN mtrTrue : mtrTrue[i].odd})
Reads(v, drawn, odd, lost) ==
    /\ MeterNow < MaxSlots
    /\ odd => Oddities < MaxOddities
    /\ mtrCounter' = v
    /\ mtrTrue' = Append(mtrTrue, [drawn |-> drawn, odd |-> odd])
    /\ mtrHeard' = IF lost THEN mtrHeard ELSE Append(mtrHeard, [slot |-> MeterNow, v |-> v])
MeterDraws(k, lost) == Reads(mtrCounter + k, k, FALSE, lost)
MeterJumps(lost) == Reads(mtrCounter + Jump, 0, TRUE, lost)
MeterRestarts(lost) == Reads(0, 0, TRUE, lost)
MeterNext ==
    \E lost \in BOOLEAN :
        (\E k \in 0..1 : MeterDraws(k, lost)) \/ MeterJumps(lost) \/ MeterRestarts(lost)

----------------------------------------------------------------------------
Total(f) == FoldFunction(LAMBDA a, b : a + b, 0, f)
HourOf(s) == s.slot \div SlotsPerHour
DayOf(s) == HourOf(s) \div HoursPerDay
BucketOf(s, by) == IF by = "hour" THEN HourOf(s) ELSE DayOf(s)

\* delta(rollup(counter)) and num_resets: a reading below the last one is a
\* counter that restarted from zero, and has counted what it reads.
StepUp(a, b) == IF b < a THEN b ELSE b - a
Delta(ss) == Total([i \in 1..(Len(ss) - 1) |-> StepUp(ss[i].v, ss[i + 1].v)])
NumResets(ss) == Cardinality({i \in 1..(Len(ss) - 1) : ss[i + 1].v < ss[i].v})

Readings(from, to) == SelectSeq(mtrHeard, LAMBDA s : HourOf(s) >= from /\ HourOf(s) < to)
\* meter_consumption's rows: the buckets that hold a reading, in order.
MeterRows(from, to, by) ==
    LET ss == Readings(from, to)
        bucket(n) == SelectSeq(ss, LAMBDA s : BucketOf(s, by) = n)
        starts == SetToSortSeq({BucketOf(ss[i], by) : i \in DOMAIN ss}, <)
    IN  [buckets |-> [i \in DOMAIN starts |->
                         LET b == bucket(starts[i])
                         IN  [start |-> starts[i], delta |-> Delta(b), resets |-> NumResets(b),
                              hours |-> Cardinality({HourOf(b[j]) : j \in DOMAIN b}),
                              first |-> Head(b), last |-> Last(b)]],
         total |-> IF ss = <<>> THEN NoFigure ELSE Delta(ss), resets |-> NumResets(ss)]

\* Implied demand, in parts of a reading per hour fine enough to be whole.
Fine == 2 * HoursPerDay
Implied(b) == (b.delta * Fine) \div b.hours
\* The median of the positive ones.
Median(values) ==
    LET v   == SortSeq(SelectSeq(values, LAMBDA x : x > 0), <)
        mid == Len(v) \div 2
    IN  IF v = <<>> THEN NoFigure
        ELSE IF Len(v) % 2 = 1 THEN v[mid + 1] ELSE (v[mid] + v[mid + 1]) \div 2

SuspectBucket(b, med) == b.resets > 0 \/ (med # NoFigure /\ Implied(b) > SuspectMultiple * med)

\* The steps between consecutive buckets that hold readings.
BetweenSteps(buckets) == [i \in 2..Len(buckets) |-> [from |-> buckets[i - 1].last, to |-> buckets[i].first]]
Increment(st) == StepUp(st.from.v, st.to.v)
\* Suspect when the counter went down, or for the demand implied over the
\* time the step spans, never less than an hour.
SuspectStep(st, med) ==
    \/ st.to.v < st.from.v
    \/ med # NoFigure /\ LET slots == Max({SlotsPerHour, st.to.slot - st.from.slot})
                         IN  Increment(st) * Fine * SlotsPerHour > SuspectMultiple * med * slots

MeterData(rows) ==
    LET bs       == rows.buckets
        med      == Median([i \in DOMAIN bs |-> Implied(bs[i])])
        between  == BetweenSteps(bs)
        clean    == {i \in DOMAIN bs : ~SuspectBucket(bs[i], med)}
        cleanBtw == {i \in DOMAIN between : ~SuspectStep(between[i], med)}
        resetBtw == {i \in DOMAIN between : between[i].to.v < between[i].from.v}
        unplaced == rows.resets > Total([i \in DOMAIN bs |-> bs[i].resets]) + Cardinality(resetBtw)
        cleanSum == Total([i \in clean |-> bs[i].delta])
    IN  [total |-> rows.total,
         excluding |-> IF rows.total = NoFigure \/ clean = {} THEN NoFigure
                       ELSE IF unplaced THEN cleanSum
                       ELSE cleanSum + Total([i \in cleanBtw |-> Increment(between[i])]),
         between |-> Total([i \in DOMAIN between |-> Increment(between[i])]),
         inside |-> Total([i \in DOMAIN bs |-> bs[i].delta]),
         unplaced |-> unplaced,
         boundary |-> unplaced \/ resetBtw # {},
         suspect |-> Cardinality(DOMAIN bs \ clean) + Cardinality(DOMAIN between \ cleanBtw)]

\* What the tool says: the figures, and whether it warns of them.
MeterConsumption(from, to, by) ==
    LET d == MeterData(MeterRows(from, to, by))
    IN  d @@ [warns |-> d.suspect > 0 \/ d.boundary]

MeterWindows == {w \in (0..(MaxSlots \div SlotsPerHour)) \X (0..(MaxSlots \div SlotsPerHour)) :
                    w[1] < w[2] /\ (w[2] - 1) * SlotsPerHour < MeterNow}
----------------------------------------------------------------------------
(***************************************************************************)
(* The window's total is the buckets' deltas and the steps between them,   *)
(* across lost readings, restarts and gaps, by hour and by day: every      *)
(* reset is placed, the total without suspects is no more than the total,  *)
(* and differs from it only when the answer warns.                         *)
(***************************************************************************)
TotalIsAccountedFor ==
    \A w \in MeterWindows, by \in {"hour", "local_day"} :
        LET d == MeterConsumption(w[1], w[2], by)
        IN  d.total # NoFigure =>
                /\ d.total = d.inside + d.between
                /\ ~d.unplaced
                /\ d.excluding <= d.total
                /\ d.excluding = d.total \/ d.warns

\* A jump is in the bucket, or in the step, from the last reading before it to the first after.
JumpedIn(a, b) == \E i \in (a.slot + 2)..(b.slot + 1) : mtrTrue[i].odd
(***************************************************************************)
(* The total without suspects holds no counter jump: while fewer than half *)
(* of the buckets that drew anything are themselves affected, it is at     *)
(* most what the building really drew - wherever the jump landed, inside a *)
(* bucket, between two or across a gap.                                    *)
(***************************************************************************)
JumpsAreLeftOut ==
    \A w \in MeterWindows, by \in {"hour", "local_day"} :
        LET rows  == MeterRows(w[1], w[2], by)
            drew  == {i \in DOMAIN rows.buckets : rows.buckets[i].delta > 0}
            odd   == {i \in drew : JumpedIn(rows.buckets[i].first, rows.buckets[i].last)}
            d     == MeterConsumption(w[1], w[2], by)
            slots == {i \in DOMAIN mtrTrue : (i - 1) \div SlotsPerHour \in w[1]..(w[2] - 1)}
        IN  2 * Cardinality(odd) < Cardinality(drew) => d.excluding <= Total([i \in slots |-> mtrTrue[i].drawn])
=============================================================================
