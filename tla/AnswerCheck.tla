----------------------------- MODULE AnswerCheck -----------------------------
(***************************************************************************)
(* The verifier between the model's draft and the operator.  A draft is    *)
(* built a segment at a time: prose, figures that cite evidence, citation  *)
(* chips; paragraph by paragraph, with caveats.  Prose is a sequence of    *)
(* marks - "d" digits, "u" the letters of a unit, "w" any other word, "s"  *)
(* a space, "m" a sign, "z" a character that is not shown - and figures    *)
(* are in tenths.                                                          *)
(***************************************************************************)
EXTENDS Integers, Sequences, FiniteSets, SequencesExt, FiniteSetsExt

CONSTANTS
    Evidence,    \* id -> [kind, caveats, data: path -> [v, unit]], the request's ledger
    Palettes     \* drafts to try: name -> [segs: a set of segments, max: how many of them,
                 \* paragraphs: at most, caveats: the lists to try]

Nil == "none"          \* no unit in the key; no rule broken
NoValue == -9999       \* a null in the data
Simulated == "MODEL_ESTIMATE"
CheckMode == "CHECK_MODE"
Suspect == "METER_SUSPECT"
Totals == {"total_kwh", "total_excluding_suspect_kwh"}

\* What every draft is made of: the shapes of segments, and figures that are numbers.
References == Seq([id : STRING, path : STRING])
WellFormed(s) ==
    /\ s.kind \in {"text", "cite", "num"}
    /\ s.kind = "num" => /\ s.ref \in References /\ s.refs \in References
                         /\ s.refs # <<>> => s.op \in {"difference", "sum", "percent_change"}
ASSUME AnswerAssumption ==
    /\ \A n \in DOMAIN Palettes : \A s \in Palettes[n].segs : WellFormed(s)
    /\ \A id \in DOMAIN Evidence : \A p \in DOMAIN Evidence[id].data : Evidence[id].data[p].v \in Int

VARIABLES palette, doc, caveatsListed
answervars == <<palette, doc, caveatsListed>>

AnswerInit ==
    /\ palette \in DOMAIN Palettes
    /\ doc = << <<>> >> /\ caveatsListed \in Palettes[palette].caveats
Room == Cardinality(UNION {{p} \X (DOMAIN doc[p]) : p \in DOMAIN doc}) < Palettes[palette].max
AddSegment(s) ==
    /\ Room
    /\ doc' = [doc EXCEPT ![Len(doc)] = Append(@, s)]
    /\ UNCHANGED <<palette, caveatsListed>>
NewParagraph ==
    /\ Len(doc) < Palettes[palette].paragraphs /\ Last(doc) # <<>>
    /\ doc' = Append(doc, <<>>)
    /\ UNCHANGED <<palette, caveatsListed>>
AnswerNext ==
    \/ NewParagraph
    \/ Room /\ \E s \in Palettes[palette].segs : AddSegment(s)
AnswerSpec == AnswerInit /\ [][AnswerNext]_answervars

----------------------------------------------------------------------------
\* Text.  A quantity is digits not glued to a word on the left, then a unit.
Visible(text) == SelectSeq(text, LAMBDA c : c # "z")
At2(t, i) == IF i \in DOMAIN t THEN t[i] ELSE "end"
Letters == {"u", "w"}
\* The spans <<i, j>> of t that read as a number with a unit.
QuantitySpans(t) ==
    {sp \in (DOMAIN t) \X (DOMAIN t) :
        /\ sp[1] < sp[2]
        /\ t[sp[1]] = "d" /\ At2(t, sp[1] - 1) \notin Letters \union {"d"}
        /\ t[sp[2]] = "u" /\ At2(t, sp[2] + 1) \notin Letters \union {"d"}
        /\ \E k \in sp[1]..sp[2], l \in sp[1]..sp[2] :
              /\ k < l
              /\ \A i \in sp[1]..k : t[i] = "d"
              /\ \A i \in (k + 1)..(l - 1) : t[i] \in {"s", "m"}
              /\ Cardinality({i \in (k + 1)..(l - 1) : t[i] = "m"}) <= 1
              /\ \A i \in l..sp[2] : t[i] = "u"}
VerifyText(text) ==
    (IF \E i \in DOMAIN text : text[i] = "z" THEN {"invisible_character"} ELSE {})
    \union (IF QuantitySpans(Visible(text)) # {} THEN {"unit_number_in_text"} ELSE {})

\* A figure as the panel shows it: a count bare, a percentage hugging its sign.
Shown(seg) == CASE seg.unit = "count" -> <<"d">>
                [] seg.unit = "pct"   -> <<"d", "u">>
                [] OTHER              -> <<"d", "s", "u">>

----------------------------------------------------------------------------
\* One reference, resolved to a number with a unit, or the rule it breaks.
ResolveRef(r) ==
    IF r.id \notin DOMAIN Evidence THEN [rule |-> "evidence_scope"]
    ELSE IF r.path \notin DOMAIN Evidence[r.id].data THEN [rule |-> "ref"]
    ELSE LET x == Evidence[r.id].data[r.path]
         IN  IF x.v = NoValue THEN [rule |-> "ref"]
             ELSE IF x.unit = Nil THEN [rule |-> "uncitable"]
             ELSE [rule |-> Nil, v |-> x.v, unit |-> x.unit, kind |-> Evidence[r.id].kind]

\* The derivations, and the units each is meaningful for; values are fractions.
Bad == [ok |-> FALSE]
Good(num, den, unit) == [ok |-> TRUE, num |-> num, den |-> den, unit |-> unit]
Magnitude(x) == IF x < 0 THEN -x ELSE x
EvaluateDerive(op, c) ==
    CASE op = "difference" ->
            LET unit == IF Len(c) # 2 THEN Nil
                        ELSE IF c[1].unit = "c" /\ c[2].unit = "c" THEN "k"
                        ELSE IF c[1].unit = "c" /\ c[2].unit = "k" THEN "c"
                        ELSE IF c[1].unit = c[2].unit /\ c[1].unit # "pct" THEN c[1].unit
                        ELSE Nil
            IN  IF unit = Nil THEN Bad ELSE Good(c[1].v - c[2].v, 1, unit)
      [] op = "sum" ->
            IF (\E i \in DOMAIN c : c[i].unit # c[1].unit) \/ c[1].unit \in {"c", "pct"} THEN Bad
            ELSE Good(FoldLeft(LAMBDA acc, y : acc + y.v, 0, c), 1, c[1].unit)
      [] op = "percent_change" ->
            IF Len(c) # 2 \/ c[1].unit # c[2].unit \/ c[1].unit \in {"c", "pct"} \/ c[1].v = 0 THEN Bad
            ELSE Good((c[2].v - c[1].v) * 1000, Magnitude(c[1].v), "pct")

\* Rounded as displayed (half away from zero), within half a displayed step.
Displayed(v, decimals) ==
    IF decimals = 1 THEN v
    ELSE LET r == ((Magnitude(v) + 5) \div 10) * 10 IN IF v < 0 THEN -r ELSE r
Agrees(seg, num, den) ==
    2 * Magnitude(Displayed(seg.value, seg.decimals) * den - num) <= (IF seg.decimals = 1 THEN 1 ELSE 10) * den

RefsOf(seg) == seg.ref \o seg.refs
CheckNum(seg) ==
    LET cited == [i \in DOMAIN RefsOf(seg) |-> ResolveRef(RefsOf(seg)[i])]
        bad   == {cited[i].rule : i \in DOMAIN cited} \ {Nil}
        kinds == {cited[i].kind : i \in DOMAIN cited}
        differ(unit, num, den) == (IF seg.unit # unit THEN {"unit"} ELSE {})
                                  \union (IF ~Agrees(seg, num, den) THEN {"value_mismatch"} ELSE {})
    IN  IF (seg.ref = <<>>) = (seg.refs = <<>>) THEN {"ref"}
        ELSE IF seg.ref # <<>>
        THEN IF seg.basis = "derived" THEN {"derive"}
             ELSE IF bad # {} THEN bad
             ELSE differ(cited[1].unit, cited[1].v, 1)
                  \union (IF seg.basis \notin kinds THEN {"basis"} ELSE {})
        ELSE IF seg.basis # "derived" THEN {"basis"}
        ELSE IF Cardinality(ToSet(seg.refs)) # Len(seg.refs) THEN {"derive"}
        ELSE IF bad # {} THEN bad
        ELSE IF {"simulated", "measured"} \subseteq kinds THEN {"basis"}
        ELSE LET d == EvaluateDerive(seg.op, cited)
             IN  IF ~d.ok THEN {"derive"} ELSE differ(d.unit, d.num, d.den)

\* The prose on one side of figure k, read through chips and empty segments
\* up to the next figure.
FiguresIn(p) == {i \in DOMAIN p : p[i].kind = "num"}
Prose(p, from, to) == FoldLeft(LAMBDA acc, s : IF s.kind = "text" THEN acc \o s.text ELSE acc, <<>>, SubSeq(p, from, to))
NextSegmentOnly(p, k) ==
    [prev |-> IF k > 1 /\ p[k - 1].kind = "text" THEN p[k - 1].text ELSE <<>>,
     next |-> IF k < Len(p) /\ p[k + 1].kind = "text" THEN p[k + 1].text ELSE <<>>,
     figure |-> k - 1 \in FiguresIn(p)]
AdjacentProse(p, k) ==
    LET before == {i \in FiguresIn(p) : i < k}
        after  == {i \in FiguresIn(p) : i > k}
    IN  [prev |-> Prose(p, IF before = {} THEN 1 ELSE Max(before) + 1, k - 1),
         next |-> Prose(p, k + 1, IF after = {} THEN Len(p) ELSE Min(after) - 1),
         figure |-> before # {}]
GluedBefore(t) ==
    LET bare == {i \in DOMAIN t : t[i] # "s"}
    IN  \/ At2(t, Len(t)) = "d"
        \/ bare # {} /\ t[Max(bare)] = "m"
CheckGlue(p, k) ==
    LET a     == AdjacentProse(p, k)
        shown == Shown(p[k])
        read  == {sp[2] : sp \in {x \in QuantitySpans(shown \o Visible(a.next)) : x[1] = 1}}
    IN  IF \/ a.figure /\ a.prev = <<>>
           \/ GluedBefore(a.prev)
           \/ At2(a.next, 1) = "d"
           \/ a.next # <<>> /\ (\/ read # {} /\ Max(read) > Len(shown)
                                \/ Last(shown) # "d" /\ Head(a.next) \in Letters)
        THEN {"glued_figure"} ELSE {}

\* The paragraph's prose, joined between figures.
ProseRuns(p) ==
    LET cuts == {0, Len(p) + 1} \union FiguresIn(p)
    IN  {Prose(p, a + 1, Min({b \in cuts : b > a}) - 1) : a \in cuts \ {Len(p) + 1}}

\* Either total of a suspect meter, without the other, where there is another.
RefsIn(p) == UNION {ToSet(RefsOf(p[i])) : i \in FiguresIn(p)}
OtherTotal(path) == CHOOSE q \in Totals : q # path
UnpairedTotals(p) ==
    IF \E r \in RefsIn(p) :
          /\ r.path \in Totals /\ r.id \in DOMAIN Evidence
          /\ Suspect \in Evidence[r.id].caveats
          /\ [id |-> r.id, path |-> OtherTotal(r.path)] \notin RefsIn(p)
          /\ OtherTotal(r.path) \in DOMAIN Evidence[r.id].data
          /\ Evidence[r.id].data[OtherTotal(r.path)].v # NoValue
    THEN {"unpaired_total"} ELSE {}

EvidenceIds(s) == CASE s.kind = "text" -> {}
                    [] s.kind = "cite" -> s.ids
                    [] OTHER -> {r.id : r \in ToSet(RefsOf(s))}
Segments == {doc[x[1]][x[2]] : x \in UNION {{p} \X (DOMAIN doc[p]) : p \in DOMAIN doc}}
CitedIds == (UNION {EvidenceIds(s) : s \in Segments}) \intersect DOMAIN Evidence
IsSimulated(s) == s.kind = "num" /\ (s.basis = "simulated" \/ \E id \in EvidenceIds(s) \intersect DOMAIN Evidence :
                                                                   Evidence[id].kind = "simulated")
Required ==
    (UNION {Evidence[id].caveats : id \in CitedIds})
    \union (IF (\E id \in CitedIds : Evidence[id].kind = "simulated") \/ (\E s \in Segments : IsSimulated(s))
            THEN {Simulated} ELSE {})
Carried ==
    (UNION {Evidence[id].caveats : id \in DOMAIN Evidence}) \union {CheckMode}
    \union (IF (\E id \in DOMAIN Evidence : Evidence[id].kind = "simulated") \/ (\E s \in Segments : IsSimulated(s))
            THEN {Simulated} ELSE {})

VerifyAnswer ==
    (IF \E p \in DOMAIN doc : doc[p] = <<>> THEN {"shape"} ELSE {})
    \union (UNION {(UNION {VerifyText(t) : t \in ProseRuns(doc[p])})
                   \union (UNION {CheckNum(doc[p][k]) \union CheckGlue(doc[p], k) : k \in FiguresIn(doc[p])})
                   \union UnpairedTotals(doc[p])
                   \union (IF \E i \in DOMAIN doc[p] : doc[p][i].kind = "cite" /\ ~(doc[p][i].ids \subseteq DOMAIN Evidence)
                           THEN {"evidence_scope"} ELSE {}) : p \in DOMAIN doc})
    \union (IF Required \subseteq caveatsListed THEN {} ELSE {"caveat_required"})
    \union (IF caveatsListed \subseteq Carried THEN {} ELSE {"caveat_unsupported"})

\* What renderAnswer shows: nothing is said of a draft with an empty paragraph.
Verified == (\A p \in DOMAIN doc : doc[p] # <<>>) /\ VerifyAnswer = {}

----------------------------------------------------------------------------
\* A paragraph as it is read: each mark with the segment it came from.
Rendered(p) ==
    FoldLeft(LAMBDA acc, k :
               acc \o (CASE p[k].kind = "text" -> [i \in DOMAIN Visible(p[k].text) |-> [c |-> Visible(p[k].text)[i], from |-> k]]
                         [] p[k].kind = "num"  -> [i \in DOMAIN Shown(p[k]) |-> [c |-> Shown(p[k])[i], from |-> k]]
                         [] OTHER -> <<>>), <<>>, [k \in DOMAIN p |-> k])
Marks(r) == [i \in DOMAIN r |-> r[i].c]
(***************************************************************************)
(* What the operator reads is what was verified: in an answer that passes, *)
(* every number with a unit, read off the whole paragraph as shown, is one *)
(* figure from end to end, and no digit or sign of the prose - through     *)
(* chips, empty segments or invisible characters - runs into a figure.     *)
(***************************************************************************)
ReadAsVerified ==
    Verified =>
        \A p \in DOMAIN doc :
            LET r == Rendered(doc[p])
                span(k) == {i \in DOMAIN r : r[i].from = k}
            IN  /\ \A sp \in QuantitySpans(Marks(r)) :
                      \E k \in FiguresIn(doc[p]) : span(k) = sp[1]..sp[2]
                /\ \A k \in FiguresIn(doc[p]) :
                      /\ At2(Marks(r), Min(span(k)) - 1) \notin {"d", "m"}
                      /\ At2(Marks(r), Max(span(k)) + 1) # "d"

\* The same evidence with the zero of the temperature scale moved by a tenth.
Shifted(c) == [i \in DOMAIN c |-> IF c[i].unit = "c" THEN [c[i] EXCEPT !.v = @ + 1] ELSE c[i]]
(***************************************************************************)
(* A derived figure that passes means something: moving the zero of the    *)
(* Celsius scale moves a temperature by as much and changes no other       *)
(* figure, and no figure combines what was measured with what was          *)
(* simulated.                                                              *)
(***************************************************************************)
DerivationsMeanSomething ==
    Verified =>
        \A s \in Segments : s.kind = "num" /\ s.refs # <<>> =>
            LET c == [i \in DOMAIN s.refs |-> ResolveRef(s.refs[i])]
                d == EvaluateDerive(s.op, c)
                e == EvaluateDerive(s.op, Shifted(c))
            IN  /\ e.ok /\ e.num = (IF d.unit = "c" THEN d.num + 1 ELSE d.num) /\ e.den = d.den
                /\ {Evidence[r.id].kind : r \in ToSet(s.refs)} # {"measured", "simulated"}

(***************************************************************************)
(* An answer that passes leaves nothing unsaid of the evidence it rests    *)
(* on, directly or through a derivation, and says nothing nobody found: a  *)
(* suspect meter's two totals stand in one paragraph, a model's figure     *)
(* comes with the model's caveat, and a caveat listed is of this request.  *)
(***************************************************************************)
NothingUnsaid ==
    Verified =>
        /\ \A s \in Segments : \A id \in EvidenceIds(s) :
              /\ id \in DOMAIN Evidence
              /\ Evidence[id].caveats \subseteq caveatsListed
              /\ Evidence[id].kind = "simulated" => Simulated \in caveatsListed
        /\ \A p \in DOMAIN doc, id \in DOMAIN Evidence :
              LET told == {r.path : r \in {x \in RefsIn(doc[p]) : x.id = id}} \intersect Totals
              IN  told # {} /\ Suspect \in Evidence[id].caveats =>
                     \A q \in Totals \intersect DOMAIN Evidence[id].data :
                        Evidence[id].data[q].v = NoValue \/ q \in told
        /\ \A c \in caveatsListed \ {CheckMode} :
              (\E id \in DOMAIN Evidence : c \in Evidence[id].caveats) \/ c = Simulated

(* What a draft the verifier passed may be relied on for (verify.ts).      *)
AnswerIsChecked == ReadAsVerified /\ DerivationsMeanSomething /\ NothingUnsaid
=============================================================================
