----------------------------- MODULE MCEvidence -----------------------------
(***************************************************************************)
(* What the copilot reads and what it may say of it, side by side: in a    *)
(* behaviour one part moves and the others stay as they began.             *)
(***************************************************************************)
EXTENDS ZoneEvidence, MeterEvidence, ZoneStory, AssetTree, ToolTurn, AnswerCheck
VARIABLE part

\* The calls a task may make in a turn.
SmallTurns == {<<"read">>, <<"read", "read">>, <<"read", "report_finding", "read">>, <<"report_finding">>}

\* A request's ledger: two suspect meters (one with no other total), a zone,
\* a simulated zone and a configuration; figures in tenths.
V(v, u) == [v |-> v, unit |-> u]
Ledger ==
    [M1 |-> [kind |-> "measured", caveats |-> {Suspect},
             data |-> [total_kwh |-> V(50, "kwh"), total_excluding_suspect_kwh |-> V(30, "kwh"), level |-> V(3, Nil)]],
     M2 |-> [kind |-> "measured", caveats |-> {Suspect},
             data |-> [total_kwh |-> V(40, "kwh"), total_excluding_suspect_kwh |-> V(NoValue, "kwh")]],
     Z1 |-> [kind |-> "measured", caveats |-> {},
             data |-> [mean_c |-> V(224, "c"), max_c |-> V(240, "c"), good_count |-> V(20, "count"), share_pct |-> V(950, "pct")]],
     S1 |-> [kind |-> "simulated", caveats |-> {}, data |-> [mean_c |-> V(210, "c"), total_kwh |-> V(40, "kwh")]],
     C1 |-> [kind |-> "configured", caveats |-> {}, data |-> [setpoint_c |-> V(220, "c"), deadband_k |-> V(20, "k")]]]
R(id, path) == [id |-> id, path |-> path]
AllRefs == UNION {{R(id, p) : p \in DOMAIN Ledger[id].data} : id \in DOMAIN Ledger} \union {R("Z1", "min_c"), R("X9", "mean_c")}
Num(value, decimals, unit, basis, ref, op, refs) ==
    [kind |-> "num", value |-> value, decimals |-> decimals, unit |-> unit, basis |-> basis, ref |-> ref, op |-> op, refs |-> refs]
Text(t) == [kind |-> "text", text |-> t]
Cite(ids) == [kind |-> "cite", ids |-> ids]

\* Prose about, between and through figures.
ProsePalette ==
    [segs |-> {Text(t) : t \in {<<>>, <<"d">>, <<"u">>, <<"w">>, <<"s">>, <<"m">>, <<"z">>, <<"d", "s">>, <<"s", "u">>}}
              \union {Cite({"Z1"}), Num(224, 1, "c", "measured", <<R("Z1", "mean_c")>>, Nil, <<>>),
                      Num(20, 0, "count", "measured", <<R("Z1", "good_count")>>, Nil, <<>>),
                      Num(950, 0, "pct", "measured", <<R("Z1", "share_pct")>>, Nil, <<>>)},
     max |-> 4, paragraphs |-> 1, caveats |-> {{}}]
\* Every figure over the ledger, right or wrong, read off or derived.
Value(r) == IF r.id \in DOMAIN Ledger /\ r.path \in DOMAIN Ledger[r.id].data THEN Ledger[r.id].data[r.path].v ELSE 0
Direct == {Num(Value(r) + off, dec, u, b, <<r>>, Nil, <<>>) :
              r \in AllRefs, off \in {0, 3}, dec \in {0, 1}, u \in {"c", "kwh"}, b \in {"measured", "simulated", "derived"}}
Worked(op, rs) == CASE op = "sum" -> Value(rs[1]) + Value(rs[2])
                    [] op = "difference" -> Value(rs[1]) - Value(rs[2])
                    [] OTHER -> IF Value(rs[1]) = 0 THEN 0 ELSE ((Value(rs[2]) - Value(rs[1])) * 1000) \div Value(rs[1])
Derived == {Num(Worked(op, rs) + off, 0, u, "derived", <<>>, op, rs) :
               op \in {"sum", "difference", "percent_change"}, rs \in AllRefs \X AllRefs, off \in {0, 10},
               u \in {"c", "k", "kwh", "pct"}}
FigurePalette == [segs |-> Direct \union Derived, max |-> 1, paragraphs |-> 1, caveats |-> {{}, {Simulated}, {Suspect}}]
\* Totals of the suspect meters, paired or not, over two paragraphs.
T(id, path) == Num(Value(R(id, path)), 1, "kwh", Ledger[id].kind, <<R(id, path)>>, Nil, <<>>)
TotalPalette ==
    [segs |-> {T("M1", "total_kwh"), T("M1", "total_excluding_suspect_kwh"), T("M2", "total_kwh"), T("S1", "total_kwh"),
               Num(80, 1, "kwh", "derived", <<>>, "sum", <<R("M1", "total_kwh"), R("M1", "total_excluding_suspect_kwh")>>),
               Num(10, 1, "kwh", "derived", <<>>, "difference", <<R("M1", "total_kwh"), R("M2", "total_kwh")>>),
               Text(<<"s", "w", "s">>), Cite({"S1"}), Cite({"Z1", "X9"})},
     max |-> 3, paragraphs |-> 2,
     caveats |-> {{}, {Suspect}, {Simulated}, {Suspect, Simulated}, {Suspect, "OTHER"}, {Suspect, CheckMode}}]
DraftsToTry == [prose |-> ProsePalette, figures |-> FigurePalette, totals |-> TotalPalette]

evidencevars == <<evvars, mtrvars, stvars, treevars, ttvars, answervars, part>>
McInit ==
    /\ EvInit /\ MeterInit /\ StoryInit /\ TreeInit /\ ToolInit /\ AnswerInit
    /\ part \in {"zone", "meter", "story", "tree", "tools", "answer"}
    /\ part = "answer" \/ (palette = "prose" /\ caveatsListed = {})
McNext ==
    /\ UNCHANGED part
    /\ \/ part = "zone" /\ EvNext /\ UNCHANGED <<mtrvars, stvars, treevars, ttvars, answervars>>
       \/ part = "meter" /\ MeterNext /\ UNCHANGED <<evvars, stvars, treevars, ttvars, answervars>>
       \/ part = "story" /\ StoryNext /\ UNCHANGED <<evvars, mtrvars, treevars, ttvars, answervars>>
       \/ part = "tree" /\ TreeNext /\ UNCHANGED <<evvars, mtrvars, stvars, ttvars, answervars>>
       \/ part = "tools" /\ ToolNext /\ UNCHANGED <<evvars, mtrvars, stvars, treevars, answervars>>
       \/ part = "answer" /\ AnswerNext /\ UNCHANGED <<evvars, mtrvars, stvars, treevars, ttvars>>
McSpec == McInit /\ [][McNext]_evidencevars
-----------------------------------------------------------------------------
(* What is told of one thing in two ways agrees: mean and coverage, days   *)
(* and hours, gaps and buckets, a meter's total with its steps, jumps and  *)
(* silences, what feeds an item with the zones it is said to serve         *)
(* (copilot.ts, diagnose.ts, analyse.ts).                                  *)
ReadingsAgree ==
    /\ ToolsAgree /\ CoverageIsTold /\ DaysAddUp /\ GapsAreTheSilences
    /\ TotalIsAccountedFor /\ JumpsAreLeftOut /\ UpAndDownAgree
=============================================================================
