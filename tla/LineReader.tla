----------------------------- MODULE LineReader -----------------------------
(***************************************************************************)
(* The line splitter of a streamed answer                                  *)
(* (apps/web/lib/copilot-panel/wire.ts): text arrives in arbitrary pieces, *)
(* the tail of each is carried, a carriage return before the newline is    *)
(* stripped, and a line longer than the limit is dropped to its newline    *)
(* rather than buffered.                                                   *)
(***************************************************************************)
EXTENDS Integers, Sequences, SequencesExt

CONSTANTS LineMax,   \* MAX_LINE_CHARS
          MaxText    \* bound on the characters of a stream

NL == "nl"
CR == "cr"
Chars == {"x", CR, NL}

VARIABLES text,       \* what has arrived
          carry, discarding, lines,   \* the splitter, and every line it returned
          closed,
          cuts      \* history: where the pieces of the text ended

linevars == <<text, carry, discarding, lines, closed, cuts>>

(* A line is its part without one carriage return at its end; a blank or   *)
(* an oversized one is left out.                                           *)
Stripped(part) == IF part # <<>> /\ Last(part) = CR THEN Front(part) ELSE part
NotBlank(l) == \E i \in DOMAIN l : l[i] = "x"
IsLine(l) == NotBlank(l) /\ Len(l) <= LineMax
LinesOf(parts) == SelectSeq([k \in DOMAIN parts |-> Stripped(parts[k])], IsLine)

(* The parts of a text between its newlines.                               *)
Newlines(t) == {i \in DOMAIN t : t[i] = NL}
EndsOf(t) == SetToSortSeq(Newlines(t) \cup {Len(t) + 1}, <)
PartsOf(t) ==
    LET ends == EndsOf(t)
    IN  [k \in DOMAIN ends |-> SubSeq(t, IF k = 1 THEN 1 ELSE ends[k - 1] + 1, ends[k] - 1)]
-----------------------------------------------------------------------------
(* push: the parts of carry and chunk but the last, which is carried, its  *)
(* carriage return included: its length is compared before any stripping.  *)
KeepsTheTail(chunk) ==
    LET parts == PartsOf(carry \o chunk)
        rest == Last(parts)
    IN  /\ lines' = lines \o LinesOf(Front(parts))
        /\ carry' = IF Len(rest) > LineMax THEN <<>> ELSE rest
        /\ UNCHANGED discarding

Push(chunk) ==
    LET parts == PartsOf(carry \o chunk)
        rest == Last(parts)
        whole == Front(parts)
        kept == IF discarding /\ whole # <<>> THEN Tail(whole) ELSE whole
    IN  /\ lines' = lines \o LinesOf(kept)
        /\ carry' = IF Len(rest) > LineMax THEN <<>> ELSE rest
        /\ discarding' = (Len(rest) > LineMax \/ (discarding /\ whole = <<>>))

Arrives(chunk) ==
    /\ ~closed /\ Len(text) + Len(chunk) <= MaxText
    /\ Push(chunk) /\ text' = text \o chunk
    /\ cuts' = cuts \cup {Len(text) + Len(chunk)}
    /\ UNCHANGED closed

(* end: the last line, when no newline followed it.                        *)
StreamCloses ==
    LET last == Stripped(carry)
    IN  /\ ~closed /\ closed' = TRUE
        /\ lines' = IF ~discarding /\ NotBlank(last) THEN Append(lines, last) ELSE lines
        /\ carry' = <<>> /\ discarding' = FALSE
        /\ UNCHANGED <<text, cuts>>

LineInit ==
    /\ text = <<>> /\ carry = <<>> /\ discarding = FALSE /\ lines = <<>> /\ closed = FALSE
    /\ cuts = {}

LineNext == StreamCloses \/ \E n \in 1..MaxText : \E chunk \in [1..n -> Chars] : Arrives(chunk)
-----------------------------------------------------------------------------
(* Where the network cuts the stream does not matter: the lines are those  *)
(* of the whole text, blank and oversized ones left out.  One kind of line *)
(* is the exception, and no other: a line of exactly the limit that ends   *)
(* in \r\n is dropped when the cut falls between those two (push compares  *)
(* what it carries with the \r still on it), or when the stream ends there.*)
CutFromNewline(part, end) == Len(part) > LineMax /\ end - 1 \in cuts
CutsDoNotMatter ==
    LET parts == PartsOf(text)
        kept == {k \in DOMAIN parts : IsLine(Stripped(parts[k])) /\ ~CutFromNewline(parts[k], EndsOf(text)[k])}
        inOrder == SetToSortSeq(kept, <)
    IN  closed => lines = [n \in DOMAIN inOrder |-> Stripped(parts[inOrder[n]])]
=============================================================================
