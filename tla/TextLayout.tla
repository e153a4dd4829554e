----------------------------- MODULE TextLayout -----------------------------
(***************************************************************************)
(* tau-tui's word wrapping, truncation and slicing of styled text.  A text *)
(* is a sequence of tokens: graphemes, spaces, line ends and ANSI codes.   *)
(* A text is wrapped to a width grapheme by grapheme, one step for each;   *)
(* truncate_to_width and slice_from_column are operators.                  *)
(***************************************************************************)
EXTENDS Naturals, Sequences, SequencesExt, FiniteSetsExt

CONSTANTS
  Texts,       \* the texts
  Widths       \* widths to wrap and truncate to, columns to slice at

(* "W" is two columns wide, "tab" counts as three; "zwj" is one grapheme of*)
(* two characters, each two columns wide, drawn in two columns.            *)
Graphemes == {"a", "W", "tab", "zwj"}
Styles    == {"red", "bold"}               \* SGR codes
Codes     == Styles \cup {"reset", "osc"}  \* "osc": a code that is no SGR
Tokens    == Graphemes \cup Codes \cup {" ", "nl"}

TextAssumption ==
  /\ \A t \in Texts : t \in Seq(Tokens)
  /\ Widths \subseteq Nat \ {0}

Columns(k)    == CASE k \in {"a", " "} -> 1 [] k \in {"W", "zwj"} -> 2
                   [] k = "tab" -> 3 [] OTHER -> 0
CharColumns(k) == IF k = "zwj" THEN 4 ELSE Columns(k)

Total(s, Op(_)) == FoldSeq(LAMBDA k, n : Op(k) + n, 0, s)
Width(s)        == Total(s, Columns)
VisibleWidth(s) == Total(s, CharColumns)

KeepsAny(sgr, k) ==           \* mutant: keeps codes that are no SGR
  IF k = "reset" THEN << >> ELSE IF k \in Codes THEN Append(sgr, k) ELSE sgr

(* update_sgr_state, sgr_prefix: the codes since the last reset, in order. *)
Updated(sgr, k) ==
  IF k = "reset" THEN << >> ELSE IF k \in Styles THEN Append(sgr, k) ELSE sgr

Sgr(s) == FoldLeft(Updated, << >>, s)

-----------------------------------------------------------------------------
(* wrap_text_with_ansi *)

VARIABLE lay

LayoutType ==
  [ text : Texts, width : Widths,
    pos  : Nat,                    \* tokens that are dealt with
    out  : Seq(Seq(Tokens)),       \* lines
    first : Nat,                   \* lines before the current hard line
    line : Seq(Tokens),            \* current_line
    cols : Nat,                    \* current_width
    brk  : Nat,                    \* break_pos: the last space of the line, or 0
    bcols : Nat, bsgr : Seq(Styles),
    sgr  : Seq(Styles), over : BOOLEAN ]

TypeOK == lay \in LayoutType

Init ==
  \E t \in Texts, w \in Widths :
    lay = [ text |-> t, width |-> w, pos |-> 0, out |-> << >>, first |-> 0,
            line |-> << >>, cols |-> 0, brk |-> 0, bcols |-> 0, bsgr |-> << >>,
            sgr |-> << >>, over |-> t = << >> ]

More == ~lay.over /\ lay.pos < Len(lay.text)
Tok  == lay.text[lay.pos + 1]
Past(l) == [l EXCEPT !.pos = @ + 1]

Put(l, k) == [l EXCEPT !.line = Append(@, k), !.cols = @ + Columns(k)]

(* The line is pushed; the next one starts with the codes in force. *)
PushLine(l) == [l EXCEPT !.out = Append(@, l.line), !.line = l.sgr, !.cols = 0, !.brk = 0]

PassCode ==
  /\ More /\ Tok \in Codes
  /\ lay' = Past([lay EXCEPT !.sgr = Updated(@, Tok), !.line = Append(@, Tok)])

Space ==
  /\ More /\ Tok = " "
  /\ lay' = Past(
       IF lay.cols + 1 > lay.width /\ lay.cols > 0 THEN PushLine(lay)
       ELSE Put([lay EXCEPT !.brk = Len(lay.line) + 1, !.bcols = lay.cols, !.bsgr = lay.sgr], " "))

(* Break at the last space: what is behind it moves to the next line, with *)
(* the codes that were in force at the space.                              *)
StyleNow(l) == l.sgr               \* mutant: with the codes in force now
StyleAtBreak(l) == l.bsgr

BreakAtSpace(l) ==
  [l EXCEPT !.out = Append(@, SubSeq(l.line, 1, l.brk - 1)),
            !.line = StyleAtBreak(l) \o SubSeq(l.line, l.brk + 1, Len(l.line)),
            !.cols = @ - l.bcols - 1, !.brk = 0]

OffByOne(l, k) == l.cols + Columns(k) <= l.width + 1   \* mutant
HasRoom(l, k)  == l.cols + Columns(k) <= l.width

Grapheme ==
  /\ More /\ Tok \in Graphemes
  /\ lay' = Past(
       IF HasRoom(lay, Tok) THEN Put(lay, Tok)
       ELSE IF lay.brk # 0 THEN Put(BreakAtSpace(lay), Tok)
       ELSE IF lay.cols = 0 THEN PushLine(Put(lay, Tok))
       ELSE Put(PushLine(lay), Tok))

(* The end of a hard line: its last line is pushed if there is anything in *)
(* it, or if it would have no line; and nothing of it is left over.        *)
EndLine(l) ==
  LET r == IF l.cols > 0 \/ Len(l.out) = l.first THEN PushLine(l) ELSE l
  IN  [r EXCEPT !.line = l.sgr, !.cols = 0, !.brk = 0, !.first = Len(r.out)]

HardBreak == More /\ Tok = "nl" /\ lay' = Past(EndLine(lay))

Finish ==
  /\ ~lay.over /\ lay.pos = Len(lay.text)
  /\ lay' = [EndLine(lay) EXCEPT !.over = TRUE]

Next == PassCode \/ Space \/ Grapheme \/ HardBreak \/ Finish

Spec == Init /\ [][Next]_lay

-----------------------------------------------------------------------------
(* truncate_to_width and slice_from_column *)

(* The first token with which a text is wider than w; one past its end.    *)
FirstBeyond(s, w) ==
  Min({i \in 1 .. Len(s) : Width(SubSeq(s, 1, i)) > w} \cup {Len(s) + 1})

Truncate(s, w, ellipsis) ==
  IF VisibleWidth(s) <= w THEN s
  ELSE LET e == VisibleWidth(ellipsis)
           budget == IF e <= w THEN w - e ELSE 0
           kept == SubSeq(s, 1, FirstBeyond(s, budget) - 1)
       IN  IF e <= w THEN kept \o ellipsis ELSE kept

(* Tokens are skipped until the column is reached, and codes after that.   *)
SkippedTo(s, col) ==
  LET reached == Min({i \in 0 .. Len(s) : Width(SubSeq(s, 1, i)) >= col} \cup {Len(s)})
  IN  Max({i \in reached .. Len(s) : \A j \in reached + 1 .. i : s[j] \in Codes})

Slice(s, col) ==
  LET n == SkippedTo(s, col)
  IN  <<Sgr(SubSeq(s, 1, n)), SubSeq(s, n + 1, Len(s))>>

-----------------------------------------------------------------------------
(* What a terminal shows: the graphemes, each with the codes in force.     *)
Shown(s) ==
  LET at == SetToSortSeq({i \in 1 .. Len(s) : s[i] \in Graphemes}, <)
  IN  [n \in 1 .. Len(at) |-> <<s[at[n]], Sgr(SubSeq(s, 1, at[n]))>>]

(* Lines are drawn each from the default style.                            *)
Drawn(lines) == FoldLeft(LAMBDA all, l : all \o Shown(l), << >>, lines)

(* A line fits the width.  Its last grapheme may stick out if it is alone, *)
(* or if there was a break at a space for it: the line before, the space   *)
(* and what stands before the grapheme fit the width together.             *)
Fits(lines, i, w) ==
  LET l    == lines[i]
      at   == {j \in 1 .. Len(l) : Columns(l[j]) > 0}
      body == IF at = {} THEN 0 ELSE Width(SubSeq(l, 1, Max(at) - 1))
  IN  \/ Width(l) <= w \/ body = 0
      \/ i > 1 /\ Width(lines[i - 1]) + 1 + body <= w

(* What was dealt with is drawn as it would be unwrapped, in order and in  *)
(* its style, whatever line it is on; lines fit but for a grapheme that is *)
(* alone or follows a break at a space; no hard line disappears.           *)
WrappedIsFaithful ==
  /\ Drawn(Append(lay.out, lay.line)) = Shown(SubSeq(lay.text, 1, lay.pos))
  /\ \A i \in 1 .. Len(lay.out) : Fits(lay.out, i, lay.width)
  /\ lay.over /\ lay.text # << >> =>
       Len(lay.out) > Cardinality({i \in 1 .. Len(lay.text) : lay.text[i] = "nl"})

(* A truncated text fits and starts as the text does; a slice has what is  *)
(* drawn at the column or behind it, drawn as it was in the text.          *)
CutsAreFaithful ==
  LET s == lay.text  w == lay.width
      short == Truncate(s, w, <<"a", "a">>)
      slice == Slice(s, w)
  IN  lay.over =>
        /\ Width(short) <= w \/ short = s
        /\ w >= 2 /\ short # s => IsPrefix(SubSeq(short, 1, Len(short) - 2), s)
        /\ LET rest == Shown(slice[1] \o slice[2]) IN
           /\ Len(rest) = Cardinality({i \in 1 .. Len(s) :
                             s[i] \in Graphemes /\ Width(SubSeq(s, 1, i - 1)) >= w})
           /\ rest = SubSeq(Shown(s), Len(Shown(s)) - Len(rest) + 1, Len(Shown(s)))

=============================================================================
