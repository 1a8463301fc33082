---------------------------- MODULE LogicalLine ----------------------------
(***************************************************************************)
(* Cells, the packed text of a logical line, and its wrapping into display *)
(* rows (cell.rs, text.rs, logical_line.rs).  Pure operators: the screen   *)
(* packs rows into text when they scroll off or reflow, and unpacks text   *)
(* into rows when it is laid out again.                                    *)
(*                                                                         *)
(* A cell's content is one of a few graphemes that the properties tell     *)
(* apart: " ", a narrow "a", a wide "W", the empty spacer behind a wide    *)
(* one, and the same with a combining mark attached ("a+").  A style is    *)
(* "plain", "ink" (a foreground only) or "ground" (a background).          *)
(***************************************************************************)
EXTENDS Integers, Sequences, SequencesExt

Styles == {"plain", "ink", "ground"}
Contents == {"", " ", "a", "W", " +", "a+", "W+"}

Cell(content, style) == [c |-> content, s |-> style]
Blank == Cell(" ", "plain")
Spacer(style) == Cell("", style)

\* A space is blank whatever its foreground, visible on a background.
IsBlank(cell) == cell.c = " " /\ cell.s # "ground"

\* The style an erase writes: the pen's background and nothing else.
EraseStyle(pen) == IF pen = "ground" THEN "ground" ELSE "plain"

Width(content) == CASE content \in {"W", "W+"} -> 2
                    [] content \in {"", "+"}   -> 0
                    [] OTHER                   -> 1

\* UTF-8 lengths of the graphemes: 1 for ASCII, 3 for a wide one, 2 for a mark.
Bytes(content) == CASE content = ""           -> 0
                    [] content \in {" ", "a"} -> 1
                    [] content = "W"          -> 3
                    [] content = "W+"         -> 5
                    [] OTHER                  -> 3

WithMark(content) == CASE content = " " -> " +"
                       [] content = "a" -> "a+"
                       [] content = "W" -> "W+"
                       [] OTHER         -> content

ByteLen(text) == FoldLeft(LAMBDA n, cell : n + Bytes(cell.c), 0, text)
DisplayWidth(text) == FoldLeft(LAMBDA n, cell : n + Width(cell.c), 0, text)

\* The bytes in the first `upto` cells of a row.
ContentBytes(cells, upto) == ByteLen(SubSeq(cells, 1, IF upto < Len(cells) THEN upto ELSE Len(cells)))

-----------------------------------------------------------------------------

\* The cells that pass, in their order: a loop that pushes them one by one.
Chosen(cells, passes(_)) ==
    FoldLeft(LAMBDA text, cell : IF passes(cell) THEN Append(text, cell) ELSE text, <<>>, cells)

\* A spacer holds no text.
HoldsText(cell) == cell.c # ""

\* Mutant: every row is trimmed, also one the line continues after.
Packed_TrimsAlways(cells, trim) ==
    Chosen(SubSeq(cells, 1, SelectLastInSeq(cells, LAMBDA cell : ~IsBlank(cell))), HoldsText)

\* What push_cells appends: the cells that hold text, without the trailing
\* blanks when the row ends its line.
Packed(cells, trim) ==
    LET end == IF trim THEN SelectLastInSeq(cells, LAMBDA cell : ~IsBlank(cell)) ELSE Len(cells)
    IN  Chosen(SubSeq(cells, 1, end), HoldsText)

PushCells(text, cells, trim) == text \o Packed(cells, trim)

\* Mutant: a wide grapheme may begin in the last column.
ContinuationStarts_SplitsWide(text, width) ==
    LET place(acc, i) ==
            LET w == Width(text[i].c) IN
            IF acc.col >= width THEN [col |-> w, starts |-> Append(acc.starts, i)]
            ELSE [acc EXCEPT !.col = @ + w]
    IN  IF width = 0 THEN <<>>
        ELSE FoldLeftDomain(place, [col |-> 0, starts |-> <<>>], text).starts

\* The places in `text` (1-based) where display rows 2.. begin at `width`.
ContinuationStarts(text, width) ==
    LET place(acc, i) ==
            LET w == Width(text[i].c) IN
            IF acc.col > 0 /\ acc.col + w > width
            THEN [col |-> w, starts |-> Append(acc.starts, i)]
            ELSE [acc EXCEPT !.col = @ + w]
    IN  IF width = 0 THEN <<>>
        ELSE FoldLeftDomain(place, [col |-> 0, starts |-> <<>>], text).starts

\* One display row: a spacer after each wide grapheme, padded and cut to width.
CellsInRange(text, width) ==
    LET cells == FlattenSeq([i \in DOMAIN text |->
                    IF Width(text[i].c) = 2 THEN <<text[i], Spacer(text[i].s)>> ELSE <<text[i]>>])
    IN  [i \in 1..width |-> IF i <= Len(cells) THEN cells[i] ELSE Blank]

RenderRows(text, width) ==
    LET bounds == <<1>> \o ContinuationStarts(text, width) \o <<Len(text) + 1>>
    IN  IF width = 0 THEN << <<>> >>
        ELSE [k \in 1 .. Len(bounds) - 1 |->
                 CellsInRange(SubSeq(text, bounds[k], bounds[k + 1] - 1), width)]

\* The graphemes of a text that leave a mark, in order.
Ink(text) == Chosen(text, LAMBDA cell : HoldsText(cell) /\ ~IsBlank(cell))
=============================================================================
