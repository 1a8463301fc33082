------------------------------- MODULE Reflow -------------------------------
(***************************************************************************)
(* One logical line through a series of width changes: what Screen::resize *)
(* does to a line that stays on the screen.  The screen keeps rows, not    *)
(* text, so every resize packs the rows of the last one and lays the text  *)
(* out again; what one layout adds, the next takes for text.  Each layout  *)
(* is also drawn, as the runs of Render.                                   *)
(***************************************************************************)
EXTENDS Render

CONSTANTS Texts,   \* the lines as first written: sequences of cells
          Widths   \* the screen widths

\* push_cells leaves no spacer in a line, and no blank at the end of one that a
\* row ended.
ASSUME ReflowAssumption ==
    /\ Widths \subseteq Nat \ {0}
    /\ \A text \in Texts :
          /\ text \in Seq({cell \in [c : Contents, s : Styles] : HoldsText(cell)})
          /\ text = <<>> \/ ~IsBlank(Last(text))

VARIABLES rows,    \* the display rows on the screen
          width,   \* the screen's width
          first    \* [text, width]: as the line was first laid out

vars == <<rows, width, first>>

\* reconstruct_active_lines: all rows but the last are soft-wrapped.
Packing(rs) ==
    LET pack(text, k) == PushCells(text, rs[k], k = Len(rs))
    IN  FoldLeftDomain(pack, <<>>, rs)

Init ==
    \E text \in Texts, w \in Widths :
        first = [text |-> text, width |-> w] /\ width = w /\ rows = RenderRows(text, w)

Rewrap ==
    \E w \in Widths \ {width} :
        width' = w /\ rows' = RenderRows(Packing(rows), w) /\ UNCHANGED first

Next == Rewrap
Spec == Init /\ [][Next]_vars
-----------------------------------------------------------------------------

\* No visible grapheme and no style is lost, changed or moved past another,
\* however often the width changes; and a line without wide graphemes comes back
\* exactly when its width does (docs/PRD.md, "Reflow must be idempotent").
TextKept ==
    /\ Ink(FlattenSeq(rows)) = Ink(first.text)
    /\ (width = first.width /\ \A i \in DOMAIN first.text : Width(first.text[i].c) = 1)
         => rows = RenderRows(first.text, width)

\* What is drawn is what is on the screen: coalescing cells into runs moves no
\* glyph to another column, restyles none, and paints no background where there
\* is none, however blanks, styles and wide glyphs meet (render.rs build_row).
FrameShowsRows == \A r \in DOMAIN rows : ShownInPlace(rows[r])

\* The wrap is the greedy one: every row holds what fits, the next row's first
\* grapheme would not have fitted (compute_continuation_starts), and a wide
\* grapheme has both its cells in one row, unless there is a single column
\* (cells_in_range).
WrapsGreedily ==
    LET text   == Packing(rows)
        starts == ContinuationStarts(text, width)
        bounds == <<1>> \o starts \o <<Len(text) + 1>>
        span(from, upto) == DisplayWidth(SubSeq(text, from, upto - 1))
    IN  /\ \A k \in 1 .. Len(starts) + 1 :
            /\ text # <<>> => bounds[k] < bounds[k + 1]
            /\ span(bounds[k], bounds[k + 1]) <= width \/ bounds[k + 1] = bounds[k] + 1
            /\ k <= Len(starts) => span(bounds[k], bounds[k + 1] + 1) > width
        /\ \A r \in DOMAIN rows :
            /\ Len(rows[r]) = width
            /\ \A c \in 1 .. width : (Width(rows[r][c].c) = 2 /\ width > 1) =>
                  c < width /\ rows[r][c + 1] = Spacer(rows[r][c].s)
=============================================================================
