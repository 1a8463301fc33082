------------------------------- MODULE Screen -------------------------------
(***************************************************************************)
(* The primary screen (screen.rs): the mutable rows the cursor writes in,  *)
(* the scrolling region, the lines frozen above, the alternate buffer and  *)
(* the reflow on a resize.  One action per parsed command, plus Resize.    *)
(*                                                                         *)
(* Rows and columns count from 0 as in the code; row r is rows[r + 1].     *)
(* The title, the replies and the modes only the keyboard reads do not     *)
(* touch any of this and are left out.                                     *)
(***************************************************************************)
EXTENDS FiniteSets, Scrollback

CONSTANT Programs   \* the programs the shell may run, see ScreenAssumption

\* What one program does: the window sizes the user gives it [rows, cols], the
\* names of the commands it sends, the graphemes it prints, the styles it
\* selects and its repeat counts.  Two bounds: no command is applied once
\* `ids` line ids are used, and the program prints `graphemes` graphemes.
ASSUME ScreenAssumption ==
    /\ \A p \in Programs :
         /\ p.sizes \subseteq [rows : Nat, cols : Nat] /\ p.sizes # {}
         /\ p.prints \subseteq {"a", "W", "+"} /\ p.pens \subseteq Styles
         /\ p.counts \subseteq Nat /\ {p.ids, p.graphemes} \subseteq Nat
    /\ {MaxLines, MaxBytes} \subseteq Nat

VARIABLES grid,     \* what is showing, and the store above it
          stash,    \* the primary buffer set aside: <<>>, or <<buffer>>
          saved,    \* the DECSC stash: <<>>, or <<[row, col, wrap, pen]>>
          pen,      \* the current style
          autowrap, \* DECAWM
          printed,  \* how many graphemes were printed
          program   \* the program that runs

vars == <<grid, stash, saved, pen, autowrap, printed, program>>

NoLine == [id |-> -1, text |-> <<>>]      \* pending: None
Fresh == -1                               \* line_id: None, allocate one

Less(m, n) == IF m < n THEN m ELSE n
Minus(m, n) == IF m < n THEN 0 ELSE m - n   \* saturating_sub

At(row, col) == [row |-> row, col |-> col, wrap |-> FALSE]
BlankRow(cols, id) == [id |-> id, wrapped |-> FALSE, cells |-> [c \in 1..cols |-> Blank]]
BlankRows(size, first) == [r \in 1..size.rows |-> BlankRow(size.cols, first + r - 1)]
Empty(size) == size.rows = 0 \/ size.cols = 0

IsAlternate == stash # <<>>

-----------------------------------------------------------------------------
(* The cursor. *)

MoveTo(g, row, col) == [g EXCEPT !.cursor = At(row, col)]
ArmWrap(g) == [g EXCEPT !.cursor.wrap = TRUE]
CursorTo(g, row, col) ==
    MoveTo(g, Less(row, Minus(g.size.rows, 1)), Less(col, Minus(g.size.cols, 1)))

CarriageReturn(g) == MoveTo(g, g.cursor.row, 0)

ResetScrollRegion(g) == [g EXCEPT !.top = 0, !.bottom = Minus(g.size.rows, 1)]

-----------------------------------------------------------------------------
(* Rows leaving and entering the screen. *)

\* Mutants: the head is forgotten when the line goes on, every row is a line.
FreezeRow_StartsOver(g, row) ==
    LET line == [id |-> row.id, text |-> PushCells(<<>>, row.cells, ~row.wrapped)]
    IN  [g EXCEPT !.pending = IF row.wrapped THEN line ELSE NoLine,
                  !.scrollback = IF row.wrapped THEN @ ELSE Pushed(@, line)]
FreezeRow_EachRowALine(g, row) ==
    [g EXCEPT !.scrollback = Pushed(@,
        [id |-> row.id, text |-> PushCells(<<>>, row.cells, ~row.wrapped)])]
FreezeRow(g, row) ==
    LET ends      == ~row.wrapped
        continues == g.pending.id = row.id
        line      == [id   |-> row.id,
                      text |-> PushCells(IF continues THEN g.pending.text ELSE <<>>, row.cells, ends)]
        before    == IF continues \/ g.pending = NoLine THEN g.scrollback
                     ELSE Pushed(g.scrollback, g.pending)
    IN  [g EXCEPT !.pending    = IF ends THEN NoLine ELSE line,
                  !.scrollback = IF ends THEN Pushed(before, line) ELSE before]

\* Mutant: a fresh id is not used up.
InsertBlankRow_ReusesId(g, at, line_id) ==
    [g EXCEPT !.rows = InsertAt(@, at + 1,
                BlankRow(g.size.cols, IF line_id = Fresh THEN g.next ELSE line_id))]

\* Beyond the end there is no place for a row: VecDeque::insert panics, and the
\* boundary that catches it finds the id used up.
InsertBlankRow(g, at, line_id) ==
    LET id    == IF line_id = Fresh THEN g.next ELSE line_id
        above == IF at > 0 /\ at <= Len(g.rows) /\ g.rows[at].id # id
                 THEN [g.rows EXCEPT ![at].wrapped = FALSE] ELSE g.rows
    IN  [g EXCEPT !.rows = IF at <= Len(@) THEN InsertAt(above, at + 1, BlankRow(g.size.cols, id)) ELSE @,
                  !.next = IF line_id = Fresh THEN @ + 1 ELSE @]

\* VecDeque::remove, which does nothing where there is no row.
RemoveRow(g, at) == IF at < Len(g.rows) THEN [g EXCEPT !.rows = RemoveAt(@, at + 1)] ELSE g

RegionIsWholeScreen(g) == g.top = 0 /\ g.bottom + 1 = Len(g.rows)

NoRegion(g) == g.top > g.bottom \/ g.bottom >= Len(g.rows)

\* Mutant: the alternate screen's rows join the history.
ScrollUpOnce_FreezesAlways(g, line_id) ==
    LET left == [g EXCEPT !.rows = RemoveAt(@, g.top + 1)]
    IN  IF NoRegion(g) THEN g
        ELSE InsertBlankRow(IF RegionIsWholeScreen(g) THEN FreezeRow(left, g.rows[g.top + 1]) ELSE left,
                            g.bottom, line_id)

ScrollUpOnce(g, line_id) ==
    LET left == [g EXCEPT !.rows = RemoveAt(@, g.top + 1)]
    IN  IF NoRegion(g) THEN g
        ELSE InsertBlankRow(IF RegionIsWholeScreen(g) /\ ~IsAlternate
                            THEN FreezeRow(left, g.rows[g.top + 1]) ELSE left,
                            g.bottom, line_id)

ScrollDownOnce(g) ==
    IF NoRegion(g) THEN g
    ELSE InsertBlankRow([g EXCEPT !.rows = RemoveAt(@, g.bottom + 1)], g.top, Fresh)

LineFeed(g) ==
    CASE g.cursor.row = g.bottom ->
            MoveTo(ScrollUpOnce(g, Fresh), g.cursor.row, g.cursor.col)
      [] g.cursor.row # g.bottom /\ g.cursor.row + 1 < Len(g.rows) ->
            MoveTo(g, g.cursor.row + 1, g.cursor.col)
      [] OTHER -> g

ReverseIndex(g) ==
    CASE g.cursor.row = g.top -> MoveTo(ScrollDownOnce(g), g.cursor.row, g.cursor.col)
      [] g.cursor.row # g.top /\ g.cursor.row > 0 ->
            MoveTo(g, g.cursor.row - 1, g.cursor.col)
      [] OTHER -> g

\* `n` rounds of `Op`, for the commands that loop.
Repeat(Op(_), g, n) == LET round[k \in 0..n] == IF k = 0 THEN g ELSE Op(round[k - 1]) IN round[n]

CursorInRegion(g) == g.top <= g.cursor.row /\ g.cursor.row <= g.bottom

\* IL and DL: each round takes out the row `from` and opens a blank one at `to`.
\* Only the first can have no place for it, and then the command ends there.
EditLines(g, n, from, to) ==
    LET once(h) == InsertBlankRow(RemoveRow(h, from), to, Fresh)
        panics  == n > 0 /\ to > Len(RemoveRow(g, from).rows)
    IN  CASE ~CursorInRegion(g) -> g
          [] CursorInRegion(g) /\ panics -> once(g)
          [] OTHER -> CarriageReturn(Repeat(once, g, Less(n, g.bottom - g.cursor.row + 1)))

InsertLines(g, n) == EditLines(g, n, g.bottom, g.cursor.row)
DeleteLines(g, n) == EditLines(g, n, g.cursor.row, g.bottom)

-----------------------------------------------------------------------------
(* Writing. *)

\* Mutant: the next row keeps its own id.
AutoWrap_NextKeepsId(g) ==
    LET row == g.cursor.row
        h   == [g EXCEPT !.rows[row + 1].wrapped = TRUE]
    IN  IF row = g.bottom THEN MoveTo(ScrollUpOnce(h, g.rows[row + 1].id), row, 0)
        ELSE MoveTo(h, row + 1, 0)

AutoWrap(g) ==
    LET row == g.cursor.row
        id  == g.rows[row + 1].id
        h   == [g EXCEPT !.rows[row + 1].wrapped = TRUE]
    IN  CASE row >= Len(g.rows) -> g
          [] row < Len(g.rows) /\ row = g.bottom -> MoveTo(ScrollUpOnce(h, id), row, 0)
          [] row # g.bottom /\ row + 1 < Len(g.rows) ->
                MoveTo([h EXCEPT !.rows[row + 2].id = id, !.rows[row + 2].wrapped = FALSE], row + 1, 0)
          [] OTHER -> h

Put(g, content) ==
    LET row == g.cursor.row + 1
        col == g.cursor.col + 1
    IN  [g EXCEPT !.rows[row].cells = [c \in DOMAIN @ |->
            CASE c = col -> Cell(content, pen)
              [] c = col + 1 /\ Width(content) = 2 -> Spacer(pen)
              [] OTHER -> @[c]]]

AttachCombining(g) ==
    LET target == IF g.cursor.wrap THEN g.cursor.col ELSE g.cursor.col - 1
    IN  IF target < 0 THEN g
        ELSE [g EXCEPT !.rows[g.cursor.row + 1].cells[target + 1].c = WithMark(@)]

\* Where the cursor comes to rest after a grapheme `w` wide.
Advance(g, w) ==
    LET row == g.cursor.row
        col == g.cursor.col + w
    IN  IF col < g.size.cols THEN MoveTo(g, row, col)
        ELSE [g EXCEPT !.cursor = [row |-> row, col |-> g.size.cols - 1, wrap |-> autowrap]]

PrintOne(g, content) ==
    LET w       == Width(content)
        no_room == g.cursor.wrap \/ g.cursor.col + w > g.size.cols
    IN  CASE Empty(g.size) -> g
          [] ~Empty(g.size) /\ w = 0 -> AttachCombining(g)
          [] ~Empty(g.size) /\ w > 0 /\ ~no_room -> Advance(Put(g, content), w)
          [] ~Empty(g.size) /\ w > 0 /\ no_room /\ autowrap ->
                LET h == AutoWrap(g) IN Advance(Put(h, content), w)
          [] ~Empty(g.size) /\ w > 0 /\ no_room /\ ~autowrap /\ w <= g.size.cols ->
                LET h == MoveTo(g, g.cursor.row, g.size.cols - w) IN Advance(Put(h, content), w)
          [] OTHER -> g

\* What an erase writes.
EraseCell == Cell(" ", EraseStyle(pen))

\* The cells `from` up to `upto`, not included, of a row become `cell`.
FillRow(g, row, from, upto, cell) ==
    IF row >= Len(g.rows) THEN g
    ELSE [g EXCEPT !.rows[row + 1].cells = [c \in DOMAIN @ |->
            IF from < c /\ c <= upto THEN cell ELSE @[c]]]

Filled(row, cell) == [row EXCEPT !.cells = [c \in DOMAIN @ |-> cell]]

FillRows(g, from, upto, cell) ==
    [g EXCEPT !.rows = [r \in DOMAIN @ |->
        IF from < r /\ r <= upto THEN Filled(@[r], cell) ELSE @[r]]]

EraseInLine(g, mode, cell) ==
    CASE mode = "ToEnd"   -> FillRow(g, g.cursor.row, g.cursor.col, g.size.cols, cell)
      [] mode = "ToStart" -> FillRow(g, g.cursor.row, 0, g.cursor.col + 1, cell)
      [] mode = "All"     -> FillRow(g, g.cursor.row, 0, g.size.cols, cell)

EraseInDisplay(g, mode, cell) ==
    CASE mode = "ToEnd"   -> FillRows(EraseInLine(g, mode, cell), g.cursor.row + 1, Len(g.rows), cell)
      [] mode = "ToStart" -> FillRows(EraseInLine(g, mode, cell), 0, g.cursor.row, cell)
      [] mode = "All"     -> FillRows(g, 0, Len(g.rows), cell)

\* ICH and DCH: the cells behind the cursor move `by` columns, blanks fill in.
ShiftCells(g, by) ==
    LET n == IF by < 0 THEN -by ELSE by
        moved(cells, c) ==
            CASE c <= g.cursor.col -> cells[c]
              [] c > g.cursor.col /\ by >= 0 /\ c > g.cursor.col + n -> cells[c - n]
              [] c > g.cursor.col /\ by < 0 /\ c + n <= Len(cells)   -> cells[c + n]
              [] OTHER -> EraseCell
    IN  IF g.cursor.row >= Len(g.rows) THEN g
        ELSE [g EXCEPT !.rows[g.cursor.row + 1].cells = [c \in DOMAIN @ |-> moved(@, c)]]

-----------------------------------------------------------------------------
(* Reflow. *)

\* A row joins the line above it when it has its id, else it starts a line.
Regroup(lines, row) ==
    LET n == Len(lines) IN
    IF n > 0 /\ lines[n].id = row.id
    THEN [lines EXCEPT ![n].text = PushCells(@, row.cells, ~row.wrapped)]
    ELSE Append(lines, [id |-> row.id, text |-> PushCells(<<>>, row.cells, ~row.wrapped)])

\* The frozen head, when the first row continues it.
HeadToRejoin(g) == IF g.rows # <<>> /\ g.pending.id = g.rows[1].id THEN <<g.pending>> ELSE <<>>

\* The rows regrouped into logical lines, the frozen head folded back in.
ActiveLines(g) == FoldLeft(Regroup, HeadToRejoin(g), g.rows)

\* Mutant: the frozen head is not counted.
HeadBytes_None(g, id) == 0
HeadBytes(g, id) == IF g.pending.id = id THEN ByteLen(g.pending.text) ELSE 0

\* The bytes of the rows of line `id` that end a list of rows: a row of another
\* line starts the count again.
BytesAtEnd(rows, id) ==
    FoldLeft(LAMBDA n, row : IF row.id = id THEN n + ByteLen(row.cells) ELSE 0, 0, rows)

\* The cursor as a line and a byte offset into it.
CursorAnchor(g) ==
    LET here == g.rows[g.cursor.row + 1]
    IN  IF g.cursor.row >= Len(g.rows) THEN [id |-> 0, off |-> 0]
        ELSE [id  |-> here.id,
              off |-> HeadBytes(g, here.id) + BytesAtEnd(SubSeq(g.rows, 1, g.cursor.row), here.id)
                      + ContentBytes(here.cells, g.cursor.col)]

\* The offset the anchor stands for in one line's text.
OffsetIn(anchor, text) == Less(anchor.off, ByteLen(text))

\* The first `k` graphemes take `off` bytes, but for a mark on the last one: it
\* is a character of its own, of two bytes, and a slice may end before it.
EndsAt(text, k, off) ==
    LET bytes == ByteLen(SubSeq(text, 1, k))
    IN  bytes = off \/ (k > 0 /\ text[k].c \in {" +", "a+", "W+"} /\ bytes = off + 2)

\* The anchor falls between two characters of every line that has its id: the
\* slice that measures the cursor's column panics when it does not.
AnchorAligned(g) ==
    LET anchor == CursorAnchor(g) IN
    \A line \in ToSet(ActiveLines(g)) : line.id = anchor.id =>
        \E k \in 0 .. Len(line.text) : EndsAt(line.text, k, OffsetIn(anchor, line.text))

\* The display row within its line, and the column, of the anchored place.
AnchorSpot(anchor, text, cols) ==
    LET off    == OffsetIn(anchor, text)
        starts == ContinuationStarts(text, cols)
        sub    == Cardinality({k \in DOMAIN starts : ByteLen(SubSeq(text, 1, starts[k] - 1)) <= off})
        upto   == CHOOSE k \in 0 .. Len(text) : EndsAt(text, k, off)
        width  == DisplayWidth(SubSeq(text, IF sub = 0 THEN 1 ELSE starts[sub], upto))
    IN  [row |-> sub, col |-> Less(width, cols - 1), wrap |-> width >= cols]

ReflowedRows(line, cols) ==
    LET rows == RenderRows(line.text, cols)
    IN  [k \in DOMAIN rows |-> [id |-> line.id, wrapped |-> k < Len(rows), cells |-> rows[k]]]

\* Blank rows below until there are as many as the size says.
Padded(g) ==
    LET short == g.size.rows - Len(g.rows)
    IN  [g EXCEPT !.rows = @ \o BlankRows([g.size EXCEPT !.rows = short], g.next), !.next = @ + short]

\* The new size, the lines taken off the screen.  A panic in the reflow leaves
\* this behind with the old rows, once the boundary has caught it.
LinesTaken(g, size) == [g EXCEPT !.size = size, !.pending = NoLine]

\* resize_to_empty: every line is history, the screen shows nothing.
ResizedToEmpty(g, size) ==
    ResetScrollRegion(Padded(
        [LinesTaken(g, size) EXCEPT !.rows = <<>>, !.cursor = At(0, 0),
                !.scrollback = FoldLeft(Pushed, @, ActiveLines(g))]))

Reflowed(g, size) ==
    LET lines    == ActiveLines(g)
        anchor   == CursorAnchor(g)
        parts    == [i \in DOMAIN lines |-> ReflowedRows(lines[i], size.cols)]
        flat     == FlattenSeq(parts)
        overflow == Minus(Len(flat), size.rows)
        frozen   == FoldLeft(FreezeRow, LinesTaken(g, size), SubSeq(flat, 1, overflow))
        line     == SelectLastInSeq(lines, LAMBDA l : l.id = anchor.id)
        spot     == IF line = 0 THEN At(0, 0) ELSE AnchorSpot(anchor, lines[line].text, size.cols)
        row      == IF line = 0 THEN 0 ELSE Len(FlattenSeq(SubSeq(parts, 1, line - 1))) + spot.row
    IN  ResetScrollRegion(Padded(
            [frozen EXCEPT !.rows = SubSeq(flat, overflow + 1, Len(flat)),
                           !.cursor = [spot EXCEPT !.row = Less(Minus(row, overflow), size.rows - 1)]]))

PrimaryResized(g, size) ==
    CASE Empty(size) -> ResizedToEmpty(g, size)
      [] ~Empty(size) /\ AnchorAligned(g) -> Reflowed(g, size)
      [] OTHER -> LinesTaken(g, size)

\* A row's cells cut or padded to the width, Row::resize_width.
CutRow(row, cols) == [row EXCEPT !.cells = [c \in 1 .. cols |-> IF c <= Len(@) THEN @[c] ELSE Blank]]

\* clip_rows_to_size: the alternate screen is cut and padded, never reflowed.
Cut(g) ==
    [g EXCEPT !.rows = [r \in 1 .. Less(g.size.rows, Len(@)) |-> CutRow(@[r], g.size.cols)]]
\* Mutant: the cursor is not brought back in.
Clipped_CursorLeft(g) == ResetScrollRegion(Padded(Cut(g)))
Clipped(g) == CursorTo(ResetScrollRegion(Padded(Cut(g))), g.cursor.row, g.cursor.col)

\* What swap_buffer exchanges.
Buffer(g) == [rows |-> g.rows, cursor |-> g.cursor, top |-> g.top, bottom |-> g.bottom,
              pending |-> g.pending]
Show(g, b) == [g EXCEPT !.rows = b.rows, !.cursor = b.cursor, !.top = b.top,
                        !.bottom = b.bottom, !.pending = b.pending]

-----------------------------------------------------------------------------
(* The commands. *)

Init ==
    /\ program \in Programs
    /\ \E size \in program.sizes :
        /\ grid = [size |-> size, rows |-> BlankRows(size, 0), cursor |-> At(0, 0),
                   top |-> 0, bottom |-> Minus(size.rows, 1), pending |-> NoLine,
                   scrollback |-> EmptyStore, next |-> size.rows]
        /\ stash = <<>> /\ saved = <<>>
        /\ pen = "plain" /\ autowrap = TRUE /\ printed = 0

Sent(command) == command \in program.commands /\ grid.next <= program.ids

\* A command that changes the grid and nothing else.
Edit(command, g) ==
    Sent(command) /\ grid' = g /\ UNCHANGED <<stash, saved, pen, autowrap, printed, program>>

PrintText ==
    \E content \in program.prints :
        /\ Sent("Print") /\ printed < program.graphemes
        /\ grid' = PrintOne(grid, content) /\ printed' = printed + 1
        /\ UNCHANGED <<stash, saved, pen, autowrap, program>>

CarriageReturns == Edit("CR", CarriageReturn(grid))
LineFeeds == Edit("LF", LineFeed(grid))
NextLine == Edit("NEL", CarriageReturn(LineFeed(grid)))
ReverseIndexes == Edit("RI", ReverseIndex(grid))

CursorUp == \E n \in program.counts : Edit("CUU", CursorTo(grid, Minus(grid.cursor.row, n), grid.cursor.col))
CursorDown == \E n \in program.counts : Edit("CUD", CursorTo(grid, grid.cursor.row + n, grid.cursor.col))
CursorForward == \E n \in program.counts : Edit("CUF", CursorTo(grid, grid.cursor.row, grid.cursor.col + n))
CursorBack == \E n \in program.counts : Edit("CUB", CursorTo(grid, grid.cursor.row, Minus(grid.cursor.col, n)))
Tab == Edit("HT", CursorTo(grid, grid.cursor.row, (grid.cursor.col \div 8 + 1) * 8))
CursorPosition ==
    \E row \in 0 .. grid.size.rows, col \in 0 .. grid.size.cols : Edit("CUP", CursorTo(grid, row, col))

\* The last row stands for `None` too; an empty or reversed region is ignored.
SetScrollRegion ==
    \E top, bottom \in 0 .. grid.size.rows :
        LET last == Less(bottom, Minus(grid.size.rows, 1)) IN
        /\ top < last
        /\ Edit("DECSTBM", MoveTo([grid EXCEPT !.top = top, !.bottom = last], 0, 0))

ScrollUp == \E n \in program.counts : Edit("SU", Repeat(LAMBDA g : ScrollUpOnce(g, Fresh), grid, n))
ScrollDown == \E n \in program.counts : Edit("SD", Repeat(ScrollDownOnce, grid, n))
InsertsLines == \E n \in program.counts : Edit("IL", InsertLines(grid, n))
DeletesLines == \E n \in program.counts : Edit("DL", DeleteLines(grid, n))
InsertChars == \E n \in program.counts : Edit("ICH", ShiftCells(grid, n))
DeleteChars == \E n \in program.counts : Edit("DCH", ShiftCells(grid, -n))
EraseChars ==
    \E n \in program.counts :
        Edit("ECH", FillRow(grid, grid.cursor.row, grid.cursor.col, grid.cursor.col + n, EraseCell))

EraseModes == {"ToEnd", "ToStart", "All"}
ErasesInLine == \E mode \in EraseModes : Edit("EL", EraseInLine(grid, mode, EraseCell))
ErasesInDisplay == \E mode \in EraseModes : Edit("ED", EraseInDisplay(grid, mode, EraseCell))

SelectPen ==
    \E style \in program.pens :
        Sent("SGR") /\ pen' = style /\ UNCHANGED <<grid, stash, saved, autowrap, printed, program>>

SetAutowrap ==
    \E on \in BOOLEAN :
        Sent("DECAWM") /\ autowrap' = on /\ UNCHANGED <<grid, stash, saved, pen, printed, program>>

SaveCursor ==
    /\ Sent("DECSC")
    /\ saved' = <<[row |-> grid.cursor.row, col |-> grid.cursor.col,
                   wrap |-> grid.cursor.wrap, pen |-> pen]>>
    /\ UNCHANGED <<grid, stash, pen, autowrap, printed, program>>

RestoreCursor ==
    LET s == IF saved = <<>> THEN [row |-> 0, col |-> 0, wrap |-> FALSE, pen |-> "plain"] ELSE saved[1]
        g == CursorTo(grid, s.row, s.col)
    IN  /\ Sent("DECRC")
        /\ pen' = s.pen /\ grid' = IF s.wrap THEN ArmWrap(g) ELSE g
        /\ UNCHANGED <<stash, saved, autowrap, printed, program>>

EnterAlternate ==
    /\ Sent("Alternate") /\ ~IsAlternate
    /\ stash' = <<Buffer(grid)>>
    /\ grid' = [ResetScrollRegion(grid) EXCEPT
                    !.rows = BlankRows(grid.size, grid.next), !.next = @ + grid.size.rows,
                    !.cursor = At(0, 0), !.pending = NoLine]
    /\ UNCHANGED <<saved, pen, autowrap, printed, program>>

ExitAlternate ==
    /\ Sent("Alternate") /\ IsAlternate
    /\ grid' = Show(grid, stash[1]) /\ stash' = <<>>
    /\ UNCHANGED <<saved, pen, autowrap, printed, program>>

Reset ==
    /\ Sent("RIS")
    /\ LET primary == IF IsAlternate THEN Show(grid, stash[1]) ELSE grid
       IN  grid' = EraseInDisplay(MoveTo(ResetScrollRegion(primary), 0, 0), "All", Blank)
    /\ stash' = <<>> /\ saved' = <<>> /\ pen' = "plain" /\ autowrap' = TRUE
    /\ UNCHANGED <<printed, program>>

Resize ==
    \E size \in program.sizes \ {grid.size} :
        /\ Sent("Resize") /\ ~IsAlternate
        /\ grid' = PrimaryResized(grid, size)
        /\ UNCHANGED <<stash, saved, pen, autowrap, printed, program>>

\* Mutant: the primary is clipped too.
ResizeAlternate_ClipsBoth ==
    \E size \in program.sizes \ {grid.size} :
        LET clipped(g) == Clipped([g EXCEPT !.size = size])
        IN  /\ Sent("Resize") /\ IsAlternate
            /\ grid' = clipped(grid) /\ stash' = <<Buffer(clipped(Show(grid, stash[1])))>>
            /\ UNCHANGED <<saved, pen, autowrap, printed, program>>

\* The primary beneath reflows; if that panics the alternate screen is gone.
ResizeAlternate ==
    \E size \in program.sizes \ {grid.size} :
        LET beneath == Show(grid, stash[1])
            panics  == ~Empty(size) /\ ~AnchorAligned(beneath)
        IN  /\ Sent("Resize") /\ IsAlternate
            /\ \E primary \in {PrimaryResized(beneath, size)} :
                /\ grid' = IF panics THEN primary ELSE Clipped(Show(primary, Buffer(grid)))
                /\ stash' = IF panics THEN <<>> ELSE <<Buffer(primary)>>
            /\ UNCHANGED <<saved, pen, autowrap, printed, program>>

Next ==
    \/ PrintText \/ CarriageReturns \/ LineFeeds \/ NextLine \/ ReverseIndexes
    \/ CursorUp \/ CursorDown \/ CursorForward \/ CursorBack \/ Tab \/ CursorPosition
    \/ SetScrollRegion \/ ScrollUp \/ ScrollDown
    \/ InsertsLines \/ DeletesLines \/ InsertChars \/ DeleteChars \/ EraseChars
    \/ ErasesInLine \/ ErasesInDisplay \/ SelectPen \/ SetAutowrap
    \/ SaveCursor \/ RestoreCursor \/ EnterAlternate \/ ExitAlternate \/ Reset
    \/ Resize \/ ResizeAlternate

Spec == Init /\ [][Next]_vars

-----------------------------------------------------------------------------
(* Lines in order.  A row that comes in below the others has the newest id *)
(* or goes on with the last line, so the primary screen's rows stay in the *)
(* order of their lines, until a row opens among them or one goes.         *)

\* RI at the top margin, SD, IL and DL open rows inside the screen.
OpensRows ==
    (ReverseIndexes /\ grid.cursor.row = grid.top) \/ ScrollDown \/ InsertsLines \/ DeletesLines

\* A grapheme that has no room in its row goes on to the next one.
Wraps ==
    /\ PrintText /\ autowrap
    /\ \E content \in program.prints :
         /\ Width(content) > 0
         /\ grid.cursor.wrap \/ grid.cursor.col + Width(content) > grid.size.cols
         /\ grid' = PrintOne(grid, content)

\* With margins, rows above or below them stay where they are.
ScrollsWithin ==
    /\ ~RegionIsWholeScreen(grid)
    /\ \/ ScrollUp
       \/ (LineFeeds \/ NextLine) /\ grid.cursor.row = grid.bottom
       \/ Wraps /\ (grid.cursor.row = grid.bottom \/ grid.cursor.row + 1 = Len(grid.rows))

\* A line written over from above wraps into its own second row, with a third
\* one below: auto_wrap clears the mark of a row that still goes on.
WrapsOver ==
    LET goes_on(r) == r \in DOMAIN grid.rows /\ grid.rows[r].wrapped
    IN  goes_on(grid.cursor.row + 1) /\ goes_on(grid.cursor.row + 2) /\ Wraps

Disorders == ~IsAlternate /\ (OpensRows \/ ScrollsWithin \/ WrapsOver)

\* The programs that write forward on the primary screen; on the alternate one
\* they do as they like.
OrderedSpec == Init /\ [][Next /\ ~Disorders]_vars
-----------------------------------------------------------------------------
(* What has to hold. *)

Rows == Seq([id : Nat, wrapped : BOOLEAN, cells : Seq([c : Contents, s : Styles])])
Cursors == [row : Nat, col : Nat, wrap : BOOLEAN]
Lines == [id : Nat, text : Seq([c : Contents, s : Styles])]

Rectangle(rows, size) ==
    Len(rows) = size.rows /\ \A r \in DOMAIN rows : Len(rows[r].cells) = size.cols
Within(cursor, size) ==
    cursor.row <= Minus(size.rows, 1) /\ cursor.col <= Minus(size.cols, 1)
Margins(top, bottom, size) == top <= bottom /\ bottom <= Minus(size.rows, 1)

\* Every part of the screen has its type; and both buffers are rectangles of the
\* current size, with cursor and margins inside: the row edits of the code take
\* one row out and put one in, and the copy-out trusts the shape.  Two things take
\* the shape away, and no program that is checked does them: IL or DL on a screen
\* of no rows, which opens one, and a reflow that panics (see AnchorAligned).
ScreenTypeOK ==
    /\ program \in Programs /\ grid.size \in program.sizes
    /\ {grid.top, grid.bottom, grid.next, printed} \subseteq Nat
    /\ grid.pending \in Lines \cup {NoLine}
    /\ grid.scrollback.lines \in Seq(Lines)
    /\ pen \in Styles /\ autowrap \in BOOLEAN
    /\ \A b \in {Buffer(grid)} \cup ToSet(stash) :
        /\ b.rows \in Rows /\ b.cursor \in Cursors
        /\ Rectangle(b.rows, grid.size)
        /\ Within(b.cursor, grid.size)
        /\ Margins(b.top, b.bottom, grid.size)

Ids(rows) == {rows[r].id : r \in DOMAIN rows}

\* An id once handed out is never handed out again: `next` is above every id in
\* either buffer, the frozen head and the history (alloc_line_id).
IdsNeverReused ==
    /\ \A b \in {Buffer(grid)} \cup ToSet(stash) :
         \A id \in Ids(b.rows) \cup {b.pending.id} : id < grid.next
    /\ \A line \in ToSet(grid.scrollback.lines) : line.id < grid.next

\* The primary screen, also while the alternate one covers it.
PrimaryGrid == IF IsAlternate THEN Show(grid, stash[1]) ELSE grid

\* The records of a soft wrap agree, though every command keeps them separately:
\* a row is marked as wrapped exactly when the row below it is of the same
\* logical line, and the frozen head waits exactly for the line whose next row
\* is the first one (screen.rs Row, freeze_row).
LinesContinue ==
    LET rows == PrimaryGrid.rows
        head == PrimaryGrid.pending
    IN  /\ \A r \in DOMAIN rows :
             rows[r].wrapped <=> r < Len(rows) /\ rows[r + 1].id = rows[r].id
        /\ head # NoLine => rows # <<>> /\ rows[1].id = head.id

\* Every line of the history is found by its id, whatever the binary search
\* looks at first, and it is the only one of that id; nothing is older than the
\* oldest, and the frozen head is newer than all (Scrollback::get, oldest_id).
HistoryFound ==
    LET lines == grid.scrollback.lines
        head  == PrimaryGrid.pending
    IN  \A i \in DOMAIN lines :
         /\ Gotten(lines, lines[i].id)
         /\ \A k \in DOMAIN lines : lines[k].id = lines[i].id => k = i
         /\ lines[i].id >= OldestId(lines)
         /\ head # NoLine => lines[i].id < head.id

\* Between two graphemes of every line that has the anchor's id, where the
\* offset is meant to be (logical_line.rs: "grapheme-aligned").
BetweenGraphemes(g) ==
    LET anchor == CursorAnchor(g) IN
    \A line \in ToSet(ActiveLines(g)) : line.id = anchor.id =>
        \E k \in 0 .. Len(line.text) : ByteLen(SubSeq(line.text, 1, k)) = OffsetIn(anchor, line.text)

\* The cursor's offset stays between graphemes in the text it is measured in,
\* and so the reflow of the primary screen does not panic.
AnchorOnGrapheme == BetweenGraphemes(PrimaryGrid)

\* What the user can scroll back to and see, in order, on the primary screen.
LinesInk(lines) == Ink(FlattenSeq([i \in DOMAIN lines |-> lines[i].text]))
RowsInk(rows) == Ink(FlattenSeq([r \in DOMAIN rows |-> rows[r].cells]))
PrimaryInk ==
    LinesInk(grid.scrollback.lines) \o Ink(PrimaryGrid.pending.text) \o RowsInk(PrimaryGrid.rows)

\* The line at the top of the screen has gone through the history and left it.
TopDropped ==
    LET rows == PrimaryGrid.rows
    IN  rows # <<>> /\ rows[1].id < OldestId(grid'.scrollback.lines)

\* The text only loses at its old end, and nothing as long as the store, if there
\* is one, drops no line.
TextSlides ==
    LET before == PrimaryInk
        after  == PrimaryInk'
        nothing_dropped ==
            /\ MaxLines > 0 /\ ~TopDropped
            /\ IsPrefix(grid.scrollback.lines, grid'.scrollback.lines)
    IN  after = before \/ (IsSuffix(after, before) /\ ~nothing_dropped)

\* The frozen head, if there is one, is of the line that the first row is of.
HeadGoesOn == PrimaryGrid.pending # NoLine => HeadToRejoin(PrimaryGrid) # <<>>

\* A resize loses and reorders no visible text of the primary screen, also while
\* the alternate screen covers it, but what the caps take at the old end; as
\* long as it does not panic and no row was opened between a frozen head and
\* the row that goes on with it.  Of programs that write forward (OrderedSpec).
ResizeKeepsText ==
    [][grid'.size # grid.size /\ HeadGoesOn /\ (Empty(grid'.size) \/ AnchorAligned(PrimaryGrid))
         => TextSlides]_vars

\* The same without exception, as `resize` is documented: "with the straddling
\* head folded back in" (screen.rs:625).  Of programs that open rows it is false.
HeadFoldedBackIn == [][grid'.size # grid.size => TextSlides]_vars

\* Moving down, with or without a scroll, loses no text on the primary screen
\* as long as the region is the whole screen, but what the caps take at the
\* old end.
ScrollKeepsText ==
    [][~IsAlternate /\ RegionIsWholeScreen(grid) /\ (LineFeeds \/ NextLine \/ ScrollUp)
         => TextSlides]_vars

\* Frozen history only slides: lines leave at the old end and new ones enter at
\* the other, and those that stay keep their text and their order.  The store
\* keeps both of its caps, its byte count, kept by difference, is the bytes really
\* kept, and no more is dropped than the caps ask for: the line dropped last would
\* not fit back in, or made room for lines of the screen that are gone as well,
\* when one step freezes several (Scrollback::push, evict).
HistorySlides ==
    [][LET old == grid.scrollback.lines
           new == grid'.scrollback
       IN  /\ Capped(new) /\ BytesCounted(new)
           /\ \E n \in 0 .. Len(old) :
                /\ IsPrefix(SubSeq(old, n + 1, Len(old)), new.lines)
                /\ \A i \in Len(old) - n + 1 .. Len(new.lines), k \in 1 .. Len(old) :
                     new.lines[i].id > old[k].id
                /\ n > 0 =>
                     \/ Len(new.lines) = MaxLines
                     \/ new.total_bytes + ByteLen(old[n].text) > MaxBytes
                     \/ TopDropped]_vars

Primary(g, hidden) == IF hidden = <<>> THEN Buffer(g) ELSE hidden[1]

\* Whatever a program does on the alternate screen, entering and leaving
\* included, the primary buffer and the history come back as they were; only a
\* resize and a full reset touch them.
PrimaryUntouched ==
    [][(IsAlternate \/ IsAlternate') /\ grid'.size = grid.size /\ ~Reset
         => /\ Primary(grid', stash') = Primary(grid, stash)
            /\ grid'.scrollback = grid.scrollback]_vars
=============================================================================
