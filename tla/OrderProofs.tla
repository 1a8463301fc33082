----------------------------- MODULE OrderProofs -----------------------------
(***************************************************************************)
(* In what order lines stand on the screen and in its history, and how the *)
(* history slides, for output that edits no rows, whatever the window does. *)
(***************************************************************************)
EXTENDS ScreenProofs

-----------------------------------------------------------------------------
(* Edits that keep the lines in order. *)

\* The screens `g` and `h` have the same lines in the same rows.
SameLines(g, h) ==
    /\ Len(h.rows) = Len(g.rows)
    /\ \A r \in 1 .. Len(g.rows) : h.rows[r].id = g.rows[r].id /\ h.rows[r].wrapped = g.rows[r].wrapped
    /\ h.pending = g.pending /\ h.scrollback = g.scrollback

\* The history has slid from `since` on, with lines from the id `f` on, of which
\* are all the rows.
SlidOn(since, f, g) ==
    Slid(since, g.scrollback, f) /\ \A r \in 1 .. Len(g.rows) : f <= g.rows[r].id
Slides(g, h) == \A since \in Stores, f \in Nat : SlidOn(since, f, g) => SlidOn(since, f, h)

\* What an edit leaves that keeps the order.
Orderly(g) == {h \in After(g) : InOrder(g) => InOrder(h) /\ Slides(g, h)}

\* The history does not slide when it stays and the rows are of lines that were
\* there.
LEMMA StoreStays ==
    ASSUME NEW g, NEW h, h.scrollback = g.scrollback,
           \A r \in 1 .. Len(h.rows) : \E q \in 1 .. Len(g.rows) : h.rows[r].id = g.rows[q].id
    PROVE  Slides(g, h)
<1>1. ASSUME NEW since \in Stores, NEW f \in Nat, SlidOn(since, f, g) PROVE SlidOn(since, f, h)
  <2>1. ASSUME NEW r \in 1 .. Len(h.rows) PROVE f <= h.rows[r].id
    BY <1>1, Zenon DEF SlidOn
  <2>. QED
    BY <1>1, <2>1, Zenon DEF SlidOn
<1>. QED
  BY <1>1, Zenon DEF Slides

\* The order is one of lines.
LEMMA SameLinesInOrder ==
    ASSUME NEW g \in Grids, NEW h, SameLines(g, h), InOrder(g)
    PROVE  InOrder(h)
<1>1. PICK n \in Nat : g \in GridsAt(n)
  BY DEF Grids
<1>2. /\ g.rows \in RowsBelow(n) /\ RowsInOrder(g.rows) /\ 0 \in 0 .. Len(g.rows)
      /\ Len(h.rows) = Len(g.rows) - 0
      /\ \A r \in 1 .. Len(h.rows) : h.rows[r].id = g.rows[0 + r].id /\ h.rows[r].wrapped = g.rows[0 + r].wrapped
  <2>1. g.rows \in RowsBelow(n) /\ Len(g.rows) \in Nat
    BY <1>1, GridParts, RowIds
  <2>. QED
    BY <2>1 DEF SameLines, InOrder
<1>3. RowsInOrder(h.rows)
      /\ \A lines, head : FrozenUpTo(lines, head, g.rows, 0) => FrozenUpTo(lines, head, h.rows, 0)
  BY <1>2, RowsLeft, Zenon
<1>. QED
  BY <1>3, Zenon DEF InOrder, SameLines

\* An edit that keeps the lines keeps their order.
LEMMA SameLinesOrderly ==
    ASSUME NEW g \in Grids, NEW h \in After(g), SameLines(g, h)
    PROVE  h \in Orderly(g)
<1>1. Slides(g, h)
  <2>1. h.scrollback = g.scrollback
        /\ \A r \in 1 .. Len(h.rows) : \E q \in 1 .. Len(g.rows) : h.rows[r].id = g.rows[q].id
    BY Zenon DEF SameLines
  <2>. QED
    BY <2>1, StoreStays, Zenon
<1>. QED
  BY <1>1, SameLinesInOrder DEF Orderly

\* No edit, and one edit after another.
LEMMA OrderlyCompose ==
    ASSUME NEW g \in Grids
    PROVE  /\ g \in Orderly(g)
           /\ \A h \in Orderly(g) : h \in Grids /\ h \in After(g) /\ h.size = g.size
                                    /\ \A k \in Orderly(h) : k \in Orderly(g)
<1>1. g \in Orderly(g)
  BY NoEdit DEF Orderly, Slides
<1>2. ASSUME NEW h \in Orderly(g)
      PROVE  h \in Grids /\ h \in After(g) /\ h.size = g.size /\ \A k \in Orderly(h) : k \in Orderly(g)
  <2>1. h \in After(g) /\ (InOrder(g) => InOrder(h) /\ Slides(g, h))
    BY DEF Orderly
  <2>2. h \in Grids /\ h.size = g.size
    BY <2>1, AfterGrids
  <2>3. ASSUME NEW k \in Orderly(h) PROVE k \in Orderly(g)
    <3>1. k \in After(h) /\ (InOrder(h) => InOrder(k) /\ Slides(h, k))
      BY DEF Orderly
    <3>2. k \in After(g)
      BY <2>1, <3>1, EditsCompose
    <3>3. Slides(g, h) /\ Slides(h, k) => Slides(g, k)
      BY Zenon DEF Slides
    <3>. QED
      BY <2>1, <3>1, <3>2, <3>3 DEF Orderly
  <2>. QED
    BY <2>1, <2>2, <2>3
<1>. QED
  BY <1>1, <1>2

\* Another cursor, or other margins, and the same lines.
LEMMA CursorKeepsLines ==
    ASSUME NEW g \in Grids
    PROVE  /\ \A c : SameLines(g, [g EXCEPT !.cursor = c])
           /\ \A top, bottom : SameLines(g, [g EXCEPT !.top = top, !.bottom = bottom])
<1>1. PICK n \in Nat : g \in GridsAt(n)
  BY DEF Grids
<1>2. ASSUME NEW c PROVE SameLines(g, [g EXCEPT !.cursor = c])
  <2>1. [g EXCEPT !.cursor = c].rows = g.rows /\ [g EXCEPT !.cursor = c].pending = g.pending
        /\ [g EXCEPT !.cursor = c].scrollback = g.scrollback
    BY <1>1 DEF GridsAt
  <2>. QED
    BY <2>1, Zenon DEF SameLines
<1>3. ASSUME NEW top, NEW bottom PROVE SameLines(g, [g EXCEPT !.top = top, !.bottom = bottom])
  <2>. DEFINE h == [g EXCEPT !.top = top, !.bottom = bottom]
  <2>1. h.rows = g.rows /\ h.pending = g.pending /\ h.scrollback = g.scrollback
    BY <1>1 DEF GridsAt
  <2>. HIDE DEF h
  <2>2. SameLines(g, h)
    BY <2>1, Zenon DEF SameLines
  <2>. QED
    BY <2>2 DEF h
<1>. QED
  BY <1>2, <1>3, Zenon

\* Other cells in one row, and the same lines.
LEMMA CellsKeepLines ==
    ASSUME NEW g \in Grids, NEW at, NEW cells
    PROVE  SameLines(g, [g EXCEPT !.rows[at].cells = cells])
<1>1. PICK n \in Nat : g \in GridsAt(n)
  BY DEF Grids
<1>. DEFINE x == [g.rows[at] EXCEPT !.cells = cells]
            rows == [g.rows EXCEPT ![at] = x]
            h == [g EXCEPT !.rows = rows]
<1>2. /\ g.rows \in Seq(RowBelow(n)) /\ Len(g.rows) \in Nat /\ DOMAIN g.rows = 1 .. Len(g.rows)
      /\ \A r \in 1 .. Len(g.rows) : g.rows[r] \in RowBelow(n)
  BY <1>1, GridParts DEF RowsBelow
<1>3. at \in 1 .. Len(g.rows) => x.id = g.rows[at].id /\ x.wrapped = g.rows[at].wrapped
  <2>1. \A row \in RowBelow(n) : LET y == [row EXCEPT !.cells = cells]
                                 IN  y.id = row.id /\ y.wrapped = row.wrapped
    BY DEF RowBelow
  <2>. QED
    BY <1>2, <2>1, Zenon
<1>. HIDE DEF x
<1>4. Len(rows) = Len(g.rows) /\ \A r \in 1 .. Len(g.rows) : rows[r] = IF r = at THEN x ELSE g.rows[r]
  BY <1>2
<1>. HIDE DEF rows
<1>5. h.rows = rows /\ h.pending = g.pending /\ h.scrollback = g.scrollback
  BY <1>1 DEF GridsAt
<1>. HIDE DEF h
<1>6. SameLines(g, h)
  BY <1>3, <1>4, <1>5 DEF SameLines
<1>. QED
  BY <1>6 DEF h, rows, x

\* A cursor that moves keeps the lines in order.
LEMMA MoveToOrderly ==
    ASSUME NEW g \in Grids, NEW row \in Nat, NEW col \in Nat,
           Shaped(g) => Within(At(row, col), g.size)
    PROVE  MoveTo(g, row, col) \in Orderly(g)
<1>1. SameLines(g, MoveTo(g, row, col))
  BY CursorKeepsLines, Zenon DEF MoveTo
<1>. QED
  BY <1>1, MoveToAfter, SameLinesOrderly

\* The cursor, the deferred wrap and the margins have no part in the order.
LEMMA CursorOrderly ==
    ASSUME NEW g \in Grids
    PROVE  /\ CarriageReturn(g) \in Orderly(g) /\ ArmWrap(g) \in Orderly(g)
           /\ ResetScrollRegion(g) \in Orderly(g)
           /\ \A row, col \in Nat : CursorTo(g, row, col) \in Orderly(g)
<1>1. SameLines(g, CarriageReturn(g)) /\ SameLines(g, ArmWrap(g))
      /\ \A row, col \in Nat : SameLines(g, CursorTo(g, row, col))
  <2>1. ArmWrap(g) = [g EXCEPT !.cursor = [g.cursor EXCEPT !.wrap = TRUE]]
    BY DEF ArmWrap
  <2>. QED
    BY <2>1, CursorKeepsLines, Zenon DEF CarriageReturn, CursorTo, MoveTo
<1>2. SameLines(g, ResetScrollRegion(g))
  BY CursorKeepsLines, Zenon DEF ResetScrollRegion
<1>. QED
  BY <1>1, <1>2, CarriageReturnAfter, ArmWrapAfter, ResetScrollRegionAfter, CursorToAfter, SameLinesOrderly

\* Filling a row, shifting its cells, writing in it.
LEMMA WritingOrderly ==
    ASSUME NEW g \in Grids, pen \in Styles
    PROVE  /\ \A from, upto : \A row \in Nat, cell \in Cells : FillRow(g, row, from, upto, cell) \in Orderly(g)
           /\ \A by \in Int : ShiftCells(g, by) \in Orderly(g)
           /\ \A content \in Contents : Put(g, content) \in Orderly(g)
           /\ AttachCombining(g) \in Orderly(g)
<1>0. SameLines(g, g)
  BY DEF SameLines
<1>1. ASSUME NEW row \in Nat, NEW from, NEW upto, NEW cell \in Cells
      PROVE  FillRow(g, row, from, upto, cell) \in Orderly(g)
  <2>1. SameLines(g, FillRow(g, row, from, upto, cell))
    BY <1>0, CellsKeepLines, Zenon DEF FillRow
  <2>. QED
    BY <2>1, FillRowAfter, RowsOnlyAfter, SameLinesOrderly
<1>2. ASSUME NEW by \in Int PROVE ShiftCells(g, by) \in Orderly(g)
  <2>1. SameLines(g, ShiftCells(g, by))
    BY <1>0, CellsKeepLines, Zenon DEF ShiftCells
  <2>. QED
    BY <2>1, EraseCellType, ShiftCellsAfter, RowsOnlyAfter, SameLinesOrderly
<1>3. ASSUME NEW content \in Contents PROVE Put(g, content) \in Orderly(g)
  <2>1. SameLines(g, Put(g, content))
    BY CellsKeepLines DEF Put
  <2>. QED
    BY <2>1, PutAfter, RowsOnlyAfter, SameLinesOrderly
<1>4. SameLines(g, AttachCombining(g))
  <2>. DEFINE target == IF g.cursor.wrap THEN g.cursor.col ELSE g.cursor.col - 1
              at == g.cursor.row + 1
              old == g.rows[at].cells
              cells == [old EXCEPT ![target + 1] = [old[target + 1] EXCEPT !.c = WithMark(old[target + 1].c)]]
  <2>1. CASE target < 0
    BY <1>0, <2>1 DEF AttachCombining
  <2>2. CASE ~(target < 0)
    <3>1. AttachCombining(g) = [g EXCEPT !.rows[at].cells = cells]
      BY <2>2, Zenon DEF AttachCombining
    <3>. HIDE DEF cells, at
    <3>. QED
      BY <3>1, CellsKeepLines
  <2>. QED
    BY <2>1, <2>2
<1>. QED
  BY <1>1, <1>2, <1>3, <1>4, AttachCombiningAfter, RowsOnlyAfter, SameLinesOrderly

\* Erasing keeps the lines in order.
LEMMA ErasingOrderly ==
    ASSUME NEW g \in Grids, pen \in Styles, NEW mode \in EraseModes, NEW cell \in Cells
    PROVE  EraseInLine(g, mode, cell) \in Orderly(g) /\ EraseInDisplay(g, mode, cell) \in Orderly(g)
<1>0. /\ g.cursor.row \in Nat /\ g.cursor.col \in Nat
      /\ mode = "ToEnd" \/ (mode = "ToStart" /\ mode # "ToEnd") \/ (mode = "All" /\ mode # "ToStart" /\ mode # "ToEnd")
  BY GridParts DEF Grids, EraseModes
<1>1. EraseInLine(g, mode, cell) \in Orderly(g)
  <2>1. \A from, upto : FillRow(g, g.cursor.row, from, upto, cell) \in Orderly(g)
    BY <1>0, WritingOrderly
  <2>. QED
    BY <1>0, <2>1, Zenon DEF EraseInLine
<1>2. ASSUME NEW h \in Grids, NEW from, NEW upto PROVE FillRows(h, from, upto, cell) \in Orderly(h)
  <2>. DEFINE rows == [r \in DOMAIN h.rows |-> IF from < r /\ r <= upto THEN Filled(h.rows[r], cell) ELSE h.rows[r]]
              k == FillRows(h, from, upto, cell)
  <2>1. PICK n \in Nat : h \in GridsAt(n)
    BY DEF Grids
  <2>2. /\ Len(h.rows) \in Nat /\ DOMAIN h.rows = 1 .. Len(h.rows)
        /\ \A r \in 1 .. Len(h.rows) : h.rows[r] \in RowBelow(n)
    BY <2>1, GridParts, RowIds
  <2>3. \A row \in RowBelow(n) : Filled(row, cell).id = row.id /\ Filled(row, cell).wrapped = row.wrapped
    BY DEF RowBelow, Filled
  <2>4. Len(rows) = Len(h.rows)
        /\ \A r \in 1 .. Len(h.rows) : rows[r].id = h.rows[r].id /\ rows[r].wrapped = h.rows[r].wrapped
    BY <2>2, <2>3
  <2>5. k = [h EXCEPT !.rows = rows]
    BY DEF FillRows
  <2>. HIDE DEF rows, k
  <2>6. k.rows = rows /\ k.pending = h.pending /\ k.scrollback = h.scrollback
    BY <2>1, <2>5 DEF GridsAt
  <2>7. SameLines(h, k)
    BY <2>4, <2>6 DEF SameLines
  <2>8. k \in After(h)
    BY FillRowsAfter, RowsOnlyAfter DEF k
  <2>. QED
    BY <2>7, <2>8, SameLinesOrderly DEF k
<1>. DEFINE h == EraseInLine(g, mode, cell)
<1>3. h \in Orderly(g) /\ h \in Grids
  BY <1>1, OrderlyCompose
<1>. HIDE DEF h
<1>4. \A from, upto : FillRows(h, from, upto, cell) \in Orderly(g)
  BY <1>2, <1>3, OrderlyCompose
<1>5. \A from, upto : FillRows(g, from, upto, cell) \in Orderly(g)
  BY <1>2
<1>6. EraseInDisplay(g, mode, cell) \in Orderly(g)
  BY <1>0, <1>4, <1>5, Zenon DEF EraseInDisplay, h
<1>. QED
  BY <1>1, <1>6

-----------------------------------------------------------------------------
(* Scrolling the whole screen. *)

\* The rest moves up when the first is taken out.
LEMMA FirstTakenOut ==
    ASSUME NEW S, NEW seq \in Seq(S), Len(seq) >= 1
    PROVE  /\ Len(RemoveAt(seq, 1)) = Len(seq) - 1
           /\ \A r \in 1 .. Len(seq) - 1 : RemoveAt(seq, 1)[r] = seq[r + 1]
<1>. DEFINE left == SubSeq(seq, 1, 1 - 1)
            right == SubSeq(seq, 1 + 1, Len(seq))
<1>1. Len(seq) \in Nat
  OBVIOUS
<1>2. left \in Seq(S) /\ Len(left) = 0
  <2>1. 1 \in Int /\ 1 - 1 \in Int /\ \A i \in 1 .. 1 - 1 : seq[i] \in S
    OBVIOUS
  <2>2. left \in Seq(S) /\ Len(left) = IF 1 <= 1 - 1 THEN (1 - 1) - 1 + 1 ELSE 0
    BY <2>1, SubSeqProperties
  <2>. QED
    BY <2>2
<1>3. right \in Seq(S) /\ Len(right) = Len(seq) - 1 /\ \A r \in 1 .. Len(seq) - 1 : right[r] = seq[r + 1]
  <2>1. 1 + 1 \in Int /\ Len(seq) \in Int /\ \A i \in 1 + 1 .. Len(seq) : seq[i] \in S
    OBVIOUS
  <2>2. /\ right \in Seq(S) /\ Len(right) = IF 1 + 1 <= Len(seq) THEN Len(seq) - (1 + 1) + 1 ELSE 0
        /\ \A i \in 1 .. Len(seq) - (1 + 1) + 1 : right[i] = seq[(1 + 1) + i - 1]
    BY <2>1, SubSeqProperties
  <2>. HIDE DEF right
  <2>. DEFINE count == Len(seq)
  <2>5. count \in Nat /\ count >= 1 /\ Len(right) = IF 1 + 1 <= count THEN count - (1 + 1) + 1 ELSE 0
    BY <1>1, <2>2
  <2>. HIDE DEF count
  <2>6. Len(right) = count - 1 /\ count - (1 + 1) + 1 = count - 1
    BY ONLY <2>5
  <2>3. Len(right) = Len(seq) - 1 /\ Len(seq) - (1 + 1) + 1 = Len(seq) - 1
    BY ONLY <2>6 DEF count
  <2>4. \A i \in 1 .. Len(seq) - 1 : (1 + 1) + i - 1 = i + 1
    BY <1>1
  <2>. QED
    BY <2>2, <2>3, <2>4
<1>4. RemoveAt(seq, 1) = left \o right
  BY Zenon DEF RemoveAt
<1>. HIDE DEF left, right
<1>. QED
  BY <1>1, <1>2, <1>3, <1>4

\* Putting in at the end is appending.
LEMMA PutInLast ==
    ASSUME NEW S, NEW seq \in Seq(S), NEW x \in S
    PROVE  /\ Len(InsertAt(seq, Len(seq) + 1, x)) = Len(seq) + 1
           /\ InsertAt(seq, Len(seq) + 1, x)[Len(seq) + 1] = x
           /\ \A r \in 1 .. Len(seq) : InsertAt(seq, Len(seq) + 1, x)[r] = seq[r]
<1>. DEFINE left == SubSeq(seq, 1, (Len(seq) + 1) - 1)
            right == SubSeq(seq, Len(seq) + 1, Len(seq))
<1>1. Len(seq) \in Nat /\ (Len(seq) + 1) - 1 = Len(seq)
  OBVIOUS
<1>2. left = seq
  BY <1>1, SubSeqFull
<1>3. right \in Seq(S) /\ Len(right) = 0
  <2>1. Len(seq) + 1 \in Int /\ Len(seq) \in Int /\ \A i \in Len(seq) + 1 .. Len(seq) : seq[i] \in S
    OBVIOUS
  <2>2. right \in Seq(S) /\ Len(right) = IF Len(seq) + 1 <= Len(seq) THEN Len(seq) - (Len(seq) + 1) + 1 ELSE 0
    BY <2>1, SubSeqProperties
  <2>. QED
    BY <1>1, <2>2
<1>4. InsertAt(seq, Len(seq) + 1, x) = left \o <<x>> \o right
  BY Zenon DEF InsertAt
<1>. HIDE DEF left, right
<1>. DEFINE front == seq \o <<x>>
<1>5. front \in Seq(S) /\ Len(front) = Len(seq) + 1 /\ front[Len(seq) + 1] = x
      /\ \A r \in 1 .. Len(seq) : front[r] = seq[r]
  OBVIOUS
<1>. HIDE DEF front
<1>6. InsertAt(seq, Len(seq) + 1, x) = front \o right
  BY <1>2, <1>4 DEF front
<1>. QED
  BY <1>1, <1>3, <1>5, <1>6

\* The whole screen scrolls.  `all` is what it would be with one row more below;
\* when that is in order, so is the screen once the first row is frozen.
LEMMA ScrolledInOrder ==
    ASSUME NEW n \in Nat, NEW g \in GridsAt(n), ~IsAlternate, RegionIsWholeScreen(g),
           NEW line_id \in (0 .. n - 1) \cup {Fresh},
           NEW id, id = IF line_id = Fresh THEN n ELSE line_id,
           NEW m \in Nat, NEW all \in RowsBelow(m), Len(all) = Len(g.rows) + 1,
           \A r \in 1 .. Len(g.rows) : all[r] = g.rows[r],
           all[Len(g.rows) + 1].id = id, ~all[Len(g.rows) + 1].wrapped,
           RowsInOrder(all), FrozenUpTo(g.scrollback.lines, g.pending, all, 0)
    PROVE  InOrder(ScrollUpOnce(g, line_id)) /\ Slides(g, ScrollUpOnce(g, line_id))
<1>. DEFINE last == Len(g.rows)
            row == g.rows[g.top + 1]
            rows == RemoveAt(g.rows, g.top + 1)
            left == [g EXCEPT !.rows = rows]
            k == FreezeRow(left, row)
            h == InsertBlankRow(k, g.bottom, line_id)
<1>1. /\ g.next = n /\ g.bottom \in Nat /\ g.rows \in Seq(RowBelow(n)) /\ last \in Nat
      /\ \A r \in 1 .. last : g.rows[r] \in RowBelow(n) /\ g.rows[r].wrapped \in BOOLEAN
  BY GridParts, RowIds DEF RowsBelow
<1>2. /\ g.top = 0 /\ g.bottom = last - 1 /\ last >= 1 /\ ~NoRegion(g)
  <2>1. g.top = 0 /\ g.bottom + 1 = last
    BY DEF RegionIsWholeScreen
  <2>2. last \in Nat /\ g.bottom \in Nat
    BY <1>1
  <2>. HIDE DEF last
  <2>3. g.bottom = last - 1 /\ last >= 1 /\ ~(g.top > g.bottom) /\ ~(g.bottom >= last)
    BY ONLY <2>1, <2>2
  <2>. QED
    BY <2>1, <2>3 DEF NoRegion, last
<1>3. ScrollUpOnce(g, line_id) = h
  BY <1>2, Zenon DEF ScrollUpOnce
<1>4. g.top + 1 = 1 /\ row = g.rows[1] /\ rows = RemoveAt(g.rows, 1)
  BY <1>2
<1>5. /\ Len(rows) = last - 1 /\ \A r \in 1 .. last - 1 : rows[r] = g.rows[r + 1]
      /\ rows \in RowsBelow(n) /\ row \in RowBelow(n)
  <2>. HIDE DEF rows, row
  <2>1. g.rows \in Seq(RowBelow(n)) /\ Len(g.rows) >= 1 /\ 1 \in 1 .. Len(g.rows)
    BY <1>1, <1>2
  <2>2. /\ Len(rows) = Len(g.rows) - 1
        /\ \A r \in 1 .. Len(g.rows) - 1 : rows[r] = g.rows[r + 1]
    BY ONLY <1>4, <2>1, FirstTakenOut
  <2>3. rows \in Seq(RowBelow(n))
    BY ONLY <1>4, <2>1, RowTakenOut
  <2>4. row \in RowBelow(n)
    BY ONLY <1>4, <2>1
  <2>. QED
    BY <2>2, <2>3, <2>4, Zenon DEF RowsBelow
<1>. HIDE DEF rows, row
<1>6. /\ left \in GridsAt(n) /\ left.scrollback = g.scrollback /\ left.pending = g.pending
      /\ left.rows = rows /\ left.size = g.size
  BY <1>5 DEF GridsAt
<1>. HIDE DEF left
<1>7. /\ k \in GridsAt(n) /\ k.rows = rows /\ FrozenUpTo(k.scrollback.lines, k.pending, all, 0 + 1)
      /\ \A since \in Stores, f \in Nat : f <= row.id /\ Slid(since, g.scrollback, f) => Slid(since, k.scrollback, f)
  <2>1. k \in GridsAt(n) /\ k.rows = rows
    BY <1>5, <1>6, FreezeRowType
  <2>2. 0 \in 0 .. Len(all) - 1 /\ row.id = all[0 + 1].id /\ row.wrapped = all[0 + 1].wrapped
    BY <1>1, <1>2, <1>4
  <2>3. FrozenUpTo(left.scrollback.lines, left.pending, all, 0)
    BY <1>6
  <2>4. /\ FrozenUpTo(k.scrollback.lines, k.pending, all, 0 + 1)
        /\ \A since \in Stores, f \in Nat : f <= row.id /\ Slid(since, left.scrollback, f) => Slid(since, k.scrollback, f)
    BY <1>5, <1>6, <2>2, <2>3, FreezeNext, Zenon
  <2>. QED
    BY <1>6, <2>1, <2>4, Zenon
<1>. HIDE DEF k
<1>. DEFINE at == g.bottom
            cut == [k.rows[at] EXCEPT !.wrapped = FALSE]
            above == IF at > 0 /\ at <= Len(k.rows) /\ k.rows[at].id # id
                     THEN [k.rows EXCEPT ![at] = cut] ELSE k.rows
            blank == BlankRow(k.size.cols, id)
<1>8. h.rows = InsertAt(above, at + 1, blank) /\ h.pending = k.pending /\ h.scrollback = k.scrollback
  <2>1. k.next = n
    BY <1>7, GridParts
  <2>2. at <= Len(k.rows)
    BY <1>1, <1>2, <1>5, <1>7
  <2>3. h = [k EXCEPT !.rows = InsertAt(above, at + 1, blank),
                      !.next = IF line_id = Fresh THEN k.next + 1 ELSE k.next]
    BY <2>1, <2>2, Zenon DEF InsertBlankRow
  <2>. HIDE DEF h, above, blank
  <2>. QED
    BY <1>7, <2>3 DEF GridsAt
<1>9. id \in 0 .. n /\ blank.id = id /\ ~blank.wrapped /\ blank \in RowBelow(n + 1)
  <2>1. id \in 0 .. n /\ k.size.cols \in Nat
    BY <1>7, GridParts DEF Fresh
  <2>2. id \in 0 .. (n + 1) - 1 /\ n + 1 \in Nat
    BY <2>1
  <2>3. blank \in RowBelow(n + 1)
    BY <2>1, <2>2, BlankRowType
  <2>. QED
    BY <2>1, <2>3 DEF BlankRow
<1>. HIDE DEF blank
<1>10. at \in 1 .. last - 1 => cut.id = all[at + 1].id /\ cut.wrapped = FALSE /\ cut \in RowBelow(n)
  <2>1. SUFFICES ASSUME at \in 1 .. last - 1
                 PROVE  cut.id = all[at + 1].id /\ cut.wrapped = FALSE /\ cut \in RowBelow(n)
    OBVIOUS
  <2>2. k.rows[at] = g.rows[at + 1] /\ at + 1 \in 1 .. last
    BY <1>1, <1>5, <1>7, <2>1, SMTT(40)
  <2>3. \A x \in RowBelow(n) : LET y == [x EXCEPT !.wrapped = FALSE]
                               IN  y.id = x.id /\ y.wrapped = FALSE /\ y \in RowBelow(n)
    BY Zenon DEF RowBelow
  <2>4. g.rows[at + 1] \in RowBelow(n) /\ all[at + 1] = g.rows[at + 1]
    BY <1>1, <2>2
  <2>. QED
    BY <2>2, <2>3, <2>4, Zenon
<1>11. /\ above \in RowsBelow(n) /\ Len(above) = last - 1
       /\ \A r \in 1 .. last - 1 : above[r].id = all[r + 1].id /\ above[r].wrapped = all[r + 1].wrapped
  <2>1. k.rows \in RowsBelow(n) /\ Len(k.rows) = last - 1
        /\ \A r \in 1 .. last - 1 : k.rows[r] = all[r + 1]
    <3>1. \A r \in 1 .. last - 1 : r + 1 \in 1 .. last
      BY <1>1
    <3>. QED
      BY <1>5, <1>7, <3>1
  <2>2. CASE ~(at > 0 /\ at <= Len(k.rows) /\ k.rows[at].id # id)
    BY <2>1, <2>2, Zenon
  <2>3. CASE at > 0 /\ at <= Len(k.rows) /\ k.rows[at].id # id
    <3>1. at \in 1 .. last - 1 /\ at + 1 = last /\ last \in 1 .. Len(all) /\ last < Len(all)
      BY <1>1, <1>2, <2>1, <2>3
    <3>2. all[at + 1].id # all[last + 1].id
      BY <2>1, <2>3, <3>1, Zenon
    <3>3. ~all[at + 1].wrapped
      BY <3>1, <3>2, Zenon DEF RowsInOrder
    <3>4. all[at + 1].wrapped \in BOOLEAN
      BY <3>1, RowIds
    <3>5. cut.id = all[at + 1].id /\ cut.wrapped = all[at + 1].wrapped /\ cut \in RowBelow(n)
      BY <1>10, <3>1, <3>3, <3>4, Zenon
    <3>. HIDE DEF cut
    <3>6. above = [k.rows EXCEPT ![at] = cut]
      BY <2>3
    <3>7. above \in RowsBelow(n) /\ Len(above) = Len(k.rows)
      <4>1. k.rows \in Seq(RowBelow(n)) /\ at \in Int
        BY <2>1, <3>1 DEF RowsBelow
      <4>. QED
        BY <3>5, <3>6, <4>1, RowChanged DEF RowsBelow
    <3>8. \A r \in 1 .. last - 1 : above[r] = IF r = at THEN cut ELSE k.rows[r]
      BY <2>1, <3>6, SMTT(60) DEF RowsBelow
    <3>. HIDE DEF above
    <3>. QED
      BY <2>1, <3>5, <3>7, <3>8, Zenon
  <2>. QED
    BY <2>2, <2>3, Zenon
<1>. HIDE DEF above, h
<1>12. /\ Len(h.rows) = last /\ h.rows[last] = blank
       /\ \A r \in 1 .. last - 1 : h.rows[r] = above[r]
  <2>1. above \in Seq(RowBelow(n + 1))
    <3>1. RowsBelow(n) \subseteq RowsBelow(n + 1)
      BY LaterIds
    <3>. QED
      BY <1>11, <3>1 DEF RowsBelow
  <2>2. at + 1 = Len(above) + 1 /\ Len(above) + 1 = last
    BY <1>1, <1>2, <1>11
  <2>. QED
    BY <1>8, <1>9, <1>11, <2>1, <2>2, PutInLast
<1>13. \A r \in 1 .. Len(h.rows) : h.rows[r].id = all[1 + r].id /\ h.rows[r].wrapped = all[1 + r].wrapped
  <2>1. h.rows[last].id = all[1 + last].id /\ h.rows[last].wrapped = all[1 + last].wrapped
    <3>1. last + 1 \in 1 .. Len(all) /\ last + 1 = 1 + last
      BY <1>1
    <3>2. all[last + 1].wrapped \in BOOLEAN
      BY <3>1, RowIds
    <3>3. blank.wrapped \in BOOLEAN
      BY <1>9 DEF RowBelow
    <3>. QED
      BY <1>9, <1>12, <3>1, <3>2, <3>3
  <2>2. ASSUME NEW r \in 1 .. last - 1
        PROVE  h.rows[r].id = all[1 + r].id /\ h.rows[r].wrapped = all[1 + r].wrapped
    <3>1. r + 1 = 1 + r
      BY <1>1
    <3>. QED
      BY <1>11, <1>12, <3>1, Zenon
  <2>3. \A r \in 1 .. last : r = last \/ r \in 1 .. last - 1
    BY <1>1
  <2>. QED
    BY <1>12, <2>1, <2>2, <2>3, Zenon
<1>14. /\ RowsInOrder(h.rows)
       /\ \A lines, head : FrozenUpTo(lines, head, all, 1) => FrozenUpTo(lines, head, h.rows, 0)
  <2>1. 1 \in 0 .. Len(all) /\ Len(h.rows) = Len(all) - 1
    BY <1>1, <1>2, <1>12
  <2>. HIDE DEF last
  <2>. QED
    BY <1>13, <2>1, RowsLeft, Zenon
<1>15. InOrder(h)
  <2>1. FrozenUpTo(k.scrollback.lines, k.pending, all, 1)
    BY <1>7
  <2>. QED
    BY <1>8, <1>14, <2>1 DEF InOrder
<1>16. Slides(g, h)
  <2>1. ASSUME NEW since \in Stores, NEW f \in Nat, SlidOn(since, f, g) PROVE SlidOn(since, f, h)
    <3>1. f <= row.id
      BY <1>1, <1>2, <1>4, <2>1 DEF SlidOn
    <3>2. Slid(since, h.scrollback, f)
      BY <1>7, <1>8, <2>1, <3>1, Zenon DEF SlidOn
    <3>3. \A r \in 1 .. Len(all) : all[r].id \in Nat /\ \A q \in 1 .. r : all[q].id <= all[r].id
      BY RowIds, Zenon DEF RowsInOrder
    <3>4. \A r \in 1 .. Len(all) : f <= all[r].id
      <4>1. 1 \in 1 .. last /\ 1 \in 1 .. Len(all) /\ \A r \in 1 .. Len(all) : 1 \in 1 .. r
        BY <1>1, <1>2
      <4>2. all[1] = row
        BY <1>4, <4>1
      <4>. QED
        BY <3>1, <3>3, <4>1, <4>2
    <3>5. \A r \in 1 .. Len(h.rows) : 1 + r \in 1 .. Len(all)
      BY <1>1, <1>12
    <3>6. \A r \in 1 .. Len(h.rows) : f <= h.rows[r].id
      BY <1>13, <3>4, <3>5, Zenon
    <3>. QED
      BY <3>2, <3>6, Zenon DEF SlidOn
  <2>. QED
    BY <2>1, Zenon DEF Slides
<1>. QED
  BY <1>3, <1>15, <1>16 DEF h

\* A row of a new line goes in below the others; what is frozen stays older.
LEMMA RowAppended ==
    ASSUME NEW n \in Nat, NEW rows \in RowsBelow(n), RowsInOrder(rows),
           NEW m \in Nat, n <= m, NEW row \in RowBelow(m), ~row.wrapped,
           \A r \in 1 .. Len(rows) : rows[r].id < row.id
    PROVE  /\ rows \o <<row>> \in RowsBelow(m) /\ RowsInOrder(rows \o <<row>>)
           /\ Len(rows \o <<row>>) = Len(rows) + 1
           /\ \A r \in 1 .. Len(rows) : (rows \o <<row>>)[r] = rows[r]
           /\ (rows \o <<row>>)[Len(rows) + 1] = row
<1>1. PICK one : one = <<row>>
  BY Zenon
<1>2. one \in RowsBelow(m) /\ Len(one) = 1 /\ one[1] = row
  BY <1>1 DEF RowsBelow
<1>3. RowsInOrder(one)
  <2>1. row.id \in Nat
    BY DEF RowBelow
  <2>2. \A r \in 1 .. Len(one) : r = 1 /\ ~(r < Len(one)) /\ \A q \in 1 .. r : q = 1
    BY <1>2
  <2>3. \A r \in 1 .. Len(one) : /\ \A q \in 1 .. r : one[q].id <= one[r].id
                                 /\ one[r].wrapped <=> (r < Len(one) /\ one[r + 1].id = one[r].id)
    BY <1>2, <2>1, <2>2
  <2>. QED
    BY <2>3 DEF RowsInOrder
<1>4. rows \in RowsBelow(m)
  BY LaterIds
<1>5. \A q \in 1 .. Len(rows), r \in 1 .. Len(one) : rows[q].id < one[r].id
  BY <1>2
<1>6. 1 \in 1 .. Len(one)
  BY <1>2
<1>. QED
  BY <1>1, <1>2, <1>3, <1>4, <1>5, <1>6, RowsBelowOthers

\* The whole screen scrolls and a row of a new line comes in.
LEMMA ScrollFresh ==
    ASSUME NEW g \in Grids, ~IsAlternate, RegionIsWholeScreen(g)
    PROVE  LET h == ScrollUpOnce(g, Fresh) IN h \in Orderly(g) /\ RegionIsWholeScreen(h)
<1>. DEFINE h == ScrollUpOnce(g, Fresh)
<1>1. PICK n \in Nat : g \in GridsAt(n)
  BY DEF Grids
<1>2. /\ g.next = n /\ g.rows \in RowsBelow(n) /\ g.size.cols \in Nat /\ g.pending \in HeadsBelow(n)
      /\ g.scrollback \in StoresBelow(n)
  BY <1>1, GridParts
<1>3. h \in After(g) /\ RegionIsWholeScreen(h)
  BY ScrollUpAfter, Zenon DEF RegionIsWholeScreen
<1>4. ASSUME InOrder(g) PROVE InOrder(h) /\ Slides(g, h)
  <2>. DEFINE blank == BlankRow(g.size.cols, n)
              all == g.rows \o <<blank>>
              lines == g.scrollback.lines
  <2>1. blank \in RowBelow(n + 1) /\ blank.id = n /\ ~blank.wrapped /\ n + 1 \in Nat /\ n <= n + 1
    <3>1. n + 1 \in Nat /\ n \in 0 .. (n + 1) - 1 /\ n <= n + 1
      OBVIOUS
    <3>2. blank \in RowBelow(n + 1)
      BY <1>2, <3>1, BlankRowType
    <3>. QED
      BY <3>1, <3>2 DEF BlankRow
  <2>. HIDE DEF blank
  <2>2. Len(g.rows) \in Nat /\ \A r \in 1 .. Len(g.rows) : g.rows[r].id \in 0 .. n - 1
    BY <1>2, RowIds
  <2>3. \A r \in 1 .. Len(g.rows) : g.rows[r].id < blank.id
    BY <2>1, <2>2
  <2>4. /\ all \in RowsBelow(n + 1) /\ RowsInOrder(all) /\ Len(all) = Len(g.rows) + 1
        /\ \A r \in 1 .. Len(g.rows) : all[r] = g.rows[r]
        /\ all[Len(g.rows) + 1] = blank
    BY <1>2, <1>4, <2>1, <2>3, RowAppended DEF InOrder
  <2>. HIDE DEF all
  <2>5. Len(g.rows) >= 1
    BY <1>2, <2>2, GridParts, <1>1 DEF RegionIsWholeScreen
  <2>6. \A i \in 1 .. Len(lines) : lines[i].id \in 0 .. n - 1
    <3>1. lines \in Seq(LineBelow(n))
      BY <1>2 DEF StoresBelow
    <3>2. \A line \in LineBelow(n) : line.id \in 0 .. n - 1
      BY DEF LineBelow
    <3>. QED
      BY <3>1, <3>2
  <2>7. FrozenUpTo(lines, g.pending, all, 0)
    <3>1. LinesAscend(lines)
          /\ (\A i \in 1 .. Len(lines), r \in 0 + 1 .. Len(g.rows) : lines[i].id < g.rows[r].id)
          /\ (g.pending # NoLine => g.rows[0 + 1].id = g.pending.id)
      BY <1>4 DEF InOrder, FrozenUpTo
    <3>2. ASSUME NEW i \in 1 .. Len(lines), NEW r \in 0 + 1 .. Len(all) PROVE lines[i].id < all[r].id
      <4>1. CASE r = Len(g.rows) + 1
        BY <2>1, <2>4, <2>6, <4>1, SMTT(60)
      <4>2. CASE r # Len(g.rows) + 1
        <5>1. r \in 0 + 1 .. Len(g.rows) /\ r \in 1 .. Len(g.rows)
          BY <2>2, <2>4, <4>2
        <5>. QED
          BY <2>4, <3>1, <5>1, Zenon
      <4>. QED
        BY <4>1, <4>2
    <3>3. 0 < Len(all) /\ all[0 + 1] = g.rows[0 + 1]
      <4>1. 0 + 1 = 1 /\ 1 \in 1 .. Len(g.rows) /\ 0 < Len(all)
        BY <2>2, <2>4, <2>5
      <4>. QED
        BY <2>4, <4>1
    <3>. QED
      BY <3>1, <3>2, <3>3 DEF FrozenUpTo
  <2>8. PICK id : id = Fresh
    OBVIOUS
  <2>9. id \in (0 .. n - 1) \cup {Fresh} /\ n = IF id = Fresh THEN n ELSE id
    BY <2>8
  <2>10. all[Len(g.rows) + 1].id = n /\ ~all[Len(g.rows) + 1].wrapped
    BY <2>1, <2>4
  <2>11. InOrder(ScrollUpOnce(g, id)) /\ Slides(g, ScrollUpOnce(g, id))
    BY ONLY <1>1, <2>1, <2>4, <2>7, <2>9, <2>10, ~IsAlternate, RegionIsWholeScreen(g), n \in Nat,
            ScrolledInOrder, Zenon
  <2>. QED
    BY <2>8, <2>11
<1>. QED
  BY <1>3, <1>4 DEF Orderly

\* SU on the whole screen keeps the order.
LEMMA ScrollsUpOrderly ==
    ASSUME NEW g \in Grids, ~IsAlternate, RegionIsWholeScreen(g), NEW n \in Nat
    PROVE  Repeat(LAMBDA h : ScrollUpOnce(h, Fresh), g, n) \in Orderly(g)
<1>. DEFINE S == {h \in Orderly(g) : RegionIsWholeScreen(h)}
<1>1. Repeat(LAMBDA h : ScrollUpOnce(h, Fresh), g, n) = ScrollingUp!RoundsOf(0, 0, g, n)
  BY Zenon DEF Repeat, ScrollingUp!RoundsOf, ScrollUpRound
<1>2. ASSUME NEW h \in S, NEW k \in 1 .. n PROVE ScrollUpRound(0, 0, h, k) \in S
  <2>1. h \in Grids /\ h \in Orderly(g) /\ RegionIsWholeScreen(h)
    BY OrderlyCompose
  <2>2. ScrollUpOnce(h, Fresh) \in Orderly(h) /\ RegionIsWholeScreen(ScrollUpOnce(h, Fresh))
    BY <2>1, ScrollFresh
  <2>. QED
    BY <2>1, <2>2, OrderlyCompose DEF ScrollUpRound
<1>3. g \in S
  BY OrderlyCompose
<1>. HIDE DEF S
<1>4. ScrollingUp!RoundsOf(0, 0, g, n) \in S
  BY <1>2, <1>3, ScrollingUp!RoundsIn
<1>. QED
  BY <1>1, <1>4, Zenon DEF S

\* A line feed that leaves no margins behind keeps the order, as does a reverse
\* index that does not scroll.
LEMMA LineFeedOrderly ==
    ASSUME NEW g \in Grids, ~IsAlternate
    PROVE  /\ (g.cursor.row = g.bottom => RegionIsWholeScreen(g)) => LineFeed(g) \in Orderly(g)
           /\ g.cursor.row # g.top => ReverseIndex(g) \in Orderly(g)
<1>1. /\ g.cursor.row \in Nat /\ g.cursor.col \in Nat /\ g.bottom \in Nat /\ Len(g.rows) \in Nat
      /\ g.size.rows \in Nat /\ g.size.cols \in Nat
  BY GridParts DEF Grids, RowsBelow
<1>2. ASSUME g.cursor.row = g.bottom => RegionIsWholeScreen(g) PROVE LineFeed(g) \in Orderly(g)
  <2>1. CASE g.cursor.row = g.bottom
    <3>. DEFINE h == ScrollUpOnce(g, Fresh)
    <3>1. h \in Orderly(g) /\ h.cursor = g.cursor
      BY <1>2, <2>1, ScrollFresh, ScrollUpAfter, Zenon
    <3>. HIDE DEF h
    <3>2. h \in Grids
      BY <3>1, OrderlyCompose
    <3>3. Shaped(h) => Within(At(g.cursor.row, g.cursor.col), h.size)
      BY <3>1 DEF Shaped, Within, At
    <3>4. MoveTo(h, g.cursor.row, g.cursor.col) \in Orderly(h)
      BY <1>1, <3>2, <3>3, MoveToOrderly
    <3>5. MoveTo(h, g.cursor.row, g.cursor.col) \in Orderly(g)
      BY <3>1, <3>4, OrderlyCompose
    <3>. QED
      BY <2>1, <3>5, Zenon DEF LineFeed, h
  <2>2. CASE g.cursor.row # g.bottom /\ g.cursor.row + 1 < Len(g.rows)
    <3>1. Shaped(g) => Within(At(g.cursor.row + 1, g.cursor.col), g.size)
      BY <1>1, <2>2 DEF Shaped, Within, At, Rectangle, Minus
    <3>2. MoveTo(g, g.cursor.row + 1, g.cursor.col) \in Orderly(g)
      BY <1>1, <3>1, MoveToOrderly
    <3>. QED
      BY <2>2, <3>2, Zenon DEF LineFeed
  <2>3. CASE g.cursor.row # g.bottom /\ ~(g.cursor.row + 1 < Len(g.rows))
    BY <2>3, OrderlyCompose, Zenon DEF LineFeed
  <2>. QED
    BY <2>1, <2>2, <2>3
<1>3. ASSUME g.cursor.row # g.top PROVE ReverseIndex(g) \in Orderly(g)
  <2>1. CASE g.cursor.row > 0
    <3>1. g.cursor.row - 1 \in Nat /\ g.cursor.row - 1 <= g.cursor.row
      BY <1>1, <2>1
    <3>2. Shaped(g) => Within(At(g.cursor.row - 1, g.cursor.col), g.size)
      BY <1>1, <3>1 DEF Shaped, Within, At, Minus
    <3>3. MoveTo(g, g.cursor.row - 1, g.cursor.col) \in Orderly(g)
      BY <1>1, <3>1, <3>2, MoveToOrderly, Zenon
    <3>. QED
      BY <1>3, <2>1, <3>3, Zenon DEF ReverseIndex
  <2>2. CASE ~(g.cursor.row > 0)
    BY <1>3, <2>2, OrderlyCompose, Zenon DEF ReverseIndex
  <2>. QED
    BY <2>1, <2>2
<1>. QED
  BY <1>2, <1>3

-----------------------------------------------------------------------------
(* A line that goes on in the next row. *)

\* The last line goes on in one row more.
LEMMA GoesOnBelow ==
    ASSUME NEW n \in Nat, NEW rows \in RowsBelow(n), RowsInOrder(rows), NEW last, last = Len(rows), last >= 1,
           NEW all, Len(all) = last + 1,
           \A r \in 1 .. last : all[r].id = rows[r].id,
           \A r \in 1 .. last - 1 : all[r].wrapped = rows[r].wrapped,
           all[last].wrapped, all[last + 1].id = rows[last].id, ~all[last + 1].wrapped
    PROVE  /\ RowsInOrder(all)
           /\ \A lines, head : FrozenUpTo(lines, head, rows, 0) => FrozenUpTo(lines, head, all, 0)
<1>1. last \in Nat /\ \A r \in 1 .. last : rows[r].id \in Nat
  BY RowIds
<1>2. \A r \in 1 .. last : /\ \A q \in 1 .. r : rows[q].id <= rows[r].id
                           /\ rows[r].wrapped <=> (r < last /\ rows[r + 1].id = rows[r].id)
  BY DEF RowsInOrder
<1>3. ASSUME NEW r \in 1 .. Len(all)
      PROVE  /\ \A q \in 1 .. r : all[q].id <= all[r].id
             /\ all[r].wrapped <=> (r < Len(all) /\ all[r + 1].id = all[r].id)
  <2>1. CASE r < last
    <3>1. r \in 1 .. last /\ r \in 1 .. last - 1 /\ r + 1 \in 1 .. last /\ r < Len(all)
          /\ \A q \in 1 .. r : q \in 1 .. last
      BY <1>1, <2>1
    <3>. QED
      BY <1>2, <2>1, <3>1
  <2>2. CASE r = last
    <3>1. r \in 1 .. last /\ r < Len(all) /\ \A q \in 1 .. r : q \in 1 .. last
      BY <1>1, <2>2
    <3>. QED
      BY <1>2, <2>2, <3>1
  <2>3. CASE r = last + 1
    <3>1. last \in 1 .. last /\ ~(r < Len(all))
      BY <1>1, <2>3
    <3>2. ASSUME NEW q \in 1 .. r PROVE all[q].id <= all[r].id
      <4>1. q = last + 1 \/ q \in 1 .. last
        BY <1>1, <2>3
      <4>. QED
        BY <1>1, <1>2, <2>3, <3>1, <4>1
    <3>. QED
      BY <2>3, <3>1, <3>2
  <2>4. r < last \/ r = last \/ r = last + 1
    BY <1>1
  <2>. QED
    BY <2>1, <2>2, <2>3, <2>4
<1>4. ASSUME NEW lines, NEW head, FrozenUpTo(lines, head, rows, 0)
      PROVE  FrozenUpTo(lines, head, all, 0)
  <2>1. ASSUME NEW i \in 1 .. Len(lines), NEW r \in 0 + 1 .. Len(all) PROVE lines[i].id < all[r].id
    <3>1. \A q \in 1 .. last : q \in 0 + 1 .. Len(rows)
      BY <1>1
    <3>2. \A q \in 1 .. last : lines[i].id < rows[q].id
      BY <1>4, <3>1 DEF FrozenUpTo
    <3>3. last \in 1 .. last /\ (r = last + 1 \/ r \in 1 .. last)
      BY <1>1
    <3>. QED
      BY <3>2, <3>3
  <2>2. 0 < Len(all) /\ all[0 + 1].id = rows[0 + 1].id
    <3>1. 0 + 1 = 1 /\ 1 \in 1 .. last /\ 0 < Len(all)
      BY <1>1
    <3>. QED
      BY <3>1
  <2>. QED
    BY <1>4, <2>1, <2>2 DEF FrozenUpTo
<1>. QED
  BY <1>3, <1>4, Zenon DEF RowsInOrder

\* A line goes on in the row below, which ends it now.  It may not have gone on
\* there and further before.
LEMMA GoesOnWithin ==
    ASSUME NEW n \in Nat, NEW rows \in RowsBelow(n), RowsInOrder(rows), NEW p \in 1 .. Len(rows) - 1,
           ~(rows[p].wrapped /\ rows[p + 1].wrapped), NEW new, Len(new) = Len(rows),
           \A r \in 1 .. Len(rows) : r # p + 1 => new[r].id = rows[r].id,
           \A r \in 1 .. Len(rows) : r # p /\ r # p + 1 => new[r].wrapped = rows[r].wrapped,
           new[p].wrapped, new[p + 1].id = rows[p].id, ~new[p + 1].wrapped
    PROVE  /\ RowsInOrder(new)
           /\ \A lines, head : FrozenUpTo(lines, head, rows, 0) => FrozenUpTo(lines, head, new, 0)
<1>. DEFINE count == Len(rows)
<1>1. count \in Nat /\ \A r \in 1 .. count : rows[r].id \in Nat
  BY RowIds
<1>2. \A r \in 1 .. count : /\ \A q \in 1 .. r : rows[q].id <= rows[r].id
                            /\ rows[r].wrapped <=> (r < count /\ rows[r + 1].id = rows[r].id)
  BY DEF RowsInOrder
<1>3. Len(new) = count /\ p \in 1 .. count - 1
  OBVIOUS
<1>. HIDE DEF count
<1>4. p \in 1 .. count /\ p + 1 \in 1 .. count /\ p < count /\ p # p + 1 /\ p \in Nat
  BY <1>1, <1>3
<1>5. /\ \A r \in 1 .. count : r # p + 1 => new[r].id = rows[r].id
      /\ \A r \in 1 .. count : r # p /\ r # p + 1 => new[r].wrapped = rows[r].wrapped
  BY DEF count
<1>6. rows[p].id <= rows[p + 1].id /\ new[p].id = rows[p].id
  <2>1. p \in 1 .. p + 1
    BY <1>4
  <2>. QED
    BY <1>2, <1>4, <1>5, <2>1
<1>7. \A r \in 1 .. count : new[r].id \in Nat /\ new[r].id <= rows[r].id
  BY <1>1, <1>4, <1>5, <1>6
<1>8. ASSUME NEW r \in 1 .. count, NEW q \in 1 .. r PROVE new[q].id <= new[r].id
  <2>1. q \in 1 .. count
    BY <1>1
  <2>2. CASE r # p + 1
    <3>1. new[q].id <= rows[q].id /\ rows[q].id <= rows[r].id /\ new[r].id = rows[r].id
      BY <1>2, <1>5, <1>7, <2>1, <2>2
    <3>. QED
      BY <1>1, <1>7, <2>1, <3>1
  <2>3. CASE r = p + 1 /\ q # p + 1
    <3>1. q \in 1 .. p
      BY <1>1, <1>4, <2>3
    <3>2. rows[q].id <= rows[p].id /\ new[q].id = rows[q].id
      BY <1>2, <1>4, <1>5, <2>1, <2>3, <3>1
    <3>. QED
      BY <2>3, <3>2
  <2>4. CASE r = p + 1 /\ q = p + 1
    BY <1>7, <2>4
  <2>. QED
    BY <2>2, <2>3, <2>4
<1>9. ASSUME NEW r \in 1 .. count
      PROVE  new[r].wrapped <=> (r < count /\ new[r + 1].id = new[r].id)
  <2>1. CASE r = p
    BY <1>4, <1>6, <2>1
  <2>2. CASE r = p + 1
    <3>1. SUFFICES ASSUME r < count, new[r + 1].id = new[r].id PROVE FALSE
      BY <2>2
    <3>2. r + 1 \in 1 .. count /\ r + 1 # p + 1 /\ r \in 1 .. r + 1
      BY <1>1, <1>4, <2>2, <3>1
    <3>3. rows[r + 1].id = rows[p].id
      BY <1>5, <2>2, <3>1, <3>2
    <3>4. rows[r].id <= rows[r + 1].id
      BY <1>2, <3>2
    <3>5. rows[p + 1].id = rows[p].id
      BY <1>1, <1>4, <1>6, <2>2, <3>3, <3>4
    <3>. QED
      BY <1>2, <1>4, <2>2, <3>1, <3>3, <3>5
  <2>3. CASE r # p /\ r # p + 1
    <3>1. new[r].id = rows[r].id /\ new[r].wrapped = rows[r].wrapped
      BY <1>5, <2>3
    <3>2. r < count => r + 1 \in 1 .. count /\ r + 1 # p + 1
      BY <1>1, <1>4, <2>3
    <3>. QED
      BY <1>2, <1>5, <3>1, <3>2
  <2>. QED
    BY <2>1, <2>2, <2>3
<1>10. ASSUME NEW lines, NEW head, FrozenUpTo(lines, head, rows, 0)
       PROVE  FrozenUpTo(lines, head, new, 0)
  <2>1. ASSUME NEW i \in 1 .. Len(lines), NEW r \in 0 + 1 .. Len(new) PROVE lines[i].id < new[r].id
    <3>1. \A q \in 1 .. count : q \in 0 + 1 .. Len(rows)
      BY <1>1 DEF count
    <3>2. \A q \in 1 .. count : lines[i].id < rows[q].id
      BY <1>10, <3>1 DEF FrozenUpTo
    <3>3. r \in 1 .. count
      BY <1>3
    <3>. QED
      BY <1>4, <1>5, <3>2, <3>3
  <2>2. 0 < Len(new) /\ new[0 + 1].id = rows[0 + 1].id
    <3>1. 0 + 1 = 1 /\ 1 \in 1 .. count /\ 1 # p + 1 /\ 0 < count
      BY <1>1, <1>4
    <3>. QED
      BY <1>3, <1>5, <3>1
  <2>. QED
    BY <1>10, <2>1, <2>2 DEF FrozenUpTo
<1>11. RowsInOrder(new)
  BY <1>3, <1>8, <1>9 DEF RowsInOrder
<1>. QED
  BY <1>10, <1>11

\* What auto_wrap needs of the screen to keep the order: no margins where it
\* scrolls or has no row below, and no mark to clear that is still needed.
WrapKeepsOrder(g) ==
    LET row == g.cursor.row IN
    /\ row = g.bottom \/ row + 1 = Len(g.rows) => RegionIsWholeScreen(g)
    /\ row + 1 < Len(g.rows) => ~(g.rows[row + 1].wrapped /\ g.rows[row + 2].wrapped)

\* Then wrapping keeps it.
LEMMA AutoWrapOrderly ==
    ASSUME NEW g \in Grids, ~IsAlternate, WrapKeepsOrder(g)
    PROVE  AutoWrap(g) \in Orderly(g)
<1>. DEFINE row == g.cursor.row
            id == g.rows[row + 1].id
            marked == [g.rows[row + 1] EXCEPT !.wrapped = TRUE]
            h == [g EXCEPT !.rows = [g.rows EXCEPT ![row + 1] = marked]]
<1>1. PICK n \in Nat : g \in GridsAt(n)
  BY DEF Grids
<1>2. /\ row \in Nat /\ g.bottom \in Nat /\ g.size.rows \in Nat /\ g.size.cols \in Nat /\ g.next = n
      /\ Len(g.rows) \in Nat /\ g.rows \in RowsBelow(n) /\ g.rows \in Seq(RowBelow(n))
      /\ \A r \in 1 .. Len(g.rows) : g.rows[r] \in RowBelow(n)
  BY <1>1, GridParts, RowIds DEF RowsBelow
<1>3. AutoWrap(g) \in After(g)
  BY AutoWrapAfter
<1>4. CASE row >= Len(g.rows)
  <2>1. ~(row < Len(g.rows)) /\ ~(row + 1 < Len(g.rows))
    BY <1>2, <1>4
  <2>2. AutoWrap(g) = g
    BY <1>4, <2>1, Zenon DEF AutoWrap
  <2>. QED
    BY <2>2, OrderlyCompose
<1>5. CASE ~(row >= Len(g.rows))
  <2>1. row < Len(g.rows) /\ row + 1 \in 1 .. Len(g.rows) /\ row + 1 \in Int
    BY <1>2, <1>5
  <2>2. marked \in RowBelow(n) /\ marked.id = id /\ marked.wrapped /\ id \in 0 .. n - 1
    <3>1. g.rows[row + 1] \in RowBelow(n)
      BY <1>2, <2>1
    <3>. QED
      BY <3>1, Zenon DEF RowBelow
  <2>. HIDE DEF marked, id
  <2>3. h.rows \in RowsBelow(n) /\ Len(h.rows) = Len(g.rows)
        /\ \A r \in 1 .. Len(g.rows) : h.rows[r] = IF r = row + 1 THEN marked ELSE g.rows[r]
    BY <1>1, <1>2, <2>1, <2>2 DEF GridsAt, RowsBelow
  <2>4. /\ h \in GridsAt(n) /\ h.scrollback = g.scrollback /\ h.pending = g.pending
        /\ h.top = g.top /\ h.bottom = g.bottom /\ h.cursor = g.cursor
    BY <1>1, <2>3 DEF GridsAt
  <2>5. h = [g EXCEPT !.rows[row + 1].wrapped = TRUE]
    BY DEF marked
  <2>6. id = g.rows[row + 1].id
    BY DEF id
  <2>. HIDE DEF h
  <2>7. ASSUME InOrder(g), row = g.bottom
        PROVE  InOrder(AutoWrap(g)) /\ Slides(g, AutoWrap(g))
    <3>. DEFINE k == ScrollUpOnce(h, id)
                last == Len(g.rows)
                blank == BlankRow(g.size.cols, id)
                all == Append(h.rows, blank)
    <3>1. AutoWrap(g) = MoveTo(k, row, 0)
      BY <2>1, <2>5, <2>6, <2>7, <1>5, Zenon DEF AutoWrap
    <3>2. RegionIsWholeScreen(g) /\ RegionIsWholeScreen(h)
      BY <2>3, <2>4, <2>7 DEF WrapKeepsOrder, RegionIsWholeScreen
    <3>3. row + 1 = last
      BY <1>2, <2>7, <3>2 DEF RegionIsWholeScreen
    <3>4. blank \in RowBelow(n) /\ blank.id = id /\ blank.wrapped = FALSE
      <4>1. blank \in RowBelow(n)
        BY <1>2, <2>2, BlankRowType, Zenon
      <4>. QED
        BY <4>1 DEF BlankRow
    <3>. HIDE DEF blank
    <3>5. all \in RowsBelow(n) /\ Len(all) = last + 1 /\ all[last + 1] = blank
          /\ \A r \in 1 .. last : all[r] = h.rows[r]
      BY <2>3, <3>4, <1>2, SMTT(60) DEF RowsBelow
    <3>. HIDE DEF all
    <3>6. /\ \A r \in 1 .. last : all[r].id = g.rows[r].id
          /\ \A r \in 1 .. last - 1 : all[r].wrapped = g.rows[r].wrapped
          /\ all[last].wrapped /\ all[last + 1].id = g.rows[last].id /\ ~all[last + 1].wrapped
      <4>1. \A r \in 1 .. last : all[r] = IF r = last THEN marked ELSE g.rows[r]
        BY <2>3, <3>3, <3>5
      <4>2. last \in 1 .. last /\ \A r \in 1 .. last - 1 : r \in 1 .. last /\ r # last
        BY <1>2, <2>1, <3>3
      <4>. QED
        BY <2>2, <2>6, <3>3, <3>4, <3>5, <4>1, <4>2, Zenon
    <3>7. RowsInOrder(all)
          /\ \A lines, head : FrozenUpTo(lines, head, g.rows, 0) => FrozenUpTo(lines, head, all, 0)
      <4>1. last >= 1 /\ RowsInOrder(g.rows) /\ last = Len(g.rows)
        BY <1>2, <2>1, <2>7 DEF InOrder
      <4>. HIDE DEF last
      <4>. QED
        BY ONLY <1>2, <3>5, <3>6, <4>1, n \in Nat, GoesOnBelow, Zenon
    <3>8. FrozenUpTo(h.scrollback.lines, h.pending, all, 0)
      BY <2>4, <2>7, <3>7 DEF InOrder
    <3>9. id \in (0 .. n - 1) \cup {Fresh} /\ id = (IF id = Fresh THEN n ELSE id)
      BY <2>2 DEF Fresh
    <3>10. InOrder(k) /\ Slides(h, k)
      <4>1. Len(all) = Len(h.rows) + 1 /\ (\A r \in 1 .. Len(h.rows) : all[r] = h.rows[r])
            /\ all[Len(h.rows) + 1].id = id /\ ~all[Len(h.rows) + 1].wrapped
        BY <2>3, <3>4, <3>5
      <4>. HIDE DEF k
      <4>2. InOrder(ScrollUpOnce(h, id)) /\ Slides(h, ScrollUpOnce(h, id))
        BY ONLY <2>4, <3>2, <3>5, <3>7, <3>8, <3>9, <4>1, ~IsAlternate, n \in Nat, ScrolledInOrder, Zenon
      <4>. QED
        BY <4>2 DEF k
    <3>11. k \in Grids
      <4>1. id \in (0 .. h.next - 1) \cup {Fresh} /\ h \in Grids
        BY <2>2, <2>4, GridParts DEF Grids
      <4>2. k \in After(h)
        BY <4>1, ScrollUpAfter
      <4>. QED
        BY <4>1, <4>2, AfterGrids
    <3>. HIDE DEF k
    <3>12. SameLines(k, MoveTo(k, row, 0))
      BY <3>11, CursorKeepsLines, Zenon DEF MoveTo
    <3>13. Slides(g, h)
      <4>1. \A r \in 1 .. Len(h.rows) : r \in 1 .. Len(g.rows) /\ h.rows[r].id = g.rows[r].id
        BY <2>2, <2>3, <2>6
      <4>. QED
        BY <2>4, <4>1, StoreStays, Zenon
    <3>14. Slides(k, MoveTo(k, row, 0))
      BY <3>12, StoreStays, Zenon DEF SameLines
    <3>15. Slides(g, MoveTo(k, row, 0))
      BY <3>10, <3>13, <3>14, Zenon DEF Slides
    <3>. QED
      BY <3>1, <3>10, <3>11, <3>12, <3>15, SameLinesInOrder
  <2>8. ASSUME InOrder(g), row # g.bottom, row + 1 < Len(g.rows)
        PROVE  InOrder(AutoWrap(g)) /\ Slides(g, AutoWrap(g))
    <3>. DEFINE next == [[h.rows[row + 2] EXCEPT !.id = id] EXCEPT !.wrapped = FALSE]
                new == [h.rows EXCEPT ![row + 2] = next]
                k == [h EXCEPT !.rows = new]
    <3>0. row + 2 \in 1 .. Len(g.rows) /\ row + 2 # row + 1 /\ row + 2 = (row + 1) + 1
          /\ row + 1 \in 1 .. Len(g.rows) - 1
      BY <1>2, <2>8, SMTT(60)
    <3>1. k = [h EXCEPT !.rows[row + 2].id = id, !.rows[row + 2].wrapped = FALSE]
      <4>1. h.rows \in Seq(RowBelow(n)) /\ row + 2 \in 1 .. Len(h.rows)
        BY <2>3, <3>0 DEF RowsBelow
      <4>2. \A x, y : [[h.rows EXCEPT ![row + 2] = x] EXCEPT ![row + 2] = y] = [h.rows EXCEPT ![row + 2] = y]
                      /\ [h.rows EXCEPT ![row + 2] = x][row + 2] = x
        BY <4>1
      <4>3. \A x : [h EXCEPT !.rows = x].rows = x
                   /\ \A y : [[h EXCEPT !.rows = x] EXCEPT !.rows = y] = [h EXCEPT !.rows = y]
        BY <2>4, Zenon DEF GridsAt
      <4>. QED
        BY <4>2, <4>3, ZenonT(60)
    <3>2. AutoWrap(g) = MoveTo(k, row + 1, 0)
      BY <2>1, <2>5, <2>6, <2>8, <1>5, <3>1, Zenon DEF AutoWrap
    <3>3. next \in RowBelow(n) /\ next.id = id /\ ~next.wrapped
      <4>1. h.rows[row + 2] \in RowBelow(n)
        BY <1>2, <2>3, <3>0, Zenon
      <4>2. \A x \in RowBelow(n) : LET y == [[x EXCEPT !.id = id] EXCEPT !.wrapped = FALSE]
                                   IN  y \in RowBelow(n) /\ y.id = id /\ y.wrapped = FALSE
        BY <2>2, Zenon DEF RowBelow
      <4>3. next \in RowBelow(n) /\ next.id = id /\ next.wrapped = FALSE
        BY <4>1, <4>2, Zenon
      <4>. QED
        BY <4>3
    <3>. HIDE DEF next
    <3>4. new \in RowsBelow(n) /\ Len(new) = Len(g.rows)
          /\ \A r \in 1 .. Len(g.rows) : new[r] = IF r = row + 2 THEN next ELSE h.rows[r]
      BY <2>3, <3>0, <3>3 DEF RowsBelow
    <3>. HIDE DEF new
    <3>5. k \in GridsAt(n) /\ k.rows = new /\ k.scrollback = g.scrollback /\ k.pending = g.pending
      BY <2>4, <3>4 DEF GridsAt
    <3>. HIDE DEF k
    <3>6. RowsInOrder(new)
          /\ \A lines, head : FrozenUpTo(lines, head, g.rows, 0) => FrozenUpTo(lines, head, new, 0)
      <4>1. PICK p : p = row + 1
        OBVIOUS
      <4>2. /\ p \in 1 .. Len(g.rows) - 1 /\ RowsInOrder(g.rows) /\ p + 1 = row + 2
            /\ p \in 1 .. Len(g.rows) /\ p + 1 \in 1 .. Len(g.rows) /\ p # p + 1
        BY <1>2, <2>8, <3>0, <4>1 DEF InOrder
      <4>3. ~(g.rows[p].wrapped /\ g.rows[p + 1].wrapped)
        BY <2>8, <4>1, <4>2 DEF WrapKeepsOrder
      <4>4. \A r \in 1 .. Len(g.rows) : new[r] = IF r = p + 1 THEN next ELSE IF r = p THEN marked ELSE g.rows[r]
        BY <2>3, <3>4, <4>1, <4>2
      <4>5. /\ \A r \in 1 .. Len(g.rows) : r # p + 1 => new[r].id = g.rows[r].id
            /\ \A r \in 1 .. Len(g.rows) : r # p /\ r # p + 1 => new[r].wrapped = g.rows[r].wrapped
            /\ new[p].wrapped /\ new[p + 1].id = g.rows[p].id /\ ~new[p + 1].wrapped
        BY <2>2, <2>6, <3>3, <4>1, <4>2, <4>4, Zenon
      <4>. QED
        BY ONLY <1>2, <3>4, <4>2, <4>3, <4>5, n \in Nat, GoesOnWithin, Zenon
    <3>7. InOrder(k)
      BY <2>8, <3>5, <3>6 DEF InOrder
    <3>8. k \in Grids
      BY <3>5 DEF Grids
    <3>9. SameLines(k, MoveTo(k, row + 1, 0))
      BY <3>8, CursorKeepsLines, Zenon DEF MoveTo
    <3>10. Slides(g, k)
      <4>1. ASSUME NEW r \in 1 .. Len(new) PROVE \E q \in 1 .. Len(g.rows) : new[r].id = g.rows[q].id
        <5>1. CASE r = row + 2
          BY <2>1, <2>6, <3>3, <3>4, <5>1, Zenon
        <5>2. CASE r # row + 2
          <6>1. r \in 1 .. Len(g.rows) /\ new[r].id = g.rows[r].id
            BY <2>2, <2>3, <2>6, <3>4, <5>2, Zenon
          <6>. QED
            BY <6>1
        <5>. QED
          BY <5>1, <5>2
      <4>. QED
        BY <3>5, <4>1, StoreStays, Zenon
    <3>11. Slides(k, MoveTo(k, row + 1, 0))
      BY <3>9, StoreStays, Zenon DEF SameLines
    <3>12. Slides(g, MoveTo(k, row + 1, 0))
      BY <3>10, <3>11, Zenon DEF Slides
    <3>. QED
      BY <3>2, <3>7, <3>8, <3>9, <3>12, SameLinesInOrder
  <2>9. row # g.bottom => row + 1 < Len(g.rows)
    <3>1. SUFFICES ASSUME row # g.bottom, ~(row + 1 < Len(g.rows)) PROVE FALSE
      OBVIOUS
    <3>2. row + 1 = Len(g.rows)
      BY <1>2, <2>1, <3>1
    <3>3. g.bottom + 1 = Len(g.rows)
      BY <3>2 DEF WrapKeepsOrder, RegionIsWholeScreen
    <3>. QED
      BY <1>2, <3>1, <3>2, <3>3
  <2>. QED
    BY <1>3, <2>7, <2>8, <2>9 DEF Orderly
<1>. QED
  BY <1>4, <1>5

\* The grapheme `content` has no room left in the cursor's row.
GoesOn(g, content) ==
    Width(content) > 0 /\ (g.cursor.wrap \/ g.cursor.col + Width(content) > g.size.cols)

\* Printing keeps the order where wrapping does.
LEMMA PrintOrderly ==
    ASSUME NEW g \in Grids, NEW content \in {"a", "W", "+"}, pen \in Styles, autowrap \in BOOLEAN, ~IsAlternate,
           autowrap /\ GoesOn(g, content) => WrapKeepsOrder(g)
    PROVE  PrintOne(g, content) \in Orderly(g)
<1>. DEFINE w == Width(content)
            no_room == g.cursor.wrap \/ g.cursor.col + w > g.size.cols
<1>1. w \in Nat /\ (w > 0 => content \in Contents)
  BY PrintWidth
<1>2. /\ g.cursor.row \in Nat /\ g.cursor.col \in Nat /\ g.size.rows \in Nat /\ g.size.cols \in Nat
  BY GridParts DEF Grids
<1>3. ASSUME NEW h \in Orderly(g), w > 0, ~Empty(g.size)
      PROVE  Advance(Put(h, content), w) \in Orderly(g)
  <2>. DEFINE k == Put(h, content)
  <2>1. h \in Grids /\ h.size = g.size
    BY OrderlyCompose
  <2>2. k \in Orderly(h)
    BY <1>1, <1>3, <2>1, WritingOrderly
  <2>. HIDE DEF k
  <2>3. k \in Grids /\ k.size = g.size
    BY <2>1, <2>2, OrderlyCompose
  <2>4. SameLines(k, Advance(k, w))
    BY <2>3, CursorKeepsLines, Zenon DEF Advance, MoveTo
  <2>5. Advance(k, w) \in Orderly(k)
    BY <1>1, <1>3, <2>3, <2>4, AdvanceAfter, SameLinesOrderly
  <2>6. Advance(k, w) \in Orderly(h)
    BY <2>1, <2>2, <2>5, OrderlyCompose
  <2>. QED
    BY <2>6, OrderlyCompose DEF k
<1>4. CASE Empty(g.size)
  BY <1>4, OrderlyCompose, Zenon DEF PrintOne
<1>5. CASE ~Empty(g.size) /\ w = 0
  <2>0. ~(w > 0)
    BY <1>5
  <2>1. PrintOne(g, content) = AttachCombining(g)
    BY <1>5, <2>0, Zenon DEF PrintOne
  <2>. QED
    BY <2>1, WritingOrderly
<1>6. CASE ~Empty(g.size) /\ w > 0 /\ ~no_room
  <2>1. ~(w = 0)
    BY <1>6
  <2>2. PrintOne(g, content) = Advance(Put(g, content), w)
    BY <1>6, <2>1, Zenon DEF PrintOne
  <2>. QED
    BY <1>3, <1>6, <2>2, OrderlyCompose
<1>7. CASE ~Empty(g.size) /\ w > 0 /\ no_room /\ autowrap
  <2>1. ~(w = 0)
    BY <1>7
  <2>2. PrintOne(g, content) = Advance(Put(AutoWrap(g), content), w)
    BY <1>7, <2>1, Zenon DEF PrintOne
  <2>3. AutoWrap(g) \in Orderly(g)
    BY <1>7, AutoWrapOrderly DEF GoesOn
  <2>. QED
    BY <1>3, <1>7, <2>2, <2>3
<1>8. CASE ~Empty(g.size) /\ w > 0 /\ no_room /\ ~autowrap /\ w <= g.size.cols
  <2>1. ~(w = 0) /\ g.size.cols - w \in Nat
    BY <1>1, <1>2, <1>8
  <2>2. PrintOne(g, content) = Advance(Put(MoveTo(g, g.cursor.row, g.size.cols - w), content), w)
    BY <1>8, <2>1, Zenon DEF PrintOne
  <2>3. Shaped(g) => Within(At(g.cursor.row, g.size.cols - w), g.size)
    BY <1>1, <1>2, <1>8 DEF Shaped, Within, At, Minus
  <2>4. MoveTo(g, g.cursor.row, g.size.cols - w) \in Orderly(g)
    BY <1>2, <2>1, <2>3, MoveToOrderly
  <2>. QED
    BY <1>3, <1>8, <2>2, <2>4
<1>9. CASE ~Empty(g.size) /\ w > 0 /\ no_room /\ ~autowrap /\ ~(w <= g.size.cols)
  <2>1. ~(w = 0)
    BY <1>9
  <2>2. PrintOne(g, content) = g
    BY <1>9, <2>1, Zenon DEF PrintOne
  <2>. QED
    BY <2>2, OrderlyCompose
<1>10. w = 0 \/ w > 0
  BY <1>1
<1>. QED
  BY <1>4, <1>5, <1>6, <1>7, <1>8, <1>9, <1>10

-----------------------------------------------------------------------------
(* A resize keeps the lines in order. *)

\* `lines` are of the first `k` rows: they ascend, they are lines on the screen
\* and no newer than the rows that are left.
LinesOfRows(lines, rows, k) ==
    /\ LinesAscend(lines)
    /\ \A i \in 1 .. Len(lines) :
         /\ \E r \in 1 .. Len(rows) : lines[i].id = rows[r].id
         /\ \A r \in k + 1 .. Len(rows) : lines[i].id <= rows[r].id

\* A row joins the newest line or begins one that is newer.
LEMMA RegroupAscends ==
    ASSUME NEW n \in Nat, NEW rows \in RowsBelow(n), RowsInOrder(rows), NEW k \in 0 .. Len(rows) - 1,
           NEW lines \in Seq(LineBelow(n)), LinesOfRows(lines, rows, k)
    PROVE  LinesOfRows(Regroup(lines, rows[k + 1]), rows, k + 1)
<1>. DEFINE row == rows[k + 1]
            last == Len(lines)
            ends == ~row.wrapped
            longer == [lines[last] EXCEPT !.text = PushCells(lines[last].text, row.cells, ends)]
            first == [id |-> row.id, text |-> PushCells(<< >>, row.cells, ends)]
            new == Regroup(lines, row)
<1>1. /\ Len(rows) \in Nat /\ k \in Nat /\ k + 1 \in 1 .. Len(rows)
      /\ \A r \in 1 .. Len(rows) : rows[r].id \in Nat
  BY RowIds
<1>2. \A q, r \in 1 .. Len(rows) : q <= r => rows[q].id <= rows[r].id
  BY <1>1 DEF RowsInOrder
<1>3. last \in Nat /\ \A i \in 1 .. last : lines[i] \in LineBelow(n) /\ lines[i].id \in Nat
  <2>1. \A line \in LineBelow(n) : line.id \in Nat
    BY DEF LineBelow
  <2>. QED
    BY <2>1
<1>4. /\ \A i, j \in 1 .. last : i < j => lines[i].id < lines[j].id
      /\ \A i \in 1 .. last : /\ \E r \in 1 .. Len(rows) : lines[i].id = rows[r].id
                              /\ \A r \in k + 1 .. Len(rows) : lines[i].id <= rows[r].id
  BY DEF LinesOfRows, LinesAscend
<1>5. /\ k + 1 \in k + 1 .. Len(rows)
      /\ \A r \in (k + 1) + 1 .. Len(rows) : r \in k + 1 .. Len(rows) /\ r \in 1 .. Len(rows) /\ k + 1 <= r
  BY <1>1
<1>6. CASE last > 0 /\ lines[last].id = row.id
  <2>1. new = [lines EXCEPT ![last] = longer]
    BY <1>6, Zenon DEF Regroup
  <2>2. last \in 1 .. last /\ longer.id = lines[last].id
    <3>1. \A line \in LineBelow(n) : \A text : [line EXCEPT !.text = text].id = line.id
      BY DEF LineBelow
    <3>2. last \in 1 .. last
      BY <1>3, <1>6
    <3>. QED
      BY <1>3, <3>1, <3>2
  <2>. HIDE DEF longer
  <2>3. Len(new) = last /\ \A i \in 1 .. last : new[i] = IF i = last THEN longer ELSE lines[i]
    BY <2>1, <2>2
  <2>. HIDE DEF new
  <2>4. \A i \in 1 .. last : new[i].id = lines[i].id
    BY <2>2, <2>3
  <2>. HIDE DEF last
  <2>5. LinesAscend(new)
    BY <1>4, <2>3, <2>4 DEF LinesAscend
  <2>6. \A i \in 1 .. Len(new) : /\ \E r \in 1 .. Len(rows) : new[i].id = rows[r].id
                                 /\ \A r \in (k + 1) + 1 .. Len(rows) : new[i].id <= rows[r].id
    BY <1>4, <1>5, <2>3, <2>4
  <2>. QED
    BY <2>5, <2>6 DEF LinesOfRows, new
<1>7. CASE ~(last > 0 /\ lines[last].id = row.id)
  <2>1. new = Append(lines, first)
    BY <1>7, Zenon DEF Regroup
  <2>2. first.id = row.id
    OBVIOUS
  <2>. HIDE DEF first
  <2>3. Len(new) = last + 1 /\ new[last + 1] = first /\ \A i \in 1 .. last : new[i] = lines[i]
    BY <2>1
  <2>. HIDE DEF new
  <2>4. \A i \in 1 .. last : lines[i].id < row.id
    <3>1. ASSUME NEW i \in 1 .. last PROVE lines[i].id < row.id
      <4>1. last \in 1 .. last /\ last > 0
        BY <1>3
      <4>2. lines[i].id <= row.id /\ lines[last].id <= row.id
        BY <1>4, <1>5, <4>1, Zenon
      <4>3. lines[last].id < row.id
        BY <1>1, <1>3, <1>7, <4>1, <4>2
      <4>4. i = last \/ lines[i].id < lines[last].id
        <5>. i = last \/ i < last
          BY <1>3
        <5>. QED
          BY <1>4, <4>1
      <4>. QED
        BY <1>1, <1>3, <4>1, <4>3, <4>4, SMTT(60)
    <3>. QED
      BY <3>1
  <2>5. \A i \in 1 .. Len(new) : i \in 1 .. last \/ i = last + 1
    BY <1>3, <2>3
  <2>6. LinesAscend(new)
    <3>1. ASSUME NEW i \in 1 .. Len(new), NEW j \in 1 .. Len(new), i < j PROVE new[i].id < new[j].id
      <4>1. i \in 1 .. last
        BY <1>3, <2>3, <3>1
      <4>. QED
        BY <1>4, <2>2, <2>3, <2>4, <2>5, <3>1, <4>1, Zenon
    <3>. QED
      BY <3>1 DEF LinesAscend
  <2>7. ASSUME NEW i \in 1 .. Len(new)
        PROVE  /\ \E r \in 1 .. Len(rows) : new[i].id = rows[r].id
               /\ \A r \in (k + 1) + 1 .. Len(rows) : new[i].id <= rows[r].id
    <3>1. CASE i \in 1 .. last
      BY <1>4, <1>5, <2>3, <3>1, Zenon
    <3>2. CASE i = last + 1
      <4>1. new[i].id = row.id
        BY <2>2, <2>3, <3>2
      <4>. QED
        BY <1>1, <1>2, <1>5, <4>1, Zenon
    <3>. QED
      BY <2>5, <3>1, <3>2
  <2>. QED
    BY <2>6, <2>7 DEF LinesOfRows, new
<1>. QED
  BY <1>6, <1>7

\* The rebuilding of the lines begins in order.
LEMMA HeadInOrder ==
    ASSUME NEW n \in Nat, NEW g \in GridsAt(n), InOrder(g)
    PROVE  HeadToRejoin(g) \in Seq(LineBelow(n)) /\ LinesOfRows(HeadToRejoin(g), g.rows, 0)
<1>. DEFINE rows == g.rows
            count == Len(rows)
            head == HeadToRejoin(g)
<1>1. /\ rows \in RowsBelow(n) /\ count \in Nat /\ DOMAIN rows = 1 .. count
      /\ \A r \in 1 .. count : rows[r] \in RowBelow(n) /\ rows[r].id \in Nat
      /\ g.pending \in HeadsBelow(n)
  BY GridParts, RowIds
<1>2. RowsInOrder(rows)
  BY DEF InOrder
<1>3. CASE rows # << >> /\ g.pending.id = rows[1].id
  <2>1. 1 \in 1 .. count
    <3>. HIDE DEF count
    <3>. QED
      BY <1>1, <1>3 DEF RowsBelow, count
  <2>2. g.pending \in LineBelow(n)
    BY <1>1, <1>3, <2>1, HeadLine
  <2>3. PICK one : one = <<g.pending>>
    BY Zenon
  <2>4. one \in Seq(LineBelow(n)) /\ Len(one) = 1 /\ one[1] = g.pending /\ head = one
    BY <1>3, <2>2, <2>3 DEF HeadToRejoin
  <2>5. LinesAscend(one)
    BY <2>4 DEF LinesAscend
  <2>6. \A r \in 0 + 1 .. count : rows[1].id <= rows[r].id
    BY <1>1, <1>2 DEF RowsInOrder
  <2>7. \A i \in 1 .. Len(one) : one[i].id = rows[1].id
    BY <1>3, <2>4
  <2>. HIDE DEF rows, count, head
  <2>8. LinesOfRows(one, rows, 0)
    BY <2>1, <2>5, <2>6, <2>7 DEF LinesOfRows, count
  <2>. QED
    BY <2>4, <2>8 DEF head, rows
<1>4. CASE ~(rows # << >> /\ g.pending.id = rows[1].id)
  <2>1. head = << >>
    BY <1>4, Zenon DEF HeadToRejoin
  <2>2. PICK none \in Seq(LineBelow(n)) : none = << >> /\ Len(none) = 0
    <3>1. << >> \in Seq(LineBelow(n)) /\ Len(<< >>) = 0
      OBVIOUS
    <3>. QED
      BY <3>1, Zenon
  <2>3. LinesOfRows(none, rows, 0)
    <3>1. \A i \in 1 .. Len(none) : FALSE
      BY <2>2
    <3>. QED
      BY <3>1, Zenon DEF LinesOfRows, LinesAscend
  <2>. QED
    BY <2>1, <2>2, <2>3
<1>. QED
  BY <1>3, <1>4

\* The lines of a screen in order ascend, and all are newer than the history.
LEMMA ActiveLinesAscend ==
    ASSUME NEW n \in Nat, NEW g \in GridsAt(n), InOrder(g)
    PROVE  /\ LinesAscend(ActiveLines(g))
           /\ \A i \in 1 .. Len(ActiveLines(g)), j \in 1 .. Len(g.scrollback.lines) :
                g.scrollback.lines[j].id < ActiveLines(g)[i].id
           /\ \A i \in 1 .. Len(ActiveLines(g)) : \E r \in 1 .. Len(g.rows) : ActiveLines(g)[i].id = g.rows[r].id
<1>. DEFINE rows == g.rows
            count == Len(rows)
            head == HeadToRejoin(g)
            Inv == [k \in 0 .. count |-> {lines \in Seq(LineBelow(n)) : LinesOfRows(lines, rows, k)}]
<1>1. /\ rows \in RowsBelow(n) /\ count \in Nat /\ DOMAIN rows = 1 .. count
      /\ \A r \in 1 .. count : rows[r] \in RowBelow(n) /\ rows[r].id \in Nat
      /\ g.pending \in HeadsBelow(n)
  BY GridParts, RowIds
<1>2. RowsInOrder(rows)
  BY DEF InOrder
<1>3. head \in Seq(LineBelow(n)) /\ LinesOfRows(head, rows, 0)
  BY HeadInOrder
<1>4. ASSUME NEW k \in 0 .. count - 1, NEW lines \in Inv[k]
      PROVE  RegroupRow(0, 0, lines, rows[k + 1]) \in Inv[k + 1]
  <2>1. k \in 0 .. count /\ k + 1 \in 0 .. count /\ k + 1 \in 1 .. count
    BY <1>1
  <2>2. lines \in Seq(LineBelow(n)) /\ LinesOfRows(lines, rows, k)
    BY <2>1
  <2>3. Regroup(lines, rows[k + 1]) \in Seq(LineBelow(n))
    BY <1>1, <2>1, <2>2, RegroupType
  <2>4. LinesOfRows(Regroup(lines, rows[k + 1]), rows, k + 1)
    BY <1>1, <1>2, <2>2, RegroupAscends
  <2>. QED
    BY <2>1, <2>3, <2>4 DEF RegroupRow
<1>5. head \in Inv[0]
  BY <1>1, <1>3
<1>6. ActiveLines(g) = Regrouping!FoldOf(0, 0, head, rows)
  BY Zenon DEF ActiveLines, Regrouping!FoldOf, RegroupRow, FoldLeft, MapThenFoldSet, Max,
               Regrouping!MapThenFoldSet, Regrouping!Greatest
<1>. HIDE DEF Inv, head, rows
<1>7. Regrouping!FoldOf(0, 0, head, rows) \in Inv[count]
  BY ONLY <1>1, <1>4, <1>5, Regrouping!FoldAlong, Zenon
<1>. DEFINE lines == ActiveLines(g)
<1>8. LinesOfRows(lines, rows, count)
  BY <1>1, <1>6, <1>7 DEF Inv
<1>. HIDE DEF lines
<1>9. ASSUME NEW i \in 1 .. Len(lines), NEW j \in 1 .. Len(g.scrollback.lines)
      PROVE  g.scrollback.lines[j].id < lines[i].id
  <2>1. PICK r \in 1 .. count : lines[i].id = rows[r].id
    BY <1>8 DEF LinesOfRows
  <2>2. r \in 0 + 1 .. Len(g.rows)
    BY <1>1 DEF rows
  <2>3. g.scrollback.lines[j].id < g.rows[r].id
    BY <2>2 DEF InOrder, FrozenUpTo
  <2>. QED
    BY <2>1, <2>3 DEF rows
<1>10. \A i \in 1 .. Len(lines) : \E r \in 1 .. Len(g.rows) : lines[i].id = g.rows[r].id
  BY <1>8, Zenon DEF LinesOfRows, rows, count
<1>. QED
  BY <1>8, <1>9, <1>10 DEF LinesOfRows, lines

\* The display rows of one line are in order, and all of that line.
LEMMA ReflowedRowsInOrder ==
    ASSUME NEW n \in Nat, NEW line \in LineBelow(n), NEW cols \in Nat
    PROVE  LET new == ReflowedRows(line, cols) IN
           /\ new \in RowsBelow(n) /\ RowsInOrder(new)
           /\ \A r \in 1 .. Len(new) : new[r].id = line.id
<1>. DEFINE rows == RenderRows(line.text, cols)
            new == ReflowedRows(line, cols)
            count == Len(rows)
<1>1. line.id \in Nat /\ line.text \in Seq(Cells)
  BY DEF LineBelow
<1>2. count \in Nat /\ DOMAIN rows = 1 .. count
  <2>1. rows \in Seq(Seq(Cells))
    BY <1>1, RenderRowsType, Zenon
  <2>. HIDE DEF rows
  <2>. QED
    BY <2>1
<1>3. new = [k \in DOMAIN rows |-> [id |-> line.id, wrapped |-> k < count, cells |-> rows[k]]]
  BY Zenon DEF ReflowedRows
<1>4. new \in RowsBelow(n)
  <2>1. new \in Seq(WideRows(n, cols)) /\ WideRows(n, cols) \subseteq RowBelow(n)
    BY ReflowedRowsType, WideRowsAreRows
  <2>. HIDE DEF new
  <2>. QED
    BY <2>1 DEF RowsBelow
<1>. HIDE DEF rows, count, new
<1>5. Len(new) = count /\ \A r \in 1 .. count : new[r].id = line.id /\ (new[r].wrapped <=> r < count)
  <2>1. new = [k \in 1 .. count |-> [id |-> line.id, wrapped |-> k < count, cells |-> rows[k]]]
    BY <1>2, <1>3
  <2>2. Len(new) = count /\ \A r \in 1 .. count :
                              new[r] = [id |-> line.id, wrapped |-> r < count, cells |-> rows[r]]
    BY <1>2, <2>1
  <2>3. ASSUME NEW r \in 1 .. count PROVE new[r].id = line.id /\ (new[r].wrapped <=> r < count)
    <3>1. new[r] = [id |-> line.id, wrapped |-> r < count, cells |-> rows[r]]
      BY <2>2
    <3>2. PICK x, m, i : x = new[r] /\ m = count /\ i = r /\ m \in Nat /\ i \in Int
      BY <1>2
    <3>3. x = [id |-> line.id, wrapped |-> i < m, cells |-> rows[r]]
      BY <3>1, <3>2, Zenon
    <3>4. m \in Int /\ i \in Int
      BY <3>2
    <3>5. x.wrapped <=> i < m
      BY ONLY <3>3, <3>4, Zenon
    <3>6. x.id = line.id
      BY ONLY <3>3
    <3>. QED
      BY <3>2, <3>5, <3>6, Zenon
  <2>. QED
    BY <2>2, <2>3
<1>6. RowsInOrder(new)
  <2>1. ASSUME NEW r \in 1 .. Len(new)
        PROVE  /\ \A q \in 1 .. r : new[q].id <= new[r].id
               /\ new[r].wrapped <=> (r < Len(new) /\ new[r + 1].id = new[r].id)
    <3>1. (\A q \in 1 .. r : q \in 1 .. count) /\ (r < count => r + 1 \in 1 .. count)
      BY <1>2, <1>5
    <3>. QED
      BY <1>1, <1>5, <3>1
  <2>. QED
    BY <2>1 DEF RowsInOrder
<1>. QED
  BY <1>4, <1>5, <1>6 DEF new

\* `rows` are of the first `k` of the lines.
RowsOfLines(n, rows, lines, k) ==
    /\ rows \in RowsBelow(n) /\ RowsInOrder(rows)
    /\ \A r \in 1 .. Len(rows) : \E i \in 1 .. k : rows[r].id = lines[i].id

\* Ascending lines laid out one below the other are rows in order.
LEMMA LaidOutInOrder ==
    ASSUME NEW n \in Nat, NEW lines \in Seq(LineBelow(n)), LinesAscend(lines), NEW cols \in Nat
    PROVE  LET flat == FlattenSeq([i \in DOMAIN lines |-> ReflowedRows(lines[i], cols)])
           IN  RowsOfLines(n, flat, lines, Len(lines))
<1>. DEFINE count == Len(lines)
            parts == [i \in DOMAIN lines |-> ReflowedRows(lines[i], cols)]
            Inv == [k \in 0 .. count |-> {rows \in RowsBelow(n) : RowsOfLines(n, rows, lines, k)}]
<1>1. count \in Nat /\ DOMAIN lines = 1 .. count
      /\ \A i \in 1 .. count : lines[i] \in LineBelow(n)
  OBVIOUS
<1>2. ASSUME NEW i \in 1 .. count
      PROVE  /\ parts[i] \in RowsBelow(n) /\ RowsInOrder(parts[i])
             /\ \A r \in 1 .. Len(parts[i]) : parts[i][r].id = lines[i].id
  <2>1. parts[i] = ReflowedRows(lines[i], cols) /\ lines[i] \in LineBelow(n)
    BY <1>1
  <2>. QED
    BY <2>1, ReflowedRowsInOrder
<1>3. parts \in Seq(Seq(RowBelow(n))) /\ DOMAIN parts = 1 .. count
  <2>1. \A i \in 1 .. count : ReflowedRows(lines[i], cols) \in Seq(RowBelow(n))
    BY <1>1, <1>2 DEF RowsBelow
  <2>. QED
    BY <1>1, <2>1
<1>. HIDE DEF parts
<1>4. ASSUME NEW k \in 0 .. count - 1, NEW rows \in Inv[k]
      PROVE  Join(0, 0, rows, parts[k + 1]) \in Inv[k + 1]
  <2>1. k \in 0 .. count /\ k + 1 \in 0 .. count /\ k + 1 \in 1 .. count /\ k \in Nat
    BY <1>1
  <2>. DEFINE part == parts[k + 1]
              id == lines[k + 1].id
  <2>2. rows \in RowsBelow(n) /\ RowsInOrder(rows)
        /\ \A r \in 1 .. Len(rows) : \E i \in 1 .. k : rows[r].id = lines[i].id
    <3>1. RowsOfLines(n, rows, lines, k)
      BY <2>1
    <3>. QED
      BY <3>1 DEF RowsOfLines
  <2>3. part \in RowsBelow(n) /\ RowsInOrder(part) /\ \A r \in 1 .. Len(part) : part[r].id = id
    BY <1>2, <2>1
  <2>. HIDE DEF part
  <2>4. \A i \in 1 .. k : lines[i].id < id
    <3>1. \A i \in 1 .. k : i \in 1 .. count /\ i < k + 1
      BY <1>1, <2>1
    <3>. QED
      BY <2>1, <3>1 DEF LinesAscend
  <2>5. \A q \in 1 .. Len(rows), r \in 1 .. Len(part) : rows[q].id < part[r].id
    BY <2>2, <2>3, <2>4
  <2>. DEFINE both == rows \o part
  <2>6. /\ both \in RowsBelow(n) /\ RowsInOrder(both) /\ Len(both) = Len(rows) + Len(part)
        /\ \A r \in 1 .. Len(rows) : both[r] = rows[r]
        /\ \A r \in 1 .. Len(part) : both[Len(rows) + r] = part[r]
    BY <2>2, <2>3, <2>5, RowsBelowOthers
  <2>. HIDE DEF both
  <2>7. Len(rows) \in Nat /\ Len(part) \in Nat
    BY <2>2, <2>3 DEF RowsBelow
  <2>8. ASSUME NEW r \in 1 .. Len(both) PROVE \E i \in 1 .. k + 1 : both[r].id = lines[i].id
    <3>1. CASE r <= Len(rows)
      <4>1. r \in 1 .. Len(rows)
        BY <2>7, <3>1
      <4>2. PICK i \in 1 .. k : rows[r].id = lines[i].id
        BY <2>2, <4>1
      <4>3. i \in 1 .. k + 1
        BY <2>1
      <4>. QED
        BY <2>6, <4>1, <4>2, <4>3
    <3>2. CASE ~(r <= Len(rows))
      <4>1. PICK p \in 1 .. Len(part) : r = Len(rows) + p
        <5>1. r - Len(rows) \in 1 .. Len(part) /\ r = Len(rows) + (r - Len(rows))
          BY <2>6, <2>7, <3>2
        <5>. QED
          BY <5>1, Zenon
      <4>2. k + 1 \in 1 .. k + 1
        BY <2>1
      <4>3. both[r] = part[p] /\ part[p].id = id
        BY <2>3, <2>6, <4>1
      <4>. QED
        BY <4>2, <4>3
    <3>. QED
      BY <3>1, <3>2
  <2>9. RowsOfLines(n, both, lines, k + 1)
    BY <2>6, <2>8 DEF RowsOfLines
  <2>. QED
    BY <2>1, <2>6, <2>9 DEF Join, both, part
<1>5. PICK none : none = << >>
  OBVIOUS
<1>6. none \in Inv[0]
  <2>1. none \in RowsBelow(n) /\ \A r \in 1 .. Len(none) : FALSE
    BY <1>5 DEF RowsBelow
  <2>2. RowsInOrder(none)
    BY <2>1, Zenon DEF RowsInOrder
  <2>3. RowsOfLines(n, none, lines, 0)
    BY <2>1, <2>2, Zenon DEF RowsOfLines
  <2>. QED
    BY <1>1, <2>1, <2>3
<1>7. FlattenSeq(parts) = Joining!FoldOf(0, 0, none, parts)
  BY <1>3, <1>5, FlattenFold
<1>. HIDE DEF Inv
<1>8. Joining!FoldOf(0, 0, none, parts) \in Inv[count]
  BY ONLY <1>1, <1>3, <1>4, <1>6, Joining!FoldAlong, Zenon
<1>9. count \in 0 .. count
  BY <1>1
<1>10. RowsOfLines(n, FlattenSeq(parts), lines, count)
  BY <1>7, <1>8, <1>9 DEF Inv
<1>. QED
  BY <1>10 DEF parts

\* From `g` to `h` the history slides, with lines from the ids of `rows` on.
SlidesFrom(rows, g, h) ==
    \A since \in Stores, f \in Nat :
        Slid(since, g.scrollback, f) /\ (\A r \in 1 .. Len(rows) : f <= rows[r].id) => Slid(since, h.scrollback, f)

\* The first rows of some in order, frozen one after the other.
LEMMA FrozenInOrder ==
    ASSUME NEW n \in Nat, NEW g \in GridsAt(n), NEW rows \in RowsBelow(n), RowsInOrder(rows),
           FrozenUpTo(g.scrollback.lines, g.pending, rows, 0), NEW k \in 0 .. Len(rows)
    PROVE  LET h == FoldLeft(FreezeRow, g, SubSeq(rows, 1, k)) IN
           /\ FrozenUpTo(h.scrollback.lines, h.pending, rows, k)
           /\ SlidesFrom(rows, g, h)
<1>. DEFINE gone == SubSeq(rows, 1, k)
            h == FoldLeft(FreezeRow, g, gone)
            Inv == [i \in 0 .. k |-> {s \in GridsAt(n) : /\ FrozenUpTo(s.scrollback.lines, s.pending, rows, i)
                                                     /\ SlidesFrom(rows, g, s)}]
<1>1. /\ k \in Nat /\ Len(rows) \in Nat /\ \A r \in 1 .. Len(rows) : rows[r] \in RowBelow(n)
      /\ rows \in Seq(RowBelow(n))
  BY RowIds DEF RowsBelow
<1>2. DOMAIN gone = 1 .. k /\ \A i \in 1 .. k : gone[i] = rows[i]
  BY <1>1
<1>. HIDE DEF gone
<1>3. ASSUME NEW i \in 0 .. k - 1, NEW s \in Inv[i]
      PROVE  FreezeOne(0, 0, s, gone[i + 1]) \in Inv[i + 1]
  <2>1. i \in 0 .. k /\ i + 1 \in 0 .. k /\ i + 1 \in 1 .. k /\ i \in 0 .. Len(rows) - 1
        /\ i + 1 \in 1 .. Len(rows)
    BY <1>1
  <2>2. s \in GridsAt(n) /\ FrozenUpTo(s.scrollback.lines, s.pending, rows, i) /\ SlidesFrom(rows, g, s)
    BY <2>1
  <2>. DEFINE row == rows[i + 1]
              t == FreezeRow(s, row)
  <2>3. row \in RowBelow(n) /\ gone[i + 1] = row
    BY <1>1, <1>2, <2>1
  <2>4. row.id = rows[i + 1].id /\ row.wrapped = rows[i + 1].wrapped
    OBVIOUS
  <2>. HIDE DEF row
  <2>5. /\ FrozenUpTo(t.scrollback.lines, t.pending, rows, i + 1)
        /\ \A since \in Stores, f \in Nat :
             f <= row.id /\ Slid(since, s.scrollback, f) => Slid(since, t.scrollback, f)
    BY <2>1, <2>2, <2>3, <2>4, FreezeNext, Zenon
  <2>6. t \in GridsAt(n)
    BY <2>2, <2>3, FreezeRowType
  <2>. HIDE DEF t
  <2>7. SlidesFrom(rows, g, t)
    <3>1. ASSUME NEW since \in Stores, NEW f \in Nat, Slid(since, g.scrollback, f),
                 \A r \in 1 .. Len(rows) : f <= rows[r].id
          PROVE  Slid(since, t.scrollback, f)
      <4>1. f <= row.id
        BY <2>1, <2>4, <3>1, Zenon
      <4>2. Slid(since, s.scrollback, f)
        BY <2>2, <3>1, Zenon DEF SlidesFrom
      <4>. QED
        BY <2>5, <4>1, <4>2, Zenon
    <3>. QED
      BY <3>1, Zenon DEF SlidesFrom
  <2>. QED
    BY <2>1, <2>3, <2>5, <2>6, <2>7 DEF FreezeOne, t
<1>4. g \in Inv[0]
  <2>1. SlidesFrom(rows, g, g)
    BY Zenon DEF SlidesFrom
  <2>. QED
    BY <1>1, <2>1
<1>5. h = Freezing!FoldOf(0, 0, g, gone)
  BY Zenon DEF Freezing!FoldOf, FreezeOne, FoldLeft, MapThenFoldSet, Max,
               Freezing!MapThenFoldSet, Freezing!Greatest
<1>. HIDE DEF Inv, h
<1>6. Freezing!FoldOf(0, 0, g, gone) \in Inv[k]
  BY ONLY <1>1, <1>2, <1>3, <1>4, Freezing!FoldAlong, Zenon
<1>7. h \in Inv[k] /\ k \in 0 .. k
  BY <1>1, <1>5, <1>6
<1>. QED
  BY <1>7 DEF Inv, h, gone

\* Blank rows with the next ids go below rows in order.
LEMMA PaddedInOrder ==
    ASSUME NEW n \in Nat, NEW g \in GridsAt(n), Len(g.rows) <= g.size.rows, InOrder(g)
    PROVE  InOrder(Padded(g))
<1>. DEFINE short == g.size.rows - Len(g.rows)
            size == [g.size EXCEPT !.rows = short]
            m == n + short
            blank == BlankRows(size, n)
            rows == g.rows \o blank
            h == Padded(g)
            lines == g.scrollback.lines
<1>1. /\ g.size \in Sizes /\ g.size.rows \in Nat /\ g.size.cols \in Nat /\ g.next = n
      /\ g.rows \in RowsBelow(n) /\ Len(g.rows) \in Nat /\ g.scrollback \in StoresBelow(n)
      /\ \A r \in 1 .. Len(g.rows) : g.rows[r].id \in 0 .. n - 1
  BY GridParts, RowIds
<1>2. short \in Nat /\ m \in Nat /\ n <= m /\ m = n + short
  BY <1>1
<1>. HIDE DEF short, m
<1>3. size \in Sizes /\ size.rows = short /\ size.cols = g.size.cols
  BY <1>1, <1>2 DEF Sizes
<1>. HIDE DEF size
<1>4. blank \in RowsBelow(m) /\ Len(blank) = short
      /\ \A r \in 1 .. short : blank[r].id = n + r - 1 /\ blank[r].wrapped = FALSE
  <2>1. n + size.rows <= m
    BY <1>2, <1>3
  <2>2. blank \in RowsBelow(m) /\ Len(blank) = size.rows
    BY <1>2, <1>3, <2>1, BlankRowsType
  <2>3. \A r \in 1 .. short : blank[r] = BlankRow(size.cols, n + r - 1)
    BY <1>3 DEF BlankRows
  <2>4. \A cols, id : BlankRow(cols, id).id = id /\ BlankRow(cols, id).wrapped = FALSE
    BY DEF BlankRow
  <2>. HIDE DEF blank
  <2>5. \A r \in 1 .. short : blank[r].id = n + r - 1 /\ blank[r].wrapped = FALSE
    BY <2>3, <2>4
  <2>. QED
    BY <1>3, <2>2, <2>5
<1>5. h = [g EXCEPT !.rows = rows, !.next = m]
  <2>1. g.next + short = m
    BY <1>1, <1>2
  <2>2. h = [g EXCEPT !.rows = g.rows \o BlankRows(size, g.next), !.next = g.next + short]
    BY Zenon DEF Padded, size, short
  <2>. QED
    BY <1>1, <2>1, <2>2, Zenon
<1>. HIDE DEF blank
<1>6. RowsInOrder(blank)
  <2>1. ASSUME NEW r \in 1 .. short, NEW q \in 1 .. r PROVE n + q - 1 <= n + r - 1
    BY <1>2
  <2>2. ASSUME NEW r \in 1 .. Len(blank)
        PROVE  /\ \A q \in 1 .. r : blank[q].id <= blank[r].id
               /\ blank[r].wrapped <=> (r < Len(blank) /\ blank[r + 1].id = blank[r].id)
    <3>1. /\ \A q \in 1 .. r : q \in 1 .. short
          /\ r < short => r + 1 \in 1 .. short /\ n + (r + 1) - 1 # n + r - 1
          /\ r \in 1 .. short
      BY <1>2, <1>4
    <3>. QED
      BY <1>4, <2>1, <3>1
  <2>. QED
    BY <2>2 DEF RowsInOrder
<1>7. \A q \in 1 .. Len(g.rows), r \in 1 .. Len(blank) : g.rows[q].id < blank[r].id
  <2>1. \A q \in 1 .. Len(g.rows), r \in 1 .. Len(blank) : g.rows[q].id < n + r - 1
    BY <1>1
  <2>. QED
    BY <1>4, <2>1
<1>8. RowsInOrder(g.rows) /\ FrozenUpTo(lines, g.pending, g.rows, 0)
  BY DEF InOrder
<1>9. /\ RowsInOrder(rows) /\ Len(rows) = Len(g.rows) + Len(blank)
      /\ \A r \in 1 .. Len(g.rows) : rows[r] = g.rows[r]
      /\ \A r \in 1 .. Len(blank) : rows[Len(g.rows) + r] = blank[r]
  <2>1. g.rows \in RowsBelow(m)
    BY <1>1, <1>2, LaterIds
  <2>. QED
    BY ONLY <1>2, <1>4, <1>6, <1>7, <1>8, <2>1, RowsBelowOthers, ZenonT(60)
<1>. HIDE DEF rows, h
<1>10. h.rows = rows /\ h.pending = g.pending /\ h.scrollback = g.scrollback
  BY <1>5 DEF GridsAt
<1>11. FrozenUpTo(lines, g.pending, rows, 0)
  <2>1. \A i \in 1 .. Len(lines) : lines[i].id \in 0 .. n - 1
    <3>1. lines \in Seq(LineBelow(n))
      BY <1>1 DEF StoresBelow
    <3>2. \A line \in LineBelow(n) : line.id \in 0 .. n - 1
      BY DEF LineBelow
    <3>. HIDE DEF lines
    <3>. QED
      BY <3>1, <3>2
  <2>. HIDE DEF lines
  <2>2. ASSUME NEW i \in 1 .. Len(lines), NEW r \in 0 + 1 .. Len(rows) PROVE lines[i].id < rows[r].id
    <3>1. CASE r <= Len(g.rows)
      <4>1. r \in 1 .. Len(g.rows) /\ r \in 0 + 1 .. Len(g.rows)
        BY <1>1, <3>1
      <4>. QED
        BY <1>8, <1>9, <4>1 DEF FrozenUpTo
    <3>2. CASE ~(r <= Len(g.rows))
      <4>1. PICK p \in 1 .. short : r = Len(g.rows) + p
        <5>1. r - Len(g.rows) \in 1 .. short /\ r = Len(g.rows) + (r - Len(g.rows))
          BY <1>1, <1>2, <1>4, <1>9, <3>2
        <5>. QED
          BY <5>1
      <4>2. rows[r].id = n + p - 1 /\ p >= 1
        BY <1>4, <1>9, <4>1, SMTT(60)
      <4>. QED
        BY <2>1, <4>2
    <3>. QED
      BY <3>1, <3>2
  <2>3. 0 < Len(g.rows) => 0 < Len(rows) /\ rows[0 + 1] = g.rows[0 + 1]
    <3>1. 0 < Len(g.rows) => 0 + 1 = 1 /\ 1 \in 1 .. Len(g.rows) /\ 0 < Len(rows)
      BY <1>1, <1>2, <1>4, <1>9
    <3>. QED
      BY <1>9, <3>1
  <2>. QED
    BY <1>8, <2>2, <2>3 DEF FrozenUpTo
<1>12. InOrder(h)
  BY <1>9, <1>10, <1>11 DEF InOrder, lines
<1>. QED
  BY <1>12 DEF h

\* Laid out rows in order, blank rows below and the margins reset: in order.
LEMMA LaidOutBelow ==
    ASSUME NEW n \in Nat, NEW k \in GridsAt(n), Len(k.rows) <= k.size.rows, InOrder(k)
    PROVE  /\ InOrder(ResetScrollRegion(Padded(k)))
           /\ ResetScrollRegion(Padded(k)).scrollback = k.scrollback
<1>. DEFINE p == Padded(k)
<1>0. PICK m : m = n + (k.size.rows - Len(k.rows))
  OBVIOUS
<1>1. FilledUp(n, m, k, p)
  BY <1>0, PaddedType
<1>2. InOrder(p)
  BY PaddedInOrder
<1>. HIDE DEF p
<1>3. p \in Grids
  BY <1>1 DEF FilledUp, Grids
<1>4. SameLines(p, ResetScrollRegion(p))
  BY <1>3, CursorKeepsLines, Zenon DEF ResetScrollRegion
<1>5. InOrder(ResetScrollRegion(p))
  BY <1>2, <1>3, <1>4, SameLinesInOrder
<1>6. p.scrollback = k.scrollback
  BY Zenon DEF p, Padded, GridsAt
<1>7. ResetScrollRegion(p).scrollback = k.scrollback
  BY <1>4, <1>6, Zenon DEF SameLines
<1>. QED
  BY <1>5, <1>7 DEF p

\* Ascending lines pushed on a history that is older than all of them.
LEMMA LinesPushedAscend ==
    ASSUME NEW n \in Nat, NEW sb \in StoresBelow(n), NEW lines \in Seq(LineBelow(n)),
           LinesAscend(sb.lines), LinesAscend(lines),
           \A i \in 1 .. Len(lines), j \in 1 .. Len(sb.lines) : sb.lines[j].id < lines[i].id
    PROVE  /\ LinesAscend(FoldLeft(Pushed, sb, lines).lines)
           /\ \A f \in Nat : (\A i \in 1 .. Len(lines) : f <= lines[i].id)
                               => Slid(sb, FoldLeft(Pushed, sb, lines), f)
<1>. DEFINE count == Len(lines)
            Older(s, k) == /\ LinesAscend(s.lines)
                           /\ \A i \in k + 1 .. count, j \in 1 .. Len(s.lines) : s.lines[j].id < lines[i].id
            Follows(s) == \A f \in Nat : (\A i \in 1 .. count : f <= lines[i].id) => Slid(sb, s, f)
            Inv == [k \in 0 .. count |-> {s \in StoresBelow(n) : Older(s, k) /\ Follows(s)}]
            h == FoldLeft(Pushed, sb, lines)
<1>1. count \in Nat /\ DOMAIN lines = 1 .. count /\ \A k \in 1 .. count : lines[k] \in LineBelow(n)
  OBVIOUS
<1>2. ASSUME NEW k \in 0 .. count - 1, NEW s \in Inv[k]
      PROVE  PushLine(0, 0, s, lines[k + 1]) \in Inv[k + 1]
  <2>1. k \in 0 .. count /\ k + 1 \in 0 .. count /\ k + 1 \in 1 .. count /\ k + 1 \in k + 1 .. count
        /\ \A i \in (k + 1) + 1 .. count : i \in k + 1 .. count /\ i \in 1 .. count /\ k + 1 < i
    BY <1>1
  <2>2. s \in StoresBelow(n) /\ Older(s, k) /\ Follows(s)
    BY <2>1
  <2>. DEFINE line == lines[k + 1]
              t == Pushed(s, line)
              new == t.lines
  <2>3. line \in LineBelow(n) /\ LinesAscend(s.lines) /\ \A j \in 1 .. Len(s.lines) : s.lines[j].id < line.id
    BY <1>1, <2>1, <2>2
  <2>4. t \in StoresBelow(n)
    BY <2>2, <2>3, PushedType
  <2>5. /\ LinesAscend(new)
        /\ \A i \in 1 .. Len(new) : new[i].id = line.id \/ \E j \in 1 .. Len(s.lines) : new[i].id = s.lines[j].id
    <3>. HIDE DEF line
    <3>. QED
      BY <2>2, <2>3, PushAscends
  <2>6. \A i \in (k + 1) + 1 .. count : line.id < lines[i].id
    BY <2>1 DEF LinesAscend
  <2>. HIDE DEF line, t
  <2>7. Older(t, k + 1)
    BY <2>1, <2>2, <2>5, <2>6
  <2>8. Follows(t)
    <3>1. ASSUME NEW f \in Nat, \A i \in 1 .. count : f <= lines[i].id PROVE Slid(sb, t, f)
      <4>1. sb \in Stores
        BY DEF Stores
      <4>2. Slid(sb, s, f)
        BY <2>2, <3>1
      <4>3. f <= line.id
        BY <2>1, <3>1, Zenon DEF line
      <4>4. Slid(sb, Pushed(s, line), f)
        BY ONLY <2>2, <2>3, <4>1, <4>2, <4>3, n \in Nat, f \in Nat, PushSlides, Zenon
      <4>. QED
        BY <4>4 DEF t
    <3>. QED
      BY <3>1
  <2>. QED
    BY <2>1, <2>4, <2>7, <2>8 DEF PushLine, t, line
<1>3. sb \in Inv[0]
  <2>1. \A i \in 0 + 1 .. count : i \in 1 .. count
    BY <1>1
  <2>2. Older(sb, 0)
    BY <2>1
  <2>3. Follows(sb)
    <3>1. sb \in Stores
      BY DEF Stores
    <3>. QED
      BY <3>1, NothingSlid
  <2>. QED
    BY <1>1, <2>2, <2>3
<1>4. h = Pushing!FoldOf(0, 0, sb, lines)
  BY Zenon DEF Pushing!FoldOf, PushLine, FoldLeft, MapThenFoldSet, Max,
               Pushing!MapThenFoldSet, Pushing!Greatest
<1>. HIDE DEF Inv, h
<1>5. Pushing!FoldOf(0, 0, sb, lines) \in Inv[count]
  BY ONLY <1>1, <1>2, <1>3, Pushing!FoldAlong, Zenon
<1>6. h \in Inv[count] /\ count \in 0 .. count
  BY <1>1, <1>4, <1>5
<1>. QED
  BY <1>6 DEF Inv, h

\* No rows, whatever is frozen.
LEMMA NoRowsInOrder ==
    ASSUME NEW g, g.rows = << >>, g.pending = NoLine, LinesAscend(g.scrollback.lines)
    PROVE  InOrder(g)
<1>1. PICK rows : rows = g.rows
  OBVIOUS
<1>2. Len(rows) = 0
  <2>1. rows = << >>
    BY <1>1
  <2>. QED
    BY <2>1
<1>3. (\A r \in 1 .. Len(rows) : FALSE) /\ (\A r \in 0 + 1 .. Len(rows) : FALSE)
  BY <1>2
<1>4. RowsInOrder(rows)
  BY <1>3, Zenon DEF RowsInOrder
<1>5. FrozenUpTo(g.scrollback.lines, g.pending, rows, 0)
  BY <1>3, Zenon DEF FrozenUpTo
<1>. QED
  BY <1>1, <1>4, <1>5, Zenon DEF InOrder

\* From `g` to `h` the history slides, with lines that were in the rows of `g`.
HistoryGrows(g, h) ==
    \A f \in Nat : (\A r \in 1 .. Len(g.rows) : f <= g.rows[r].id) => Slid(g.scrollback, h.scrollback, f)

\* All lines are history, blank rows come in.
LEMMA EmptyInOrder ==
    ASSUME NEW n \in Nat, NEW g \in GridsAt(n), NEW size \in Sizes, InOrder(g)
    PROVE  InOrder(ResizedToEmpty(g, size)) /\ HistoryGrows(g, ResizedToEmpty(g, size))
<1>. DEFINE taken == LinesTaken(g, size)
            store == FoldLeft(Pushed, taken.scrollback, ActiveLines(g))
            none == << >>
            at == At(0, 0)
            k == [taken EXCEPT !.rows = none, !.cursor = at, !.scrollback = store]
<1>1. taken \in GridsAt(n) /\ taken.size = size /\ taken.scrollback \in StoresBelow(n)
      /\ taken.scrollback = g.scrollback /\ taken.pending = NoLine
  <2>1. taken \in GridsAt(n) /\ taken.size = size /\ taken.scrollback = g.scrollback
    BY LinesTakenType
  <2>2. taken.pending = NoLine
    BY DEF LinesTaken, GridsAt
  <2>. QED
    BY <2>1, <2>2, GridParts
<1>2. store \in StoresBelow(n) /\ LinesAscend(store.lines)
      /\ \A f \in Nat : (\A r \in 1 .. Len(g.rows) : f <= g.rows[r].id) => Slid(g.scrollback, store, f)
  <2>. DEFINE lines == ActiveLines(g)
  <2>1. lines \in Seq(LineBelow(n))
    BY ActiveLinesType
  <2>2. LinesAscend(lines) /\ (\A i \in 1 .. Len(lines), j \in 1 .. Len(g.scrollback.lines) :
                                   g.scrollback.lines[j].id < lines[i].id)
        /\ \A i \in 1 .. Len(lines) : \E r \in 1 .. Len(g.rows) : lines[i].id = g.rows[r].id
    BY ActiveLinesAscend, Zenon
  <2>3. LinesAscend(g.scrollback.lines)
    BY DEF InOrder, FrozenUpTo
  <2>. HIDE DEF lines
  <2>4. g.scrollback \in StoresBelow(n)
    BY <1>1
  <2>5. FoldLeft(Pushed, g.scrollback, lines) \in StoresBelow(n)
        /\ LinesAscend(FoldLeft(Pushed, g.scrollback, lines).lines)
        /\ \A f \in Nat : (\A i \in 1 .. Len(lines) : f <= lines[i].id)
                            => Slid(g.scrollback, FoldLeft(Pushed, g.scrollback, lines), f)
    BY <2>1, <2>2, <2>3, <2>4, LinesPushed, LinesPushedAscend
  <2>6. PICK pushed : pushed = FoldLeft(Pushed, g.scrollback, lines)
    OBVIOUS
  <2>7. ASSUME NEW f \in Nat, \A r \in 1 .. Len(g.rows) : f <= g.rows[r].id PROVE Slid(g.scrollback, pushed, f)
    <3>1. \A i \in 1 .. Len(lines) : f <= lines[i].id
      BY <2>2, <2>7, Zenon
    <3>. QED
      BY <2>5, <2>6, <3>1, Zenon
  <2>8. store = pushed
    BY <1>1, <2>6 DEF lines
  <2>. QED
    BY <2>5, <2>6, <2>7, <2>8
<1>3. ResizedToEmpty(g, size) = ResetScrollRegion(Padded(k))
  BY Zenon DEF ResizedToEmpty
<1>4. none \in RowsBelow(n) /\ Len(none) = 0
  BY DEF RowsBelow
<1>5. at \in Cursors
  BY DEF At, Cursors
<1>. HIDE DEF taken, store, at, none
<1>6. k \in GridsAt(n) /\ k.size = size /\ k.rows = none /\ k.pending = NoLine /\ k.scrollback = store
  BY <1>1, <1>2, <1>4, <1>5, Zenon DEF GridsAt
<1>. HIDE DEF k
<1>7. InOrder(k)
  BY <1>2, <1>6, NoRowsInOrder DEF none
<1>8. Len(k.rows) <= k.size.rows
  BY <1>4, <1>6 DEF Sizes
<1>9. InOrder(ResizedToEmpty(g, size)) /\ ResizedToEmpty(g, size).scrollback = store
  BY <1>3, <1>6, <1>7, <1>8, LaidOutBelow
<1>. QED
  BY <1>2, <1>9, Zenon DEF HistoryGrows

\* The lines laid out at the new width, the rows above the screen frozen.
LEMMA ReflowInOrder ==
    ASSUME NEW n \in Nat, NEW g \in GridsAt(n), NEW size \in Sizes, ~Empty(size), AnchorAligned(g), InOrder(g)
    PROVE  InOrder(Reflowed(g, size)) /\ HistoryGrows(g, Reflowed(g, size))
<1>. DEFINE lines    == ActiveLines(g)
            parts    == [i \in DOMAIN lines |-> ReflowedRows(lines[i], size.cols)]
            flat     == FlattenSeq(parts)
            overflow == Minus(Len(flat), size.rows)
            gone     == SubSeq(flat, 1, overflow)
            rows     == SubSeq(flat, overflow + 1, Len(flat))
            taken    == LinesTaken(g, size)
            frozen   == FoldLeft(FreezeRow, taken, gone)
            cursor   == RestingPlace(g, size, overflow)
            k        == [frozen EXCEPT !.rows = rows, !.cursor = cursor]
<1>1. size.rows \in Nat /\ size.cols \in Nat
  BY DEF Sizes
<1>2. Reflowed(g, size) = ResetScrollRegion(Padded(k))
  BY Zenon DEF Reflowed, RestingPlace, LastWithId
<1>3. lines \in Seq(LineBelow(n)) /\ LinesAscend(lines) /\ DOMAIN lines = 1 .. Len(lines)
      /\ (\A i \in 1 .. Len(lines), j \in 1 .. Len(g.scrollback.lines) : g.scrollback.lines[j].id < lines[i].id)
      /\ \A i \in 1 .. Len(lines) : \E r \in 1 .. Len(g.rows) : lines[i].id = g.rows[r].id
  <2>1. lines \in Seq(LineBelow(n))
    BY ActiveLinesType
  <2>2. LinesAscend(lines) /\ (\A i \in 1 .. Len(lines), j \in 1 .. Len(g.scrollback.lines) :
                                   g.scrollback.lines[j].id < lines[i].id)
        /\ \A i \in 1 .. Len(lines) : \E r \in 1 .. Len(g.rows) : lines[i].id = g.rows[r].id
    BY ActiveLinesAscend, Zenon
  <2>. HIDE DEF lines
  <2>3. DOMAIN lines = 1 .. Len(lines)
    BY ONLY <2>1
  <2>. QED
    BY <2>1, <2>2, <2>3, Zenon
<1>. HIDE DEF lines
<1>4. RowsOfLines(n, flat, lines, Len(lines))
  BY <1>1, <1>3, LaidOutInOrder, Zenon
<1>. HIDE DEF flat, cursor
<1>5. flat \in RowsBelow(n) /\ RowsInOrder(flat) /\ flat \in Seq(RowBelow(n)) /\ Len(flat) \in Nat
      /\ \A r \in 1 .. Len(flat) : \E i \in 1 .. Len(lines) : flat[r].id = lines[i].id
  BY <1>4 DEF RowsOfLines, RowsBelow
<1>6. overflow \in 0 .. Len(flat) /\ Len(flat) - overflow <= size.rows
  BY <1>1, <1>5 DEF Minus
<1>. HIDE DEF overflow
<1>7. taken \in GridsAt(n) /\ taken.size = size /\ taken.scrollback = g.scrollback /\ taken.pending = NoLine
  <2>1. taken \in GridsAt(n) /\ taken.size = size /\ taken.scrollback = g.scrollback
    BY LinesTakenType
  <2>2. taken.pending = NoLine
    BY DEF LinesTaken, GridsAt
  <2>. QED
    BY <2>1, <2>2
<1>. HIDE DEF taken
<1>8. FrozenUpTo(taken.scrollback.lines, taken.pending, flat, 0)
  <2>1. LinesAscend(g.scrollback.lines)
    BY DEF InOrder, FrozenUpTo
  <2>2. \A r \in 0 + 1 .. Len(flat) : r \in 1 .. Len(flat)
    BY <1>5
  <2>. QED
    BY <1>3, <1>5, <1>7, <2>1, <2>2 DEF FrozenUpTo
<1>9. FrozenUpTo(frozen.scrollback.lines, frozen.pending, flat, overflow) /\ SlidesFrom(flat, taken, frozen)
  BY <1>5, <1>6, <1>7, <1>8, FrozenInOrder, Zenon
<1>10. frozen \in GridsAt(n) /\ frozen.size = size
  <2>1. gone \in Seq(RowBelow(n))
    BY <1>5, <1>6
  <2>. HIDE DEF gone
  <2>2. FoldLeft(FreezeRow, taken, gone) \in GridsAt(n) /\ FoldLeft(FreezeRow, taken, gone).size = taken.size
    BY <1>7, <2>1, RowsFrozen
  <2>. QED
    BY <1>7, <2>2
<1>11. rows \in RowsBelow(n) /\ Len(rows) = Len(flat) - overflow
       /\ \A r \in 1 .. Len(rows) : rows[r] = flat[overflow + r]
  <2>1. overflow + 1 \in Int /\ Len(flat) \in Int /\ \A i \in overflow + 1 .. Len(flat) : flat[i] \in RowBelow(n)
    BY <1>5, <1>6
  <2>2. /\ rows \in Seq(RowBelow(n))
        /\ Len(rows) = IF overflow + 1 <= Len(flat) THEN Len(flat) - (overflow + 1) + 1 ELSE 0
        /\ \A i \in 1 .. Len(flat) - (overflow + 1) + 1 : rows[i] = flat[(overflow + 1) + i - 1]
    BY <2>1, SubSeqProperties
  <2>3. PICK count, o : count = Len(flat) /\ o = overflow /\ count \in Nat /\ o \in 0 .. count
    BY <1>5, <1>6
  <2>4. /\ (IF o + 1 <= count THEN count - (o + 1) + 1 ELSE 0) = count - o /\ count - (o + 1) + 1 = count - o
        /\ \A i \in Int : (o + 1) + i - 1 = o + i
    BY ONLY <2>3
  <2>. HIDE DEF rows
  <2>5. Len(rows) = Len(flat) - overflow /\ \A i \in 1 .. Len(rows) : rows[i] = flat[(overflow + 1) + i - 1]
    BY <2>2, <2>3, <2>4
  <2>6. ASSUME NEW i \in 1 .. Len(rows) PROVE rows[i] = flat[overflow + i]
    <3>1. PICK a, b : a = (overflow + 1) + i - 1 /\ b = overflow + i
      OBVIOUS
    <3>2. a = b
      BY <2>3, <3>1
    <3>3. rows[i] = flat[a]
      BY <2>5, <3>1
    <3>. QED
      BY <3>1, <3>2, <3>3, Zenon
  <2>. QED
    BY <2>2, <2>5, <2>6 DEF RowsBelow
<1>. HIDE DEF rows, frozen
<1>12. RowsInOrder(rows) /\ FrozenUpTo(frozen.scrollback.lines, frozen.pending, rows, 0)
  <2>1. \A r \in 1 .. Len(rows) : rows[r].id = flat[overflow + r].id
                                  /\ rows[r].wrapped = flat[overflow + r].wrapped
    BY <1>11
  <2>. QED
    BY <1>5, <1>6, <1>9, <1>11, <2>1, RowsLeft, Zenon
<1>13. k \in GridsAt(n) /\ k.size = size /\ k.rows = rows /\ k.pending = frozen.pending
       /\ k.scrollback = frozen.scrollback
  <2>1. overflow \in Nat
    BY <1>5, <1>6
  <2>2. cursor \in Cursors
    BY <2>1, CursorPlaced DEF cursor
  <2>. QED
    BY <1>10, <1>11, <2>2, Zenon DEF GridsAt
<1>. HIDE DEF k
<1>14. InOrder(k) /\ Len(k.rows) <= k.size.rows
  BY <1>6, <1>11, <1>12, <1>13, Zenon DEF InOrder
<1>15. InOrder(Reflowed(g, size)) /\ Reflowed(g, size).scrollback = frozen.scrollback
  BY <1>2, <1>13, <1>14, LaidOutBelow
<1>16. ASSUME NEW f \in Nat, \A r \in 1 .. Len(g.rows) : f <= g.rows[r].id
       PROVE  Slid(g.scrollback, frozen.scrollback, f)
  <2>1. \A r \in 1 .. Len(flat) : f <= flat[r].id
    <3>1. \A i \in 1 .. Len(lines) : f <= lines[i].id
      BY <1>3, <1>16, Zenon
    <3>. QED
      BY <1>5, <3>1, Zenon
  <2>2. g.scrollback \in Stores
    BY GridParts, Zenon DEF Stores
  <2>3. Slid(g.scrollback, taken.scrollback, f)
    BY <1>7, <2>2, NothingSlid, Zenon
  <2>. QED
    BY <1>9, <2>1, <2>2, <2>3, Zenon DEF SlidesFrom
<1>. QED
  BY <1>15, <1>16, Zenon DEF HistoryGrows

\* A resize of the primary screen keeps the order, whether or not it panics.
LEMMA ResizedInOrder ==
    ASSUME NEW g \in Grids, NEW size \in Sizes, InOrder(g)
    PROVE  InOrder(PrimaryResized(g, size)) /\ HistoryGrows(g, PrimaryResized(g, size))
<1>1. PICK n \in Nat : g \in GridsAt(n)
  BY DEF Grids
<1>2. CASE Empty(size)
  <2>1. PrimaryResized(g, size) = ResizedToEmpty(g, size)
    BY <1>2, Zenon DEF PrimaryResized
  <2>. QED
    BY <1>1, <2>1, EmptyInOrder
<1>3. CASE ~Empty(size) /\ AnchorAligned(g)
  <2>1. PrimaryResized(g, size) = Reflowed(g, size)
    BY <1>3, Zenon DEF PrimaryResized
  <2>. QED
    BY <1>1, <1>3, <2>1, ReflowInOrder
<1>4. CASE ~Empty(size) /\ ~AnchorAligned(g)
  <2>1. PrimaryResized(g, size) = LinesTaken(g, size)
    BY <1>4, Zenon DEF PrimaryResized
  <2>2. PICK h : h = LinesTaken(g, size)
    OBVIOUS
  <2>3. h.rows = g.rows /\ h.scrollback = g.scrollback /\ h.pending = NoLine
    BY <1>1, <2>2 DEF LinesTaken, GridsAt
  <2>4. InOrder(h)
    BY <2>3, Zenon DEF InOrder, FrozenUpTo
  <2>5. HistoryGrows(g, h)
    <3>1. g.scrollback \in Stores
      BY <1>1, GridParts, Zenon DEF Stores
    <3>. QED
      BY <2>3, <3>1, NothingSlid, Zenon DEF HistoryGrows
  <2>. QED
    BY <2>1, <2>2, <2>4, <2>5
<1>. QED
  BY <1>2, <1>3, <1>4

-----------------------------------------------------------------------------
(* The order as an invariant. *)

\* What the order of the primary screen is about.
LEMMA PrimaryLines ==
    ASSUME ScreenInv
    PROVE  /\ PrimaryGrid \in Grids /\ PrimaryGrid \in GridsAt(grid.next)
           /\ PrimaryGrid.rows = Primary(grid, stash).rows
           /\ PrimaryGrid.pending = Primary(grid, stash).pending
           /\ PrimaryGrid.scrollback = grid.scrollback
<1>1. CASE IsAlternate
  <2>1. PICK b : b = stash[1] /\ b \in BuffersBelow(grid.next)
    BY <1>1, StashType
  <2>2. PICK h : h = Show(grid, b)
    OBVIOUS
  <2>3. PrimaryGrid = h /\ Primary(grid, stash) = b
    BY <1>1, <2>1, <2>2 DEF PrimaryGrid, Primary, IsAlternate
  <2>4. h \in GridsAt(grid.next) /\ h.scrollback = grid.scrollback /\ Buffer(h) = b /\ grid.next \in Nat
    BY <2>1, <2>2, InvGrid, ShowType
  <2>5. h.rows = b.rows /\ h.pending = b.pending
    BY <2>4 DEF Buffer
  <2>. QED
    BY <2>3, <2>4, <2>5 DEF Grids
<1>2. CASE ~IsAlternate
  BY <1>2, InvGrid DEF PrimaryGrid, Primary, IsAlternate, Buffer
<1>. QED
  BY <1>1, <1>2

\* The order is one of rows, head and history.
LEMMA PartsInOrder ==
    ASSUME NEW g, NEW h, InOrder(g), h.rows = g.rows, h.pending = g.pending, h.scrollback = g.scrollback
    PROVE  InOrder(h)
  BY Zenon DEF InOrder

\* The primary screen stays in order in a step, and its history slides.
StaysInOrder == InOrder(PrimaryGrid') /\ HistoryGrows(PrimaryGrid, PrimaryGrid')

\* An orderly edit lets the history slide.
LEMMA OrderlyGrows ==
    ASSUME NEW g \in Grids, NEW h \in Orderly(g), InOrder(g)
    PROVE  HistoryGrows(g, h)
<1>1. g.scrollback \in Stores
  <2>1. PICK n \in Nat : g \in GridsAt(n)
    BY DEF Grids
  <2>. QED
    BY <2>1, GridParts, Zenon DEF Stores
<1>2. Slides(g, h)
  BY DEF Orderly
<1>3. ASSUME NEW f \in Nat, \A r \in 1 .. Len(g.rows) : f <= g.rows[r].id PROVE Slid(g.scrollback, h.scrollback, f)
  <2>1. SlidOn(g.scrollback, f, g)
    BY <1>1, <1>3, NothingSlid, Zenon DEF SlidOn
  <2>. QED
    BY <1>1, <1>2, <2>1, Zenon DEF Slides, SlidOn
<1>. QED
  BY <1>3, Zenon DEF HistoryGrows

\* A step that leaves the primary buffer and the history alone keeps the order.
LEMMA PrimaryLeftInOrder ==
    ASSUME ScreenInv, ScreenInv', InOrder(PrimaryGrid),
           Primary(grid', stash') = Primary(grid, stash), grid'.scrollback = grid.scrollback
    PROVE  StaysInOrder
<1>1. PICK g, h : g = PrimaryGrid /\ h = PrimaryGrid'
  OBVIOUS
<1>2. /\ g.rows = Primary(grid, stash).rows /\ g.pending = Primary(grid, stash).pending
      /\ g.scrollback = grid.scrollback
  BY <1>1, PrimaryLines
<1>3. (/\ PrimaryGrid.rows = Primary(grid, stash).rows /\ PrimaryGrid.pending = Primary(grid, stash).pending
       /\ PrimaryGrid.scrollback = grid.scrollback)'
  BY PrimaryLines, PTL
<1>4. h.rows = g.rows /\ h.pending = g.pending /\ h.scrollback = g.scrollback
  BY <1>1, <1>2, <1>3
<1>5. HistoryGrows(g, h)
  <2>1. g \in GridsAt(grid.next) /\ grid.next \in Nat
    BY <1>1, PrimaryLines, InvGrid
  <2>2. g.scrollback \in Stores
    BY <2>1, GridParts, Zenon DEF Stores
  <2>. QED
    BY <1>4, <2>2, NothingSlid, Zenon DEF HistoryGrows
<1>. QED
  BY <1>1, <1>4, <1>5, PartsInOrder DEF StaysInOrder

\* An orderly edit of the primary screen keeps the order.
LEMMA OrderlyStep ==
    ASSUME ScreenInv, ~IsAlternate, InOrder(PrimaryGrid), NEW h \in Orderly(grid), grid' = h, stash' = stash
    PROVE  StaysInOrder
<1>1. PrimaryGrid = grid /\ PrimaryGrid' = h
  BY DEF PrimaryGrid, IsAlternate
<1>2. grid \in Grids
  BY InvGrid
<1>3. InOrder(h) /\ HistoryGrows(grid, h)
  BY <1>1, <1>2, OrderlyGrows, Zenon DEF Orderly
<1>. QED
  BY <1>1, <1>3 DEF StaysInOrder

\* As a command that does nothing else.
LEMMA OrderlyCommand ==
    ASSUME ScreenInv, ~IsAlternate, InOrder(PrimaryGrid), NEW command, NEW h \in Orderly(grid), Edit(command, h)
    PROVE  StaysInOrder
  BY OrderlyStep DEF Edit

\* Printing keeps the order, but where a wrap disorders.
LEMMA PrintTextInOrder ==
    ASSUME ScreenInv, ~IsAlternate, InOrder(PrimaryGrid), PrintText, ~Disorders
    PROVE  StaysInOrder
<1>1. PICK content \in program.prints : grid' = PrintOne(grid, content) /\ stash' = stash
  BY Zenon DEF PrintText
<1>2. content \in {"a", "W", "+"}
  BY InvProgram
<1>3. pen \in Styles /\ autowrap \in BOOLEAN /\ grid \in Grids
  BY InvGrid DEF ScreenInv
<1>4. ASSUME autowrap /\ GoesOn(grid, content) PROVE WrapKeepsOrder(grid)
  <2>1. Wraps
    BY <1>1, <1>4, Zenon DEF Wraps, GoesOn
  <2>2. ~ScrollsWithin /\ ~WrapsOver
    BY Zenon DEF Disorders
  <2>3. grid.cursor.row = grid.bottom \/ grid.cursor.row + 1 = Len(grid.rows) => RegionIsWholeScreen(grid)
    BY <2>1, <2>2, Zenon DEF ScrollsWithin
  <2>4. grid.cursor.row \in Nat /\ grid.rows \in RowsBelow(grid.next) /\ Len(grid.rows) \in Nat
        /\ DOMAIN grid.rows = 1 .. Len(grid.rows)
    BY InvGrid, GridParts, RowIds
  <2>5. grid.cursor.row + 1 < Len(grid.rows) =>
            grid.cursor.row + 1 \in DOMAIN grid.rows /\ grid.cursor.row + 2 \in DOMAIN grid.rows
    BY <2>4
  <2>6. grid.cursor.row + 1 < Len(grid.rows) =>
            ~(grid.rows[grid.cursor.row + 1].wrapped /\ grid.rows[grid.cursor.row + 2].wrapped)
    BY <2>1, <2>2, <2>5, Zenon DEF WrapsOver
  <2>. QED
    BY <2>3, <2>6, Zenon DEF WrapKeepsOrder
<1>5. PrintOne(grid, content) \in Orderly(grid)
  BY <1>2, <1>3, <1>4, PrintOrderly
<1>. QED
  BY <1>1, <1>5, OrderlyStep

\* Moving the cursor keeps the order, but for a scroll within margins and a row
\* opened at the top.
LEMMA CursorInOrder ==
    ASSUME ScreenInv, ~IsAlternate, InOrder(PrimaryGrid), ~Disorders,
           \/ CarriageReturns \/ LineFeeds \/ NextLine \/ ReverseIndexes
           \/ CursorUp \/ CursorDown \/ CursorForward \/ CursorBack \/ Tab \/ CursorPosition
    PROVE  StaysInOrder
<1>. USE InvGrid
<1>1. CASE CarriageReturns
  BY <1>1, CursorOrderly, OrderlyCommand DEF CarriageReturns
<1>2. ASSUME LineFeeds \/ NextLine PROVE LineFeed(grid) \in Orderly(grid)
  <2>1. grid.cursor.row = grid.bottom => RegionIsWholeScreen(grid)
    BY <1>2, Zenon DEF Disorders, ScrollsWithin
  <2>. QED
    BY <2>1, LineFeedOrderly
<1>3. CASE LineFeeds
  BY <1>2, <1>3, OrderlyCommand DEF LineFeeds
<1>4. CASE NextLine
  <2>1. PICK h : h = LineFeed(grid)
    OBVIOUS
  <2>2. h \in Orderly(grid) /\ h \in Grids
    BY <1>2, <1>4, <2>1, OrderlyCompose
  <2>3. CarriageReturn(h) \in Orderly(grid)
    BY <2>2, CursorOrderly, OrderlyCompose
  <2>. QED
    BY <1>4, <2>1, <2>3, OrderlyCommand DEF NextLine
<1>5. CASE ReverseIndexes
  <2>1. grid.cursor.row # grid.top
    BY <1>5, Zenon DEF Disorders, OpensRows
  <2>2. ReverseIndex(grid) \in Orderly(grid)
    BY <2>1, LineFeedOrderly
  <2>. QED
    BY <1>5, <2>2, OrderlyCommand DEF ReverseIndexes
<1>6. ASSUME NEW command, NEW row \in Nat, NEW col \in Nat, Edit(command, CursorTo(grid, row, col))
      PROVE  StaysInOrder
  BY <1>6, CursorOrderly, OrderlyCommand
<1>7. CASE CursorUp
  <2>1. PICK n \in program.counts : Edit("CUU", CursorTo(grid, Minus(grid.cursor.row, n), grid.cursor.col))
    BY <1>7 DEF CursorUp
  <2>2. n \in Nat
    BY InvProgram
  <2>3. Minus(grid.cursor.row, n) \in Nat
    BY <2>2 DEF Minus
  <2>. QED
    BY <1>6, <2>1, <2>3
<1>8. CASE CursorDown
  <2>1. PICK n \in program.counts : Edit("CUD", CursorTo(grid, grid.cursor.row + n, grid.cursor.col))
    BY <1>8 DEF CursorDown
  <2>2. n \in Nat
    BY InvProgram
  <2>3. grid.cursor.row + n \in Nat
    BY <2>2
  <2>. QED
    BY <1>6, <2>1, <2>3
<1>9. CASE CursorForward
  <2>1. PICK n \in program.counts : Edit("CUF", CursorTo(grid, grid.cursor.row, grid.cursor.col + n))
    BY <1>9 DEF CursorForward
  <2>2. n \in Nat
    BY InvProgram
  <2>3. grid.cursor.col + n \in Nat
    BY <2>2
  <2>. QED
    BY <1>6, <2>1, <2>3
<1>10. CASE CursorBack
  <2>1. PICK n \in program.counts : Edit("CUB", CursorTo(grid, grid.cursor.row, Minus(grid.cursor.col, n)))
    BY <1>10 DEF CursorBack
  <2>2. n \in Nat
    BY InvProgram
  <2>3. Minus(grid.cursor.col, n) \in Nat
    BY <2>2 DEF Minus
  <2>. QED
    BY <1>6, <2>1, <2>3
<1>11. CASE Tab
  <2>1. (grid.cursor.col \div 8 + 1) * 8 \in Nat
    OBVIOUS
  <2>. QED
    BY <1>6, <1>11, <2>1 DEF Tab
<1>12. CASE CursorPosition
  <2>1. PICK row \in 0 .. grid.size.rows, col \in 0 .. grid.size.cols : Edit("CUP", CursorTo(grid, row, col))
    BY <1>12 DEF CursorPosition
  <2>. QED
    BY <1>6, <2>1
<1>. QED
  BY <1>1, <1>3, <1>4, <1>5, <1>7, <1>8, <1>9, <1>10, <1>11, <1>12

\* Changing cells keeps the order.
LEMMA CellsInOrder ==
    ASSUME ScreenInv, ~IsAlternate, InOrder(PrimaryGrid),
           InsertChars \/ DeleteChars \/ EraseChars \/ ErasesInLine \/ ErasesInDisplay
    PROVE  StaysInOrder
<1>. USE InvGrid
<1>0. pen \in Styles /\ EraseCell \in Cells
  BY EraseCellType DEF ScreenInv
<1>1. CASE InsertChars
  <2>1. PICK n \in program.counts : Edit("ICH", ShiftCells(grid, n))
    BY <1>1 DEF InsertChars
  <2>2. n \in Int
    BY InvProgram
  <2>. QED
    BY <1>0, <2>1, <2>2, WritingOrderly, OrderlyCommand
<1>2. CASE DeleteChars
  <2>1. PICK n \in program.counts : Edit("DCH", ShiftCells(grid, -n))
    BY <1>2 DEF DeleteChars
  <2>2. n \in Nat
    BY InvProgram
  <2>3. -n \in Int
    BY <2>2
  <2>. QED
    BY <1>0, <2>1, <2>3, WritingOrderly, OrderlyCommand
<1>3. CASE EraseChars
  <2>1. PICK n \in program.counts :
          Edit("ECH", FillRow(grid, grid.cursor.row, grid.cursor.col, grid.cursor.col + n, EraseCell))
    BY <1>3 DEF EraseChars
  <2>. QED
    BY <1>0, <2>1, WritingOrderly, OrderlyCommand
<1>4. CASE ErasesInLine
  <2>1. PICK mode \in EraseModes : Edit("EL", EraseInLine(grid, mode, EraseCell))
    BY <1>4 DEF ErasesInLine
  <2>. QED
    BY <1>0, <2>1, ErasingOrderly, OrderlyCommand
<1>5. CASE ErasesInDisplay
  <2>1. PICK mode \in EraseModes : Edit("ED", EraseInDisplay(grid, mode, EraseCell))
    BY <1>5 DEF ErasesInDisplay
  <2>. QED
    BY <1>0, <2>1, ErasingOrderly, OrderlyCommand
<1>. QED
  BY <1>1, <1>2, <1>3, <1>4, <1>5

\* The commands that leave the screen alone, DECRC and DECSTBM keep the order.
LEMMA ModesInOrder ==
    ASSUME ScreenInv, ~IsAlternate, InOrder(PrimaryGrid),
           SelectPen \/ SetAutowrap \/ SaveCursor \/ RestoreCursor \/ SetScrollRegion
    PROVE  StaysInOrder
<1>. USE InvGrid
<1>1. CASE SelectPen \/ SetAutowrap \/ SaveCursor
  <2>1. grid' = grid /\ stash' = stash
    BY <1>1 DEF SelectPen, SetAutowrap, SaveCursor
  <2>. QED
    BY <2>1, OrderlyStep, OrderlyCompose
<1>2. CASE RestoreCursor
  <2>. DEFINE s == IF saved = << >> THEN [row |-> 0, col |-> 0, wrap |-> FALSE, pen |-> "plain"] ELSE saved[1]
              g == CursorTo(grid, s.row, s.col)
  <2>1. grid' = (IF s.wrap THEN ArmWrap(g) ELSE g) /\ stash' = stash
    BY <1>2, Zenon DEF RestoreCursor
  <2>2. s.row \in Nat /\ s.col \in Nat
    <3>1. CASE saved = << >>
      <4>1. s = [row |-> 0, col |-> 0, wrap |-> FALSE, pen |-> "plain"]
        BY <3>1, Zenon
      <4>. QED
        BY <4>1
    <3>2. CASE saved # << >>
      <4>1. saved[1] \in SavedCursors
        BY <3>2 DEF ScreenInv
      <4>2. s = saved[1]
        BY <3>2, Zenon
      <4>. QED
        BY <4>1, <4>2 DEF SavedCursors
    <3>. QED
      BY <3>1, <3>2
  <2>. HIDE DEF s
  <2>3. g \in Orderly(grid)
    BY <2>2, CursorOrderly, Zenon
  <2>. HIDE DEF g
  <2>. g \in Grids
    BY <2>3, OrderlyCompose
  <2>4. ArmWrap(g) \in Orderly(grid)
    BY <2>3, CursorOrderly, OrderlyCompose
  <2>5. grid' \in Orderly(grid)
    BY <2>1, <2>3, <2>4, Zenon
  <2>. QED
    BY <2>1, <2>5, OrderlyStep
<1>3. CASE SetScrollRegion
  <2>1. PICK top, last : /\ top \in Nat /\ last \in Nat /\ top < last /\ last <= Minus(grid.size.rows, 1)
                         /\ Edit("DECSTBM", MoveTo([grid EXCEPT !.top = top, !.bottom = last], 0, 0))
    <3>1. PICK top \in 0 .. grid.size.rows, bottom \in 0 .. grid.size.rows :
            LET last == Less(bottom, Minus(grid.size.rows, 1)) IN
            top < last /\ Edit("DECSTBM", MoveTo([grid EXCEPT !.top = top, !.bottom = last], 0, 0))
      BY <1>3, Zenon DEF SetScrollRegion
    <3>2. PICK last : last = Less(bottom, Minus(grid.size.rows, 1))
      OBVIOUS
    <3>3. last \in Nat /\ last <= Minus(grid.size.rows, 1) /\ top \in Nat
      BY <3>2 DEF Less, Minus
    <3>4. top < last /\ Edit("DECSTBM", MoveTo([grid EXCEPT !.top = top, !.bottom = last], 0, 0))
      BY <3>1, <3>2, Zenon
    <3>. QED
      BY <3>3, <3>4, Zenon
  <2>2. PICK g : g = [grid EXCEPT !.top = top, !.bottom = last]
    OBVIOUS
  <2>3. /\ g \in GridsAt(grid.next) /\ g.size = grid.size /\ g.scrollback = grid.scrollback
        /\ g.pending = grid.pending /\ g.rows = grid.rows /\ g.cursor = grid.cursor
        /\ g.top = top /\ g.bottom = last
    BY <2>1, <2>2, Zenon DEF GridsAt
  <2>4. g \in After(grid)
    <3>1. Shaped(grid) => Shaped(g)
      BY <2>1, <2>3 DEF Shaped, Margins
    <3>. QED
      BY <2>3, <3>1, InAfter
  <2>5. g \in Orderly(grid) /\ g \in Grids
    <3>1. SameLines(grid, g)
      BY <2>2, CursorKeepsLines, Zenon
    <3>2. g \in Orderly(grid)
      BY <2>4, <3>1, SameLinesOrderly
    <3>. QED
      BY <3>2, OrderlyCompose
  <2>6. MoveTo(g, 0, 0) \in Orderly(grid)
    <3>1. Shaped(g) => Within(At(0, 0), g.size)
      BY <2>3 DEF Within, At, Minus
    <3>2. MoveTo(g, 0, 0) \in Orderly(g)
      BY <2>5, <3>1, MoveToOrderly
    <3>. QED
      BY <2>5, <3>2, OrderlyCompose
  <2>. QED
    BY <2>1, <2>2, <2>6, OrderlyCommand
<1>. QED
  BY <1>1, <1>2, <1>3

\* SU keeps the order without margins; the other row edits disorder.
LEMMA RowsInOrderAfter ==
    ASSUME ScreenInv, ~IsAlternate, InOrder(PrimaryGrid), ~Disorders,
           ScrollUp \/ ScrollDown \/ InsertsLines \/ DeletesLines
    PROVE  StaysInOrder
<1>1. ScrollUp /\ RegionIsWholeScreen(grid)
  BY Zenon DEF Disorders, OpensRows, ScrollsWithin
<1>2. PICK n, h : /\ n \in program.counts
                  /\ h = Repeat(LAMBDA g : ScrollUpOnce(g, Fresh), grid, n) /\ Edit("SU", h)
  BY <1>1, Zenon DEF ScrollUp
<1>3. n \in Nat
  BY <1>2, InvProgram
<1>4. h \in Orderly(grid)
  BY <1>1, <1>2, <1>3, InvGrid, ScrollsUpOrderly, Zenon
<1>. QED
  BY <1>2, <1>4, OrderlyCommand

\* A full reset clears the cells of the primary screen and keeps its lines.
LEMMA ResetInOrder ==
    ASSUME ScreenInv, InOrder(PrimaryGrid), Reset
    PROVE  StaysInOrder
<1>1. PICK primary, region, home :
          /\ primary = PrimaryGrid /\ region = ResetScrollRegion(primary) /\ home = MoveTo(region, 0, 0)
          /\ grid' = EraseInDisplay(home, "All", Blank) /\ stash' = << >>
  BY Zenon DEF Reset, PrimaryGrid
<1>2. primary \in Grids
  BY <1>1, PrimaryLines
<1>3. region \in Orderly(primary) /\ region \in Grids
  BY <1>1, <1>2, CursorOrderly, OrderlyCompose
<1>4. home \in Orderly(primary) /\ home \in Grids
  <2>1. region.size.rows \in Nat /\ region.size.cols \in Nat
    BY <1>3, GridParts DEF Grids
  <2>2. Shaped(region) => Within(At(0, 0), region.size)
    BY <2>1 DEF Within, At, Minus
  <2>3. home \in Orderly(region)
    BY <1>1, <1>3, <2>2, MoveToOrderly
  <2>4. home \in Orderly(primary)
    BY <1>2, <1>3, <2>3, OrderlyCompose
  <2>. QED
    BY <1>2, <2>4, OrderlyCompose
<1>5. grid' \in Orderly(primary)
  <2>1. "All" \in EraseModes /\ Blank \in Cells /\ pen \in Styles
    BY SpacerCell DEF EraseModes, ScreenInv
  <2>2. grid' \in Orderly(home)
    BY <1>1, <1>4, <2>1, ErasingOrderly
  <2>. QED
    BY <1>2, <1>4, <2>2, OrderlyCompose
<1>6. InOrder(grid') /\ HistoryGrows(primary, grid')
  BY <1>1, <1>2, <1>5, OrderlyGrows, Zenon DEF Orderly
<1>7. PrimaryGrid' = grid'
  BY <1>1 DEF PrimaryGrid, IsAlternate
<1>. QED
  BY <1>1, <1>6, <1>7 DEF StaysInOrder

\* Clipping leaves the history alone.
LEMMA ClippedKeepsStore ==
    ASSUME NEW g \in Grids
    PROVE  Clipped(g).scrollback = g.scrollback
<1>1. PICK n \in Nat : g \in GridsAt(n)
  BY DEF Grids
<1>2. PICK k, p, q : k = Cut(g) /\ p = Padded(k) /\ q = ResetScrollRegion(p)
  OBVIOUS
<1>3. k \in GridsAt(n) /\ Len(k.rows) <= k.size.rows
  BY <1>1, <1>2, CutType
<1>4. k.scrollback = g.scrollback
  <2>1. PICK rows : k = [g EXCEPT !.rows = rows]
    BY <1>2, Zenon DEF Cut
  <2>. QED
    BY <1>1, <2>1 DEF GridsAt
<1>5. PICK m : FilledUp(n, m, k, p)
  BY <1>2, <1>3, PaddedType
<1>6. p \in GridsAt(m) /\ p.scrollback = g.scrollback /\ p \in Grids
  BY <1>4, <1>5 DEF FilledUp, Grids
<1>7. q \in GridsAt(m) /\ q.scrollback = g.scrollback
  <2>1. PICK bottom : q = [p EXCEPT !.top = 0, !.bottom = bottom] /\ bottom \in Nat
    <3>1. Minus(p.size.rows, 1) \in Nat
      BY <1>6, GridParts DEF Minus
    <3>. QED
      BY <1>2, <3>1, Zenon DEF ResetScrollRegion
  <2>. QED
    BY <1>6, <2>1, Zenon DEF GridsAt
<1>8. Clipped(g) = CursorTo(q, g.cursor.row, g.cursor.col)
  BY <1>2, Zenon DEF Clipped
<1>9. PICK at : CursorTo(q, g.cursor.row, g.cursor.col) = [q EXCEPT !.cursor = at]
  BY Zenon DEF CursorTo, MoveTo
<1>. QED
  BY <1>7, <1>8, <1>9 DEF GridsAt

\* Resizing keeps the order of the primary screen, shown or covered.
LEMMA ResizesInOrder ==
    ASSUME ScreenInv, ScreenInv', InOrder(PrimaryGrid), Resize \/ ResizeAlternate
    PROVE  StaysInOrder
<1>1. CASE Resize
  <2>1. PICK size \in program.sizes : ~IsAlternate /\ grid' = PrimaryResized(grid, size) /\ stash' = stash
    BY <1>1, Zenon DEF Resize
  <2>2. size \in Sizes
    BY InvProgram
  <2>3. PrimaryGrid = grid /\ PrimaryGrid' = grid'
    BY <2>1 DEF PrimaryGrid, IsAlternate
  <2>. QED
    BY <2>1, <2>2, <2>3, InvGrid, ResizedInOrder DEF StaysInOrder
<1>2. CASE ResizeAlternate
  <2>1. PICK size, beneath, primary :
          /\ size \in program.sizes
          /\ beneath = PrimaryGrid /\ primary = PrimaryResized(beneath, size)
          /\ \/ grid' = primary /\ stash' = << >>
             \/ grid' = Clipped(Show(primary, Buffer(grid))) /\ stash' = <<Buffer(primary)>>
    <3>1. IsAlternate /\ PrimaryGrid = Show(grid, stash[1])
      BY <1>2, Zenon DEF ResizeAlternate, PrimaryGrid
    <3>. QED
      BY <1>2, <3>1, Zenon DEF ResizeAlternate
  <2>2. size \in Sizes /\ beneath \in Grids
    BY <2>1, InvProgram, PrimaryLines
  <2>3. InOrder(primary) /\ HistoryGrows(beneath, primary)
    BY <2>1, <2>2, ResizedInOrder
  <2>4. CASE grid' = primary /\ stash' = << >>
    <3>1. PrimaryGrid' = primary
      BY <2>4 DEF PrimaryGrid, IsAlternate
    <3>. QED
      BY <2>1, <2>3, <3>1 DEF StaysInOrder
  <2>5. CASE grid' = Clipped(Show(primary, Buffer(grid))) /\ stash' = <<Buffer(primary)>>
    <3>1. PICK n \in Nat : n = grid.next /\ grid \in GridsAt(n) /\ beneath \in GridsAt(n) /\ beneath.next = n
      BY <2>1, InvGrid, PrimaryLines, GridParts
    <3>2. PICK m \in Nat : n <= m /\ primary \in GridsAt(m)
      <4>1. primary \in Resized(beneath, size, Empty(size) \/ AnchorAligned(beneath))
        BY <2>1, <2>2, PrimaryResizedType
      <4>. QED
        BY <3>1, <4>1 DEF Resized
    <3>3. PICK aside : aside = Buffer(grid) /\ aside \in BuffersBelow(m)
      BY <3>1, <3>2, BufferType, LaterBuffers
    <3>4. PICK k : k = Show(primary, aside)
      OBVIOUS
    <3>5. k \in Grids /\ k.scrollback = primary.scrollback
      BY <3>2, <3>3, <3>4, ShowType DEF Grids
    <3>6. grid'.scrollback = primary.scrollback
      BY <2>5, <3>3, <3>4, <3>5, ClippedKeepsStore
    <3>7. Primary(grid', stash') = Buffer(primary)
      BY <2>5 DEF Primary
    <3>8. (/\ PrimaryGrid.rows = Primary(grid, stash).rows /\ PrimaryGrid.pending = Primary(grid, stash).pending
           /\ PrimaryGrid.scrollback = grid.scrollback)'
      BY PrimaryLines, PTL
    <3>9. PICK h : h = PrimaryGrid'
      OBVIOUS
    <3>10. h.rows = primary.rows /\ h.pending = primary.pending /\ h.scrollback = primary.scrollback
      BY <3>6, <3>7, <3>8, <3>9 DEF Buffer
    <3>11. InOrder(h) /\ HistoryGrows(beneath, h)
      BY <2>3, <3>10, PartsInOrder, Zenon DEF HistoryGrows
    <3>. QED
      BY <2>1, <3>9, <3>11, Zenon DEF StaysInOrder
  <2>. QED
    BY <2>1, <2>4, <2>5
<1>. QED
  BY <1>1, <1>2

\* Blank rows are in order, with nothing above them.
LEMMA BlankInOrder ==
    ASSUME NEW g, NEW size \in Sizes, g.rows = BlankRows(size, 0), g.pending = NoLine, g.scrollback = EmptyStore
    PROVE  InOrder(g)
<1>1. size.rows \in Nat /\ size.cols \in Nat
  BY DEF Sizes
<1>2. PICK rows, lines : rows = g.rows /\ lines = g.scrollback.lines
  OBVIOUS
<1>3. Len(rows) = size.rows /\ \A r \in 1 .. size.rows : rows[r].id = r - 1 /\ rows[r].wrapped = FALSE
  <2>1. 0 + size.rows <= size.rows /\ 0 \in Nat
    BY <1>1
  <2>2. Len(BlankRows(size, 0)) = size.rows
    BY ONLY <1>1, <2>1, BlankRowsType, size \in Sizes, size.rows \in Nat
  <2>3. \A r \in 1 .. size.rows : rows[r] = BlankRow(size.cols, 0 + r - 1)
    BY <1>2 DEF BlankRows
  <2>4. \A cols, id : BlankRow(cols, id).id = id /\ BlankRow(cols, id).wrapped = FALSE
    BY DEF BlankRow
  <2>5. \A r \in 1 .. size.rows : rows[r].id = r - 1 /\ rows[r].wrapped = FALSE
    <3>1. \A r \in 1 .. size.rows : 0 + r - 1 = r - 1
      BY <1>1
    <3>. QED
      BY <2>3, <2>4, <3>1
  <2>. QED
    BY <1>2, <2>2, <2>5
<1>4. RowsInOrder(rows)
  <2>1. ASSUME NEW r \in 1 .. Len(rows)
        PROVE  /\ \A q \in 1 .. r : rows[q].id <= rows[r].id
               /\ rows[r].wrapped <=> (r < Len(rows) /\ rows[r + 1].id = rows[r].id)
    <3>1. \A q \in 1 .. r : rows[q].id <= rows[r].id
      BY <1>1, <1>3
    <3>2. r < Len(rows) => rows[r + 1].id # rows[r].id
      BY <1>1, <1>3
    <3>3. ~rows[r].wrapped
      BY <1>1, <1>3
    <3>. QED
      BY <3>1, <3>2, <3>3
  <2>. QED
    BY <2>1, Zenon DEF RowsInOrder
<1>5. Len(lines) = 0
  <2>1. lines = << >>
    BY <1>2 DEF EmptyStore
  <2>. QED
    BY <2>1
<1>6. FrozenUpTo(lines, NoLine, rows, 0)
  BY <1>5 DEF FrozenUpTo, LinesAscend
<1>. QED
  BY <1>2, <1>4, <1>6, Zenon DEF InOrder

\* A new screen is in order.
LEMMA InitInOrder ==
    ASSUME Init
    PROVE  InOrder(PrimaryGrid)
<1>1. PICK size \in program.sizes :
          /\ grid.rows = BlankRows(size, 0) /\ grid.pending = NoLine /\ grid.scrollback = EmptyStore
          /\ stash = << >> /\ program \in Programs
  BY DEF Init
<1>2. size \in Sizes
  BY <1>1, ScreenAssumption DEF Sizes
<1>3. InOrder(grid)
  BY <1>1, <1>2, BlankInOrder
<1>4. PrimaryGrid = grid
  BY <1>1 DEF PrimaryGrid, IsAlternate
<1>. QED
  BY <1>3, <1>4

\* Every step that does not disorder the lines keeps them in order.
LEMMA NextInOrder ==
    ASSUME ScreenInv, InOrder(PrimaryGrid), [Next /\ ~Disorders]_vars
    PROVE  StaysInOrder
<1>1. GoodStep /\ ScreenInv'
  BY NextStep DEF GoodStep
<1>2. CASE UNCHANGED vars
  <2>1. grid' = grid /\ stash' = stash
    BY <1>2 DEF vars
  <2>. QED
    BY <1>1, <2>1, PrimaryLeftInOrder
<1>3. CASE (IsAlternate \/ IsAlternate') /\ grid'.size = grid.size /\ ~Reset
  BY <1>1, <1>3, PrimaryLeftInOrder DEF GoodStep, Untouched
<1>4. CASE Reset
  BY <1>4, ResetInOrder
<1>5. CASE Resize \/ ResizeAlternate
  BY <1>1, <1>5, ResizesInOrder, Zenon
<1>6. CASE Next /\ ~Disorders /\ ~IsAlternate
           /\ ~(EnterAlternate \/ ExitAlternate \/ Reset \/ Resize \/ ResizeAlternate)
  BY <1>6, PrintTextInOrder, CursorInOrder, ModesInOrder, RowsInOrderAfter, CellsInOrder, Zenon DEF Next
<1>7. ASSUME Next, IsAlternate \/ EnterAlternate \/ ExitAlternate, ~Reset, ~(Resize \/ ResizeAlternate)
      PROVE  (IsAlternate \/ IsAlternate') /\ grid'.size = grid.size
  <2>1. grid'.size = grid.size
    BY <1>1, <1>7 DEF GoodStep, SameSize
  <2>2. EnterAlternate => IsAlternate'
    BY DEF EnterAlternate, IsAlternate
  <2>3. ExitAlternate => IsAlternate
    BY DEF ExitAlternate
  <2>. QED
    BY <1>7, <2>1, <2>2, <2>3
<1>. QED
  BY <1>2, <1>3, <1>4, <1>5, <1>6, <1>7

\* Every screen of a program that writes forward is in order: the rows by line,
\* the history above them, the frozen head between.
THEOREM LinesInOrder == OrderedSpec => [](ScreenInv /\ InOrder(PrimaryGrid))
<1>. DEFINE Inv == ScreenInv /\ InOrder(PrimaryGrid)
<1>1. Init => Inv
  BY InitInv, InitInOrder
<1>2. Inv /\ [Next /\ ~Disorders]_vars => Inv'
  <2>1. ASSUME Inv, [Next /\ ~Disorders]_vars PROVE Inv'
    <3>1. ScreenInv'
      BY <2>1, NextStep DEF GoodStep
    <3>2. InOrder(PrimaryGrid')
      BY <2>1, NextInOrder DEF StaysInOrder
    <3>. QED
      BY <3>1, <3>2
  <2>. QED
    BY <2>1
<1>. QED
  BY <1>1, <1>2, PTL DEF OrderedSpec

\* What HistorySlides says of one step.
SlideStep ==
    LET old == grid.scrollback.lines
        new == grid'.scrollback
    IN  /\ Capped(new) /\ BytesCounted(new)
        /\ \E n \in 0 .. Len(old) :
             /\ IsPrefix(SubSeq(old, n + 1, Len(old)), new.lines)
             /\ \A i \in Len(old) - n + 1 .. Len(new.lines), k \in 1 .. Len(old) :
                  new.lines[i].id > old[k].id
             /\ n > 0 =>
                  \/ Len(new.lines) = MaxLines
                  \/ new.total_bytes + ByteLen(old[n].text) > MaxBytes
                  \/ TopDropped

\* Lines that are the last of one list and the first of another.
LEMMA KeptIsPrefix ==
    ASSUME NEW S, NEW old \in Seq(S), NEW new \in Seq(S), NEW m \in 0 .. Len(old),
           Len(old) - m <= Len(new), \A i \in 1 .. Len(old) - m : new[i] = old[m + i]
    PROVE  IsPrefix(SubSeq(old, m + 1, Len(old)), new)
<1>. DEFINE c == Len(old) - m
            a == SubSeq(old, m + 1, Len(old))
            b == SubSeq(new, 1, c)
<1>1. Len(old) \in Nat /\ Len(new) \in Nat /\ c \in 0 .. Len(new) /\ m \in Nat
  OBVIOUS
<1>2. a \in Seq(S) /\ Len(a) = c /\ \A i \in 1 .. c : a[i] = old[m + i]
  <2>1. m + 1 \in Int /\ Len(old) \in Int /\ \A i \in m + 1 .. Len(old) : old[i] \in S
    BY <1>1
  <2>2. /\ a \in Seq(S)
        /\ Len(a) = IF m + 1 <= Len(old) THEN Len(old) - (m + 1) + 1 ELSE 0
        /\ \A i \in 1 .. Len(old) - (m + 1) + 1 : a[i] = old[(m + 1) + i - 1]
    BY <2>1, SubSeqProperties
  <2>3. PICK count : count = Len(old) /\ count \in Nat /\ m \in 0 .. count
    BY <1>1
  <2>4. /\ (IF m + 1 <= count THEN count - (m + 1) + 1 ELSE 0) = count - m /\ count - (m + 1) + 1 = count - m
        /\ \A i \in Int : (m + 1) + i - 1 = m + i
    BY ONLY <2>3
  <2>. HIDE DEF a
  <2>5. Len(a) = Len(old) - m
    BY <2>2, <2>3, <2>4
  <2>6. ASSUME NEW i \in 1 .. Len(old) - m PROVE a[i] = old[m + i]
    <3>1. PICK x, y : x = (m + 1) + i - 1 /\ y = m + i
      OBVIOUS
    <3>2. x = y
      BY <2>3, <3>1
    <3>3. i \in 1 .. Len(old) - (m + 1) + 1
      BY <2>3, <2>4
    <3>4. a[i] = old[x]
      BY <2>2, <3>1, <3>3, Zenon
    <3>. QED
      BY <3>1, <3>2, <3>4, Zenon
  <2>. QED
    BY <2>2, <2>5, <2>6, Zenon
<1>3. b \in Seq(S) /\ Len(b) = c /\ \A i \in 1 .. c : b[i] = new[i]
  <2>1. 1 \in Int /\ c \in Int /\ \A i \in 1 .. c : new[i] \in S
    BY <1>1
  <2>2. /\ b \in Seq(S)
        /\ Len(b) = IF 1 <= c THEN c - 1 + 1 ELSE 0
        /\ \A i \in 1 .. c - 1 + 1 : b[i] = new[1 + i - 1]
    BY <2>1, SubSeqProperties
  <2>3. PICK x \in Nat : x = c
    BY <1>1
  <2>4. (IF 1 <= x THEN x - 1 + 1 ELSE 0) = x /\ x - 1 + 1 = x /\ \A i \in Int : 1 + i - 1 = i
    BY ONLY <2>3
  <2>. HIDE DEF b, c
  <2>. QED
    BY <2>2, <2>3, <2>4
<1>4. Len(a) <= Len(new) /\ \A i \in 1 .. c : a[i] = b[i]
  BY <1>1, <1>2, <1>3
<1>. HIDE DEF a, b
<1>5. b = a
  <2>. HIDE DEF c
  <2>. QED
    BY <1>2, <1>3, <1>4
<1>6. SubSeq(new, 1, Len(a)) = a /\ SubSeq(a, 1, Len(a)) = a
  BY <1>2, <1>5 DEF b
<1>. QED
  BY <1>4, <1>6 DEF IsPrefix, a

\* The history slides from the ids of the screen's first row on: so it does as
\* HistorySlides says.
LEMMA SlideSeen ==
    ASSUME ScreenInv, ScreenInv', InOrder(PrimaryGrid), HistoryGrows(PrimaryGrid, PrimaryGrid')
    PROVE  SlideStep
<1>1. PICK g, old, new : g = PrimaryGrid /\ old = grid.scrollback /\ new = grid'.scrollback
  OBVIOUS
<1>2. PICK n, m : n = grid.next /\ m = grid'.next
  OBVIOUS
<1>3. /\ n \in Nat /\ g \in GridsAt(n) /\ g.rows \in RowsBelow(n) /\ g.scrollback = old /\ old \in StoresBelow(n)
      /\ InOrder(g)
  BY <1>1, <1>2, InvGrid, PrimaryLines, GridParts
<1>4. m \in Nat /\ new \in StoresBelow(m) /\ PrimaryGrid'.scrollback = new
  <2>1. (grid.next \in Nat /\ grid \in GridsAt(grid.next))'
    BY InvGrid, PTL
  <2>2. (PrimaryGrid.scrollback = grid.scrollback)'
    BY PrimaryLines, PTL
  <2>3. PICK h, s : h = grid' /\ s = PrimaryGrid'
    OBVIOUS
  <2>4. m \in Nat /\ h \in GridsAt(m) /\ s.scrollback = h.scrollback /\ new = h.scrollback
    BY <1>1, <1>2, <2>1, <2>2, <2>3
  <2>. QED
    BY <2>3, <2>4, GridParts
<1>5. /\ old.lines \in Seq(Lines) /\ new.lines \in Seq(Lines) /\ Capped(new) /\ BytesCounted(new)
      /\ \A i \in 1 .. Len(new.lines) : new.lines[i].id \in 0 .. m - 1
  <2>1. old.lines \in Seq(LineBelow(n)) /\ new.lines \in Seq(LineBelow(m)) /\ Capped(new) /\ BytesCounted(new)
    BY <1>3, <1>4 DEF StoresBelow
  <2>2. LineBelow(n) \subseteq Lines /\ LineBelow(m) \subseteq Lines /\ \A line \in LineBelow(m) : line.id \in 0 .. m - 1
    BY <1>3, <1>4 DEF LineBelow, Lines, Cells
  <2>3. PICK a, b : a = old.lines /\ b = new.lines
    OBVIOUS
  <2>4. a \in Seq(Lines) /\ b \in Seq(Lines) /\ \A i \in 1 .. Len(b) : b[i].id \in 0 .. m - 1
    <3>1. a \in Seq(LineBelow(n)) /\ b \in Seq(LineBelow(m))
      BY <2>1, <2>3, Zenon
    <3>2. \A S, T : S \subseteq T => Seq(S) \subseteq Seq(T)
      OBVIOUS
    <3>3. a \in Seq(Lines) /\ b \in Seq(Lines)
      BY <2>2, <3>1, <3>2, Zenon
    <3>. QED
      BY ONLY <2>2, <3>1, <3>3
  <2>. QED
    BY <2>1, <2>3, <2>4, Zenon
<1>6. PICK rows, lines : rows = g.rows /\ lines = old.lines
  OBVIOUS
<1>7. /\ Len(rows) \in Nat /\ \A r \in 1 .. Len(rows) : rows[r].id \in Nat /\ rows[1].id <= rows[r].id
      /\ \A i \in 1 .. Len(lines), r \in 1 .. Len(rows) : lines[i].id < rows[r].id
  <2>1. Len(rows) \in Nat /\ \A r \in 1 .. Len(rows) : rows[r].id \in Nat
    BY <1>3, <1>6, RowIds
  <2>2. RowsInOrder(rows) /\ FrozenUpTo(lines, g.pending, rows, 0)
    BY <1>3, <1>6 DEF InOrder
  <2>3. \A r \in 1 .. Len(rows) : 1 \in 1 .. r /\ r \in 0 + 1 .. Len(rows)
    BY <2>1
  <2>4. \A r \in 1 .. Len(rows) : rows[1].id <= rows[r].id
    BY <2>2, <2>3, Zenon DEF RowsInOrder
  <2>5. \A i \in 1 .. Len(lines), r \in 1 .. Len(rows) : lines[i].id < rows[r].id
    BY <2>2, <2>3, Zenon DEF FrozenUpTo
  <2>. QED
    BY <2>1, <2>4, <2>5
<1>8. 1 \in 1 .. Len(rows) \/ Len(rows) = 0
  BY <1>7
<1>9. PICK f \in Nat : f = IF Len(rows) = 0 THEN m ELSE rows[1].id
  BY <1>4, <1>7, <1>8
<1>10. \A r \in 1 .. Len(rows) : f <= rows[r].id
  <2>1. ASSUME NEW r \in 1 .. Len(rows) PROVE f <= rows[r].id
    <3>1. Len(rows) # 0
      BY <1>7
    <3>2. f = rows[1].id
      BY <1>9, <3>1
    <3>. QED
      BY <1>7, <3>2
  <2>. QED
    BY <2>1
<1>11. Slid(old, new, f)
  BY <1>1, <1>3, <1>4, <1>6, <1>10, Zenon DEF HistoryGrows
<1>12. PICK k \in 0 .. Len(lines) : SlidBy(k, old, new, f)
  BY <1>6, <1>11, Zenon DEF Slid
<1>13. PICK kept, all : kept = Len(lines) - k /\ all = new.lines
  OBVIOUS
<1>14. Len(lines) \in Nat /\ Len(all) \in Nat /\ k \in 0 .. Len(lines) /\ kept \in 0 .. Len(lines)
  <2>1. lines \in Seq(Lines) /\ all \in Seq(Lines)
    BY <1>5, <1>6, <1>13
  <2>2. Len(lines) \in Nat /\ Len(all) \in Nat
    BY <2>1
  <2>. QED
    BY <1>13, <2>2
<1>15. /\ kept <= Len(all) /\ \A i \in 1 .. kept : all[i] = lines[k + i]
       /\ \A i \in kept + 1 .. Len(all) : f <= all[i].id
       /\ k > 0 => MakesRoom(lines[k], new, f)
  BY <1>6, <1>12, <1>13, Zenon DEF SlidBy
<1>16. IsPrefix(SubSeq(lines, k + 1, Len(lines)), all)
  <2>1. lines \in Seq(Lines) /\ all \in Seq(Lines)
    BY <1>5, <1>6, <1>13
  <2>. QED
    BY ONLY <1>13, <1>15, <2>1, k \in 0 .. Len(lines), KeptIsPrefix, Zenon
<1>17. ASSUME NEW i \in kept + 1 .. Len(all), NEW q \in 1 .. Len(lines) PROVE all[i].id > lines[q].id
  <2>1. i \in 1 .. Len(all) /\ f <= all[i].id
    BY <1>14, <1>15
  <2>2. all[i].id \in 0 .. m - 1
    BY <1>5, <1>13, <2>1
  <2>3. Len(rows) # 0
    BY <1>4, <1>9, <2>1, <2>2
  <2>4. f = rows[1].id /\ lines[q].id < rows[1].id
    BY <1>7, <1>8, <1>9, <2>3
  <2>5. lines[q].id \in Nat
    <3>1. lines \in Seq(Lines) /\ \A line \in Lines : line.id \in Nat
      BY <1>5, <1>6 DEF Lines
    <3>. QED
      BY <3>1
  <2>6. rows[1].id \in Nat
    BY <1>7, <1>8, <2>3
  <2>. QED
    BY <2>1, <2>2, <2>4, <2>5, <2>6
<1>18. f < OldestId(all) => TopDropped
  <2>1. SUFFICES ASSUME f < OldestId(all) PROVE TopDropped
    OBVIOUS
  <2>2. CASE all = << >>
    <3>1. OldestId(all) = -1
      BY <2>2, Zenon DEF OldestId
    <3>. QED
      BY <2>1, <3>1
  <2>3. CASE all # << >>
    <3>1. OldestId(all) = all[1].id /\ 1 \in 1 .. Len(all)
      <4>1. all \in Seq(Lines)
        BY <1>5, <1>13
      <4>. QED
        BY <2>3, <4>1 DEF OldestId
    <3>2. all[1].id \in 0 .. m - 1
      BY <1>5, <1>13, <3>1
    <3>3. Len(rows) # 0
      BY <1>4, <1>9, <2>1, <3>1, <3>2
    <3>4. rows # << >> /\ rows[1].id < OldestId(all)
      BY <1>9, <2>1, <3>3
    <3>. QED
      BY <1>1, <1>6, <1>13, <3>4 DEF TopDropped
  <2>. QED
    BY <2>2, <2>3
<1>19. k > 0 => Len(all) = MaxLines \/ new.total_bytes + ByteLen(lines[k].text) > MaxBytes \/ TopDropped
  BY <1>13, <1>15, <1>18, Zenon DEF MakesRoom
<1>20. \A i \in Len(lines) - k + 1 .. Len(all), q \in 1 .. Len(lines) : all[i].id > lines[q].id
  BY <1>13, <1>17
<1>21. /\ lines = grid.scrollback.lines /\ all = grid'.scrollback.lines
       /\ new = grid'.scrollback /\ Capped(grid'.scrollback) /\ BytesCounted(grid'.scrollback)
  BY <1>1, <1>5, <1>6, <1>13
<1>. QED
  BY <1>16, <1>19, <1>20, <1>21, Zenon DEF SlideStep

\* The history only slides: what is kept stays as it is, new lines go below it,
\* and no line goes that the caps would have let stay.
THEOREM HistorySlidesOn == OrderedSpec => HistorySlides
<1>. DEFINE Inv == ScreenInv /\ InOrder(PrimaryGrid)
<1>1. Inv /\ [Next /\ ~Disorders]_vars => [SlideStep]_vars
  <2>1. ASSUME Inv, [Next /\ ~Disorders]_vars PROVE SlideStep
    <3>1. ScreenInv'
      BY <2>1, NextStep DEF GoodStep
    <3>2. StaysInOrder
      BY <2>1, NextInOrder
    <3>. QED
      BY <2>1, <3>1, <3>2, SlideSeen DEF StaysInOrder
  <2>. QED
    BY <2>1
<1>. QED
  BY <1>1, LinesInOrder, PTL DEF OrderedSpec, HistorySlides, SlideStep

\* The marks of a soft wrap and the frozen head agree with the ids of the rows.
THEOREM WrapsAgree == OrderedSpec => []LinesContinue
<1>1. ScreenInv /\ InOrder(PrimaryGrid) => LinesContinue
  <2>. SUFFICES ASSUME ScreenInv, InOrder(PrimaryGrid) PROVE LinesContinue
    OBVIOUS
  <2>1. PICK g : g = PrimaryGrid
    OBVIOUS
  <2>2. g.rows \in RowsBelow(grid.next) /\ grid.next \in Nat
    BY <2>1, PrimaryLines, InvGrid, GridParts
  <2>3. PICK rows, head : rows = g.rows /\ head = g.pending
    OBVIOUS
  <2>4. RowsInOrder(rows) /\ FrozenUpTo(g.scrollback.lines, head, rows, 0)
    BY <2>1, <2>3 DEF InOrder
  <2>5. DOMAIN rows = 1 .. Len(rows) /\ Len(rows) \in Nat
    BY <2>2, <2>3, RowIds
  <2>6. \A r \in DOMAIN rows : rows[r].wrapped <=> r < Len(rows) /\ rows[r + 1].id = rows[r].id
    BY <2>4, <2>5, Zenon DEF RowsInOrder
  <2>7. head # NoLine => rows # << >> /\ rows[1].id = head.id
    <3>1. head # NoLine => 0 < Len(rows) /\ rows[0 + 1].id = head.id
      BY <2>4, Zenon DEF FrozenUpTo
    <3>2. 0 < Len(rows) => rows # << >>
      BY <2>5
    <3>3. 0 + 1 = 1
      OBVIOUS
    <3>. QED
      BY <3>1, <3>2, <3>3, Zenon
  <2>. QED
    BY <2>1, <2>3, <2>6, <2>7, Zenon DEF LinesContinue
<1>. QED
  BY <1>1, LinesInOrder, PTL

\* One step of the binary search, knowing what it finds elsewhere.
Looks(lines, id, found, span) ==
    /\ span[1] <= span[2]
    /\ \A mid \in span[1] .. span[2] :
         \/ lines[mid].id = id
         \/ lines[mid].id < id /\ found[<<mid + 1, span[2]>>]
         \/ lines[mid].id > id /\ found[<<span[1], mid - 1>>]

\* In lines that ascend the binary search comes upon every one of them.
LEMMA SearchFinds ==
    ASSUME NEW lines, Len(lines) \in Nat, LinesAscend(lines),
           \A i \in 1 .. Len(lines) : lines[i].id \in Int,
           NEW k \in 1 .. Len(lines)
    PROVE  Gotten(lines, lines[k].id)
<1>. DEFINE n == Len(lines)
            id == lines[k].id
            Spans == (1 .. n + 1) \X (0 .. n)
            Has(span) == \E i \in span[1] .. span[2] : lines[i].id = id
            has == [span \in Spans |-> Has(span)]
            found == CHOOSE f : f = [span \in Spans |-> Looks(lines, id, f, span)]
<1>1. n \in Nat /\ id \in Int /\ k \in 1 .. n /\ \A i \in 1 .. n : lines[i].id \in Int
  OBVIOUS
<1>2. \A i \in 1 .. n : /\ lines[i].id = id => i = k
                        /\ lines[i].id < id => i < k
                        /\ lines[i].id > id => i > k
  BY DEF LinesAscend
<1>3. Gotten(lines, id) = found[<<1, n>>]
  BY Zenon DEF Gotten, Looks
<1>. HIDE DEF n, id
<1>4. ASSUME NEW span \in Spans, NEW mid \in span[1] .. span[2]
      PROVE  /\ mid \in 1 .. n /\ <<mid + 1, span[2]>> \in Spans /\ <<span[1], mid - 1>> \in Spans
             /\ lines[mid].id \in Int /\ span[1] \in Int /\ span[2] \in Int
  BY <1>1
<1>5. ASSUME NEW span \in Spans PROVE Has(span) = Looks(lines, id, has, span)
  <2>1. span[1] \in 1 .. n + 1 /\ span[2] \in 0 .. n
    OBVIOUS
  <2>2. Has(span) <=> k \in span[1] .. span[2]
    <3>1. \A i \in span[1] .. span[2] : i \in 1 .. n
      BY <1>1, <2>1
    <3>. QED
      BY <1>2, <3>1 DEF id
  <2>3. ASSUME NEW mid \in span[1] .. span[2]
        PROVE  /\ has[<<mid + 1, span[2]>>] <=> k \in mid + 1 .. span[2]
               /\ has[<<span[1], mid - 1>>] <=> k \in span[1] .. mid - 1
    <3>1. ASSUME NEW s \in Spans PROVE has[s] <=> k \in s[1] .. s[2]
      <4>1. has[s] = Has(s)
        BY Zenon
      <4>2. \A i \in s[1] .. s[2] : i \in 1 .. n
        BY <1>1
      <4>. QED
        BY <1>2, <4>1, <4>2 DEF id
    <3>. HIDE DEF has
    <3>. QED
      BY <1>4, <3>1
  <2>. HIDE DEF has, Has
  <2>4. Has(span) => Looks(lines, id, has, span)
    BY <1>1, <1>2, <1>4, <2>1, <2>2, <2>3 DEF Looks
  <2>5. Looks(lines, id, has, span) => Has(span)
    <3>. SUFFICES ASSUME Looks(lines, id, has, span) PROVE k \in span[1] .. span[2]
      BY <2>2
    <3>1. PICK mid : mid = span[1] /\ mid \in span[1] .. span[2]
      BY <2>1 DEF Looks
    <3>2. /\ lines[mid].id = id => mid = k
          /\ has[<<mid + 1, span[2]>>] <=> k \in mid + 1 .. span[2]
          /\ has[<<span[1], mid - 1>>] <=> k \in span[1] .. mid - 1
      BY <1>2, <1>4, <2>3, <3>1
    <3>3. \/ lines[mid].id = id \/ has[<<mid + 1, span[2]>>] \/ has[<<span[1], mid - 1>>]
      BY <3>1 DEF Looks
    <3>. QED
      BY <2>1, <3>1, <3>2, <3>3
  <2>. QED
    BY <2>4, <2>5, Zenon DEF Has, Looks
<1>6. has = [span \in Spans |-> Looks(lines, id, has, span)]
  <2>1. \A span \in Spans : Has(span) = Looks(lines, id, has, span)
    BY <1>5, Zenon
  <2>2. PICK other : other = [span \in Spans |-> Looks(lines, id, has, span)]
    BY Zenon
  <2>3. \A span \in Spans : other[span] = has[span]
    BY <2>1, <2>2, Zenon
  <2>4. other = has
    <3>1. other = [span \in Spans |-> other[span]] /\ has = [span \in Spans |-> has[span]]
      BY <2>2
    <3>. HIDE DEF has
    <3>. QED
      BY <2>3, <3>1
  <2>. QED
    BY <2>2, <2>4, Zenon
<1>7. found = [span \in Spans |-> Looks(lines, id, found, span)]
  <2>. HIDE DEF has
  <2>. QED
    BY <1>6, Zenon
<1>. HIDE DEF found, has, Has
<1>. DEFINE Reach(j) == \A span \in Spans : k \in span[1] .. span[2] /\ span[2] - span[1] < j => found[span]
            T == {j \in 0 .. n : Reach(j)}
<1>8. 0 \in T
  <2>1. ASSUME NEW span \in Spans, k \in span[1] .. span[2], span[2] - span[1] < 0 PROVE FALSE
    BY <1>1, <2>1
  <2>2. 0 \in 0 .. n
    BY <1>1
  <2>. QED
    BY <2>1, <2>2
<1>9. ASSUME NEW j \in 0 .. n - 1, j \in T PROVE j + 1 \in T
  <2>1. Reach(j) /\ j + 1 \in 0 .. n
    BY <1>1, <1>9
  <2>2. ASSUME NEW span \in Spans, k \in span[1] .. span[2], span[2] - span[1] < j + 1 PROVE found[span]
    <3>1. span[1] <= span[2] /\ span[1] \in 1 .. n + 1 /\ span[2] \in 0 .. n
      BY <1>1, <2>2
    <3>2. ASSUME NEW mid \in span[1] .. span[2]
          PROVE  \/ lines[mid].id = id
                 \/ lines[mid].id < id /\ found[<<mid + 1, span[2]>>]
                 \/ lines[mid].id > id /\ found[<<span[1], mid - 1>>]
      <4>1. mid \in 1 .. n /\ lines[mid].id \in Int /\ id \in Int /\ mid \in Int
            /\ <<mid + 1, span[2]>> \in Spans /\ <<span[1], mid - 1>> \in Spans
        BY <1>1, <1>4, SMTT(60)
      <4>2. CASE lines[mid].id < id
        <5>1. k > mid
          BY <1>2, <4>1, <4>2
        <5>2. PICK s : s = <<mid + 1, span[2]>>
          BY Zenon
        <5>3. s \in Spans /\ k \in s[1] .. s[2] /\ s[2] - s[1] < j
          BY <1>1, <2>2, <3>1, <4>1, <5>1, <5>2, SMTT(60)
        <5>. QED
          BY <2>1, <4>2, <5>2, <5>3, Zenon
      <4>3. CASE lines[mid].id > id
        <5>1. k < mid
          BY <1>2, <4>1, <4>3, Zenon
        <5>2. PICK s : s = <<span[1], mid - 1>>
          BY Zenon
        <5>3. s \in Spans /\ k \in s[1] .. s[2] /\ s[2] - s[1] < j
          BY <1>1, <2>2, <3>1, <4>1, <5>1, <5>2, SMTT(60)
        <5>. QED
          BY <2>1, <4>3, <5>2, <5>3, Zenon
      <4>. QED
        BY <4>1, <4>2, <4>3, SMTT(60)
    <3>3. Looks(lines, id, found, span)
      BY <3>1, <3>2, Zenon DEF Looks
    <3>. QED
      BY <1>7, <3>3, Zenon
  <2>. QED
    BY <2>1, <2>2
<1>. HIDE DEF T
<1>10. \A j \in 0 .. n : j \in T
  BY ONLY <1>1, <1>8, <1>9, Summing!Induction, Zenon
<1>11. n \in T
  <2>1. n \in 0 .. n
    BY <1>1
  <2>. QED
    BY <1>10, <2>1
<1>12. PICK span : span = <<1, n>>
  BY Zenon
<1>13. span \in Spans /\ k \in span[1] .. span[2] /\ span[2] - span[1] < n
  BY <1>1, <1>12
<1>14. found[span]
  BY <1>11, <1>13, Zenon DEF T
<1>. QED
  BY <1>3, <1>12, <1>14 DEF n, id

\* Every line of the history is found by its id and is the only one of it; none
\* is older than the oldest, and the frozen head is newer than all.
THEOREM LinesFound == OrderedSpec => []HistoryFound
<1>1. ScreenInv /\ InOrder(PrimaryGrid) => HistoryFound
  <2>. SUFFICES ASSUME ScreenInv, InOrder(PrimaryGrid) PROVE HistoryFound
    OBVIOUS
  <2>1. PICK lines, head, rows : lines = grid.scrollback.lines /\ head = PrimaryGrid.pending /\ rows = PrimaryGrid.rows
    OBVIOUS
  <2>2. /\ lines \in Seq(LineBelow(grid.next)) /\ grid.next \in Nat
        /\ FrozenUpTo(lines, head, rows, 0)
    BY <2>1, PrimaryLines, InvGrid, GridParts DEF StoresBelow, InOrder
  <2>3. /\ LinesAscend(lines)
        /\ \A i \in 1 .. Len(lines), r \in 0 + 1 .. Len(rows) : lines[i].id < rows[r].id
        /\ (head # NoLine => 0 < Len(rows) /\ rows[0 + 1].id = head.id)
    BY <2>2, Zenon DEF FrozenUpTo
  <2>4. Len(lines) \in Nat /\ DOMAIN lines = 1 .. Len(lines) /\ \A i \in 1 .. Len(lines) : lines[i].id \in Int
    <3>1. \A line \in LineBelow(grid.next) : line.id \in Int
      BY DEF LineBelow
    <3>. QED
      BY <2>2, <3>1
  <2>5. ASSUME NEW i \in 1 .. Len(lines)
        PROVE  /\ Gotten(lines, lines[i].id)
               /\ \A k \in 1 .. Len(lines) : lines[k].id = lines[i].id => k = i
               /\ lines[i].id >= OldestId(lines)
               /\ head # NoLine => lines[i].id < head.id
    <3>1. Gotten(lines, lines[i].id)
      BY <2>3, <2>4, SearchFinds
    <3>2. \A k \in 1 .. Len(lines) : lines[k].id = lines[i].id => k = i
      BY <2>3, <2>4 DEF LinesAscend
    <3>3. lines[i].id >= OldestId(lines)
      <4>1. lines # << >> /\ Head(lines) = lines[1] /\ 1 \in 1 .. Len(lines)
        BY <2>2, <2>4
      <4>2. OldestId(lines) = lines[1].id
        BY <4>1, Zenon DEF OldestId
      <4>3. lines[1].id <= lines[i].id
        BY <2>3, <2>4, <4>1 DEF LinesAscend
      <4>. QED
        BY <2>4, <4>1, <4>2, <4>3
    <3>4. head # NoLine => lines[i].id < head.id
      <4>1. PICK top \in Nat : top = Len(rows)
        <5>1. rows \in RowsBelow(grid.next)
          BY <2>1, <2>2, PrimaryLines, GridParts
        <5>. QED
          BY <2>2, <5>1, RowIds
      <4>2. 0 < top => 0 + 1 \in 0 + 1 .. top
        BY <4>1
      <4>. QED
        BY <2>3, <4>1, <4>2
    <3>. QED
      BY <3>1, <3>2, <3>3, <3>4
  <2>. QED
    BY <2>1, <2>4, <2>5, Zenon DEF HistoryFound
<1>. QED
  BY <1>1, LinesInOrder, PTL

-----------------------------------------------------------------------------
(* The cursor's offset falls between two graphemes.                        *)

\* Texts are joined in any order.
LEMMA JoinedInAnyOrder ==
    ASSUME NEW p \in Seq(Cells), NEW q \in Seq(Cells), NEW r \in Seq(Cells)
    PROVE  p \o (q \o r) = (p \o q) \o r
  OBVIOUS

\* A text begins with what it was joined from.
LEMMA JoinedText ==
    ASSUME NEW p \in Seq(Cells), NEW q \in Seq(Cells)
    PROVE  p \o q \in Seq(Cells) /\ Len(p) \in 0 .. Len(p \o q) /\ SubSeq(p \o q, 1, Len(p)) = p
  OBVIOUS

\* An offset, or the end of the text before it, is between two of its graphemes.
Falls(text, off) == \E k \in 0 .. Len(text) : ByteLen(SubSeq(text, 1, k)) = Less(off, ByteLen(text))

\* `seen` is how far the cursor is in a row, `kept` what is packed of it: one is
\* a part of the other, and the second only where the line ends.
Parts(before, kept, seen, rest, behind) ==
    /\ before \in Seq(Cells) /\ kept \in Seq(Cells) /\ seen \in Seq(Cells)
    /\ rest \in Seq(Cells) /\ behind \in Seq(Cells)
    /\ kept = seen \o rest \/ (seen = kept \o rest /\ behind = << >>)

\* The offset that `seen` comes to falls between two graphemes of the text.
LEMMA OffsetFalls ==
    ASSUME NEW before, NEW kept, NEW seen, NEW rest, NEW behind, Parts(before, kept, seen, rest, behind)
    PROVE  Falls(before \o TextCells(kept) \o behind, ByteLen(before) + ByteLen(seen))
<1>. PICK text, off : text = before \o TextCells(kept) \o behind /\ off = ByteLen(before) + ByteLen(seen)
  BY Zenon
<1>. SUFFICES Falls(text, off)
  OBVIOUS
<1>. /\ before \in Seq(Cells) /\ kept \in Seq(Cells) /\ seen \in Seq(Cells)
     /\ rest \in Seq(Cells) /\ behind \in Seq(Cells)
     /\ kept = seen \o rest \/ (seen = kept \o rest /\ behind = << >>)
  BY Zenon DEF Parts
<1>. USE DEF Falls
<1>1. /\ TextCells(kept) \in Seq(Cells) /\ ByteLen(TextCells(kept)) = ByteLen(kept)
      /\ TextCells(seen) \in Seq(Cells) /\ ByteLen(TextCells(seen)) = ByteLen(seen)
      /\ TextCells(rest) \in Seq(Cells) /\ ByteLen(TextCells(rest)) = ByteLen(rest)
  BY TextKeepsBytes
<1>2. /\ ByteLen(before) \in Nat /\ ByteLen(kept) \in Nat /\ ByteLen(seen) \in Nat
      /\ ByteLen(rest) \in Nat /\ ByteLen(behind) \in Nat
  BY ByteLenNat
<1>3. CASE kept = seen \o rest
  <2>1. TextCells(kept) = TextCells(seen) \o TextCells(rest)
    BY <1>3, ChosenConcat, Zenon
  <2>2. PICK x, y : x = TextCells(seen) /\ y = TextCells(rest)
    OBVIOUS
  <2>3. PICK a, b : a = before \o x /\ b = y \o behind
    BY Zenon
  <2>4. x \in Seq(Cells) /\ y \in Seq(Cells) /\ a \in Seq(Cells) /\ b \in Seq(Cells)
    <3>1. x \in Seq(Cells) /\ y \in Seq(Cells)
      BY <1>1, <2>2
    <3>. QED
      BY <2>3, <3>1, JoinedText
  <2>5. text = a \o b
    <3>1. text = before \o (x \o y) \o behind
      BY <2>1, <2>2, Zenon
    <3>2. before \o (x \o y) = a \o y
      <4>1. before \o (x \o y) = (before \o x) \o y
        BY ONLY before \in Seq(Cells), <2>4, JoinedInAnyOrder, Zenon
      <4>. QED
        BY <2>3, <4>1, Zenon
    <3>3. a \o b = a \o y \o behind
      <4>1. a \o (y \o behind) = (a \o y) \o behind
        BY ONLY behind \in Seq(Cells), <2>4, JoinedInAnyOrder, ZenonT(60)
      <4>. QED
        BY <2>3, <4>1, Zenon
    <3>. QED
      BY <3>1, <3>2, <3>3, Zenon
  <2>6. Len(a) \in 0 .. Len(a \o b) /\ SubSeq(a \o b, 1, Len(a)) = a
    BY <2>4, JoinedText
  <2>7. ByteLen(a) = off /\ ByteLen(a) \in Nat /\ ByteLen(b) \in Nat /\ ByteLen(text) = ByteLen(a) + ByteLen(b)
    <3>1. ByteLen(before \o x) = ByteLen(before) + ByteLen(x)
      BY <2>4, BytesAdd
    <3>2. ByteLen(a) \in Nat /\ ByteLen(b) \in Nat
      BY <2>4, ByteLenNat
    <3>3. ByteLen(a \o b) = ByteLen(a) + ByteLen(b)
      BY <2>4, BytesAdd
    <3>4. ByteLen(a) = off
      BY <1>1, <2>2, <2>3, <3>1, Zenon
    <3>. QED
      BY <2>5, <3>2, <3>3, <3>4, Zenon
  <2>8. Less(off, ByteLen(text)) = ByteLen(a)
    <3>1. PICK p, q : p = ByteLen(a) /\ q = ByteLen(b) /\ p \in Nat /\ q \in Nat
      BY <2>7
    <3>2. off = p /\ ByteLen(text) = p + q
      BY ONLY <2>7, <3>1
    <3>. QED
      BY ONLY <3>1, <3>2 DEF Less
  <2>. QED
    BY <2>5, <2>6, <2>8, Zenon
<1>4. CASE seen = kept \o rest /\ behind = << >>
  <2>1. ByteLen(seen) = ByteLen(kept) + ByteLen(rest)
    BY <1>4, BytesAdd
  <2>2. PICK a \in Seq(Cells) : a = before \o TextCells(kept)
    <3>1. before \o TextCells(kept) \in Seq(Cells)
      BY <1>1, JoinedText
    <3>. QED
      BY <3>1, Zenon
  <2>3. text = a
    <3>1. a \o << >> = a
      BY ONLY a \in Seq(Cells)
    <3>. QED
      BY <1>4, <2>2, <3>1, Zenon
  <2>4. ByteLen(a) = ByteLen(before) + ByteLen(kept)
    BY <1>1, <2>2, BytesAdd
  <2>5. Less(off, ByteLen(text)) = ByteLen(a)
    <3>1. PICK p, q, r \in Nat : p = ByteLen(before) /\ q = ByteLen(kept) /\ r = ByteLen(rest)
      BY <1>2, Zenon
    <3>2. off = p + (q + r) /\ ByteLen(text) = p + q /\ ByteLen(a) = p + q
      BY <2>1, <2>3, <2>4, <3>1
    <3>. QED
      BY <3>1, <3>2, SMTT(60) DEF Less
  <2>6. Len(a) \in 0 .. Len(a) /\ SubSeq(a, 1, Len(a)) = a
    OBVIOUS
  <2>. QED
    BY <2>3, <2>5, <2>6, Zenon
<1>. QED
  BY <1>3, <1>4, Zenon

\* The text at the end of `lines` that is of the line `id`.
TailOf(lines, id) ==
    IF Len(lines) > 0 /\ lines[Len(lines)].id = id THEN lines[Len(lines)].text ELSE << >>

\* What one more row makes of the lines: the last is the row's, longer by what
\* the row packs to, and the others are as before.
LEMMA RegroupOne ==
    ASSUME NEW n \in Nat, NEW lines \in Seq(LineBelow(n)), NEW row \in RowBelow(n)
    PROVE  LET new == Regroup(lines, row) IN
           /\ Len(new) \in Nat /\ Len(new) > 0 /\ Len(lines) \in Nat
           /\ new[Len(new)].id = row.id
           /\ new[Len(new)].text = PushCells(TailOf(lines, row.id), row.cells, ~row.wrapped)
           /\ \A i \in 1 .. Len(new) : i # Len(new) => i \in 1 .. Len(lines) /\ new[i] = lines[i]
           /\ TailOf(lines, row.id) \in Seq(Cells)
<1>. DEFINE last == Len(lines)
            ends == ~row.wrapped
            text == PushCells(lines[last].text, row.cells, ends)
            longer == [lines[last] EXCEPT !.text = text]
            first == [id |-> row.id, text |-> PushCells(<< >>, row.cells, ends)]
            new == Regroup(lines, row)
<1>1. last \in Nat
  OBVIOUS
<1>2. CASE last > 0 /\ lines[last].id = row.id
  <2>1. lines[last] \in LineBelow(n)
    BY <1>2
  <2>2. new = [lines EXCEPT ![last] = longer]
    BY <1>2, Zenon DEF Regroup
  <2>3. longer.id = row.id /\ longer.text = text /\ lines[last].text \in Seq(Cells)
    BY <1>2, <2>1 DEF LineBelow
  <2>4. TailOf(lines, row.id) = lines[last].text
    BY <1>2, Zenon DEF TailOf
  <2>. HIDE DEF new, longer, text
  <2>5. Len(new) = last /\ new[last] = longer /\ \A i \in 1 .. last : i # last => new[i] = lines[i]
    BY <1>1, <1>2, <2>2
  <2>. QED
    BY <1>1, <1>2, <2>3, <2>4, <2>5 DEF text, new
<1>3. CASE ~(last > 0 /\ lines[last].id = row.id)
  <2>1. new = Append(lines, first)
    BY <1>3, Zenon DEF Regroup
  <2>2. TailOf(lines, row.id) = << >> /\ << >> \in Seq(Cells)
    BY <1>3, Zenon, EmptySeq DEF TailOf
  <2>3. first.id = row.id /\ first.text = PushCells(TailOf(lines, row.id), row.cells, ends)
    BY <2>2, Zenon
  <2>. HIDE DEF new, first
  <2>4. Len(new) = last + 1 /\ new[last + 1] = first /\ \A i \in 1 .. last : new[i] = lines[i]
    BY <1>1, <2>1
  <2>5. \A i \in 1 .. last + 1 : i # last + 1 => i \in 1 .. last
    BY <1>1
  <2>. QED
    BY <1>1, <2>2, <2>3, <2>4, <2>5 DEF new
<1>. QED
  BY <1>2, <1>3

\* The body of the count of a line's bytes at the end of some rows.
AddRow(id, d, n, row) == IF row.id = id THEN n + ByteLen(row.cells) ELSE 0

CountingRows == INSTANCE LoopLemmas WITH Body <- AddRow

\* The count passes through one number per row.
LEMMA BytesTrace ==
    ASSUME NEW n \in Nat, NEW rows \in RowsBelow(n), NEW upto \in 0 .. Len(rows), NEW id
    PROVE  \E t : /\ t[0] = 0 /\ t[upto] = BytesAtEnd(SubSeq(rows, 1, upto), id)
                  /\ \A k \in 1 .. upto : t[k] = IF rows[k].id = id THEN t[k - 1] + ByteLen(rows[k].cells) ELSE 0
<1>1. PICK part : part = SubSeq(rows, 1, upto)
  BY Zenon
<1>2. DOMAIN part = 1 .. upto /\ upto \in Nat /\ \A k \in 1 .. upto : part[k] = rows[k]
  BY <1>1 DEF RowsBelow
<1>3. BytesAtEnd(part, id) = CountingRows!FoldOf(id, 0, 0, part)
  BY Zenon DEF BytesAtEnd, CountingRows!FoldOf, AddRow, FoldLeft, MapThenFoldSet, Max,
               CountingRows!MapThenFoldSet, CountingRows!Greatest
<1>4. PICK t : CountingRows!Trace(id, 0, 0, part, upto, t) /\ CountingRows!FoldOf(id, 0, 0, part) = t[upto]
  BY <1>2, CountingRows!FoldTrace
<1>5. t[0] = 0 /\ \A k \in 1 .. upto : t[k] = AddRow(id, 0, t[k - 1], part[k])
  BY <1>4, Zenon DEF CountingRows!Trace
<1>6. \A k \in 1 .. upto : t[k] = IF rows[k].id = id THEN t[k - 1] + ByteLen(rows[k].cells) ELSE 0
  BY <1>2, <1>5, Zenon DEF AddRow
<1>. QED
  BY <1>1, <1>3, <1>4, <1>5, <1>6, Zenon

\* A row is packed to the text of some of its first cells: of all of them when
\* the row is soft wrapped.
LEMMA PackedRow ==
    ASSUME NEW n \in Nat, NEW row \in RowBelow(n)
    PROVE  /\ row.cells \in Seq(Cells) /\ Packed(row.cells, ~row.wrapped) \in Seq(Cells)
           /\ \E end \in 0 .. Len(row.cells) :
                /\ Packed(row.cells, ~row.wrapped) = TextCells(SubSeq(row.cells, 1, end))
                /\ ~row.wrapped \/ end = Len(row.cells)
<1>1. row.cells \in Seq(Cells)
  BY DEF RowBelow
<1>2. row.wrapped \in BOOLEAN
  BY DEF RowBelow
<1>3. PICK trim \in BOOLEAN : trim = ~row.wrapped
  BY <1>2, Zenon
<1>4. PICK end \in 0 .. Len(row.cells) :
          Packed(row.cells, trim) = TextCells(SubSeq(row.cells, 1, end)) /\ (trim \/ end = Len(row.cells))
  BY <1>1, PackedPrefix
<1>5. SubSeq(row.cells, 1, end) \in Seq(Cells)
  BY <1>1
<1>6. TextCells(SubSeq(row.cells, 1, end)) \in Seq(Cells)
  BY <1>5, TextKeepsBytes, Zenon
<1>. QED
  BY <1>1, <1>3, <1>4, <1>6, Zenon

\* A row above the cursor's: the text of the line `id` grows by the row's bytes
\* when the row is a part of it, and there is none of it at the end otherwise.
LEMMA RegroupAbove ==
    ASSUME NEW n \in Nat, NEW lines \in Seq(LineBelow(n)), NEW row \in RowBelow(n), NEW id,
           row.id = id => row.wrapped
    PROVE  ByteLen(TailOf(Regroup(lines, row), id)) =
               IF row.id = id THEN ByteLen(TailOf(lines, id)) + ByteLen(row.cells) ELSE 0
<1>. DEFINE new == Regroup(lines, row)
<1>1. /\ Len(new) > 0 /\ new[Len(new)].id = row.id
      /\ new[Len(new)].text = PushCells(TailOf(lines, row.id), row.cells, ~row.wrapped)
      /\ TailOf(lines, row.id) \in Seq(Cells)
  BY RegroupOne
<1>2. row.cells \in Seq(Cells) /\ row.wrapped \in BOOLEAN
  BY DEF RowBelow
<1>. HIDE DEF new
<1>3. CASE row.id = id
  <2>1. ~row.wrapped = FALSE
    BY <1>2, <1>3
  <2>2. TailOf(new, id) = TailOf(lines, id) \o Packed(row.cells, FALSE)
    BY <1>1, <1>3, <2>1, Zenon DEF TailOf, PushCells
  <2>3. Packed(row.cells, FALSE) \in Seq(Cells) /\ ByteLen(Packed(row.cells, FALSE)) = ByteLen(row.cells)
    <3>1. PICK end \in 0 .. Len(row.cells) :
              Packed(row.cells, FALSE) = TextCells(SubSeq(row.cells, 1, end)) /\ (FALSE \/ end = Len(row.cells))
      BY <1>2, PackedPrefix, Zenon
    <3>2. SubSeq(row.cells, 1, Len(row.cells)) = row.cells
      BY <1>2
    <3>3. Packed(row.cells, FALSE) = TextCells(row.cells)
      BY <3>1, <3>2, Zenon
    <3>4. TextCells(row.cells) \in Seq(Cells) /\ ByteLen(TextCells(row.cells)) = ByteLen(row.cells)
      BY <1>2, TextKeepsBytes
    <3>. QED
      BY <3>3, <3>4, Zenon
  <2>4. PICK tail, more : tail = TailOf(lines, id) /\ more = Packed(row.cells, FALSE)
    BY Zenon
  <2>5. ByteLen(tail \o more) = ByteLen(tail) + ByteLen(more)
    BY <1>1, <1>3, <2>3, <2>4, BytesAdd, Zenon
  <2>. QED
    BY <1>3, <2>2, <2>3, <2>4, <2>5, Zenon DEF new
<1>4. CASE row.id # id
  <2>1. TailOf(new, id) = << >>
    BY <1>1, <1>4, Zenon DEF TailOf
  <2>. QED
    BY <1>4, <2>1, NoBytes, Zenon DEF new
<1>. QED
  BY <1>3, <1>4

\* The lines that are of `row`'s line go through it, with `bytes` bytes of text
\* before it, and end with it when the line does.
GoesThrough(lines, row, bytes) ==
    \A i \in 1 .. Len(lines) : lines[i].id = row.id =>
        \E before, behind \in Seq(Cells) :
            /\ ByteLen(before) = bytes
            /\ lines[i].text = before \o Packed(row.cells, ~row.wrapped) \o behind
            /\ row.wrapped \/ behind = << >>

\* A line that is joined with the row goes through it.
LEMMA RegroupAt ==
    ASSUME NEW n \in Nat, NEW lines \in Seq(LineBelow(n)), NEW row \in RowBelow(n),
           Regroup(lines, row) \in Seq(LineBelow(n)), LinesAscend(Regroup(lines, row))
    PROVE  GoesThrough(Regroup(lines, row), row, ByteLen(TailOf(lines, row.id)))
<1>. DEFINE new == Regroup(lines, row)
            tail == TailOf(lines, row.id)
            packed == Packed(row.cells, ~row.wrapped)
<1>1. /\ Len(new) \in Nat /\ Len(new) > 0 /\ new[Len(new)].id = row.id
      /\ new[Len(new)].text = tail \o packed /\ tail \in Seq(Cells)
  BY RegroupOne DEF PushCells
<1>2. packed \in Seq(Cells)
  BY PackedRow
<1>. HIDE DEF new, tail, packed
<1>3. ASSUME NEW i \in 1 .. Len(new), new[i].id = row.id
      PROVE  \E before, behind \in Seq(Cells) :
                /\ ByteLen(before) = ByteLen(tail)
                /\ new[i].text = before \o packed \o behind
                /\ row.wrapped \/ behind = << >>
  <2>1. i = Len(new)
    <3>1. i < Len(new) \/ i = Len(new)
      BY <1>1
    <3>2. Len(new) \in 1 .. Len(new)
      BY <1>1
    <3>3. CASE i < Len(new)
      <4>1. new[i].id < new[Len(new)].id
        BY <3>2, <3>3 DEF LinesAscend, new
      <4>2. new[i] \in LineBelow(n)
        BY DEF new
      <4>3. row.id \in Nat
        BY DEF RowBelow
      <4>4. PICK m : m = row.id
        OBVIOUS
      <4>5. m \in Nat /\ m < m
        BY <1>1, <1>3, <4>1, <4>3, <4>4, Zenon
      <4>. QED
        BY ONLY <4>5
    <3>. QED
      BY <3>1, <3>3
  <2>2. PICK none : none = << >> /\ none \in Seq(Cells)
    BY Zenon, EmptySeq
  <2>3. tail \o packed \o none = tail \o packed
    <3>1. tail \o packed \in Seq(Cells)
      BY <1>1, <1>2, JoinedText
    <3>2. \A s \in Seq(Cells) : s \o << >> = s
      BY ConcatEmptySeq
    <3>. QED
      BY <2>2, <3>1, <3>2, Zenon
  <2>4. new[i].text = tail \o packed \o none
    BY <1>1, <2>1, <2>3, Zenon
  <2>. QED
    BY <1>1, <2>2, <2>4, Zenon
<1>. QED
  BY <1>3, Zenon DEF GoesThrough, new, tail, packed

\* A row below goes on with the last line or leaves it alone.
LEMMA RegroupBelow ==
    ASSUME NEW n \in Nat, NEW lines \in Seq(LineBelow(n)), NEW row \in RowBelow(n),
           NEW here \in RowBelow(n), NEW bytes, GoesThrough(lines, here, bytes),
           row.id = here.id => here.wrapped /\ Len(lines) > 0 /\ lines[Len(lines)].id = here.id
    PROVE  GoesThrough(Regroup(lines, row), here, bytes)
<1>. DEFINE new == Regroup(lines, row)
            more == Packed(row.cells, ~row.wrapped)
            packed == Packed(here.cells, ~here.wrapped)
            Splits(text) == \E before, behind \in Seq(Cells) :
                                /\ ByteLen(before) = bytes
                                /\ text = before \o packed \o behind
                                /\ here.wrapped \/ behind = << >>
<1>1. /\ Len(new) \in Nat /\ Len(new) > 0 /\ Len(lines) \in Nat /\ new[Len(new)].id = row.id
      /\ new[Len(new)].text = TailOf(lines, row.id) \o more
      /\ \A i \in 1 .. Len(new) : i # Len(new) => i \in 1 .. Len(lines) /\ new[i] = lines[i]
  <2>. HIDE DEF new
  <2>1. new = Regroup(lines, row)
    BY DEF new
  <2>. QED
    BY <2>1, RegroupOne, Zenon DEF PushCells
<1>2. \A r \in RowBelow(n) : Packed(r.cells, ~r.wrapped) \in Seq(Cells)
  BY PackedRow
<1>3. \A i \in 1 .. Len(lines) : lines[i].id = here.id => Splits(lines[i].text)
  BY Zenon DEF GoesThrough
<1>. HIDE DEF new
<1>4. ASSUME NEW i \in 1 .. Len(new), new[i].id = here.id PROVE Splits(new[i].text)
  <2>1. CASE i # Len(new)
    <3>1. i \in 1 .. Len(lines) /\ new[i] = lines[i]
      BY <1>1, <2>1
    <3>. QED
      BY <1>3, <1>4, <3>1, Zenon
  <2>2. CASE i = Len(new)
    <3>1. row.id = here.id
      BY <1>1, <1>4, <2>2
    <3>2. here.wrapped /\ Len(lines) > 0 /\ lines[Len(lines)].id = here.id
      BY <3>1
    <3>3. Len(lines) \in 1 .. Len(lines)
      BY <1>1, <3>2
    <3>4. TailOf(lines, row.id) = lines[Len(lines)].text
      BY <3>1, <3>2, Zenon DEF TailOf
    <3>. HIDE DEF more, packed
    <3>5. PICK before, behind :
              /\ before \in Seq(Cells) /\ behind \in Seq(Cells)
              /\ ByteLen(before) = bytes
              /\ lines[Len(lines)].text = before \o packed \o behind
      BY <1>3, <3>2, <3>3, Zenon
    <3>6. PICK x, y, z, m, w : x = before /\ y = packed /\ z = behind /\ m = more /\ w = x \o y
      BY Zenon
    <3>7. x \in Seq(Cells) /\ y \in Seq(Cells) /\ z \in Seq(Cells) /\ m \in Seq(Cells)
      BY <1>2, <3>5, <3>6, Zenon DEF more, packed
    <3>8. w \in Seq(Cells) /\ z \o m \in Seq(Cells)
      BY ONLY <3>6, <3>7, JoinedText
    <3>9. w \o (z \o m) = w \o z \o m
      <4>1. w \in Seq(Cells)
        BY <3>8
      <4>2. z \in Seq(Cells)
        BY <3>7
      <4>3. m \in Seq(Cells)
        BY <3>7
      <4>. QED
        BY ONLY <4>1, <4>2, <4>3, JoinedInAnyOrder, Zenon
    <3>10. new[i].text = x \o y \o z \o m
      BY <1>1, <2>2, <3>4, <3>5, <3>6, Zenon
    <3>11. new[i].text = before \o packed \o (z \o m)
      BY <3>6, <3>9, <3>10, Zenon
    <3>. QED
      BY <3>2, <3>5, <3>8, <3>11, Zenon
  <2>. QED
    BY <2>1, <2>2, Zenon
<1>. QED
  BY <1>4, Zenon DEF GoesThrough, new

\* The text that the rebuilding begins with: that of the head, when the line is
\* the head's, and then all rows down to the line's are of it too.
LEMMA HeadStarts ==
    ASSUME NEW n \in Nat, NEW g \in GridsAt(n), InOrder(g), NEW c \in 1 .. Len(g.rows),
           NEW id, id = g.rows[c].id
    PROVE  /\ ByteLen(TailOf(HeadToRejoin(g), id)) = HeadBytes(g, id)
           /\ HeadBytes(g, id) \in Nat
           /\ \A k \in 1 .. c : g.rows[k].id # id => HeadBytes(g, id) = 0
<1>. DEFINE rows == g.rows
            head == g.pending
<1>1. /\ rows \in RowsBelow(n) /\ Len(rows) \in Nat /\ head \in HeadsBelow(n)
      /\ \A r \in 1 .. Len(rows) : rows[r] \in RowBelow(n) /\ rows[r].id \in Nat
  BY GridParts, RowIds, Zenon
<1>2. id \in Nat /\ 1 \in 1 .. Len(rows)
  BY <1>1
<1>3. rows # << >>
  <2>1. rows \in Seq(RowBelow(n)) /\ Len(rows) > 0
    BY <1>1, <1>2 DEF RowsBelow
  <2>. HIDE DEF rows
  <2>. QED
    BY <2>1
<1>4. CASE head.id = id
  <2>1. head \in LineBelow(n)
    BY <1>1, <1>2, <1>4, HeadLine
  <2>2. head # NoLine /\ head.text \in Seq(Cells)
    <3>1. NoLine.id = -1
      BY DEF NoLine
    <3>2. head # NoLine
      BY <1>2, <1>4, <3>1
    <3>. QED
      BY <2>1, <3>2 DEF LineBelow
  <2>3. rows[1].id = id
    <3>1. rows[0 + 1].id = head.id
      BY <2>2, Zenon DEF InOrder, FrozenUpTo
    <3>. QED
      BY <1>4, <3>1
  <2>4. HeadToRejoin(g) = <<head>>
    BY <1>3, <1>4, <2>3, Zenon DEF HeadToRejoin
  <2>5. TailOf(<<head>>, id) = head.text
    <3>1. PICK one : one = <<head>>
      BY Zenon
    <3>2. Len(one) = 1 /\ one[1] = head
      BY <3>1
    <3>3. Len(one) > 0 /\ one[Len(one)] = head
      BY <3>2
    <3>. QED
      BY <1>4, <3>1, <3>3, Zenon DEF TailOf
  <2>6. HeadBytes(g, id) = ByteLen(head.text) /\ ByteLen(head.text) \in Nat
    BY <1>4, <2>2, ByteLenNat DEF HeadBytes
  <2>7. ASSUME NEW k \in 1 .. c PROVE rows[k].id = id
    <3>1. rows[1].id <= rows[k].id /\ rows[k].id <= rows[c].id
      <4>1. k \in 1 .. Len(rows) /\ 1 \in 1 .. k /\ c \in 1 .. Len(rows)
        BY <1>1
      <4>. QED
        BY <4>1 DEF InOrder, RowsInOrder
    <3>2. k \in 1 .. Len(rows)
      BY <1>1
    <3>. QED
      BY <1>1, <1>2, <2>3, <3>1, <3>2
  <2>. QED
    BY <2>4, <2>5, <2>6, <2>7, Zenon
<1>5. CASE head.id # id
  <2>1. HeadBytes(g, id) = 0
    BY <1>5, Zenon DEF HeadBytes
  <2>2. TailOf(HeadToRejoin(g), id) = << >>
    <3>1. CASE HeadToRejoin(g) = <<head>>
      <4>1. PICK one : one = <<head>>
        BY Zenon
      <4>2. Len(one) = 1 /\ one[1] = head
        BY <4>1
      <4>3. one[Len(one)] = head
        BY <4>2
      <4>. QED
        BY <1>5, <3>1, <4>1, <4>3, Zenon DEF TailOf
    <3>2. CASE HeadToRejoin(g) = << >>
      <4>1. Len(<< >>) = 0 /\ ~(0 > 0)
        OBVIOUS
      <4>. QED
        BY <3>2, <4>1, Zenon DEF TailOf
    <3>. QED
      BY <3>1, <3>2, Zenon DEF HeadToRejoin
  <2>3. ByteLen(TailOf(HeadToRejoin(g), id)) = 0
    BY <2>2, NoBytes, Zenon
  <2>. QED
    BY ONLY <2>1, <2>3
<1>. QED
  BY <1>4, <1>5

\* The line of row `c` goes through it, behind as many bytes as the frozen head
\* and the rows above hold of it.
LEMMA LinesGoThrough ==
    ASSUME NEW n \in Nat, NEW g \in GridsAt(n), InOrder(g), NEW c \in 1 .. Len(g.rows)
    PROVE  /\ BytesAtEnd(SubSeq(g.rows, 1, c - 1), g.rows[c].id) \in Nat
           /\ GoesThrough(ActiveLines(g), g.rows[c],
                          HeadBytes(g, g.rows[c].id) + BytesAtEnd(SubSeq(g.rows, 1, c - 1), g.rows[c].id))
<1>. DEFINE rows == g.rows
            count == Len(rows)
            here == rows[c]
            id == here.id
            head == HeadToRejoin(g)
            first == HeadBytes(g, id)
            above == BytesAtEnd(SubSeq(rows, 1, c - 1), id)
<1>1. /\ rows \in RowsBelow(n) /\ count \in Nat /\ DOMAIN rows = 1 .. count
      /\ \A r \in 1 .. count : rows[r] \in RowBelow(n) /\ rows[r].id \in Nat
      /\ RowsInOrder(rows)
  BY GridParts, RowIds, Zenon DEF InOrder
<1>2. /\ ByteLen(TailOf(head, id)) = first /\ first \in Nat
      /\ \A k \in 1 .. c : rows[k].id # id => first = 0
  BY HeadStarts
<1>3. head \in Seq(LineBelow(n)) /\ LinesOfRows(head, rows, 0)
  BY HeadInOrder
<1>. HIDE DEF rows, count, head, first
<1>4. c \in 1 .. count /\ c - 1 \in 0 .. Len(rows) /\ c - 1 \in Nat
  BY <1>1 DEF count, rows
<1>5. PICK t : /\ t[0] = 0 /\ t[c - 1] = above
               /\ \A k \in 1 .. c - 1 : t[k] = IF rows[k].id = id THEN t[k - 1] + ByteLen(rows[k].cells) ELSE 0
  <2>1. \A u \in 0 .. Len(rows) : \A i : \E t :
            /\ t[0] = 0 /\ t[u] = BytesAtEnd(SubSeq(rows, 1, u), i)
            /\ \A k \in 1 .. u : t[k] = IF rows[k].id = i THEN t[k - 1] + ByteLen(rows[k].cells) ELSE 0
    BY ONLY n \in Nat, <1>1, BytesTrace, Zenon
  <2>. QED
    BY <1>4, <2>1, Zenon
<1>6. \A k \in 0 .. c - 1 : t[k] \in Nat
  <2>. DEFINE T == {k \in 0 .. c - 1 : t[k] \in Nat}
  <2>1. 0 \in T
    BY <1>4, <1>5
  <2>2. ASSUME NEW k \in 0 .. (c - 1) - 1, k \in T PROVE k + 1 \in T
    <3>1. k + 1 \in 1 .. c - 1 /\ k + 1 \in 0 .. c - 1 /\ (k + 1) - 1 = k /\ t[k] \in Nat
      BY <1>4, <2>2
    <3>2. rows[k + 1].cells \in Seq(Cells)
      <4>0. count \in Nat
        BY <1>1, Zenon
      <4>1. k + 1 \in 1 .. count
        BY ONLY <1>4, <3>1, <4>0
      <4>2. rows[k + 1] \in RowBelow(n)
        BY <1>1, <4>1, Zenon
      <4>3. \A row \in RowBelow(n) : row.cells \in Seq(Cells)
        BY ONLY DEF RowBelow
      <4>. QED
        BY <4>2, <4>3, Zenon
    <3>3. ByteLen(rows[k + 1].cells) \in Nat
      BY <3>2, ByteLenNat, Zenon
    <3>4. t[k + 1] = IF rows[k + 1].id = id THEN t[k] + ByteLen(rows[k + 1].cells) ELSE 0
      BY <1>5, <3>1
    <3>. QED
      BY <3>1, <3>3, <3>4
  <2>. HIDE DEF T
  <2>3. \A k \in 0 .. c - 1 : k \in T
    BY ONLY <1>4, <2>1, <2>2, CountingRows!Induction, Zenon
  <2>. QED
    BY <2>3 DEF T
<1>7. above \in Nat
  BY <1>4, <1>5, <1>6
<1>8. \A q, r \in 1 .. count : q <= r => rows[q].id <= rows[r].id
  BY <1>1 DEF RowsInOrder, count
<1>. DEFINE Ends(lines, k) == k > 0 => Len(lines) > 0 /\ lines[Len(lines)].id = rows[k].id
            Grows(lines, k) == k < c => ByteLen(TailOf(lines, id)) = first + t[k]
            Goes(lines, k) == k >= c => GoesThrough(lines, here, first + above)
            Inv == [k \in 0 .. count |-> {lines \in Seq(LineBelow(n)) :
                       LinesOfRows(lines, rows, k) /\ Ends(lines, k) /\ Grows(lines, k) /\ Goes(lines, k)}]
<1>. HIDE DEF above
<1>9. ASSUME NEW k \in 0 .. count - 1, NEW lines \in Inv[k]
      PROVE  RegroupRow(0, 0, lines, rows[k + 1]) \in Inv[k + 1]
  <2>. DEFINE row == rows[k + 1]
              new == Regroup(lines, row)
  <2>1. k \in 0 .. count /\ k + 1 \in 0 .. count /\ k + 1 \in 1 .. count /\ k \in Nat
    BY <1>1
  <2>2. lines \in Seq(LineBelow(n)) /\ LinesOfRows(lines, rows, k)
    BY <2>1
  <2>3. Ends(lines, k) /\ Grows(lines, k) /\ Goes(lines, k)
    BY <2>1
  <2>. HIDE DEF Inv
  <2>4. row \in RowBelow(n) /\ here \in RowBelow(n) /\ row.id \in Nat /\ id \in Nat
    BY <1>1, <1>4, <2>1
  <2>5. new \in Seq(LineBelow(n))
    BY <2>2, <2>4, RegroupType
  <2>6. LinesOfRows(new, rows, k + 1)
    <3>1. k \in 0 .. Len(rows) - 1
      BY DEF count
    <3>. QED
      BY <1>1, <2>2, <3>1, RegroupAscends, Zenon
  <2>7. Ends(new, k + 1)
    BY <2>2, <2>4, RegroupOne, Zenon
  <2>8. Grows(new, k + 1)
    <3>1. ASSUME k + 1 < c PROVE ByteLen(TailOf(new, id)) = first + t[k + 1]
      <4>1. k + 1 \in 1 .. c - 1 /\ (k + 1) - 1 = k /\ k \in 0 .. c - 1 /\ k < c /\ k + 1 \in 1 .. c
        BY <1>4, <2>1, <3>1
      <4>2. t[k + 1] = IF row.id = id THEN t[k] + ByteLen(row.cells) ELSE 0
        BY <1>5, <4>1
      <4>3. row.id = id => row.wrapped
        <5>1. ASSUME row.id = id PROVE row.wrapped
          <6>1. k + 2 \in 1 .. count /\ k + 1 <= k + 2 /\ k + 2 <= c /\ (k + 1) + 1 = k + 2 /\ k + 1 < count
            BY <1>1, <1>4, <2>1, <3>1
          <6>2. rows[k + 1].id <= rows[k + 2].id /\ rows[k + 2].id <= rows[c].id
            BY <1>4, <1>8, <2>1, <6>1, Zenon
          <6>3. rows[k + 2].id \in Nat
            BY <1>1, <6>1
          <6>4. rows[k + 2].id = rows[k + 1].id
            BY <2>4, <5>1, <6>2, <6>3
          <6>. QED
            BY <1>1, <2>1, <6>1, <6>4 DEF RowsInOrder, count
        <5>. QED
          BY <5>1
      <4>4. ByteLen(TailOf(new, id)) =
                IF row.id = id THEN ByteLen(TailOf(lines, id)) + ByteLen(row.cells) ELSE 0
        BY <2>2, <2>4, <4>3, RegroupAbove
      <4>5. ByteLen(TailOf(lines, id)) = first + t[k] /\ t[k] \in Nat /\ first \in Nat
        BY <1>2, <1>6, <2>3, <4>1
      <4>6. row.cells \in Seq(Cells)
        BY <2>4 DEF RowBelow
      <4>7. ByteLen(row.cells) \in Nat
        BY <4>6, ByteLenNat
      <4>8. row.id # id => first = 0
        BY <1>2, <4>1
      <4>. HIDE DEF row, new, id
      <4>. QED
        BY <4>2, <4>4, <4>5, <4>7, <4>8
    <3>. QED
      BY <3>1
  <2>9. Goes(new, k + 1)
    <3>1. CASE k + 1 = c
      <4>1. row = here /\ k < c /\ k = c - 1
        BY <1>4, <2>1, <3>1
      <4>2. ByteLen(TailOf(lines, id)) = first + above
        BY <1>5, <2>3, <4>1
      <4>3. LinesAscend(new)
        BY <2>6 DEF LinesOfRows
      <4>4. GoesThrough(new, row, ByteLen(TailOf(lines, row.id)))
        BY <2>2, <2>4, <2>5, <4>3, RegroupAt
      <4>. QED
        BY <4>1, <4>2, <4>4, Zenon
    <3>2. CASE k + 1 > c
      <4>1. k >= c /\ k > 0 /\ k \in 1 .. count /\ c <= k /\ c + 1 <= k + 1 /\ c + 1 \in 1 .. count /\ c < count
        BY <1>1, <1>4, <2>1, <3>2
      <4>2. GoesThrough(lines, here, first + above)
        BY <2>3, <4>1
      <4>3. row.id = here.id => here.wrapped /\ Len(lines) > 0 /\ lines[Len(lines)].id = here.id
        <5>1. ASSUME row.id = here.id
              PROVE  here.wrapped /\ Len(lines) > 0 /\ lines[Len(lines)].id = here.id
          <6>1. /\ rows[c].id <= rows[k].id /\ rows[k].id <= rows[k + 1].id
                /\ rows[c].id <= rows[c + 1].id /\ rows[c + 1].id <= rows[k + 1].id
            <7>. c <= c + 1 /\ k <= k + 1
              BY <1>4, <2>1
            <7>. QED
              BY <1>4, <1>8, <2>1, <4>1
          <6>2. rows[k].id \in Nat /\ rows[c + 1].id \in Nat
            BY <1>1, <4>1
          <6>3. rows[k].id = here.id /\ rows[c + 1].id = here.id
            BY <2>4, <5>1, <6>1, <6>2
          <6>4. here.wrapped
            BY <1>1, <1>4, <4>1, <6>3 DEF RowsInOrder, count
          <6>. QED
            BY <2>3, <4>1, <6>3, <6>4
        <5>. QED
          BY <5>1
      <4>4. GoesThrough(new, here, first + above)
        BY <2>2, <2>4, <4>2, <4>3, RegroupBelow
      <4>. QED
        BY <4>4, Zenon
    <3>3. CASE k + 1 < c
      BY <1>4, <2>1, <3>3
    <3>. QED
      BY <1>4, <2>1, <3>1, <3>2, <3>3
  <2>. HIDE DEF Ends, Grows, Goes, new, row
  <2>10. new \in Inv[k + 1]
    BY <2>1, <2>5, <2>6, <2>7, <2>8, <2>9 DEF Inv
  <2>. QED
    BY <2>10, Zenon DEF RegroupRow, new, row
<1>10. head \in Inv[0]
  <2>1. Ends(head, 0) /\ Goes(head, 0)
    BY <1>4
  <2>2. Grows(head, 0)
    BY <1>2, <1>5
  <2>3. 0 \in 0 .. count
    BY <1>1
  <2>. HIDE DEF Ends, Grows, Goes
  <2>. QED
    BY <1>3, <2>1, <2>2, <2>3
<1>11. ActiveLines(g) = Regrouping!FoldOf(0, 0, head, rows)
  BY Zenon DEF ActiveLines, Regrouping!FoldOf, RegroupRow, FoldLeft, MapThenFoldSet, Max,
               Regrouping!MapThenFoldSet, Regrouping!Greatest, head, rows
<1>. HIDE DEF Inv
<1>12. Regrouping!FoldOf(0, 0, head, rows) \in Inv[count]
  BY ONLY <1>1, <1>9, <1>10, Regrouping!FoldAlong, Zenon
<1>. DEFINE lines == ActiveLines(g)
<1>13. Goes(lines, count)
  BY <1>1, <1>11, <1>12 DEF Inv
<1>14. GoesThrough(lines, here, first + above)
  BY <1>1, <1>4, <1>13
<1>. QED
  BY <1>7, <1>14 DEF above, first, rows

\* A text splits in two wherever it is cut.
LEMMA TextParts ==
    ASSUME NEW cells, cells \in Seq(Cells), NEW b \in 0 .. Len(cells), NEW a \in 0 .. b
    PROVE  SubSeq(cells, 1, b) = SubSeq(cells, 1, a) \o SubSeq(cells, a + 1, b)
  OBVIOUS

\* Of two parts that a text begins with, one goes on with the other.
LEMMA PartsOfText ==
    ASSUME NEW cells, cells \in Seq(Cells), NEW end \in 0 .. Len(cells), NEW m \in 0 .. Len(cells)
    PROVE  /\ SubSeq(cells, 1, end) \in Seq(Cells) /\ SubSeq(cells, 1, m) \in Seq(Cells)
           /\ \E rest : /\ rest \in Seq(Cells)
                       /\ \/ SubSeq(cells, 1, end) = SubSeq(cells, 1, m) \o rest
                          \/ SubSeq(cells, 1, m) = SubSeq(cells, 1, end) \o rest /\ end # Len(cells)
<1>1. /\ SubSeq(cells, 1, end) \in Seq(Cells) /\ SubSeq(cells, 1, m) \in Seq(Cells)
      /\ SubSeq(cells, m + 1, end) \in Seq(Cells) /\ SubSeq(cells, end + 1, m) \in Seq(Cells)
  OBVIOUS
<1>2. CASE m <= end
  <2>1. SubSeq(cells, 1, end) = SubSeq(cells, 1, m) \o SubSeq(cells, m + 1, end)
    <3>1. m \in 0 .. end
      BY <1>2
    <3>. QED
      BY <3>1, TextParts
  <2>. QED
    BY <1>1, <2>1, Zenon
<1>3. CASE ~(m <= end)
  <2>1. SubSeq(cells, 1, m) = SubSeq(cells, 1, end) \o SubSeq(cells, end + 1, m)
    <3>1. end \in 0 .. m
      BY <1>3
    <3>. QED
      BY <3>1, TextParts
  <2>2. end # Len(cells)
    BY <1>3
  <2>. QED
    BY <1>1, <2>1, <2>2, Zenon
<1>. QED
  BY <1>2, <1>3, Zenon

\* On a screen in order the cursor's offset falls between two graphemes of
\* every line that the cursor's row is of.
LEMMA AnchorFalls ==
    ASSUME NEW n \in Nat, NEW g \in GridsAt(n), InOrder(g)
    PROVE  BetweenGraphemes(g)
<1>. DEFINE rows == g.rows
            lines == ActiveLines(g)
            anchor == CursorAnchor(g)
            c == g.cursor.row + 1
            here == rows[c]
            cells == here.cells
            col == g.cursor.col
            first == HeadBytes(g, here.id)
            above == BytesAtEnd(SubSeq(rows, 1, g.cursor.row), here.id)
<1>1. /\ g.cursor.row \in Nat /\ col \in Nat /\ rows \in RowsBelow(n) /\ Len(rows) \in Nat
      /\ \A r \in 1 .. Len(rows) : rows[r] \in RowBelow(n)
  BY GridParts, RowIds, Zenon
<1>2. lines \in Seq(LineBelow(n))
  BY ActiveLinesType
<1>3. SUFFICES ASSUME NEW i \in 1 .. Len(lines), lines[i].id = anchor.id
               PROVE  Falls(lines[i].text, anchor.off)
  <2>. HIDE DEF lines, anchor
  <2>1. ToSet(lines) = {lines[i] : i \in 1 .. Len(lines)}
    BY <1>2 DEF ToSet
  <2>. QED
    BY <2>1, Zenon DEF BetweenGraphemes, OffsetIn, Falls, lines, anchor
<1>4. lines[i].text \in Seq(Cells)
  <2>1. lines[i] \in LineBelow(n)
    BY <1>2
  <2>. QED
    BY <2>1 DEF LineBelow
<1>. HIDE DEF lines
<1>5. CASE g.cursor.row >= Len(rows)
  <2>1. anchor.off = 0
    BY <1>5 DEF CursorAnchor
  <2>2. PICK text : text = lines[i].text
    OBVIOUS
  <2>3. 0 \in 0 .. Len(text) /\ SubSeq(text, 1, 0) = << >>
    BY <1>4, <2>2
  <2>4. ByteLen(SubSeq(text, 1, 0)) = 0
    BY <2>3, NoBytes, Zenon
  <2>5. ByteLen(text) \in Nat
    BY <1>4, <2>2, ByteLenNat
  <2>. HIDE DEF anchor
  <2>6. Less(anchor.off, ByteLen(text)) = 0
    BY <2>1, <2>5 DEF Less
  <2>. QED
    BY <2>2, <2>3, <2>4, <2>6, Zenon DEF Falls
<1>6. CASE ~(g.cursor.row >= Len(rows))
  <2>1. c \in 1 .. Len(rows) /\ c - 1 = g.cursor.row /\ here \in RowBelow(n)
    BY <1>1, <1>6, SMTT(60)
  <2>2. anchor = [id |-> here.id, off |-> first + above + ContentBytes(cells, col)]
    BY <1>6, Zenon DEF CursorAnchor
  <2>3. anchor.id = here.id /\ anchor.off = first + above + ContentBytes(cells, col)
    BY <2>2
  <2>. HIDE DEF anchor
  <2>4. GoesThrough(lines, here, first + above)
    BY <2>1, LinesGoThrough, Zenon DEF lines
  <2>5. PICK packed : packed = Packed(cells, ~here.wrapped)
    OBVIOUS
  <2>6. PICK before, behind :
            /\ before \in Seq(Cells) /\ behind \in Seq(Cells)
            /\ ByteLen(before) = first + above
            /\ lines[i].text = before \o packed \o behind
            /\ here.wrapped \/ behind = << >>
    BY <1>3, <2>3, <2>4, <2>5, Zenon DEF GoesThrough
  <2>7. /\ cells \in Seq(Cells)
        /\ \E end \in 0 .. Len(cells) :
             packed = TextCells(SubSeq(cells, 1, end)) /\ (~here.wrapped \/ end = Len(cells))
    BY <2>1, <2>5, PackedRow, Zenon
  <2>8. PICK end \in 0 .. Len(cells) :
             packed = TextCells(SubSeq(cells, 1, end)) /\ (~here.wrapped \/ end = Len(cells))
    BY <2>7, Zenon
  <2>9. PICK all : all = cells
    OBVIOUS
  <2>10. PICK m : m = IF col < Len(all) THEN col ELSE Len(all)
    BY Zenon
  <2>11. m \in 0 .. Len(all) /\ end \in 0 .. Len(all) /\ all \in Seq(Cells)
    <3>1. all \in Seq(Cells) /\ end \in 0 .. Len(all)
      BY <2>7, <2>9, Zenon
    <3>2. PICK far : far = col /\ far \in Nat
      BY <1>1
    <3>3. Len(all) \in Nat
      BY <3>1
    <3>4. m = IF far < Len(all) THEN far ELSE Len(all)
      BY <2>10, <3>2, Zenon
    <3>5. m \in 0 .. Len(all)
      BY ONLY <3>2, <3>3, <3>4
    <3>. QED
      BY <3>1, <3>5
  <2>12. ContentBytes(cells, col) = ByteLen(SubSeq(all, 1, m))
    BY <2>9, <2>10, Zenon DEF ContentBytes
  <2>13. PICK kept, seen, rest :
             /\ kept = SubSeq(all, 1, end) /\ seen = SubSeq(all, 1, m)
             /\ kept \in Seq(Cells) /\ seen \in Seq(Cells) /\ rest \in Seq(Cells)
             /\ kept = seen \o rest \/ (seen = kept \o rest /\ end # Len(all))
    <3>1. PICK kept, seen : kept = SubSeq(all, 1, end) /\ seen = SubSeq(all, 1, m)
      BY Zenon
    <3>2. /\ SubSeq(all, 1, end) \in Seq(Cells) /\ SubSeq(all, 1, m) \in Seq(Cells)
          /\ \E rest : /\ rest \in Seq(Cells)
                      /\ \/ SubSeq(all, 1, end) = SubSeq(all, 1, m) \o rest
                         \/ SubSeq(all, 1, m) = SubSeq(all, 1, end) \o rest /\ end # Len(all)
      BY ONLY <2>11, PartsOfText, Zenon
    <3>. QED
      BY ONLY <3>1, <3>2, Zenon
  <2>14. PICK text, off : text = lines[i].text /\ off = anchor.off
    OBVIOUS
  <2>15. text = before \o TextCells(kept) \o behind
    BY <2>6, <2>8, <2>9, <2>13, <2>14, Zenon
  <2>16. off = ByteLen(before) + ByteLen(seen)
    BY <2>3, <2>6, <2>12, <2>13, <2>14, Zenon
  <2>17. kept = seen \o rest \/ (seen = kept \o rest /\ behind = << >>)
    BY <2>6, <2>8, <2>9, <2>13, Zenon
  <2>18. before \in Seq(Cells) /\ behind \in Seq(Cells)
    BY <2>6, Zenon
  <2>19. kept \in Seq(Cells) /\ seen \in Seq(Cells) /\ rest \in Seq(Cells)
    BY <2>13, Zenon
  <2>20. Falls(text, off)
    <3>1. Parts(before, kept, seen, rest, behind)
      BY <2>17, <2>18, <2>19, Zenon DEF Parts
    <3>2. Falls(before \o TextCells(kept) \o behind, ByteLen(before) + ByteLen(seen))
      BY <3>1, OffsetFalls, Zenon
    <3>. QED
      BY <2>15, <2>16, <3>2, Zenon
  <2>. QED
    BY <2>14, <2>20, Zenon
<1>. QED
  BY <1>5, <1>6

\* Where a grapheme ends a character ends: the slice at the anchor does not panic.
LEMMA BetweenAligned == \A g : BetweenGraphemes(g) => AnchorAligned(g)
  BY Zenon DEF BetweenGraphemes, AnchorAligned, EndsAt

\* AnchorOnGrapheme: reflow can always find the cursor's grapheme on a screen
\* that output and resizes alone have written.
THEOREM AnchorFound == OrderedSpec => []AnchorOnGrapheme
<1>1. ScreenInv /\ InOrder(PrimaryGrid) => AnchorOnGrapheme
  BY InvGrid, PrimaryLines, AnchorFalls DEF AnchorOnGrapheme
<1>. QED
  BY <1>1, LinesInOrder, PTL

\* Reflow never panics on such a screen, so it keeps its shape: only a line edit
\* on an alternate screen without rows could lose it.
THEOREM OrderKeepsShape == OrderedSpec /\ [][~EditsNoRows]_vars => []ScreenTypeOK
<1>. DEFINE Inv == ScreenInv /\ ShapeInv /\ InOrder(PrimaryGrid)
<1>1. Init => Inv
  BY InitInv, InitInOrder
<1>2. Inv /\ [Next /\ ~Disorders]_vars /\ [~EditsNoRows]_vars => Inv'
  <2>1. ASSUME Inv, Next /\ ~Disorders, ~EditsNoRows PROVE Inv'
    <3>1. AnchorAligned(PrimaryGrid)
      <4>1. BetweenGraphemes(PrimaryGrid)
        BY <2>1, InvGrid, PrimaryLines, AnchorFalls
      <4>. QED
        BY <4>1, BetweenAligned, Zenon
    <3>2. ~LosesShape
      BY <2>1, <3>1, Zenon DEF LosesShape, ReflowPanics, PrimaryGrid
    <3>3. [Next]_vars /\ [Next /\ ~Disorders]_vars
      BY <2>1
    <3>4. ScreenInv' /\ ShapeInv'
      BY <2>1, <3>2, <3>3, NextStep DEF GoodStep
    <3>5. InOrder(PrimaryGrid')
      BY <2>1, <3>3, NextInOrder DEF StaysInOrder
    <3>. QED
      BY <3>4, <3>5
  <2>2. ASSUME Inv, UNCHANGED vars PROVE Inv'
    BY <2>2 DEF vars, ScreenInv, ShapeInv, IsAlternate, InOrder, PrimaryGrid
  <2>. QED
    BY <2>1, <2>2
<1>3. Inv => ScreenTypeOK
  BY TypesInShape
<1>. QED
  BY <1>1, <1>2, <1>3, PTL DEF OrderedSpec
=============================================================================
