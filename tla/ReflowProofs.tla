---------------------------- MODULE ReflowProofs ----------------------------
(***************************************************************************)
(* What survives a change of width, for every line and every series of     *)
(* widths: the visible graphemes, the greedy wrap, and a line of narrow    *)
(* graphemes as it was.                                                    *)
(***************************************************************************)
EXTENDS Reflow, LineProofs

\* The loop of Ink.
LeavesMark(cell) == HoldsText(cell) /\ ~IsBlank(cell)
InkOne(c, d, text, cell) == IF LeavesMark(cell) THEN Append(text, cell) ELSE text

Inking == INSTANCE LoopLemmas WITH Body <- InkOne

\* Ink is a fold over the cells.
LEMMA InkFold ==
    ASSUME NEW text
    PROVE  Ink(text) = Inking!FoldOf(0, 0, << >>, text)
  BY Zenon DEF Ink, Chosen, Inking!FoldOf, InkOne, LeavesMark, FoldLeft, MapThenFoldSet, Max,
               Inking!MapThenFoldSet, Inking!Greatest

\* Picking out the ink only ever adds to the end.
LEMMA InkAppends ==
    ASSUME NEW S
    PROVE  Inking!Appends(0, 0, S, S)
<1>1. SUFFICES ASSUME NEW acc \in Seq(S), NEW cell \in S
               PROVE  /\ InkOne(0, 0, << >>, cell) \in Seq(S)
                      /\ InkOne(0, 0, acc, cell) = acc \o InkOne(0, 0, << >>, cell)
  BY Zenon DEF Inking!Appends
<1>2. CASE LeavesMark(cell)
  BY <1>2 DEF InkOne
<1>3. CASE ~LeavesMark(cell)
  BY <1>3 DEF InkOne
<1>. QED
  BY <1>2, <1>3

\* The ink of two texts one after the other is that of the first, then that of
\* the second.
LEMMA InkConcat ==
    ASSUME NEW X, NEW f \in Seq(X), NEW g \in Seq(X)
    PROVE  Ink(f) \in Seq(X) /\ Ink(f \o g) = Ink(f) \o Ink(g)
<1>1. Inking!Appends(0, 0, X, X)
  BY InkAppends
<1>2. /\ Inking!FoldOf(0, 0, << >>, f) \in Seq(X)
      /\ Inking!Splits(0, 0, f, g)
  BY <1>1, Inking!FoldConcat
<1>3. /\ Ink(f) = Inking!FoldOf(0, 0, << >>, f)
      /\ Ink(g) = Inking!FoldOf(0, 0, << >>, g)
      /\ Ink(f \o g) = Inking!FoldOf(0, 0, << >>, f \o g)
  BY InkFold
<1>. QED
  BY <1>2, <1>3 DEF Inking!Splits

\* One cell more is one mark more, or none.
LEMMA InkAppend ==
    ASSUME NEW X, NEW f \in Seq(X), NEW cell \in X
    PROVE  /\ Ink(<< >>) = << >>
           /\ Ink(Append(f, cell)) = IF LeavesMark(cell) THEN Append(Ink(f), cell) ELSE Ink(f)
<1>1. Inking!FoldOf(0, 0, << >>, << >>) = << >>
  BY Inking!FoldEmpty
<1>2. Inking!FoldOf(0, 0, << >>, Append(f, cell))
        = InkOne(0, 0, Inking!FoldOf(0, 0, << >>, f), cell)
  BY Inking!FoldAppend
<1>. QED
  BY <1>1, <1>2, InkFold, Zenon DEF InkOne

\* One cell more holds text, or does not.
LEMMA TextAppend ==
    ASSUME NEW X, NEW f \in Seq(X), NEW cell \in X
    PROVE  /\ TextCells(<< >>) = << >>
           /\ TextCells(Append(f, cell)) = IF HoldsText(cell) THEN Append(TextCells(f), cell) ELSE TextCells(f)
<1>1. Choosing!FoldOf(0, 0, << >>, << >>) = << >>
  BY Choosing!FoldEmpty
<1>2. Choosing!FoldOf(0, 0, << >>, Append(f, cell))
        = Choose(0, 0, Choosing!FoldOf(0, 0, << >>, f), cell)
  BY Choosing!FoldAppend
<1>. QED
  BY <1>1, <1>2, ChosenFold, Zenon DEF Choose

\* Every cell holds text.
AllText(f) == \A i \in DOMAIN f : HoldsText(f[i])

\* A line of text cells, filtered, is itself; text holds all the ink.
TextIn(f) ==
    /\ TextCells(f) \in Seq(TextCell)
    /\ Ink(TextCells(f)) = Ink(f)
    /\ AllText(f) => TextCells(f) = f

\* Dropping the spacers of a row drops no ink.
LEMMA TextHasInk ==
    ASSUME NEW f \in Seq(Cells)
    PROVE  TextIn(f)
<1>. DEFINE n == Len(f)
            upto(k) == SubSeq(f, 1, k)
            T == {k \in 0 .. n : TextIn(upto(k))}
<1>1. n \in Nat
  OBVIOUS
<1>2. 0 \in T
  <2>1. upto(0) = << >>
    OBVIOUS
  <2>2. Blank \in Cells
    BY SpacerCell
  <2>3. TextCells(<< >>) = << >> /\ Ink(<< >>) = << >>
    <3>1. << >> \in Seq(Cells)
      OBVIOUS
    <3>. QED
      BY <2>2, <3>1, TextAppend, InkAppend
  <2>4. TextIn(<< >>)
    <3>1. << >> \in Seq(TextCell)
      OBVIOUS
    <3>. QED
      BY <2>3, <3>1, Zenon DEF TextIn
  <2>5. TextIn(upto(0))
    BY <2>1, <2>4, Zenon
  <2>. HIDE DEF upto
  <2>. QED
    BY <1>1, <2>5
<1>3. ASSUME NEW k \in 0 .. n - 1, k \in T PROVE k + 1 \in T
  <2>. DEFINE g == upto(k)
              cell == f[k + 1]
  <2>1. g \in Seq(Cells) /\ upto(k + 1) = Append(g, cell) /\ cell \in Cells /\ TextIn(g)
    <3>1. TextIn(g)
      BY <1>3
    <3>. QED
      BY <3>1, Choosing!OneMore
  <2>. HIDE DEF g, cell, upto
  <2>2. TextIn(Append(g, cell))
    <3>1. /\ TextCells(Append(g, cell)) = IF HoldsText(cell) THEN Append(TextCells(g), cell) ELSE TextCells(g)
          /\ Ink(Append(g, cell)) = IF LeavesMark(cell) THEN Append(Ink(g), cell) ELSE Ink(g)
      BY <2>1, TextAppend, InkAppend
    <3>2. TextCells(g) \in Seq(TextCell) /\ Ink(TextCells(g)) = Ink(g)
      BY <2>1 DEF TextIn
    <3>3. CASE HoldsText(cell)
      <4>1. cell \in TextCell
        BY <2>1, <3>3 DEF TextCell
      <4>2. Append(TextCells(g), cell) \in Seq(TextCell)
        BY <3>2, <4>1
      <4>3. Ink(Append(TextCells(g), cell))
              = IF LeavesMark(cell) THEN Append(Ink(TextCells(g)), cell) ELSE Ink(TextCells(g))
        BY <3>2, <4>1, InkAppend
      <4>4. ASSUME AllText(Append(g, cell))
            PROVE  TextCells(g) = g
        <5>1. ASSUME NEW i \in DOMAIN g PROVE HoldsText(g[i])
          <6>1. i \in DOMAIN Append(g, cell) /\ Append(g, cell)[i] = g[i]
            BY <2>1
          <6>. QED
            BY <4>4, <6>1, Zenon DEF AllText
        <5>. QED
          BY <2>1, <5>1 DEF TextIn, AllText
      <4>5. TextCells(Append(g, cell)) = Append(TextCells(g), cell)
        BY <3>1, <3>3, Zenon
      <4>6. Ink(TextCells(Append(g, cell))) = Ink(Append(g, cell))
        <5>1. CASE LeavesMark(cell)
          BY <3>1, <3>2, <4>3, <4>5, <5>1, Zenon
        <5>2. CASE ~LeavesMark(cell)
          BY <3>1, <3>2, <4>3, <4>5, <5>2, Zenon
        <5>. QED
          BY <5>1, <5>2
      <4>. QED
        BY <4>2, <4>4, <4>5, <4>6, Zenon DEF TextIn
    <3>4. CASE ~HoldsText(cell)
      <4>1. ~LeavesMark(cell)
        BY <3>4 DEF LeavesMark
      <4>2. ~AllText(Append(g, cell))
        <5>1. Len(g) + 1 \in DOMAIN Append(g, cell) /\ Append(g, cell)[Len(g) + 1] = cell
          BY <2>1
        <5>. QED
          BY <3>4, <5>1, Zenon DEF AllText
      <4>. QED
        BY <3>1, <3>2, <3>4, <4>1, <4>2, Zenon DEF TextIn
    <3>. QED
      BY <3>3, <3>4
  <2>3. k + 1 \in 0 .. n
    BY <1>1
  <2>. QED
    BY <2>1, <2>2, <2>3
<1>4. TextIn(upto(n))
  <2>. HIDE DEF upto
  <2>1. n \in T
    <3>. HIDE DEF T, n
    <3>1. \A k \in 0 .. n : k \in T
      BY <1>1, <1>2, <1>3, Choosing!Induction
    <3>. QED
      BY <1>1, <3>1
  <2>. QED
    BY <2>1
<1>5. upto(n) = f
  OBVIOUS
<1>. QED
  BY <1>4, <1>5

\* What stands behind the last mark adds no ink.
LEMMA InkBefore ==
    ASSUME NEW f \in Seq(Cells), NEW end \in 0 .. Len(f),
           \A i \in end + 1 .. Len(f) : ~LeavesMark(f[i])
    PROVE  Ink(SubSeq(f, 1, end)) = Ink(f)
<1>. DEFINE n == Len(f) - end
            upto(k) == SubSeq(f, 1, end + k)
            T == {k \in 0 .. n : Ink(upto(k)) = Ink(upto(0))}
<1>1. n \in Nat /\ Len(f) \in Nat
  OBVIOUS
<1>2. 0 \in T
  <2>. HIDE DEF upto
  <2>. QED
    BY <1>1
<1>3. ASSUME NEW k \in 0 .. n - 1, k \in T PROVE k + 1 \in T
  <2>. DEFINE at == end + k
              g == SubSeq(f, 1, at)
              cell == f[at + 1]
  <2>1. at \in 0 .. Len(f) - 1 /\ at + 1 \in end + 1 .. Len(f)
    BY <1>1
  <2>2. end + (k + 1) = at + 1
    BY <1>1
  <2>. HIDE DEF at
  <2>3. g \in Seq(Cells) /\ SubSeq(f, 1, at + 1) = Append(g, cell) /\ cell \in Cells
    BY <2>1, Choosing!OneMore
  <2>4. ~LeavesMark(cell)
    BY <2>1
  <2>. HIDE DEF g, cell
  <2>5. Ink(Append(g, cell)) = Ink(g)
    BY <2>3, <2>4, InkAppend, Zenon
  <2>6. Ink(upto(k + 1)) = Ink(upto(k))
    BY <2>2, <2>3, <2>5 DEF g, at
  <2>7. k + 1 \in 0 .. n
    BY <1>1
  <2>. HIDE DEF upto, n
  <2>. QED
    BY <1>3, <2>6, <2>7
<1>4. Ink(upto(n)) = Ink(upto(0))
  <2>. HIDE DEF upto
  <2>1. n \in T
    <3>. HIDE DEF T, n
    <3>1. \A k \in 0 .. n : k \in T
      BY <1>1, <1>2, <1>3, Choosing!Induction
    <3>. QED
      BY <1>1, <3>1
  <2>. QED
    BY <2>1
<1>5. upto(n) = f /\ upto(0) = SubSeq(f, 1, end)
  <2>1. end + n = Len(f) /\ end + 0 = end
    BY <1>1
  <2>. HIDE DEF n
  <2>. QED
    BY <2>1
<1>. QED
  BY <1>4, <1>5, Zenon

-----------------------------------------------------------------------------
(* Packing. *)

\* Where the text of row `k` ends: only the last row is trimmed.
End(rs, k) == IF k = Len(rs) THEN LastVisible(rs[k]) ELSE Len(rs[k])

\* The loop of Packing.
PackRow(rs, d, text, k) == PushCells(text, rs[k], k = Len(rs))

Stacking == INSTANCE LoopLemmas WITH Body <- PackRow

\* What row `k` adds to the line.
RowText(rs, k) == TextCells(SubSeq(rs[k], 1, End(rs, k)))

\* A row adds its cells that hold text, up to its end.
LEMMA RowPushed ==
    ASSUME NEW rs, NEW text, NEW k
    PROVE  PackRow(rs, 0, text, k) = text \o RowText(rs, k)
<1>1. CASE k = Len(rs)
  BY <1>1, Zenon DEF PackRow, PushCells, Packed, RowText, End, LastVisible, TextCells
<1>2. CASE k # Len(rs)
  BY <1>2, Zenon DEF PackRow, PushCells, Packed, RowText, End, LastVisible, TextCells
<1>. QED
  BY <1>1, <1>2

\* The end of a row is one of its places, and what is behind it is blank.
LEMMA RowEnd ==
    ASSUME NEW rs \in Seq(Seq(Cells)), NEW k \in 1 .. Len(rs)
    PROVE  /\ rs[k] \in Seq(Cells)
           /\ End(rs, k) \in 0 .. Len(rs[k])
           /\ \A i \in End(rs, k) + 1 .. Len(rs[k]) : IsBlank(rs[k][i])
<1>1. rs[k] \in Seq(Cells)
  OBVIOUS
<1>2. CASE k = Len(rs)
  BY <1>1, <1>2, LastVisibleCell DEF End
<1>3. CASE k # Len(rs)
  <2>. DEFINE row == rs[k]
  <2>1. row \in Seq(Cells) /\ End(rs, k) = Len(row)
    BY <1>1, <1>3 DEF End
  <2>. HIDE DEF row
  <2>2. Len(row) \in Nat
    BY <2>1
  <2>. QED
    BY <2>1, <2>2 DEF row
<1>. QED
  BY <1>2, <1>3

\* What a row adds is text, with all of its ink.
LEMMA RowTextInk ==
    ASSUME NEW rs \in Seq(Seq(Cells)), NEW k \in 1 .. Len(rs)
    PROVE  RowText(rs, k) \in Seq(TextCell) /\ Ink(RowText(rs, k)) = Ink(rs[k])
<1>. DEFINE row == rs[k]
            end == End(rs, k)
            part == SubSeq(row, 1, end)
<1>1. row \in Seq(Cells) /\ end \in 0 .. Len(row) /\ \A i \in end + 1 .. Len(row) : IsBlank(row[i])
  BY RowEnd
<1>. HIDE DEF row, end
<1>2. part \in Seq(Cells)
  BY <1>1
<1>3. Ink(part) = Ink(row)
  BY <1>1, InkBefore DEF LeavesMark
<1>. HIDE DEF part
<1>4. TextCells(part) \in Seq(TextCell) /\ Ink(TextCells(part)) = Ink(part)
  BY <1>2, TextHasInk DEF TextIn
<1>5. RowText(rs, k) = TextCells(part)
  BY Zenon DEF RowText, part, row, end
<1>. QED
  BY <1>3, <1>4, <1>5, Zenon DEF row

\* Packing is a fold over the rows.
LEMMA PackingFold ==
    ASSUME NEW rs
    PROVE  Packing(rs) = Stacking!FoldOf(rs, 0, << >>, [k \in DOMAIN rs |-> k])
  BY Zenon DEF Packing, Stacking!FoldOf, PackRow, FoldLeftDomain, FoldLeft, MapThenFoldSet, Max,
               Stacking!MapThenFoldSet, Stacking!Greatest

\* Packing takes the rows in their order: `t[k]` is the line after `k` of them.
Stacked(rs, t) ==
    /\ t[0] = << >> /\ Packing(rs) = t[Len(rs)]
    /\ \A k \in 1 .. Len(rs) : t[k] = t[k - 1] \o RowText(rs, k)

\* Packing has such a trace.
LEMMA PackingTrace ==
    ASSUME NEW rs \in Seq(Seq(Cells))
    PROVE  \E t : Stacked(rs, t)
<1>. DEFINE n == Len(rs)
            e == [k \in DOMAIN rs |-> k]
<1>1. n \in Nat /\ DOMAIN e = 1 .. n /\ \A k \in 1 .. n : e[k] = k
  OBVIOUS
<1>. HIDE DEF n, e
<1>2. PICK t : Stacking!Trace(rs, 0, << >>, e, n, t) /\ Stacking!FoldOf(rs, 0, << >>, e) = t[n]
  BY <1>1, Stacking!FoldTrace
<1>3. t[0] = << >> /\ Packing(rs) = t[n]
  BY <1>2, PackingFold, Zenon DEF Stacking!Trace, e
<1>4. ASSUME NEW k \in 1 .. n PROVE t[k] = t[k - 1] \o RowText(rs, k)
  <2>1. t[k] = PackRow(rs, 0, t[k - 1], e[k])
    BY <1>2, Zenon DEF Stacking!Trace
  <2>. QED
    BY <1>1, <2>1, RowPushed, Zenon
<1>. QED
  BY <1>3, <1>4, Zenon DEF Stacked, n

\* Flattening one part more adds it to the end.
LEMMA FlattenAppend ==
    ASSUME NEW X, NEW f \in Seq(Seq(X)), NEW part \in Seq(X)
    PROVE  FlattenSeq(<< >>) = << >> /\ FlattenSeq(Append(f, part)) = FlattenSeq(f) \o part
<1>1. Joining!FoldOf(0, 0, << >>, << >>) = << >>
  BY Joining!FoldEmpty
<1>2. Joining!FoldOf(0, 0, << >>, Append(f, part)) = Join(0, 0, Joining!FoldOf(0, 0, << >>, f), part)
  BY Joining!FoldAppend
<1>3. << >> \in Seq(Seq(X)) /\ Append(f, part) \in Seq(Seq(X))
  OBVIOUS
<1>4. /\ FlattenSeq(f) = Joining!FoldOf(0, 0, << >>, f)
      /\ FlattenSeq(<< >>) = Joining!FoldOf(0, 0, << >>, << >>)
      /\ FlattenSeq(Append(f, part)) = Joining!FoldOf(0, 0, << >>, Append(f, part))
  BY <1>3, FlattenFold
<1>. QED
  BY <1>1, <1>2, <1>4, Zenon DEF Join

\* A packed line is text, and has the ink of its rows.
LEMMA PackingInk ==
    ASSUME NEW rs \in Seq(Seq(Cells))
    PROVE  Packing(rs) \in Seq(TextCell) /\ Ink(Packing(rs)) = Ink(FlattenSeq(rs))
<1>. DEFINE n == Len(rs)
            upto(k) == SubSeq(rs, 1, k)
<1>1. n \in Nat /\ upto(0) = << >> /\ upto(n) = rs
  OBVIOUS
<1>2. PICK t : Stacked(rs, t)
  BY PackingTrace
<1>. DEFINE Good(k) == t[k] \in Seq(TextCell) /\ Ink(t[k]) = Ink(FlattenSeq(upto(k)))
            T == {k \in 0 .. n : Good(k)}
<1>3. 0 \in T
  <2>1. FlattenSeq(upto(0)) = << >>
    <3>1. << >> \in Seq(Seq(Cells)) /\ << >> \in Seq(Cells)
      OBVIOUS
    <3>. QED
      BY <1>1, <3>1, FlattenAppend
  <2>2. t[0] = << >> /\ << >> \in Seq(TextCell)
    BY <1>2 DEF Stacked
  <2>3. Good(0)
    BY <2>1, <2>2, Zenon
  <2>. HIDE DEF Good
  <2>. QED
    BY <1>1, <2>3
<1>4. ASSUME NEW k \in 0 .. n - 1, k \in T PROVE k + 1 \in T
  <2>. DEFINE g == upto(k)
              row == rs[k + 1]
              part == RowText(rs, k + 1)
  <2>1. g \in Seq(Seq(Cells)) /\ upto(k + 1) = Append(g, row) /\ row \in Seq(Cells)
    BY Choosing!OneMore
  <2>2. part \in Seq(TextCell) /\ Ink(part) = Ink(row)
    <3>1. k + 1 \in 1 .. Len(rs)
      BY <1>1
    <3>. QED
      BY <3>1, RowTextInk
  <2>3. t[k + 1] = t[k] \o part
    <3>1. k + 1 \in 1 .. Len(rs) /\ (k + 1) - 1 = k
      BY <1>1
    <3>2. t[k + 1] = t[(k + 1) - 1] \o part
      BY <1>2, <3>1 DEF Stacked
    <3>. QED
      BY <3>1, <3>2, Zenon
  <2>4. Good(k)
    <3>. HIDE DEF Good
    <3>. QED
      BY <1>4
  <2>. HIDE DEF g, row, part
  <2>5. t[k] \in Seq(TextCell) /\ Ink(t[k]) = Ink(FlattenSeq(g))
    BY <2>4 DEF g
  <2>6. FlattenSeq(Append(g, row)) = FlattenSeq(g) \o row /\ FlattenSeq(g) \in Seq(Cells)
    BY <2>1, FlattenAppend, FlattenConcat
  <2>7. Ink(FlattenSeq(g) \o row) = Ink(FlattenSeq(g)) \o Ink(row)
    BY <2>1, <2>6, InkConcat
  <2>8. Ink(t[k] \o part) = Ink(t[k]) \o Ink(part) /\ t[k] \o part \in Seq(TextCell)
    <3>. DEFINE was == t[k]
    <3>1. was \in Seq(TextCell)
      BY <2>5
    <3>. HIDE DEF was
    <3>2. was \o part \in Seq(TextCell)
      BY <2>2, <3>1
    <3>3. part \in Seq(TextCell)
      BY <2>2
    <3>4. Ink(was \o part) = Ink(was) \o Ink(part)
      BY <3>1, <3>3, InkConcat
    <3>. QED
      BY <3>2, <3>4 DEF was
  <2>9. Good(k + 1)
    BY <2>1, <2>2, <2>3, <2>5, <2>6, <2>7, <2>8, Zenon
  <2>10. k + 1 \in 0 .. n
    BY <1>1
  <2>. HIDE DEF Good
  <2>. QED
    BY <2>9, <2>10
<1>5. Good(n)
  <2>. HIDE DEF Good
  <2>1. n \in T
    <3>. HIDE DEF T, n
    <3>1. \A k \in 0 .. n : k \in T
      BY <1>1, <1>3, <1>4, Choosing!Induction
    <3>. QED
      BY <1>1, <3>1
  <2>. QED
    BY <2>1
<1>. QED
  BY <1>1, <1>2, <1>5, Zenon DEF Stacked

-----------------------------------------------------------------------------
(* Laying out. *)

\* The cells of one grapheme, and of a stretch of text.
Pair(cell) == IF Width(cell.c) = 2 THEN <<cell, Spacer(cell.s)>> ELSE <<cell>>
Unpacked(text) == FlattenSeq([i \in DOMAIN text |-> Pair(text[i])])

\* Every wide cell has its spacer behind it.
WidePaired(cells) ==
    \A c \in 1 .. Len(cells) : Width(cells[c].c) = 2 => c < Len(cells) /\ cells[c + 1] = Spacer(cells[c].s)

\* Every spacer stands behind a wide grapheme, with its style.
Spaced(cells) ==
    \A c \in 1 .. Len(cells) :
        cells[c].c = "" => c > 1 /\ Width(cells[c - 1].c) = 2 /\ cells[c] = Spacer(cells[c - 1].s)

\* All graphemes are one column wide.
Narrow(text) == \A i \in DOMAIN text : Width(text[i].c) = 1

\* The cells of a text: as many as its columns, with its ink, the wide ones in
\* pairs; and a narrow text as it is.
LaidOut(text, cells) ==
    /\ cells \in Seq(Cells)
    /\ Len(cells) = DisplayWidth(text)
    /\ Ink(cells) = Ink(text)
    /\ WidePaired(cells) /\ Spaced(cells)
    /\ Narrow(text) => cells = text

\* A grapheme takes its columns, and leaves the mark it is.
LEMMA PairType ==
    ASSUME NEW cell \in TextCell
    PROVE  /\ Pair(cell) \in Seq(Cells) /\ Len(Pair(cell)) = Width(cell.c)
           /\ Pair(cell)[1] = cell
           /\ Width(cell.c) = 2 => Pair(cell)[2] = Spacer(cell.s) /\ Width(Pair(cell)[2].c) = 0
           /\ Width(cell.c) # 2 => Pair(cell) = <<cell>>
           /\ \A f \in Seq(Cells) : Ink(f \o Pair(cell)) = Ink(Append(f, cell))
<1>1. cell \in Cells /\ cell.s \in Styles /\ HoldsText(cell)
  BY DEF TextCell, Cells
<1>2. Width(cell.c) \in {1, 2}
  BY TextWidth
<1>. DEFINE spacer == Spacer(cell.s)
<1>3. spacer \in Cells
  BY <1>1, SpacerCell
<1>4. spacer.c = ""
  BY Zenon DEF Spacer, Cell
<1>5. Width("") = 0
  <2>1. "" \notin {"W", "W+"} /\ "" \in {"", "+"}
    BY Zenon
  <2>. QED
    BY <2>1, Zenon DEF Width
<1>6. ~LeavesMark(spacer)
  BY <1>4, Zenon DEF LeavesMark, HoldsText
<1>. HIDE DEF spacer
<1>7. CASE Width(cell.c) = 2
  <2>1. Pair(cell) = <<cell, spacer>>
    BY <1>7, Zenon DEF Pair, spacer
  <2>2. ASSUME NEW f \in Seq(Cells) PROVE Ink(f \o <<cell, spacer>>) = Ink(Append(f, cell))
    <3>1. f \o <<cell, spacer>> = Append(Append(f, cell), spacer) /\ Append(f, cell) \in Seq(Cells)
      BY <1>1, <1>3
    <3>2. Ink(Append(Append(f, cell), spacer)) = Ink(Append(f, cell))
      BY <1>3, <1>6, <3>1, InkAppend, Zenon
    <3>. QED
      BY <3>1, <3>2, Zenon
  <2>3. /\ <<cell, spacer>> \in Seq(Cells) /\ Len(<<cell, spacer>>) = 2
        /\ <<cell, spacer>>[1] = cell /\ <<cell, spacer>>[2] = spacer
    BY <1>1, <1>3
  <2>4. Width(spacer.c) = 0
    BY <1>4, <1>5, Zenon
  <2>. QED
    BY <1>7, <2>1, <2>2, <2>3, <2>4, Zenon DEF spacer
<1>8. CASE Width(cell.c) # 2
  <2>1. Pair(cell) = <<cell>>
    BY <1>8, Zenon DEF Pair
  <2>2. ASSUME NEW f \in Seq(Cells) PROVE f \o <<cell>> = Append(f, cell)
    BY <1>1
  <2>3. <<cell>> \in Seq(Cells) /\ Len(<<cell>>) = 1 /\ <<cell>>[1] = cell
    BY <1>1
  <2>4. Width(cell.c) = 1
    BY <1>2, <1>8
  <2>5. \A f \in Seq(Cells) : Ink(f \o <<cell>>) = Ink(Append(f, cell))
    BY <2>2, Zenon
  <2>. QED
    BY <1>8, <2>1, <2>3, <2>4, <2>5, Zenon
<1>. QED
  BY <1>7, <1>8

\* One grapheme more: its cells are added to the end.
LEMMA UnpackedAppend ==
    ASSUME NEW text \in Seq(TextCell), NEW cell \in TextCell
    PROVE  Unpacked(<< >>) = << >> /\ Unpacked(Append(text, cell)) = Unpacked(text) \o Pair(cell)
<1>. DEFINE parts == [i \in DOMAIN text |-> Pair(text[i])]
            more == [i \in DOMAIN Append(text, cell) |-> Pair(Append(text, cell)[i])]
            part == Pair(cell)
<1>1. parts \in Seq(Seq(Cells)) /\ Len(parts) = Len(text)
  <2>1. ASSUME NEW i \in 1 .. Len(text) PROVE Pair(text[i]) \in Seq(Cells)
    <3>1. text[i] \in TextCell
      OBVIOUS
    <3>. QED
      BY <3>1, PairType
  <2>2. DOMAIN text = 1 .. Len(text) /\ Len(text) \in Nat
    OBVIOUS
  <2>. QED
    BY <2>1, <2>2
<1>2. part \in Seq(Cells)
  BY PairType
<1>3. more = Append(parts, part)
  <2>1. /\ DOMAIN Append(text, cell) = 1 .. Len(text) + 1 /\ Len(text) \in Nat
        /\ Append(text, cell)[Len(text) + 1] = cell
        /\ \A i \in 1 .. Len(text) : Append(text, cell)[i] = text[i]
        /\ DOMAIN text = 1 .. Len(text)
    OBVIOUS
  <2>2. \A i \in 1 .. Len(text) : parts[i] = Pair(text[i])
    BY <2>1
  <2>. HIDE DEF part
  <2>3. /\ DOMAIN Append(parts, part) = 1 .. Len(text) + 1
        /\ Append(parts, part)[Len(text) + 1] = part
        /\ \A i \in 1 .. Len(text) : Append(parts, part)[i] = parts[i]
        /\ Append(parts, part) \in Seq(Seq(Cells))
    <3>. HIDE DEF parts
    <3>. QED
      BY <1>1, <1>2
  <2>4. ASSUME NEW i \in 1 .. Len(text) + 1 PROVE Pair(Append(text, cell)[i]) = Append(parts, part)[i]
    <3>1. CASE i = Len(text) + 1
      BY <2>1, <2>3, <3>1, Zenon DEF part
    <3>2. CASE i # Len(text) + 1
      <4>1. i \in 1 .. Len(text)
        BY <2>1, <3>2
      <4>. QED
        BY <2>1, <2>2, <2>3, <4>1, Zenon
    <3>. QED
      BY <3>1, <3>2
  <2>5. Append(parts, part) = [i \in 1 .. Len(text) + 1 |-> Append(parts, part)[i]]
    <3>. DEFINE whole == Append(parts, part)
    <3>1. whole \in Seq(Seq(Cells)) /\ DOMAIN whole = 1 .. Len(text) + 1
      BY <2>3
    <3>. HIDE DEF whole
    <3>2. whole = [i \in DOMAIN whole |-> whole[i]]
      BY <3>1
    <3>. QED
      BY <3>1, <3>2, Zenon DEF whole
  <2>. HIDE DEF parts
  <2>. QED
    BY <2>1, <2>4, <2>5, Zenon
<1>4. Unpacked(text) = FlattenSeq(parts) /\ Unpacked(Append(text, cell)) = FlattenSeq(more)
  BY DEF Unpacked
<1>5. FlattenSeq(<< >>) = << >> /\ FlattenSeq(Append(parts, part)) = FlattenSeq(parts) \o part
  <2>. HIDE DEF parts, part
  <2>. QED
    BY <1>1, <1>2, FlattenAppend
<1>6. Unpacked(<< >>) = FlattenSeq(<< >>)
  <2>1. [i \in DOMAIN << >> |-> Pair(<< >>[i])] = << >>
    OBVIOUS
  <2>. QED
    BY <2>1, Zenon DEF Unpacked
<1>. QED
  BY <1>3, <1>4, <1>5, <1>6, Zenon

\* One grapheme more is laid out behind the others.
LEMMA UnpackOne ==
    ASSUME NEW text \in Seq(TextCell), NEW cell \in TextCell, NEW cells, LaidOut(text, cells)
    PROVE  LaidOut(Append(text, cell), cells \o Pair(cell))
<1>. DEFINE pair == Pair(cell)
            w == Width(cell.c)
            n == Len(cells)
            more == cells \o pair
<1>1. cells \in Seq(Cells) /\ n = DisplayWidth(text) /\ Ink(cells) = Ink(text) /\ WidePaired(cells)
      /\ Spaced(cells) /\ (Narrow(text) => cells = text)
  BY DEF LaidOut
<1>2. /\ pair \in Seq(Cells) /\ Len(pair) = w /\ pair[1] = cell
      /\ w = 2 => pair[2] = Spacer(cell.s) /\ Width(pair[2].c) = 0
      /\ w # 2 => pair = <<cell>>
      /\ Ink(cells \o pair) = Ink(Append(cells, cell))
  BY <1>1, PairType, Zenon
<1>3. w \in {1, 2} /\ cell \in Cells
  BY TextWidth DEF TextCell
<1>. HIDE DEF pair, w
<1>4. more \in Seq(Cells) /\ n \in Nat /\ Len(more) = n + w
  BY <1>1, <1>2
<1>5. /\ \A i \in 1 .. n : more[i] = cells[i]
      /\ more[n + 1] = cell
      /\ w = 2 => more[n + 2] = Spacer(cell.s) /\ Width(more[n + 2].c) = 0
  <2>1. \A i \in 1 .. n : more[i] = cells[i]
    BY <1>1, <1>2
  <2>2. \A i \in 1 .. w : more[n + i] = pair[i]
    BY <1>1, <1>2, <1>3
  <2>3. 1 \in 1 .. w /\ (w = 2 => 2 \in 1 .. w)
    BY <1>3
  <2>. QED
    BY <1>2, <2>1, <2>2, <2>3, Zenon
<1>6. Len(more) = DisplayWidth(Append(text, cell))
  BY <1>1, <1>4, DisplayWidthNat DEF w
<1>7. Ink(more) = Ink(Append(text, cell))
  <2>1. /\ Ink(Append(cells, cell)) = IF LeavesMark(cell) THEN Append(Ink(cells), cell) ELSE Ink(cells)
        /\ Ink(Append(text, cell)) = IF LeavesMark(cell) THEN Append(Ink(text), cell) ELSE Ink(text)
    BY <1>1, <1>3, InkAppend
  <2>2. Ink(Append(cells, cell)) = Ink(Append(text, cell))
    <3>1. CASE LeavesMark(cell)
      BY <1>1, <2>1, <3>1, Zenon
    <3>2. CASE ~LeavesMark(cell)
      BY <1>1, <2>1, <3>2, Zenon
    <3>. QED
      BY <3>1, <3>2
  <2>. QED
    BY <1>2, <2>2, Zenon
<1>8. WidePaired(more)
  <2>1. SUFFICES ASSUME NEW c \in 1 .. Len(more), Width(more[c].c) = 2
                 PROVE  c < Len(more) /\ more[c + 1] = Spacer(more[c].s)
    BY Zenon DEF WidePaired
  <2>. HIDE DEF more
  <2>2. CASE c \in 1 .. n
    <3>1. c < n /\ cells[c + 1] = Spacer(cells[c].s)
      <4>1. Width(cells[c].c) = 2
        BY <1>5, <2>1, <2>2, Zenon
      <4>. QED
        BY <1>1, <2>2, <4>1, Zenon DEF WidePaired
    <3>2. c + 1 \in 1 .. n /\ c < Len(more)
      BY <1>3, <1>4, <2>2, <3>1
    <3>. QED
      BY <1>5, <2>2, <3>1, <3>2, Zenon
  <2>3. CASE c = n + 1
    <3>1. w = 2
      BY <1>5, <2>1, <2>3, Zenon DEF w
    <3>2. c < Len(more) /\ c + 1 = n + 2
      BY <1>4, <2>3, <3>1
    <3>. QED
      BY <1>5, <2>3, <3>1, <3>2, Zenon
  <2>4. CASE c = n + 2 /\ w = 2
    <3>1. Width(more[c].c) = 0
      BY <1>5, <2>4, Zenon
    <3>. QED
      BY <2>1, <3>1
  <2>. QED
    BY <1>3, <1>4, <2>2, <2>3, <2>4
<1>9. ASSUME Narrow(Append(text, cell)) PROVE more = Append(text, cell)
  <2>. DEFINE longer == Append(text, cell)
  <2>1. /\ DOMAIN longer = 1 .. Len(text) + 1 /\ longer[Len(text) + 1] = cell
        /\ \A i \in DOMAIN text : i \in DOMAIN longer /\ longer[i] = text[i]
        /\ Len(text) + 1 \in 1 .. Len(text) + 1
    OBVIOUS
  <2>2. Narrow(text) /\ w = 1
    <3>. HIDE DEF longer
    <3>. QED
      BY <1>9, <2>1, Zenon DEF Narrow, longer, w
  <2>3. cells = text /\ pair = <<cell>>
    BY <1>1, <1>2, <2>2
  <2>. QED
    BY <2>3
<1>. HIDE DEF more
<1>10. Spaced(more)
  <2>1. SUFFICES ASSUME NEW c \in 1 .. Len(more), more[c].c = ""
                 PROVE  c > 1 /\ Width(more[c - 1].c) = 2 /\ more[c] = Spacer(more[c - 1].s)
    BY Zenon DEF Spaced
  <2>2. CASE c \in 1 .. n
    <3>1. c > 1 /\ Width(cells[c - 1].c) = 2 /\ cells[c] = Spacer(cells[c - 1].s)
      <4>1. cells[c].c = ""
        BY <1>5, <2>1, <2>2, Zenon
      <4>. QED
        BY <1>1, <2>2, <4>1, Zenon DEF Spaced
    <3>2. c - 1 \in 1 .. n
      <4>1. c > 1
        BY <3>1, Zenon
      <4>. QED
        BY <1>4, <2>2, <4>1
    <3>. QED
      BY <1>5, <2>2, <3>1, <3>2, Zenon
  <2>3. CASE c = n + 1
    BY <1>5, <2>1, <2>3, Zenon DEF TextCell, HoldsText
  <2>4. CASE c = n + 2 /\ w = 2
    <3>1. c > 1 /\ c - 1 = n + 1
      BY <1>4, <2>4
    <3>. QED
      BY <1>5, <2>4, <3>1, Zenon DEF w
  <2>5. c \in 1 .. n \/ c = n + 1 \/ (c = n + 2 /\ w = 2)
    BY <1>3, <1>4
  <2>. QED
    BY <2>2, <2>3, <2>4, <2>5
<1>11. LaidOut(Append(text, cell), more)
  BY <1>4, <1>6, <1>7, <1>8, <1>9, <1>10, Zenon DEF LaidOut
<1>. QED
  BY <1>11 DEF more, pair

\* The cells of every text are so.
LEMMA UnpackedType ==
    ASSUME NEW text \in Seq(TextCell)
    PROVE  LaidOut(text, Unpacked(text))
<1>. DEFINE n == Len(text)
            upto(k) == SubSeq(text, 1, k)
            T == {k \in 0 .. n : LaidOut(upto(k), Unpacked(upto(k)))}
<1>1. n \in Nat /\ upto(0) = << >> /\ upto(n) = text
  OBVIOUS
<1>. HIDE DEF upto
<1>2. 0 \in T
  <2>0. Blank \in TextCell
    <3>1. " " # "" /\ Blank.c = " "
      BY Zenon DEF Blank, Cell
    <3>. QED
      BY <3>1, SpacerCell DEF TextCell, HoldsText
  <2>1. Unpacked(<< >>) = << >>
    <3>1. << >> \in Seq(TextCell)
      OBVIOUS
    <3>. QED
      BY <2>0, <3>1, UnpackedAppend
  <2>2. LaidOut(<< >>, << >>)
    <3>1. << >> \in Seq(Cells) /\ Len(<< >>) = 0
      OBVIOUS
    <3>2. DisplayWidth(<< >>) = 0
      BY <3>1, DisplayWidthNat
    <3>3. WidePaired(<< >>) /\ Spaced(<< >>)
      BY DEF WidePaired, Spaced
    <3>. QED
      BY <3>1, <3>2, <3>3, Zenon DEF LaidOut
  <2>3. LaidOut(upto(0), Unpacked(upto(0)))
    BY <1>1, <2>1, <2>2, Zenon
  <2>. HIDE DEF n
  <2>. QED
    BY <1>1, <2>3
<1>3. ASSUME NEW k \in 0 .. n - 1, k \in T PROVE k + 1 \in T
  <2>. DEFINE g == upto(k)
              cell == text[k + 1]
  <2>1. g \in Seq(TextCell) /\ upto(k + 1) = Append(g, cell) /\ cell \in TextCell
    BY Choosing!OneMore DEF upto
  <2>2. LaidOut(g, Unpacked(g))
    BY <1>3
  <2>. HIDE DEF g, cell
  <2>3. Unpacked(Append(g, cell)) = Unpacked(g) \o Pair(cell)
    BY <2>1, UnpackedAppend
  <2>4. LaidOut(Append(g, cell), Unpacked(g) \o Pair(cell))
    BY <2>1, <2>2, UnpackOne
  <2>5. LaidOut(upto(k + 1), Unpacked(upto(k + 1)))
    BY <2>1, <2>3, <2>4, Zenon
  <2>6. k + 1 \in 0 .. n
    BY <1>1
  <2>. HIDE DEF n
  <2>. QED
    BY <2>5, <2>6
<1>4. LaidOut(upto(n), Unpacked(upto(n)))
  <2>1. n \in T
    <3>. HIDE DEF T, n
    <3>1. \A k \in 0 .. n : k \in T
      BY <1>1, <1>2, <1>3, Choosing!Induction
    <3>. QED
      BY <1>1, <3>1
  <2>. QED
    BY <2>1
<1>. QED
  BY <1>1, <1>4, Zenon

\* A row as wide as `w` holds the cells of a text that fits, then blanks.
RowOf(text, w) == [i \in 1 .. w |-> IF i <= Len(Unpacked(text)) THEN Unpacked(text)[i] ELSE Blank]

\* cells_in_range is so.
LEMMA RowIs ==
    ASSUME NEW text, NEW w
    PROVE  CellsInRange(text, w) = RowOf(text, w)
  BY Zenon DEF CellsInRange, RowOf, Unpacked, Pair

\* A blank leaves no mark and is one column wide.
LEMMA BlankCell ==
    Blank \in Cells /\ IsBlank(Blank) /\ ~LeavesMark(Blank) /\ Width(Blank.c) = 1
<1>1. Blank.c = " " /\ Blank.s = "plain"
  BY Zenon DEF Blank, Cell
<1>2. IsBlank(Blank)
  BY <1>1, Zenon DEF IsBlank
<1>3. Width(Blank.c) = 1
  <2>1. " " \notin {"W", "W+"} /\ " " \notin {"", "+"}
    BY Zenon
  <2>. QED
    BY <1>1, <2>1, Zenon DEF Width
<1>. QED
  BY <1>2, <1>3, SpacerCell DEF LeavesMark

\* A text that fits, in its row: all its ink, the wide cells in pairs, and a
\* narrow text as it is with blanks behind.
LEMMA FittingRow ==
    ASSUME NEW text \in Seq(TextCell), NEW w \in Nat, DisplayWidth(text) <= w
    PROVE  LET row == CellsInRange(text, w) IN
           /\ Ink(row) = Ink(text) /\ WidePaired(row) /\ Spaced(row)
           /\ Narrow(text) => /\ Len(text) <= w
                              /\ SubSeq(row, 1, Len(text)) = text
                              /\ \A i \in Len(text) + 1 .. w : row[i] = Blank
<1>. DEFINE cells == Unpacked(text)
            n == Len(cells)
            row == RowOf(text, w)
<1>1. /\ cells \in Seq(Cells) /\ n = DisplayWidth(text) /\ Ink(cells) = Ink(text) /\ WidePaired(cells)
      /\ Spaced(cells) /\ (Narrow(text) => cells = text)
  BY UnpackedType DEF LaidOut
<1>2. n \in Nat /\ n <= w
  BY <1>1
<1>3. \A i \in 1 .. w : row[i] = IF i <= n THEN cells[i] ELSE Blank
  BY Zenon DEF RowOf
<1>4. row \in Seq(Cells) /\ Len(row) = w
  <2>1. row = CellsInRange(text, w)
    BY RowIs
  <2>2. text \in Seq(Cells)
    BY DEF TextCell
  <2>. HIDE DEF row
  <2>. QED
    BY <2>1, <2>2, CellsInRangeType
<1>. HIDE DEF row, cells
<1>5. /\ \A i \in 1 .. n : row[i] = cells[i]
      /\ \A i \in n + 1 .. w : row[i] = Blank
  <2>1. ASSUME NEW i \in 1 .. n PROVE row[i] = cells[i]
    <3>1. i \in 1 .. w /\ i <= n
      BY <1>2
    <3>. QED
      BY <1>3, <3>1, Zenon
  <2>2. ASSUME NEW i \in n + 1 .. w PROVE row[i] = Blank
    <3>1. i \in 1 .. w /\ ~(i <= n)
      BY <1>2
    <3>. QED
      BY <1>3, <3>1, Zenon
  <2>. QED
    BY <2>1, <2>2
<1>6. SubSeq(row, 1, n) = cells
  <2>. DEFINE front == SubSeq(row, 1, n)
  <2>1. front \in Seq(Cells) /\ Len(front) = n /\ \A i \in 1 .. n : front[i] = row[i]
    BY <1>2, <1>4
  <2>. HIDE DEF front
  <2>2. \A i \in 1 .. n : front[i] = cells[i]
    BY <1>5, <2>1, Zenon
  <2>3. front = cells
    BY <1>1, <2>1, <2>2
  <2>. QED
    BY <2>3 DEF front
<1>7. Ink(row) = Ink(text)
  <2>1. \A i \in n + 1 .. Len(row) : ~LeavesMark(row[i])
    BY <1>4, <1>5, BlankCell, Zenon
  <2>2. n \in 0 .. Len(row)
    BY <1>2, <1>4
  <2>3. Ink(SubSeq(row, 1, n)) = Ink(row)
    <3>. HIDE DEF n
    <3>. QED
      BY <1>4, <2>1, <2>2, InkBefore
  <2>. QED
    BY <1>1, <1>6, <2>3, Zenon
<1>8. WidePaired(row)
  <2>1. SUFFICES ASSUME NEW c \in 1 .. Len(row), Width(row[c].c) = 2
                 PROVE  c < Len(row) /\ row[c + 1] = Spacer(row[c].s)
    BY Zenon DEF WidePaired
  <2>2. CASE c \in 1 .. n
    <3>1. c < n /\ cells[c + 1] = Spacer(cells[c].s)
      <4>1. Width(cells[c].c) = 2
        BY <1>5, <2>1, <2>2, Zenon
      <4>. QED
        BY <1>1, <2>2, <4>1, Zenon DEF WidePaired
    <3>2. c + 1 \in 1 .. n /\ c < Len(row)
      BY <1>2, <1>4, <2>2, <3>1
    <3>. QED
      BY <1>5, <2>2, <3>1, <3>2, Zenon
  <2>3. CASE c \notin 1 .. n
    <3>1. c \in n + 1 .. w
      BY <1>2, <1>4, <2>3
    <3>2. Width(row[c].c) = 1
      BY <1>5, <3>1, BlankCell, Zenon
    <3>. QED
      BY <2>1, <3>2
  <2>. QED
    BY <2>2, <2>3
<1>9. Narrow(text) => /\ Len(text) <= w
                     /\ SubSeq(row, 1, Len(text)) = text
                     /\ \A i \in Len(text) + 1 .. w : row[i] = Blank
  BY <1>1, <1>2, <1>5, <1>6, Zenon
<1>10. Spaced(row)
  <2>1. SUFFICES ASSUME NEW c \in 1 .. Len(row), row[c].c = ""
                 PROVE  c > 1 /\ Width(row[c - 1].c) = 2 /\ row[c] = Spacer(row[c - 1].s)
    BY Zenon DEF Spaced
  <2>2. c \in 1 .. n
    <3>1. c \in n + 1 .. w => row[c] = Blank
      BY <1>5, Zenon
    <3>2. Blank.c # ""
      <4>1. Blank.c = " " /\ " " # ""
        BY Zenon DEF Blank, Cell
      <4>. QED
        BY <4>1, Zenon
    <3>3. c \notin n + 1 .. w
      BY <2>1, <3>1, <3>2, Zenon
    <3>4. c \in 1 .. w
      BY <1>4
    <3>. QED
      BY <1>2, <3>3, <3>4
  <2>3. c > 1 /\ Width(cells[c - 1].c) = 2 /\ cells[c] = Spacer(cells[c - 1].s)
    <3>1. cells[c].c = ""
      BY <1>5, <2>1, <2>2, Zenon
    <3>. QED
      BY <1>1, <2>2, <3>1, Zenon DEF Spaced
  <2>4. c - 1 \in 1 .. n
    <3>1. c > 1
      BY <2>3, Zenon
    <3>. QED
      BY <1>2, <2>2, <3>1
  <2>. QED
    BY <1>5, <2>2, <2>3, <2>4, Zenon
<1>. QED
  BY <1>7, <1>8, <1>9, <1>10, RowIs, Zenon DEF row

\* A sequence of one element.
LEMMA OneElement ==
    ASSUME NEW S, NEW seq \in Seq(S), Len(seq) = 1
    PROVE  seq[1] \in S /\ seq = Append(<< >>, seq[1])
<1>1. seq[1] \in S
  OBVIOUS
<1>. DEFINE x == seq[1]
            one == Append(<< >>, x)
<1>2. one \in Seq(S) /\ Len(one) = 1 /\ one[1] = x
  <2>1. x \in S /\ << >> \in Seq(S)
    BY <1>1
  <2>. HIDE DEF x
  <2>. QED
    BY <2>1
<1>. HIDE DEF one
<1>3. seq = one
  BY <1>2
<1>. QED
  BY <1>1, <1>3 DEF one

\* A wide grapheme alone in a single column loses its spacer, and no ink.
LEMMA SqueezedRow ==
    ASSUME NEW text \in Seq(TextCell), Len(text) = 1, DisplayWidth(text) > 1
    PROVE  Ink(CellsInRange(text, 1)) = Ink(text) /\ Spaced(CellsInRange(text, 1))
<1>. DEFINE cell == text[1]
            cells == Unpacked(text)
            row == RowOf(text, 1)
<1>1. cell \in TextCell /\ text = Append(<< >>, cell)
  BY OneElement
<1>2. cells \in Seq(Cells) /\ Len(cells) = DisplayWidth(text) /\ Ink(cells) = Ink(text)
  BY UnpackedType DEF LaidOut
<1>3. cells = Pair(cell)
  <2>1. << >> \in Seq(TextCell)
    OBVIOUS
  <2>. HIDE DEF cell
  <2>2. Unpacked(<< >>) = << >> /\ Unpacked(Append(<< >>, cell)) = Unpacked(<< >>) \o Pair(cell)
    BY <1>1, <2>1, UnpackedAppend
  <2>3. << >> \o Pair(cell) = Pair(cell)
    BY <1>1, PairType
  <2>. QED
    BY <1>1, <2>2, <2>3, Zenon
<1>4. Len(cells) = 2 /\ Width(cells[2].c) = 0 /\ cells[2] = Spacer(cell.s)
  <2>. HIDE DEF cell, cells
  <2>1. Len(cells) = Width(cell.c) /\ Width(cell.c) \in {1, 2}
    BY <1>1, <1>3, PairType, TextWidth
  <2>2. Width(cell.c) = 2
    BY <1>2, <2>1
  <2>. QED
    BY <1>1, <1>3, <2>1, <2>2, PairType
<1>5. ~LeavesMark(cells[2])
  <2>1. Spacer(cell.s).c = ""
    BY Zenon DEF Spacer, Cell
  <2>. QED
    BY <1>4, <2>1, Zenon DEF LeavesMark, HoldsText
<1>. HIDE DEF cells
<1>6. Ink(SubSeq(cells, 1, 1)) = Ink(cells)
  <2>1. 1 \in 0 .. Len(cells) /\ \A i \in 1 + 1 .. Len(cells) : i = 2
    BY <1>4
  <2>. QED
    BY <1>2, <1>5, <2>1, InkBefore
<1>7. row = SubSeq(cells, 1, 1)
  <2>1. SubSeq(cells, 1, 1) = <<cells[1]>>
    <3>1. 0 \in 0 .. Len(cells) - 1
      BY <1>4
    <3>2. SubSeq(cells, 1, 0 + 1) = Append(SubSeq(cells, 1, 0), cells[0 + 1])
      BY <1>2, <3>1, Choosing!OneMore
    <3>3. SubSeq(cells, 1, 0) = << >>
      BY <1>2
    <3>4. 0 + 1 = 1 /\ Append(<< >>, cells[1]) = <<cells[1]>>
      OBVIOUS
    <3>. QED
      BY <3>2, <3>3, <3>4, Zenon
  <2>2. 1 <= Len(cells)
    BY <1>4
  <2>3. row = <<cells[1]>>
    <3>1. row = [i \in 1 .. 1 |-> IF i <= Len(cells) THEN cells[i] ELSE Blank]
      BY Zenon DEF RowOf, cells
    <3>2. DOMAIN row = 1 .. 1 /\ row[1] = cells[1]
      BY <2>2, <3>1
    <3>. HIDE DEF row
    <3>3. row = [i \in 1 .. 1 |-> row[i]]
      BY <3>1, <3>2
    <3>. QED
      BY <3>2, <3>3
  <2>. QED
    BY <2>1, <2>3
<1>8. Spaced(row)
  <2>1. row[1] = cells[1] /\ Len(row) = 1
    <3>1. Len(cells) \in Nat /\ 1 <= Len(cells)
      BY <1>4
    <3>. QED
      BY <1>2, <1>7, <3>1
  <2>2. cells[1] = cell
    BY <1>1, <1>3, PairType DEF cells
  <2>3. row[1].c # ""
    BY <1>1, <2>1, <2>2, Zenon DEF TextCell, HoldsText
  <2>4. \A c \in 1 .. 1 : c = 1
    OBVIOUS
  <2>. HIDE DEF row
  <2>. QED
    BY <2>1, <2>3, <2>4, Zenon DEF Spaced
<1>. QED
  BY <1>2, <1>6, <1>7, <1>8, RowIs, Zenon DEF row

-----------------------------------------------------------------------------
(* The rows of a wrapped text. *)

\* Where row `k` begins; the place after the last row is that after the text.
Begin(text, starts, k) == IF k = Len(starts) + 2 THEN Len(text) + 1 ELSE RowBegin(starts, k)

\* The text of row `k`.
Stretch(text, starts, k) == SubSeq(text, Begin(text, starts, k), Begin(text, starts, k + 1) - 1)

\* Row `k` of the wrap at `w`: it goes on where the row before ended, holds what
\* fits or one grapheme, and is full if another row follows.
RowTaken(text, w, starts, k) ==
    LET from == Begin(text, starts, k)
        upto == Begin(text, starts, k + 1)
        part == Stretch(text, starts, k)
    IN  /\ from \in 1 .. Len(text) + 1 /\ upto \in from .. Len(text) + 1
        /\ text # << >> => from < upto
        /\ Span(text, from, upto) <= w \/ upto = from + 1
        /\ k <= Len(starts) => upto <= Len(text) /\ Span(text, from, upto + 1) > w
        /\ part \in Seq(TextCell) /\ Len(part) = upto - from
        /\ SubSeq(text, 1, upto - 1) = SubSeq(text, 1, from - 1) \o part

\* All of the text is in the rows of its wrap.
LEMMA RowsTaken ==
    ASSUME NEW text \in Seq(TextCell), NEW w \in Nat \ {0}
    PROVE  LET starts == ContinuationStarts(text, w) IN
           /\ starts \in Seq(2 .. Len(text))
           /\ Begin(text, starts, 1) = 1 /\ Begin(text, starts, Len(starts) + 2) = Len(text) + 1
           /\ \A k \in 1 .. Len(starts) + 1 : RowTaken(text, w, starts, k)
<1>. DEFINE starts == ContinuationStarts(text, w)
            m == Len(starts) + 1
            B(k) == Begin(text, starts, k)
<1>1. WrappedAt(text, w, starts)
  BY WrapIsGreedy
<1>. HIDE DEF starts
<1>2. starts \in Seq(2 .. Len(text)) /\ Len(starts) \in Nat /\ Len(text) \in Nat
  BY <1>1 DEF WrappedAt
<1>3. B(1) = 1 /\ B(m + 1) = Len(text) + 1
  <2>1. 1 # Len(starts) + 2 /\ m + 1 = Len(starts) + 2
    BY <1>2
  <2>. QED
    BY <2>1, Zenon DEF Begin, RowBegin
<1>4. ASSUME NEW k \in 1 .. m PROVE B(k) = RowBegin(starts, k) /\ B(k) \in 1 .. Len(text) + 1
  <2>1. k # Len(starts) + 2
    BY <1>2
  <2>2. B(k) = RowBegin(starts, k)
    BY <2>1, Zenon DEF Begin
  <2>3. CASE k = 1
    BY <1>2, <2>2, <2>3 DEF RowBegin
  <2>4. CASE k # 1
    <3>1. k - 1 \in 1 .. Len(starts)
      BY <1>2, <2>4
    <3>2. starts[k - 1] \in 2 .. Len(text)
      BY <1>2, <3>1
    <3>. QED
      BY <1>2, <2>2, <2>4, <3>2 DEF RowBegin
  <2>. QED
    BY <2>2, <2>3, <2>4
<1>5. ASSUME NEW k \in 1 .. m PROVE RowTaken(text, w, starts, k)
  <2>. DEFINE from == B(k)
              upto == B(k + 1)
              part == SubSeq(text, from, upto - 1)
  <2>1. from \in 1 .. Len(text) + 1
    BY <1>4
  <2>4. /\ upto \in from .. Len(text) + 1
        /\ text # << >> => from < upto
        /\ Span(text, from, upto) <= w \/ upto = from + 1
        /\ k <= Len(starts) => upto <= Len(text) /\ Span(text, from, upto + 1) > w
    <3>1. CASE k <= Len(starts)
      <4>1. k \in 1 .. Len(starts) /\ k + 1 \in 1 .. m
        BY <1>2, <3>1
      <4>2. Full(text, w, starts, k)
        BY <1>1, <4>1 DEF WrappedAt
      <4>3. from = RowBegin(starts, k) /\ upto = RowBegin(starts, k + 1)
        BY <1>4, <4>1
      <4>4. upto = starts[k]
        <5>1. k + 1 # 1 /\ (k + 1) - 1 = k
          BY <4>1
        <5>. QED
          BY <4>3, <5>1, Zenon DEF RowBegin
      <4>5. upto \in 2 .. Len(text)
        BY <1>2, <4>1, <4>4
      <4>6. from < upto /\ (Span(text, from, upto) <= w \/ upto = from + 1) /\ Span(text, from, upto + 1) > w
        BY <4>2, <4>3, Zenon DEF Full, Fits
      <4>. HIDE DEF from, upto
      <4>. QED
        BY <1>2, <2>1, <4>5, <4>6
    <3>2. CASE k = m /\ text # << >>
      <4>1. upto = Len(text) + 1 /\ ~(k <= Len(starts))
        BY <1>2, <1>3, <3>2
      <4>2. Fits(text, w, RowBegin(starts, m), Len(text) + 1)
        BY <1>1, <3>2 DEF WrappedAt
      <4>3. from = RowBegin(starts, m)
        BY <1>4, <3>2
      <4>4. from < upto /\ (Span(text, from, upto) <= w \/ upto = from + 1)
        BY <4>1, <4>2, <4>3, Zenon DEF Fits
      <4>. HIDE DEF from, upto
      <4>. QED
        BY <1>2, <2>1, <4>1, <4>4
    <3>3. CASE k = m /\ text = << >>
      <4>1. Len(starts) = 0 /\ Len(text) = 0
        BY <1>1, <3>3 DEF WrappedAt
      <4>2. from = 1 /\ upto = 1 /\ ~(k <= Len(starts))
        BY <1>2, <1>3, <3>3, <4>1
      <4>3. Span(text, from, upto) = 0
        <5>1. SubSeq(text, 1, 1 - 1) = << >> /\ << >> \in Seq(TextCell)
          BY <3>3
        <5>2. DisplayWidth(<< >>) = 0
          BY <5>1, DisplayWidthNat
        <5>. QED
          BY <4>2, <5>1, <5>2, Zenon DEF Span
      <4>. HIDE DEF from, upto
      <4>. QED
        BY <3>3, <4>1, <4>2, <4>3
    <3>. QED
      BY <1>2, <3>1, <3>2, <3>3
  <2>. HIDE DEF from, upto
  <2>5. part \in Seq(TextCell) /\ Len(part) = upto - from
    BY <1>2, <2>1, <2>4
  <2>6. SubSeq(text, 1, upto - 1) = SubSeq(text, 1, from - 1) \o part
    BY <1>2, <2>1, <2>4
  <2>7. part = Stretch(text, starts, k)
    BY DEF Stretch, from, upto
  <2>. HIDE DEF part
  <2>. QED
    BY <2>1, <2>4, <2>5, <2>6, <2>7, Zenon DEF RowTaken, from, upto
<1>. QED
  BY <1>2, <1>3, <1>5 DEF starts

\* The bounds of the rows, as the code lists them, are where the rows begin.
LEMMA BoundsBegin ==
    ASSUME NEW text, Len(text) \in Nat, NEW starts \in Seq(2 .. Len(text))
    PROVE  LET bounds == <<1>> \o starts \o <<Len(text) + 1>> IN
           /\ Len(bounds) = Len(starts) + 2
           /\ \A k \in 1 .. Len(starts) + 2 : bounds[k] = Begin(text, starts, k)
<1>. DEFINE bounds == <<1>> \o starts \o <<Len(text) + 1>>
<1>1. starts \in Seq(2 .. Len(text)) /\ Len(starts) \in Nat
  OBVIOUS
<1>2. /\ Len(bounds) = Len(starts) + 2 /\ bounds[1] = 1 /\ bounds[Len(starts) + 2] = Len(text) + 1
      /\ \A i \in 1 .. Len(starts) : bounds[i + 1] = starts[i]
  BY <1>1
<1>3. ASSUME NEW k \in 1 .. Len(starts) + 2 PROVE bounds[k] = Begin(text, starts, k)
  <2>. HIDE DEF bounds
  <2>1. CASE k = Len(starts) + 2
    BY <1>2, <2>1, Zenon DEF Begin
  <2>2. CASE k = 1
    <3>1. k # Len(starts) + 2
      BY <1>1, <2>2
    <3>. QED
      BY <1>2, <2>2, <3>1, Zenon DEF Begin, RowBegin
  <2>3. CASE k # 1 /\ k # Len(starts) + 2
    <3>. DEFINE m == Len(starts)
    <3>0. m \in Nat /\ k \in 1 .. m + 2 /\ k # m + 2
      BY <1>1, <2>3
    <3>. HIDE DEF m
    <3>01. k - 1 \in 1 .. m /\ (k - 1) + 1 = k
      BY <2>3, <3>0
    <3>1. k - 1 \in 1 .. Len(starts) /\ (k - 1) + 1 = k
      BY <3>01 DEF m
    <3>2. bounds[k] = starts[k - 1]
      BY <1>2, <3>1, Zenon
    <3>. QED
      BY <2>3, <3>2, Zenon DEF Begin, RowBegin
  <2>. QED
    BY <2>1, <2>2, <2>3
<1>. HIDE DEF bounds
<1>4. Len(bounds) = Len(starts) + 2 /\ \A k \in 1 .. Len(starts) + 2 : bounds[k] = Begin(text, starts, k)
  BY <1>2, <1>3
<1>. QED
  BY <1>4 DEF bounds

\* The rows of a layout, one for each stretch of the wrap.
LEMMA RowsOfLayout ==
    ASSUME NEW text \in Seq(TextCell), NEW w \in Nat \ {0}
    PROVE  LET starts == ContinuationStarts(text, w)
               laid == RenderRows(text, w)
           IN  /\ laid \in Seq(Seq(Cells)) /\ Len(laid) = Len(starts) + 1
               /\ \A k \in 1 .. Len(laid) : laid[k] = CellsInRange(Stretch(text, starts, k), w)
<1>. DEFINE starts == ContinuationStarts(text, w)
            bounds == <<1>> \o starts \o <<Len(text) + 1>>
            row(k) == CellsInRange(SubSeq(text, bounds[k], bounds[k + 1] - 1), w)
            laid == RenderRows(text, w)
<1>1. starts \in Seq(2 .. Len(text)) /\ Len(starts) \in Nat /\ Len(text) \in Nat
  BY RowsTaken
<1>2. laid = [k \in 1 .. Len(bounds) - 1 |-> row(k)]
  BY Zenon DEF RenderRows
<1>. HIDE DEF starts, row
<1>3. /\ Len(bounds) = Len(starts) + 2
      /\ \A k \in 1 .. Len(starts) + 2 : bounds[k] = Begin(text, starts, k)
  BY <1>1, BoundsBegin
<1>. HIDE DEF bounds
<1>5. text \in Seq(Cells)
  BY DEF TextCell
<1>6. laid \in Seq(Seq(Cells))
  BY <1>5, RenderRowsType
<1>. HIDE DEF laid
<1>7. Len(laid) = Len(starts) + 1 /\ \A k \in 1 .. Len(starts) + 1 : laid[k] = row(k)
  <2>1. DOMAIN laid = 1 .. Len(starts) + 1 /\ \A k \in 1 .. Len(starts) + 1 : laid[k] = row(k)
    <3>1. Len(bounds) - 1 = Len(starts) + 1
      BY <1>1, <1>3
    <3>. QED
      BY <1>2, <3>1
  <2>. QED
    BY <1>1, <1>6, <2>1
<1>8. ASSUME NEW k \in 1 .. Len(starts) + 1 PROVE laid[k] = CellsInRange(Stretch(text, starts, k), w)
  <2>1. k \in 1 .. Len(starts) + 2 /\ k + 1 \in 1 .. Len(starts) + 2
    BY <1>1
  <2>. QED
    BY <1>3, <1>7, <2>1, Zenon DEF row, Stretch
<1>. QED
  BY <1>6, <1>7, <1>8 DEF laid, starts

\* A row of a layout has the ink of its stretch, its spacers behind wide
\* graphemes, and its wide cells in pairs unless there is a single column.
LEMMA RowInk ==
    ASSUME NEW text \in Seq(TextCell), NEW w \in Nat \ {0},
           NEW k \in 1 .. Len(ContinuationStarts(text, w)) + 1
    PROVE  LET row == CellsInRange(Stretch(text, ContinuationStarts(text, w), k), w) IN
           /\ Ink(row) = Ink(Stretch(text, ContinuationStarts(text, w), k))
           /\ Spaced(row)
           /\ w > 1 => WidePaired(row)
<1>. DEFINE starts == ContinuationStarts(text, w)
            from == Begin(text, starts, k)
            upto == Begin(text, starts, k + 1)
            part == Stretch(text, starts, k)
            row == CellsInRange(part, w)
<1>1. RowTaken(text, w, starts, k)
  BY RowsTaken
<1>. HIDE DEF starts
<1>2. /\ part \in Seq(TextCell) /\ DisplayWidth(part) = Span(text, from, upto)
      /\ Span(text, from, upto) <= w \/ upto = from + 1
      /\ Len(part) = upto - from /\ from \in Nat /\ upto \in Nat
  <2>1. /\ from \in 1 .. Len(text) + 1 /\ upto \in from .. Len(text) + 1
        /\ Span(text, from, upto) <= w \/ upto = from + 1
        /\ part \in Seq(TextCell) /\ Len(part) = upto - from
    BY <1>1, Zenon DEF RowTaken
  <2>2. DisplayWidth(part) = Span(text, from, upto)
    BY Zenon DEF Stretch, Span
  <2>. HIDE DEF part, from, upto
  <2>. QED
    BY <2>1, <2>2
<1>. HIDE DEF part, from, upto
<1>3. DisplayWidth(part) \in Nat
  BY <1>2, DisplayWidthNat
<1>4. CASE DisplayWidth(part) <= w
  <2>1. Ink(row) = Ink(part) /\ WidePaired(row) /\ Spaced(row)
    BY <1>2, <1>4, FittingRow
  <2>. QED
    BY <2>1 DEF part, starts
<1>5. CASE ~(DisplayWidth(part) <= w)
  <2>1. Len(part) = 1
    BY <1>2, <1>3, <1>5
  <2>2. DisplayWidth(part) \in {1, 2}
    <3>. DEFINE cell == part[1]
    <3>0. part \in Seq(TextCell)
      BY <1>2
    <3>1. cell \in TextCell /\ part = Append(<< >>, cell)
      BY <2>1, <3>0, OneElement
    <3>2. DisplayWidth(<< >>) = 0 /\ DisplayWidth(Append(<< >>, cell)) = DisplayWidth(<< >>) + Width(cell.c)
      <4>1. << >> \in Seq(TextCell)
        OBVIOUS
      <4>. HIDE DEF cell
      <4>. QED
        BY <3>1, <4>1, DisplayWidthNat
    <3>. HIDE DEF cell
    <3>3. Width(cell.c) \in {1, 2}
      BY <3>1, TextWidth
    <3>. QED
      BY <3>1, <3>2, <3>3
  <2>3. w = 1 /\ DisplayWidth(part) > 1
    BY <1>5, <2>2
  <2>4. Ink(CellsInRange(part, 1)) = Ink(part) /\ Spaced(CellsInRange(part, 1))
    BY <1>2, <2>1, <2>3, SqueezedRow
  <2>5. ~(w > 1)
    BY <2>3
  <2>. QED
    BY <2>3, <2>4, <2>5, Zenon DEF part, starts
<1>. QED
  BY <1>4, <1>5

\* Laying a text out keeps its ink, whatever the width.
LEMMA LayoutInk ==
    ASSUME NEW text \in Seq(TextCell), NEW w \in Nat \ {0}
    PROVE  Ink(FlattenSeq(RenderRows(text, w))) = Ink(text)
<1>. DEFINE starts == ContinuationStarts(text, w)
            laid == RenderRows(text, w)
            m == Len(laid)
            upto(k) == SubSeq(laid, 1, k)
            before(k) == SubSeq(text, 1, Begin(text, starts, k + 1) - 1)
            Good(k) == Ink(FlattenSeq(upto(k))) = Ink(before(k))
            T == {k \in 0 .. m : Good(k)}
<1>1. laid \in Seq(Seq(Cells)) /\ m = Len(starts) + 1 /\ m \in Nat
      /\ \A k \in 1 .. m : laid[k] = CellsInRange(Stretch(text, starts, k), w)
  BY RowsOfLayout
<1>2. /\ Begin(text, starts, 1) = 1 /\ Begin(text, starts, m + 1) = Len(text) + 1
      /\ \A k \in 1 .. m : RowTaken(text, w, starts, k)
  <2>1. Len(starts) \in Nat /\ m + 1 = Len(starts) + 2
    BY <1>1, RowsTaken
  <2>. QED
    BY <1>1, <2>1, RowsTaken, Zenon
<1>3. \A k \in 1 .. m : Ink(laid[k]) = Ink(Stretch(text, starts, k))
  BY <1>1, RowInk
<1>. HIDE DEF laid, starts, Good
<1>4. 0 \in T
  <2>1. upto(0) = << >> /\ before(0) = << >>
    <3>1. Begin(text, starts, 0 + 1) - 1 = 0
      BY <1>2
    <3>. QED
      BY <1>1, <3>1
  <2>2. FlattenSeq(<< >>) = << >>
    <3>1. << >> \in Seq(Seq(Cells)) /\ << >> \in Seq(Cells)
      OBVIOUS
    <3>. QED
      BY <3>1, FlattenAppend
  <2>3. Good(0)
    BY <2>1, <2>2, Zenon DEF Good
  <2>. QED
    BY <1>1, <2>3
<1>5. ASSUME NEW k \in 0 .. m - 1, k \in T PROVE k + 1 \in T
  <2>. DEFINE g == upto(k)
              row == laid[k + 1]
              part == Stretch(text, starts, k + 1)
              was == before(k)
  <2>0. k + 1 \in 1 .. m /\ k + 1 \in 0 .. m
    BY <1>1
  <2>1. g \in Seq(Seq(Cells)) /\ upto(k + 1) = Append(g, row) /\ row \in Seq(Cells)
    BY <1>1, Choosing!OneMore
  <2>2. Ink(row) = Ink(part)
    BY <1>3, <2>0
  <2>3. was \in Seq(TextCell) /\ part \in Seq(TextCell) /\ before(k + 1) = was \o part
    <3>1. RowTaken(text, w, starts, k + 1)
      BY <1>2, <2>0
    <3>2. part \in Seq(TextCell) /\ before(k + 1) = was \o part
      BY <3>1, Zenon DEF RowTaken
    <3>. DEFINE from == Begin(text, starts, k + 1)
    <3>3. from \in 1 .. Len(text) + 1
      BY <3>1, Zenon DEF RowTaken
    <3>. HIDE DEF from
    <3>4. SubSeq(text, 1, from - 1) \in Seq(TextCell)
      BY <3>3
    <3>. QED
      BY <3>2, <3>4 DEF from
  <2>4. Ink(FlattenSeq(g)) = Ink(was)
    BY <1>5 DEF Good
  <2>. HIDE DEF g, row, part, was
  <2>5. FlattenSeq(Append(g, row)) = FlattenSeq(g) \o row /\ FlattenSeq(g) \in Seq(Cells)
    BY <2>1, FlattenAppend, FlattenConcat
  <2>6. Ink(FlattenSeq(g) \o row) = Ink(FlattenSeq(g)) \o Ink(row)
    BY <2>1, <2>5, InkConcat
  <2>7. Ink(was \o part) = Ink(was) \o Ink(part)
    BY <2>3, InkConcat
  <2>8. Good(k + 1)
    BY <2>1, <2>2, <2>3, <2>4, <2>5, <2>6, <2>7, Zenon DEF Good
  <2>. QED
    BY <2>0, <2>8
<1>6. Good(m)
  <2>1. m \in T
    <3>. HIDE DEF T, m
    <3>1. \A k \in 0 .. m : k \in T
      BY <1>1, <1>4, <1>5, Choosing!Induction
    <3>. QED
      BY <1>1, <3>1
  <2>. QED
    BY <2>1
<1>7. upto(m) = laid /\ before(m) = text
  <2>1. Begin(text, starts, m + 1) - 1 = Len(text)
    BY <1>2
  <2>. QED
    BY <1>1, <2>1
<1>. QED
  BY <1>6, <1>7, Zenon DEF Good, laid

-----------------------------------------------------------------------------
(* A narrow line comes back. *)

\* As push_cells leaves a line: no blank at its end.
Trimmed(text) == text = << >> \/ ~IsBlank(Last(text))

\* A text of graphemes holds text, every cell of it.
LEMMA AllGraphemes ==
    ASSUME NEW text \in Seq(TextCell)
    PROVE  AllText(text) /\ TextCells(text) = text
<1>1. ASSUME NEW i \in DOMAIN text PROVE HoldsText(text[i])
  <2>1. text[i] \in TextCell
    OBVIOUS
  <2>. QED
    BY <2>1 DEF TextCell
<1>2. AllText(text)
  BY <1>1 DEF AllText
<1>3. text \in Seq(Cells)
  BY DEF TextCell
<1>. QED
  BY <1>2, <1>3, TextHasInk DEF TextIn

\* A stretch of a narrow text is as wide as it is long.
LEMMA NarrowStretch ==
    ASSUME NEW text \in Seq(TextCell), Narrow(text),
           NEW from \in 1 .. Len(text) + 1, NEW upto \in from .. Len(text) + 1
    PROVE  LET part == SubSeq(text, from, upto - 1) IN
           /\ part \in Seq(TextCell) /\ Len(part) = upto - from
           /\ Narrow(part) /\ DisplayWidth(part) = Len(part)
           /\ \A i \in 1 .. Len(part) : part[i] = text[from + i - 1]
<1>. DEFINE part == SubSeq(text, from, upto - 1)
<1>1. /\ part \in Seq(TextCell) /\ Len(part) = upto - from /\ Len(text) \in Nat
      /\ \A i \in 1 .. Len(part) : part[i] = text[from + i - 1]
  OBVIOUS
<1>. HIDE DEF part
<1>2. Narrow(part)
  <2>1. ASSUME NEW i \in 1 .. Len(part) PROVE Width(part[i].c) = 1
    <3>1. from + i - 1 \in 1 .. Len(text)
      BY <1>1
    <3>2. from + i - 1 \in DOMAIN text
      BY <3>1
    <3>. QED
      BY <1>1, <3>2, Zenon DEF Narrow
  <2>2. DOMAIN part = 1 .. Len(part)
    BY <1>1
  <2>. QED
    BY <2>1, <2>2, Zenon DEF Narrow
<1>3. DisplayWidth(part) = Len(part)
  <2>1. LaidOut(part, Unpacked(part))
    BY <1>1, UnpackedType
  <2>2. Unpacked(part) = part /\ Len(Unpacked(part)) = DisplayWidth(part)
    BY <1>2, <2>1 DEF LaidOut
  <2>. QED
    BY <2>2, Zenon
<1>. QED
  BY <1>1, <1>2, <1>3 DEF part

\* The row of a narrow stretch packs to that stretch again.
LEMMA NarrowRow ==
    ASSUME NEW text \in Seq(TextCell), Narrow(text), Trimmed(text), NEW w \in Nat \ {0},
           NEW k \in 1 .. Len(ContinuationStarts(text, w)) + 1
    PROVE  RowText(RenderRows(text, w), k) = Stretch(text, ContinuationStarts(text, w), k)
<1>. DEFINE starts == ContinuationStarts(text, w)
            laid == RenderRows(text, w)
            from == Begin(text, starts, k)
            upto == Begin(text, starts, k + 1)
            part == SubSeq(text, from, upto - 1)
            n == Len(part)
            row == laid[k]
            end == End(laid, k)
<1>1. RowTaken(text, w, starts, k) /\ Len(starts) \in Nat /\ Begin(text, starts, Len(starts) + 2) = Len(text) + 1
  BY RowsTaken
<1>2. laid \in Seq(Seq(Cells)) /\ Len(laid) = Len(starts) + 1 /\ row = CellsInRange(part, w)
  <2>1. laid \in Seq(Seq(Cells)) /\ Len(laid) = Len(starts) + 1
        /\ laid[k] = CellsInRange(Stretch(text, starts, k), w)
    BY RowsOfLayout
  <2>. QED
    BY <2>1, Zenon DEF Stretch
<1>3. row \in Seq(Cells) /\ end \in 0 .. Len(row) /\ \A i \in end + 1 .. Len(row) : IsBlank(row[i])
  BY <1>2, RowEnd
<1>0. k \in 1 .. Len(starts) + 1
  OBVIOUS
<1>. HIDE DEF starts, laid
<1>4. /\ from \in 1 .. Len(text) + 1 /\ upto \in from .. Len(text) + 1
      /\ text # << >> => from < upto
      /\ Span(text, from, upto) <= w \/ upto = from + 1
      /\ k <= Len(starts) => upto <= Len(text) /\ Span(text, from, upto + 1) > w
  BY <1>1, Zenon DEF RowTaken
<1>. HIDE DEF from, upto
<1>5. /\ part \in Seq(TextCell) /\ n = upto - from /\ n \in Nat
      /\ Narrow(part) /\ DisplayWidth(part) = n
      /\ \A i \in 1 .. n : part[i] = text[from + i - 1]
  BY <1>4, NarrowStretch
<1>6. Span(text, from, upto) = n
  BY <1>5 DEF Span
<1>7. n <= w
  BY <1>4, <1>5, <1>6
<1>8. /\ SubSeq(row, 1, n) = part
      /\ \A i \in n + 1 .. w : row[i] = Blank
  <2>. HIDE DEF part, row
  <2>. QED
    BY <1>2, <1>5, <1>7, FittingRow
<1>9. Len(row) = w
  <2>1. part \in Seq(Cells)
    BY <1>5 DEF TextCell
  <2>. HIDE DEF part, row
  <2>. QED
    BY <1>2, <2>1, CellsInRangeType
<1>10. end = n
  <2>1. CASE k <= Len(starts)
    <3>1. n = w
      <4>1. DisplayWidth(SubSeq(text, from, (upto + 1) - 1)) = (upto + 1) - from
        <5>1. upto + 1 \in from .. Len(text) + 1
          BY <1>4, <2>1
        <5>. HIDE DEF part
        <5>2. LET longer == SubSeq(text, from, (upto + 1) - 1)
              IN  Len(longer) = (upto + 1) - from /\ DisplayWidth(longer) = Len(longer)
          BY <1>4, <5>1, NarrowStretch
        <5>. QED
          BY <5>2, Zenon
      <4>2. Span(text, from, upto + 1) = n + 1
        BY <1>4, <1>5, <4>1 DEF Span
      <4>. QED
        BY <1>4, <1>5, <1>7, <2>1, <4>2
    <3>2. end = Len(row)
      <4>1. k # Len(laid)
        BY <1>1, <1>2, <2>1
      <4>. QED
        BY <4>1, Zenon DEF End
    <3>. QED
      BY <1>9, <3>1, <3>2
  <2>2. CASE ~(k <= Len(starts))
    <3>1. k = Len(starts) + 1 /\ k = Len(laid) /\ k + 1 = Len(starts) + 2
      BY <1>0, <1>1, <1>2, <2>2
    <3>2. upto = Len(text) + 1
      BY <1>1, <3>1 DEF upto
    <3>3. end = LastVisible(row)
      BY <3>1, Zenon DEF End
    <3>4. end > 0 => ~IsBlank(row[end])
      BY <1>3, <3>3, LastVisibleCell
    <3>. HIDE DEF end
    <3>5. end <= n
      <4>1. SUFFICES ASSUME end > n PROVE FALSE
        BY <1>3, <1>5
      <4>2. end \in n + 1 .. w /\ end > 0
        BY <1>3, <1>5, <1>9, <4>1
      <4>3. row[end] = Blank
        BY <1>8, <4>2
      <4>. QED
        BY <3>4, <4>2, <4>3, BlankCell
    <3>6. CASE n = 0
      <4>. HIDE DEF n
      <4>. QED
        BY <1>3, <1>9, <3>5, <3>6
    <3>7. CASE n # 0
      <4>1. ~IsBlank(part[n])
        <5>1. text # << >> /\ n \in 1 .. n /\ from + n - 1 = Len(text)
          BY <1>4, <1>5, <3>2, <3>7
        <5>2. part[n] = text[Len(text)]
          BY <1>5, <5>1, Zenon
        <5>. QED
          BY <5>1, <5>2, Zenon DEF Trimmed, Last
      <4>2. row[n] = part[n]
        <5>. DEFINE front == SubSeq(row, 1, n)
        <5>1. front[n] = row[n]
          BY <1>3, <1>5, <1>7, <1>9, <3>7, SMTT(40)
        <5>. QED
          BY <1>8, <5>1, Zenon
      <4>3. SUFFICES ASSUME end < n PROVE FALSE
        BY <1>3, <1>5, <3>5
      <4>4. n \in end + 1 .. Len(row)
        BY <1>3, <1>5, <1>7, <1>9, <4>3
      <4>. QED
        BY <1>3, <4>1, <4>2, <4>4, Zenon
    <3>. QED
      BY <3>6, <3>7
  <2>. QED
    BY <2>1, <2>2
<1>11. RowText(laid, k) = TextCells(part)
  BY <1>8, <1>10, Zenon DEF RowText
<1>12. TextCells(part) = part
  <2>. HIDE DEF part
  <2>. QED
    BY <1>5, AllGraphemes
<1>. QED
  BY <1>11, <1>12, Zenon DEF Stretch, laid, starts, from, upto

\* A narrow line comes back from a layout as it was.
LEMMA NarrowKept ==
    ASSUME NEW text \in Seq(TextCell), Narrow(text), Trimmed(text), NEW w \in Nat \ {0}
    PROVE  Packing(RenderRows(text, w)) = text
<1>. DEFINE starts == ContinuationStarts(text, w)
            laid == RenderRows(text, w)
            m == Len(laid)
            before(k) == SubSeq(text, 1, Begin(text, starts, k + 1) - 1)
<1>1. laid \in Seq(Seq(Cells)) /\ m = Len(starts) + 1 /\ m \in Nat
  BY RowsOfLayout
<1>2. /\ Begin(text, starts, 1) = 1 /\ Begin(text, starts, m + 1) = Len(text) + 1
      /\ \A k \in 1 .. m : RowTaken(text, w, starts, k)
  <2>1. Len(starts) \in Nat /\ m + 1 = Len(starts) + 2
    BY <1>1, RowsTaken
  <2>. QED
    BY <1>1, <2>1, RowsTaken, Zenon
<1>3. \A k \in 1 .. m : RowText(laid, k) = Stretch(text, starts, k)
  BY <1>1, NarrowRow
<1>. HIDE DEF laid, starts
<1>4. PICK t : Stacked(laid, t)
  BY <1>1, PackingTrace
<1>. DEFINE T == {k \in 0 .. m : t[k] = before(k)}
<1>5. 0 \in T
  <2>1. before(0) = << >>
    <3>1. Begin(text, starts, 0 + 1) - 1 = 0
      BY <1>2
    <3>. QED
      BY <3>1
  <2>2. t[0] = << >>
    BY <1>4 DEF Stacked
  <2>. HIDE DEF before
  <2>. QED
    BY <1>1, <2>1, <2>2
<1>6. ASSUME NEW k \in 0 .. m - 1, k \in T PROVE k + 1 \in T
  <2>0. k + 1 \in 1 .. m /\ k + 1 \in 0 .. m /\ (k + 1) - 1 = k
    BY <1>1
  <2>1. t[k + 1] = t[(k + 1) - 1] \o RowText(laid, k + 1)
    BY <1>4, <2>0, Zenon DEF Stacked
  <2>2. before(k + 1) = before(k) \o Stretch(text, starts, k + 1)
    <3>1. RowTaken(text, w, starts, k + 1)
      BY <1>2, <2>0
    <3>. QED
      BY <3>1, Zenon DEF RowTaken
  <2>3. t[k] = before(k)
    BY <1>6
  <2>. HIDE DEF before
  <2>4. t[k + 1] = before(k + 1)
    BY <1>3, <2>0, <2>1, <2>2, <2>3, Zenon
  <2>. QED
    BY <2>0, <2>4
<1>7. t[m] = before(m)
  <2>1. m \in T
    <3>. HIDE DEF T, m
    <3>1. \A k \in 0 .. m : k \in T
      BY <1>1, <1>5, <1>6, Choosing!Induction
    <3>. QED
      BY <1>1, <3>1
  <2>. QED
    BY <2>1
<1>8. before(m) = text
  <2>1. Begin(text, starts, m + 1) - 1 = Len(text)
    BY <1>2
  <2>. QED
    BY <2>1
<1>. QED
  BY <1>4, <1>7, <1>8, Zenon DEF Stacked, laid

-----------------------------------------------------------------------------
(* Drawing a row. *)

\* A run with one column more, which shows `cell`.
Grown(run, cell) == [run EXCEPT !.cols = @ + 1, !.text = IF HoldsText(cell) THEN Append(@, cell.c) ELSE @]

\* A run that grows is the open one.
Growing(acc, runs, run, cell, fresh) ==
    [runs |-> runs, open |-> <<Grown(run, cell)>>,
     all_blank |-> (fresh \/ acc.all_blank) /\ IsBlank(cell)]

\* The columns that take no part in the runs of narrow cells.
SpacerAt(cells, col) == col > 1 /\ IsWideBase(cells, col - 1)
WideAt(cells, col) == (col = 1 \/ ~IsWideBase(cells, col - 1)) /\ IsWideBase(cells, col)

\* The loop of BuildRow.
StepRow(cells, d, acc, col) ==
    CASE SpacerAt(cells, col) -> acc
      [] WideAt(cells, col) ->
            [runs |-> acc.runs \o acc.open \o <<Run(col, 2, cells[col].s, <<cells[col].c>>)>>,
             open |-> <<>>, all_blank |-> TRUE]
      [] OTHER ->
            IF acc.open # <<>> /\ Joins(acc.open[1], cells[col])
            THEN Growing(acc, acc.runs, acc.open[1], cells[col], FALSE)
            ELSE IF acc.open # <<>> /\ Adopts(acc.open[1], acc.all_blank, cells[col])
            THEN Growing(acc, acc.runs, [acc.open[1] EXCEPT !.style = cells[col].s], cells[col], FALSE)
            ELSE Growing(acc, acc.runs \o acc.open, Run(col, 0, cells[col].s, <<>>), cells[col], TRUE)

Drawing == INSTANCE LoopLemmas WITH Body <- StepRow

NoRuns == [runs |-> <<>>, open |-> <<>>, all_blank |-> TRUE]

RowDone(cells) ==
    Drawing!FoldOf(cells, 0, NoRuns, [k \in DOMAIN SubSeq(cells, 1, LastVisible(cells)) |-> k])

\* build_row is a fold over the columns.
LEMMA BuildFold ==
    ASSUME NEW cells
    PROVE  BuildRow(cells) = RowDone(cells).runs \o RowDone(cells).open
  BY Zenon DEF BuildRow, RowDone, NoRuns, LastVisible, StepRow, Growing, Grown, SpacerAt, WideAt,
               FoldLeftDomain, Drawing!FoldOf, FoldLeft, MapThenFoldSet, Max,
               Drawing!MapThenFoldSet, Drawing!Greatest

Runs == [col : Nat \ {0}, cols : Nat, style : Styles, text : Seq(Contents)]

\* A cell may stand in a run of its style; a blank in any that paints no
\* background.
Suits(run, cell) == IF IsBlank(cell) THEN run.style # "ground" ELSE run.style = cell.s

\* What a run says of the cells from its column on: their graphemes, one a
\* column, in their style.
Tells(cells, run) ==
    /\ run \in Runs
    /\ run.col + run.cols <= Len(cells) + 1
    /\ Len(run.text) <= run.cols
    /\ \A n \in 1 .. run.cols :
         LET cell == cells[run.col + n - 1]
         IN  /\ Suits(run, cell)
             /\ IF n <= Len(run.text) THEN run.text[n] = cell.c /\ cell.c # "" ELSE cell.c = ""

\* The runs so far.
Told(acc) == ToSet(acc.runs) \cup ToSet(acc.open)

\* A column is in one of the runs.
Covered(runs, col) == \E run \in runs : col \in run.col .. run.col + run.cols - 1

\* The run that grows: it ends at the column last seen, and only a run of
\* blanks is taken for one.
OpenAt(cells, acc, k) ==
    LET run == acc.open[1]
    IN  /\ Tells(cells, run) /\ run.col + run.cols = k + 1 /\ Len(run.text) = run.cols
        /\ acc.all_blank => \A c \in run.col .. k : IsBlank(cells[c])

\* The runs after `k` columns.
RunsAt(cells, acc, k) ==
    /\ acc.all_blank \in BOOLEAN
    /\ acc.runs \in Seq(Runs)
    /\ acc.open \in Seq(Runs)
    /\ \A run \in Told(acc) : Tells(cells, run)
    /\ acc.open = <<>> \/ (Len(acc.open) = 1 /\ OpenAt(cells, acc, k))
    /\ \A c \in 1 .. k : Covered(Told(acc), c)
    /\ (k > 0 /\ IsWideBase(cells, k)) => acc.open = <<>> /\ Covered(Told(acc), k + 1)

\* The elements of two sequences one after the other.
LEMMA BothTold ==
    ASSUME NEW S, NEW f \in Seq(S), NEW g \in Seq(S)
    PROVE  ToSet(f \o g) = ToSet(f) \cup ToSet(g)
<1>1. ToSet(f \o g) \subseteq ToSet(f) \cup ToSet(g)
  BY DEF ToSet
<1>2. ASSUME NEW x \in ToSet(f) PROVE x \in ToSet(f \o g)
  <2>1. PICK i \in DOMAIN f : x = f[i]
    BY DEF ToSet
  <2>2. i \in DOMAIN (f \o g) /\ (f \o g)[i] = f[i]
    OBVIOUS
  <2>. QED
    BY <2>1, <2>2, Zenon DEF ToSet
<1>3. ASSUME NEW x \in ToSet(g) PROVE x \in ToSet(f \o g)
  <2>1. PICK i \in DOMAIN g : x = g[i]
    BY DEF ToSet
  <2>2. Len(f) + i \in DOMAIN (f \o g) /\ (f \o g)[Len(f) + i] = g[i]
    OBVIOUS
  <2>. QED
    BY <2>1, <2>2, Zenon DEF ToSet
<1>. QED
  BY <1>1, <1>2, <1>3

\* The only element of a sequence.
LEMMA OneTold ==
    ASSUME NEW S, NEW x \in S
    PROVE  ToSet(<<x>>) = {x} /\ <<x>> \in Seq(S) /\ Len(<<x>>) = 1 /\ <<x>>[1] = x /\ <<x>> # << >>
<1>1. DOMAIN <<x>> = {1} /\ <<x>>[1] = x
  OBVIOUS
<1>. QED
  BY <1>1 DEF ToSet

\* What is known of a wide grapheme and the spacer behind it.
LEMMA WideCells ==
    ASSUME NEW cells \in Seq(Cells), Spaced(cells), NEW col \in 1 .. Len(cells)
    PROVE  /\ cells[col].c = "" => SpacerAt(cells, col)
           /\ IsWideBase(cells, col) =>
                 /\ col + 1 \in 1 .. Len(cells) /\ cells[col].c # "" /\ cells[col + 1].c = ""
                 /\ ~IsBlank(cells[col]) /\ ~IsBlank(cells[col + 1])
                 /\ cells[col + 1].s = cells[col].s
<1>0. "" # " " /\ \A content : Width(content) = 2 => content # "" /\ content # " "
  <2>1. ASSUME NEW content, Width(content) = 2 PROVE content \in {"W", "W+"}
    <3>1. SUFFICES ASSUME content \notin {"W", "W+"} PROVE FALSE
      OBVIOUS
    <3>2. Width(content) = 0 \/ Width(content) = 1
      BY <3>1, Zenon DEF Width
    <3>. QED
      BY <2>1, <3>2
  <2>2. "" # " " /\ "" \notin {"W", "W+"} /\ " " \notin {"W", "W+"}
    BY Zenon
  <2>. QED
    BY <2>1, <2>2, Zenon
<1>1. ASSUME cells[col].c = "" PROVE SpacerAt(cells, col)
  <2>1. col > 1 /\ Width(cells[col - 1].c) = 2
    BY <1>1, Zenon DEF Spaced
  <2>2. cells[col - 1].c # ""
    BY <1>0, <2>1, Zenon
  <2>3. col - 1 < Len(cells) /\ (col - 1) + 1 = col
    OBVIOUS
  <2>4. IsWideBase(cells, col - 1)
    BY <1>1, <2>2, <2>3, Zenon DEF IsWideBase
  <2>. QED
    BY <2>1, <2>4, Zenon DEF SpacerAt
<1>2. ASSUME IsWideBase(cells, col)
      PROVE  /\ col + 1 \in 1 .. Len(cells) /\ cells[col].c # "" /\ cells[col + 1].c = ""
             /\ ~IsBlank(cells[col]) /\ ~IsBlank(cells[col + 1])
             /\ cells[col + 1].s = cells[col].s
  <2>1. cells[col].c # "" /\ cells[col + 1].c = ""
    BY <1>2, Zenon DEF IsWideBase
  <2>2. col + 1 \in 1 .. Len(cells) /\ (col + 1) - 1 = col
    <3>1. col < Len(cells)
      BY <1>2, Zenon DEF IsWideBase
    <3>. QED
      BY <3>1
  <2>3. Width(cells[col].c) = 2 /\ cells[col + 1] = Spacer(cells[col].s)
    <3>1. Width(cells[(col + 1) - 1].c) = 2 /\ cells[col + 1] = Spacer(cells[(col + 1) - 1].s)
      BY <2>1, <2>2, Zenon DEF Spaced
    <3>. QED
      BY <2>2, <3>1, Zenon
  <2>4. cells[col + 1].s = cells[col].s
    <3>1. Spacer(cells[col].s).s = cells[col].s
      BY Zenon DEF Spacer, Cell
    <3>. QED
      BY <2>3, <3>1, Zenon
  <2>5. cells[col].c # " " /\ cells[col + 1].c # " "
    BY <1>0, <2>1, <2>3, Zenon
  <2>. QED
    BY <2>1, <2>2, <2>4, <2>5, Zenon DEF IsBlank
<1>. QED
  BY <1>1, <1>2

\* A run takes the next cell, if its style shows it.
LEMMA GrownTells ==
    ASSUME NEW cells \in Seq(Cells), NEW k \in 1 .. Len(cells), NEW run,
           Tells(cells, run), run.col + run.cols = k, Len(run.text) = run.cols,
           HoldsText(cells[k]),
           Suits(run, cells[k])
    PROVE  LET new == Grown(run, cells[k]) IN
           /\ Tells(cells, new) /\ new.col = run.col /\ new.cols = run.cols + 1
           /\ Len(new.text) = new.cols
<1>. DEFINE cell == cells[k]
            new == Grown(run, cell)
<1>0. cell.c # ""
  BY Zenon DEF HoldsText
<1>1. cell.c \in Contents /\ Len(cells) \in Nat
  <2>1. cell \in Cells /\ Len(cells) \in Nat
    OBVIOUS
  <2>2. \A one \in Cells : one.c \in Contents
    BY DEF Cells
  <2>. QED
    BY <2>1, <2>2, Zenon
<1>2. /\ run.col \in Nat \ {0} /\ run.cols \in Nat /\ run.style \in Styles
      /\ run.text \in Seq(Contents)
  BY DEF Tells, Runs
<1>3. new = [col |-> run.col, cols |-> run.cols + 1, style |-> run.style, text |-> Append(run.text, cell.c)]
  <2>1. run = [col |-> run.col, cols |-> run.cols, style |-> run.style, text |-> run.text]
    BY DEF Tells, Runs
  <2>2. new = [run EXCEPT !.cols = @ + 1, !.text = Append(@, cell.c)]
    BY Zenon DEF Grown
  <2>. HIDE DEF new, cell
  <2>. QED
    BY <2>1, <2>2
<1>. HIDE DEF new
<1>4. /\ new.col = run.col /\ new.cols = run.cols + 1 /\ new.style = run.style
      /\ new.text = Append(run.text, cell.c) /\ new \in Runs
  <2>1. Append(run.text, cell.c) \in Seq(Contents) /\ run.cols + 1 \in Nat
    BY <1>1, <1>2
  <2>. HIDE DEF cell
  <2>. QED
    BY <1>2, <1>3, <2>1 DEF Runs
<1>5. Len(new.text) = new.cols /\ \A n \in 1 .. run.cols : new.text[n] = run.text[n]
  BY <1>1, <1>2, <1>4
<1>6. new.text[run.cols + 1] = cell.c
  BY <1>1, <1>2, <1>4
<1>7. ASSUME NEW n \in 1 .. new.cols
      PROVE  LET at == cells[new.col + n - 1]
             IN  /\ Suits(new, at)
                 /\ IF n <= Len(new.text) THEN new.text[n] = at.c /\ at.c # "" ELSE at.c = ""
  <2>. DEFINE at == cells[new.col + n - 1]
  <2>0. n <= Len(new.text) /\ n \in Nat
    BY <1>2, <1>4, <1>5
  <2>1. Suits(new, at)
    <3>1. CASE n \in 1 .. run.cols
      <4>1. at = cells[run.col + n - 1]
        BY <1>4
      <4>2. Suits(run, at)
        BY <3>1, <4>1, Zenon DEF Tells
      <4>. QED
        BY <1>4, <4>2, Zenon DEF Suits
    <3>2. CASE n \notin 1 .. run.cols
      <4>1. n = run.cols + 1 /\ run.col + n - 1 = k
        BY <1>2, <1>4, <2>0, <3>2
      <4>2. at = cell
        BY <1>4, <4>1, Zenon
      <4>. QED
        BY <1>4, <4>2, Zenon DEF Suits
    <3>. QED
      BY <3>1, <3>2
  <2>2. new.text[n] = at.c /\ at.c # ""
    <3>1. CASE n \in 1 .. run.cols
      <4>1. at = cells[run.col + n - 1] /\ n <= Len(run.text) /\ new.text[n] = run.text[n]
        BY <1>2, <1>4, <1>5, <3>1
      <4>. QED
        BY <1>4, <3>1, <4>1, Zenon DEF Tells
    <3>2. CASE n \notin 1 .. run.cols
      <4>1. n = run.cols + 1 /\ run.col + n - 1 = k
        BY <1>2, <1>4, <2>0, <3>2
      <4>2. at = cell
        BY <1>4, <4>1, Zenon
      <4>. QED
        BY <1>0, <1>6, <4>1, <4>2, Zenon
    <3>. QED
      BY <3>1, <3>2
  <2>. QED
    BY <2>0, <2>1, <2>2, Zenon
<1>8. new.col + new.cols <= Len(cells) + 1 /\ Len(new.text) <= new.cols
  BY <1>1, <1>2, <1>4, <1>5
<1>9. Tells(cells, new)
  BY <1>4, <1>7, <1>8, Zenon DEF Tells
<1>. QED
  BY <1>4, <1>5, <1>9, Zenon DEF new

\* What is covered stays so.
LEMMA StillCovered ==
    ASSUME NEW runs, NEW more, NEW col, Covered(runs, col), runs \subseteq more
    PROVE  Covered(more, col)
  BY Zenon DEF Covered

\* The open run has grown by the cell of column `col`, which is one column wide.
LEMMA GrownAt ==
    ASSUME NEW cells \in Seq(Cells), NEW col \in 1 .. Len(cells), NEW run, NEW new,
           Tells(cells, run), run.col + run.cols = col, Len(run.text) = run.cols,
           HoldsText(cells[col]), Suits(run, cells[col]), ~IsWideBase(cells, col),
           new.runs \in Seq(Runs), \A r \in ToSet(new.runs) : Tells(cells, r),
           \A c \in 1 .. col - 1 : Covered(ToSet(new.runs) \cup {run}, c),
           new.open = <<Grown(run, cells[col])>>,
           new.all_blank \in BOOLEAN,
           new.all_blank => \A c \in run.col .. col : IsBlank(cells[c])
    PROVE  RunsAt(cells, new, col)
<1>. DEFINE grown == Grown(run, cells[col])
<1>1. /\ Tells(cells, grown) /\ grown.col = run.col /\ grown.cols = run.cols + 1
      /\ Len(grown.text) = grown.cols
  BY GrownTells
<1>2. grown \in Runs /\ run.col \in Nat \ {0} /\ run.cols \in Nat
  <2>1. run \in Runs /\ grown \in Runs
    BY <1>1, Zenon DEF Tells
  <2>2. \A r \in Runs : r.col \in Nat \ {0} /\ r.cols \in Nat
    BY DEF Runs
  <2>. QED
    BY <2>1, <2>2, Zenon
<1>3. new.open = <<grown>>
  OBVIOUS
<1>. HIDE DEF grown
<1>4. /\ ToSet(new.open) = {grown} /\ new.open \in Seq(Runs) /\ Len(new.open) = 1
      /\ new.open[1] = grown
  <2>1. /\ ToSet(<<grown>>) = {grown} /\ <<grown>> \in Seq(Runs) /\ Len(<<grown>>) = 1
        /\ <<grown>>[1] = grown
    BY <1>2, OneTold
  <2>. QED
    BY <1>3, <2>1, Zenon
<1>5. Told(new) = ToSet(new.runs) \cup {grown}
  BY <1>4, Zenon DEF Told
<1>6. \A r \in Told(new) : Tells(cells, r)
  BY <1>1, <1>5, Zenon
<1>7. OpenAt(cells, new, col)
  <2>1. grown.col + grown.cols = col + 1
    <3>1. run.col + (run.cols + 1) = col + 1
      BY <1>2
    <3>. QED
      BY <1>1, <3>1, Zenon
  <2>. QED
    BY <1>1, <1>4, <2>1, Zenon DEF OpenAt
<1>8. ASSUME NEW c \in 1 .. col PROVE Covered(Told(new), c)
  <2>1. CASE c \in grown.col .. grown.col + grown.cols - 1
    BY <1>5, <2>1, Zenon DEF Covered
  <2>2. CASE c \notin grown.col .. grown.col + grown.cols - 1
    <3>1. c \in 1 .. col - 1 /\ c \notin run.col .. run.col + run.cols - 1
      BY <1>1, <1>2, <2>2
    <3>2. PICK r \in ToSet(new.runs) \cup {run} : c \in r.col .. r.col + r.cols - 1
      BY <3>1, Zenon DEF Covered
    <3>3. r \in ToSet(new.runs)
      BY <3>1, <3>2, Zenon
    <3>. QED
      BY <1>5, <3>2, <3>3, Zenon DEF Covered
  <2>. QED
    BY <2>1, <2>2
<1>. QED
  BY <1>4, <1>6, <1>7, <1>8, Zenon DEF RunsAt

\* A wide grapheme and its spacer are a run of their own.
LEMMA WideTold ==
    ASSUME NEW cells \in Seq(Cells), Spaced(cells), NEW col \in 1 .. Len(cells), IsWideBase(cells, col)
    PROVE  LET run == Run(col, 2, cells[col].s, <<cells[col].c>>) IN
           /\ Tells(cells, run) /\ run \in Runs
           /\ \A runs : Covered(runs \cup {run}, col) /\ Covered(runs \cup {run}, col + 1)
<1>. DEFINE cell == cells[col]
            spacer == cells[col + 1]
            run == Run(col, 2, cell.s, <<cell.c>>)
<1>1. /\ col + 1 \in 1 .. Len(cells) /\ cell.c # "" /\ spacer.c = ""
      /\ ~IsBlank(cell) /\ ~IsBlank(spacer) /\ spacer.s = cell.s
  BY WideCells
<1>2. cell.c \in Contents /\ cell.s \in Styles
  <2>1. cell \in Cells
    OBVIOUS
  <2>2. \A one \in Cells : one.c \in Contents /\ one.s \in Styles
    BY DEF Cells
  <2>. QED
    BY <2>1, <2>2, Zenon
<1>3. /\ run.col = col /\ run.cols = 2 /\ run.style = cell.s /\ run.text = <<cell.c>>
  BY Zenon DEF Run
<1>4. run \in Runs
  <2>1. <<cell.c>> \in Seq(Contents) /\ col \in Nat \ {0}
    BY <1>2
  <2>2. run = [col |-> col, cols |-> 2, style |-> cell.s, text |-> <<cell.c>>]
    BY Zenon DEF Run
  <2>3. PICK style, text : style = cell.s /\ text = <<cell.c>>
    OBVIOUS
  <2>. HIDE DEF run, cell
  <2>. QED
    BY <1>2, <2>1, <2>2, <2>3 DEF Runs
<1>. HIDE DEF run
<1>5. Len(run.text) = 1 /\ run.text[1] = cell.c
  <2>1. Len(<<cell.c>>) = 1 /\ <<cell.c>>[1] = cell.c
    OBVIOUS
  <2>. QED
    BY <1>3, <2>1, Zenon
<1>6. ASSUME NEW n \in 1 .. run.cols
      PROVE  LET at == cells[run.col + n - 1]
             IN  /\ Suits(run, at)
                 /\ IF n <= Len(run.text) THEN run.text[n] = at.c /\ at.c # "" ELSE at.c = ""
  <2>. DEFINE at == cells[run.col + n - 1]
  <2>1. CASE n = 1
    <3>1. run.col + n - 1 = col /\ n <= Len(run.text)
      BY <1>3, <1>5, <2>1
    <3>. QED
      BY <1>1, <1>3, <1>5, <2>1, <3>1, Zenon DEF Suits
  <2>2. CASE n # 1
    <3>1. run.col + n - 1 = col + 1 /\ ~(n <= Len(run.text))
      BY <1>3, <1>5, <2>2
    <3>. QED
      BY <1>1, <1>3, <3>1, Zenon DEF Suits
  <2>. QED
    BY <2>1, <2>2
<1>7. run.col + run.cols <= Len(cells) + 1 /\ Len(run.text) <= run.cols
  <2>1. col + 1 \in 1 .. Len(cells)
    BY <1>1
  <2>. QED
    BY <1>3, <1>5, <2>1
<1>8. Tells(cells, run)
  BY <1>4, <1>6, <1>7, Zenon DEF Tells
<1>9. col \in run.col .. run.col + run.cols - 1 /\ col + 1 \in run.col .. run.col + run.cols - 1
  BY <1>3
<1>. QED
  BY <1>4, <1>8, <1>9, Zenon DEF Covered, run

\* One column more is told.
LEMMA StepTells ==
    ASSUME NEW cells \in Seq(Cells), Spaced(cells), NEW k \in 0 .. Len(cells) - 1, NEW acc,
           RunsAt(cells, acc, k)
    PROVE  RunsAt(cells, StepRow(cells, 0, acc, k + 1), k + 1)
<1>. DEFINE col == k + 1
            cell == cells[col]
            told == Told(acc)
<1>0. col \in 1 .. Len(cells) /\ col - 1 = k /\ k \in Nat
  OBVIOUS
<1>1. /\ acc.all_blank \in BOOLEAN /\ acc.runs \in Seq(Runs) /\ acc.open \in Seq(Runs)
      /\ \A run \in told : Tells(cells, run)
      /\ acc.open = <<>> \/ (Len(acc.open) = 1 /\ OpenAt(cells, acc, k))
      /\ \A c \in 1 .. k : Covered(told, c)
      /\ (k > 0 /\ IsWideBase(cells, k)) => acc.open = <<>> /\ Covered(told, col)
  BY Zenon DEF RunsAt
<1>2. told = ToSet(acc.runs) \cup ToSet(acc.open)
  BY Zenon DEF Told
<1>. HIDE DEF told
<1>3. /\ acc.runs \o acc.open \in Seq(Runs)
      /\ ToSet(acc.runs \o acc.open) = told
  <2>1. acc.runs \in Seq(Runs) /\ acc.open \in Seq(Runs)
    BY <1>1, Zenon
  <2>2. acc.runs \o acc.open \in Seq(Runs)
    BY <2>1
  <2>3. ToSet(acc.runs \o acc.open) = ToSet(acc.runs) \cup ToSet(acc.open)
    BY <2>1, BothTold
  <2>. QED
    BY <1>2, <2>2, <2>3, Zenon
<1>. DEFINE run == acc.open[1]
<1>4. ASSUME acc.open # <<>>
      PROVE  /\ Tells(cells, run) /\ run.col + run.cols = col /\ Len(run.text) = run.cols
             /\ acc.all_blank => \A c \in run.col .. k : IsBlank(cells[c])
             /\ ToSet(acc.open) = {run} /\ run \in Runs
  <2>1. Len(acc.open) = 1 /\ OpenAt(cells, acc, k)
    BY <1>1, <1>4, Zenon
  <2>2. /\ Tells(cells, run) /\ run.col + run.cols = col /\ Len(run.text) = run.cols
        /\ acc.all_blank => \A c \in run.col .. k : IsBlank(cells[c])
    BY <2>1, Zenon DEF OpenAt
  <2>3. run \in Runs
    BY <2>2, Zenon DEF Tells
  <2>4. acc.open = <<run>>
    BY <1>1, <2>1
  <2>5. ToSet(<<run>>) = {run}
    <3>. HIDE DEF run
    <3>. QED
      BY <2>3, OneTold
  <2>. QED
    BY <2>2, <2>3, <2>4, <2>5, Zenon
<1>. DEFINE new == StepRow(cells, 0, acc, col)
<1>5. CASE SpacerAt(cells, col)
  <2>1. new = acc
    <3>1. col # 1 /\ IsWideBase(cells, col - 1)
      <4>1. col > 1 => col # 1
        OBVIOUS
      <4>. QED
        BY <1>5, <4>1, Zenon DEF SpacerAt
    <3>2. ~WideAt(cells, col)
      BY <3>1, Zenon DEF WideAt
    <3>. QED
      BY <1>5, <3>2, Zenon DEF StepRow
  <2>2. k > 0 /\ k \in 1 .. Len(cells) /\ IsWideBase(cells, k)
    <3>1. col > 1 /\ IsWideBase(cells, col - 1)
      BY <1>5, Zenon DEF SpacerAt
    <3>2. k > 0 /\ k \in 1 .. Len(cells)
      BY <1>0, <3>1
    <3>. QED
      BY <1>0, <3>1, <3>2, Zenon
  <2>3. cell.c = ""
    BY <2>2, WideCells, Zenon
  <2>4. ~IsWideBase(cells, col)
    BY <2>3, Zenon DEF IsWideBase
  <2>5. acc.open = <<>> /\ Covered(told, col)
    BY <1>1, <2>2, Zenon
  <2>6. \A c \in 1 .. col : Covered(told, c)
    <3>1. \A c \in 1 .. col : c \in 1 .. k \/ c = col
      BY <1>0
    <3>. QED
      BY <1>1, <2>5, <3>1, Zenon
  <2>. QED
    BY <1>1, <2>1, <2>4, <2>5, <2>6, Zenon DEF RunsAt, told
<1>6. CASE WideAt(cells, col)
  <2>. DEFINE wide == Run(col, 2, cell.s, <<cell.c>>)
  <2>1. IsWideBase(cells, col) /\ ~SpacerAt(cells, col)
    <3>1. IsWideBase(cells, col) /\ (col = 1 \/ ~IsWideBase(cells, col - 1))
      BY <1>6, Zenon DEF WideAt
    <3>2. col = 1 => ~(col > 1)
      OBVIOUS
    <3>. QED
      BY <3>1, <3>2, Zenon DEF SpacerAt
  <2>2. new = [runs |-> acc.runs \o acc.open \o <<wide>>, open |-> <<>>, all_blank |-> TRUE]
    BY <1>6, <2>1, Zenon DEF StepRow
  <2>3. /\ Tells(cells, wide) /\ wide \in Runs
        /\ Covered(told \cup {wide}, col) /\ Covered(told \cup {wide}, col + 1)
    BY <1>0, <2>1, WideTold
  <2>. HIDE DEF wide, new
  <2>4. ToSet(<<wide>>) = {wide} /\ <<wide>> \in Seq(Runs)
    BY <2>3, OneTold
  <2>. DEFINE all == acc.runs \o acc.open
  <2>5. all \in Seq(Runs) /\ ToSet(all) = told
    BY <1>3
  <2>. HIDE DEF all
  <2>6. all \o <<wide>> \in Seq(Runs) /\ ToSet(all \o <<wide>>) = told \cup {wide}
    <3>1. PICK one : one = <<wide>>
      OBVIOUS
    <3>2. one \in Seq(Runs)
      BY <2>4, <3>1, Zenon
    <3>3. all \o one \in Seq(Runs) /\ ToSet(all \o one) = ToSet(all) \cup ToSet(one)
      BY <2>5, <3>2, BothTold
    <3>. QED
      BY <2>4, <2>5, <3>1, <3>3, Zenon
  <2>7. new.runs = all \o <<wide>> /\ new.open = <<>> /\ new.all_blank = TRUE
    BY <2>2, Zenon DEF all
  <2>8. Told(new) = told \cup {wide} /\ <<>> \in Seq(Runs)
    <3>1. ToSet(<<>>) = {} /\ <<>> \in Seq(Runs)
      BY DEF ToSet
    <3>. QED
      BY <2>6, <2>7, <3>1, Zenon DEF Told
  <2>9. \A c \in 1 .. col : Covered(Told(new), c)
    <3>1. \A c \in 1 .. col : c \in 1 .. k \/ c = col
      BY <1>0
    <3>2. \A c \in 1 .. k : Covered(told \cup {wide}, c)
      BY <1>1, StillCovered, Zenon
    <3>. QED
      BY <2>3, <2>8, <3>1, <3>2, Zenon
  <2>. QED
    BY <1>1, <2>3, <2>6, <2>7, <2>8, <2>9, Zenon DEF RunsAt, new
<1>7. CASE ~SpacerAt(cells, col) /\ ~WideAt(cells, col)
  <2>1. ~IsWideBase(cells, col) /\ HoldsText(cell)
    <3>1. HoldsText(cell)
      BY <1>0, <1>7, WideCells, Zenon DEF HoldsText
    <3>2. (col = 1 \/ ~IsWideBase(cells, col - 1))
      <4>1. col # 1 => col > 1
        BY <1>0
      <4>. QED
        BY <1>7, <4>1, Zenon DEF SpacerAt
    <3>. QED
      BY <1>7, <3>1, <3>2, Zenon DEF WideAt
  <2>2. CASE acc.open # <<>> /\ Joins(run, cell)
    <3>1. new = Growing(acc, acc.runs, run, cell, FALSE)
      BY <1>7, <2>2, Zenon DEF StepRow
    <3>2. /\ new.runs = acc.runs /\ new.open = <<Grown(run, cell)>>
          /\ new.all_blank = ((FALSE \/ acc.all_blank) /\ IsBlank(cell))
      <4>1. PICK runs, open, blank :
              /\ runs = acc.runs /\ open = <<Grown(run, cell)>>
              /\ blank = ((FALSE \/ acc.all_blank) /\ IsBlank(cell))
        BY Zenon
      <4>2. new = [runs |-> runs, open |-> open, all_blank |-> blank]
        BY <3>1, <4>1, Zenon DEF Growing
      <4>3. new.runs = runs /\ new.open = open /\ new.all_blank = blank
        <5>. HIDE DEF new
        <5>. QED
          BY <4>2
      <4>. QED
        BY <4>1, <4>3, Zenon
    <3>3. Suits(run, cell)
      BY <2>2, Zenon DEF Joins, Suits
    <3>4. new.all_blank \in BOOLEAN /\ (new.all_blank => \A c \in run.col .. col : IsBlank(cells[c]))
      <4>1. \A c \in run.col .. col : c \in run.col .. k \/ c = col
        <5>1. run.col \in Nat
          <6>1. \A r \in Runs : r.col \in Nat
            BY DEF Runs
          <6>. QED
            BY <1>4, <2>2, <6>1, Zenon
        <5>. HIDE DEF run
        <5>. QED
          BY <1>0, <5>1
      <4>. QED
        BY <1>4, <2>2, <3>2, <4>1, Zenon
    <3>5. \A c \in 1 .. col - 1 : Covered(ToSet(acc.runs) \cup {run}, c)
      BY <1>0, <1>1, <1>2, <1>4, <2>2, Zenon
    <3>6. \A r \in ToSet(acc.runs) : Tells(cells, r)
      BY <1>1, <1>2, Zenon
    <3>7. Tells(cells, run) /\ run.col + run.cols = col /\ Len(run.text) = run.cols
      BY <1>4, <2>2, Zenon
    <3>8. acc.runs \in Seq(Runs)
      BY <1>1, Zenon
    <3>. HIDE DEF new, run
    <3>. QED
      BY <1>0, <2>1, <3>2, <3>3, <3>4, <3>5, <3>6, <3>7, <3>8, GrownAt, Zenon DEF new
  <2>3. CASE acc.open # <<>> /\ ~Joins(run, cell) /\ Adopts(run, acc.all_blank, cell)
    <3>. DEFINE dyed == [run EXCEPT !.style = cell.s]
    <3>1. new = Growing(acc, acc.runs, dyed, cell, FALSE)
      BY <1>7, <2>3, Zenon DEF StepRow
    <3>2. /\ new.runs = acc.runs /\ new.open = <<Grown(dyed, cell)>>
          /\ new.all_blank = ((FALSE \/ acc.all_blank) /\ IsBlank(cell))
      <4>1. PICK runs, open, blank :
              /\ runs = acc.runs /\ open = <<Grown(dyed, cell)>>
              /\ blank = ((FALSE \/ acc.all_blank) /\ IsBlank(cell))
        BY Zenon
      <4>2. new = [runs |-> runs, open |-> open, all_blank |-> blank]
        BY <3>1, <4>1, Zenon DEF Growing
      <4>3. new.runs = runs /\ new.open = open /\ new.all_blank = blank
        <5>. HIDE DEF new
        <5>. QED
          BY <4>2
      <4>. QED
        BY <4>1, <4>3, Zenon
    <3>3. ~IsBlank(cell) /\ cell.s # "ground" /\ acc.all_blank
      BY <2>3, Zenon DEF Adopts
    <3>4. /\ run \in Runs /\ Tells(cells, run) /\ run.col + run.cols = col
          /\ Len(run.text) = run.cols /\ \A c \in run.col .. k : IsBlank(cells[c])
      BY <1>4, <2>3, <3>3, Zenon
    <3>5. cell.s \in Styles
      <4>1. cell \in Cells
        BY <1>0
      <4>2. \A one \in Cells : one.s \in Styles
        BY DEF Cells
      <4>. QED
        BY <4>1, <4>2, Zenon
    <3>6. /\ dyed.col = run.col /\ dyed.cols = run.cols /\ dyed.text = run.text
          /\ dyed.style = cell.s /\ dyed \in Runs
      <4>1. PICK style : style = cell.s
        OBVIOUS
      <4>2. style \in Styles
        BY <3>5, <4>1
      <4>3. dyed = [run EXCEPT !.style = style]
        BY <4>1, Zenon
      <4>. HIDE DEF dyed, run
      <4>4. /\ dyed.col = run.col /\ dyed.cols = run.cols /\ dyed.text = run.text
            /\ dyed.style = style /\ dyed \in Runs
        BY <3>4, <4>2, <4>3 DEF Runs
      <4>. QED
        BY <4>1, <4>4, Zenon
    <3>7. Tells(cells, dyed)
      <4>1. ASSUME NEW n \in 1 .. dyed.cols
            PROVE  LET at == cells[dyed.col + n - 1]
                   IN  /\ Suits(dyed, at)
                       /\ IF n <= Len(dyed.text) THEN dyed.text[n] = at.c /\ at.c # "" ELSE at.c = ""
        <5>. DEFINE at == cells[run.col + n - 1]
        <5>1. IF n <= Len(run.text) THEN run.text[n] = at.c /\ at.c # "" ELSE at.c = ""
          BY <3>4, <3>6, Zenon DEF Tells
        <5>2. IsBlank(at)
          <6>1. run.col + n - 1 \in run.col .. k
            <7>1. run.col \in Nat /\ run.cols \in Nat
              <8>1. \A r \in Runs : r.col \in Nat /\ r.cols \in Nat
                BY DEF Runs
              <8>. QED
                BY <3>4, <8>1, Zenon
            <7>2. n \in 1 .. run.cols
              BY <3>6, Zenon
            <7>3. run.col + run.cols = k + 1
              BY <3>4, Zenon
            <7>. HIDE DEF run, dyed
            <7>. QED
              BY <1>0, <7>1, <7>2, <7>3
          <6>. QED
            BY <3>4, <6>1, Zenon
        <5>3. Suits(dyed, at)
          BY <3>3, <3>6, <5>2, Zenon DEF Suits
        <5>. QED
          BY <3>6, <5>1, <5>3, Zenon
      <4>2. dyed.col + dyed.cols <= Len(cells) + 1 /\ Len(dyed.text) <= dyed.cols
        BY <3>4, <3>6, Zenon DEF Tells
      <4>. QED
        BY <3>6, <4>1, <4>2, Zenon DEF Tells
    <3>8. Suits(dyed, cell)
      BY <3>3, <3>6, Zenon DEF Suits
    <3>9. \A c \in 1 .. col - 1 : Covered(ToSet(acc.runs) \cup {dyed}, c)
      <4>1. \A c \in 1 .. col - 1 : Covered(ToSet(acc.runs) \cup {run}, c)
        BY <1>0, <1>1, <1>2, <1>4, <2>3, Zenon
      <4>. QED
        BY <3>6, <4>1, Zenon DEF Covered
    <3>10. \A r \in ToSet(acc.runs) : Tells(cells, r)
      BY <1>1, <1>2, Zenon
    <3>11. acc.runs \in Seq(Runs)
      BY <1>1, Zenon
    <3>12. new.all_blank \in BOOLEAN /\ (new.all_blank => \A c \in dyed.col .. col : IsBlank(cells[c]))
      BY <3>2, <3>3, Zenon
    <3>13. dyed.col + dyed.cols = col /\ Len(dyed.text) = dyed.cols
      BY <3>4, <3>6, Zenon
    <3>. HIDE DEF new, dyed
    <3>. QED
      BY <1>0, <2>1, <3>2, <3>7, <3>8, <3>9, <3>10, <3>11, <3>12, <3>13, GrownAt, Zenon DEF new
  <2>4. CASE acc.open = <<>> \/ (~Joins(run, cell) /\ ~Adopts(run, acc.all_blank, cell))
    <3>. DEFINE fresh == Run(col, 0, cell.s, <<>>)
                all == acc.runs \o acc.open
    <3>1. new = Growing(acc, all, fresh, cell, TRUE)
      BY <1>7, <2>4, Zenon DEF StepRow
    <3>2. /\ new.runs = all /\ new.open = <<Grown(fresh, cell)>>
          /\ new.all_blank = ((TRUE \/ acc.all_blank) /\ IsBlank(cell))
      <4>1. PICK runs, open, blank :
              /\ runs = all /\ open = <<Grown(fresh, cell)>>
              /\ blank = ((TRUE \/ acc.all_blank) /\ IsBlank(cell))
        BY Zenon
      <4>2. new = [runs |-> runs, open |-> open, all_blank |-> blank]
        BY <3>1, <4>1, Zenon DEF Growing
      <4>3. new.runs = runs /\ new.open = open /\ new.all_blank = blank
        <5>. HIDE DEF new
        <5>. QED
          BY <4>2
      <4>. QED
        BY <4>1, <4>3, Zenon
    <3>3. /\ fresh.col = col /\ fresh.cols = 0 /\ fresh.style = cell.s /\ fresh.text = <<>>
      BY Zenon DEF Run
    <3>4. Tells(cells, fresh)
      <4>1. cell.s \in Styles
        <5>1. cell \in Cells
          BY <1>0
        <5>2. \A one \in Cells : one.s \in Styles
          BY DEF Cells
        <5>. QED
          BY <5>1, <5>2, Zenon
      <4>2. fresh \in Runs
        <5>1. PICK style : style = cell.s
          OBVIOUS
        <5>2. style \in Styles
          BY <4>1, <5>1
        <5>3. fresh = [col |-> col, cols |-> 0, style |-> style, text |-> <<>>]
          BY <5>1, Zenon DEF Run
        <5>. HIDE DEF fresh
        <5>. QED
          BY <1>0, <5>2, <5>3 DEF Runs
      <4>3. col + 0 <= Len(cells) + 1 /\ Len(<<>>) <= 0 /\ 1 .. 0 = {}
        BY <1>0
      <4>. QED
        BY <3>3, <4>2, <4>3, Zenon DEF Tells
    <3>5. Suits(fresh, cell)
      BY <3>3, Zenon DEF Suits, IsBlank
    <3>6. \A c \in 1 .. col - 1 : Covered(ToSet(all) \cup {fresh}, c)
      BY <1>0, <1>1, <1>3, Zenon DEF Covered
    <3>7. \A r \in ToSet(all) : Tells(cells, r)
      BY <1>1, <1>3, Zenon
    <3>8. fresh.col + fresh.cols = col /\ Len(fresh.text) = fresh.cols
      <4>1. col + 0 = col /\ Len(<<>>) = 0
        BY <1>0
      <4>. QED
        BY <3>3, <4>1, Zenon
    <3>9. IsBlank(cell) \in BOOLEAN /\ \A c \in col .. col : c = col
      <4>1. \A c \in col .. col : c = col
        BY <1>0
      <4>. QED
        BY <4>1, Zenon DEF IsBlank
    <3>10. new.all_blank \in BOOLEAN /\ (new.all_blank => \A c \in fresh.col .. col : IsBlank(cells[c]))
      BY <3>2, <3>3, <3>9, Zenon
    <3>11. all \in Seq(Runs)
      BY <1>3, Zenon
    <3>. HIDE DEF new, fresh, all
    <3>. QED
      BY <1>0, <2>1, <3>2, <3>4, <3>5, <3>6, <3>7, <3>8, <3>10, <3>11, GrownAt, Zenon DEF new
  <2>. QED
    BY <2>2, <2>3, <2>4
<1>. QED
  BY <1>5, <1>6, <1>7

\* The runs of a row tell all of its visible part, and nothing but the row.
LEMMA RowTold ==
    ASSUME NEW cells \in Seq(Cells), Spaced(cells)
    PROVE  /\ \A run \in ToSet(BuildRow(cells)) : Tells(cells, run)
           /\ \A c \in 1 .. Len(cells) : Covered(ToSet(BuildRow(cells)), c) \/ IsBlank(cells[c])
<1>. DEFINE n == LastVisible(cells)
            part == SubSeq(cells, 1, n)
            columns == [k \in DOMAIN part |-> k]
            done == RowDone(cells)
<1>1. n \in 0 .. Len(cells) /\ \A c \in n + 1 .. Len(cells) : IsBlank(cells[c])
  BY LastVisibleCell
<1>2. n \in Nat /\ DOMAIN columns = 1 .. n /\ \A k \in 1 .. n : columns[k] = k
  <2>. HIDE DEF n
  <2>1. DOMAIN part = 1 .. n
    BY <1>1
  <2>. QED
    BY <1>1, <2>1
<1>3. done = Drawing!FoldOf(cells, 0, NoRuns, columns)
  BY Zenon DEF RowDone
<1>. HIDE DEF n, columns, done
<1>4. PICK t : Drawing!Trace(cells, 0, NoRuns, columns, n, t)
               /\ Drawing!FoldOf(cells, 0, NoRuns, columns) = t[n]
  BY <1>2, Drawing!FoldTrace
<1>. DEFINE T == {k \in 0 .. n : RunsAt(cells, t[k], k)}
<1>5. 0 \in T
  <2>1. t[0] = NoRuns
    BY <1>4, Zenon DEF Drawing!Trace
  <2>2. NoRuns.runs = <<>> /\ NoRuns.open = <<>> /\ NoRuns.all_blank = TRUE
    BY DEF NoRuns
  <2>3. ToSet(<<>>) = {} /\ <<>> \in Seq(Runs) /\ 1 .. 0 = {} /\ ~(0 > 0)
    BY DEF ToSet
  <2>4. RunsAt(cells, NoRuns, 0)
    BY <2>2, <2>3, Zenon DEF RunsAt, Told
  <2>5. 0 \in 0 .. n
    BY <1>2
  <2>. QED
    BY <2>1, <2>4, <2>5, Zenon
<1>6. ASSUME NEW k \in 0 .. n - 1, k \in T PROVE k + 1 \in T
  <2>1. k + 1 \in 1 .. n /\ k + 1 \in 0 .. n /\ (k + 1) - 1 = k /\ k \in 0 .. Len(cells) - 1
    BY <1>1, <1>2
  <2>2. t[k + 1] = StepRow(cells, 0, t[(k + 1) - 1], columns[k + 1])
    BY <1>4, <2>1, Zenon DEF Drawing!Trace
  <2>3. t[k + 1] = StepRow(cells, 0, t[k], k + 1)
    BY <1>2, <2>1, <2>2, Zenon
  <2>4. RunsAt(cells, t[k], k)
    BY <1>6, Zenon
  <2>5. RunsAt(cells, t[k + 1], k + 1)
    BY <2>1, <2>3, <2>4, StepTells, Zenon
  <2>. QED
    BY <2>1, <2>5, Zenon
<1>7. RunsAt(cells, done, n)
  <2>1. n \in T
    <3>. HIDE DEF T
    <3>1. \A k \in 0 .. n : k \in T
      BY <1>2, <1>5, <1>6, Drawing!Induction
    <3>2. n \in 0 .. n
      BY <1>2
    <3>. QED
      BY <3>1, <3>2, Zenon
  <2>. QED
    BY <1>3, <1>4, <2>1, Zenon
<1>8. /\ done.runs \in Seq(Runs) /\ done.open \in Seq(Runs)
      /\ \A run \in Told(done) : Tells(cells, run)
      /\ \A c \in 1 .. n : Covered(Told(done), c)
  BY <1>7, Zenon DEF RunsAt
<1>9. ToSet(BuildRow(cells)) = Told(done)
  <2>1. BuildRow(cells) = done.runs \o done.open
    BY BuildFold DEF done
  <2>2. ToSet(done.runs \o done.open) = ToSet(done.runs) \cup ToSet(done.open)
    BY <1>8, BothTold
  <2>. QED
    BY <2>1, <2>2, Zenon DEF Told
<1>10. \A c \in 1 .. Len(cells) : c \in 1 .. n \/ c \in n + 1 .. Len(cells)
  BY <1>1
<1>. QED
  BY <1>1, <1>8, <1>9, <1>10, Zenon

\* What the numbers of a run are.
LEMMA RunNumbers ==
    ASSUME NEW cells \in Seq(Cells), NEW run, Tells(cells, run)
    PROVE  /\ run.col \in Nat \ {0} /\ run.cols \in Nat /\ run.col + run.cols <= Len(cells) + 1
           /\ Len(run.text) \in Nat /\ DOMAIN run.text = 1 .. Len(run.text)
           /\ Len(run.text) <= run.cols
<1>1. run \in Runs /\ run.col + run.cols <= Len(cells) + 1 /\ Len(run.text) <= run.cols
  BY Zenon DEF Tells
<1>2. \A r \in Runs : r.col \in Nat \ {0} /\ r.cols \in Nat /\ r.text \in Seq(Contents)
  BY DEF Runs
<1>3. run.col \in Nat \ {0} /\ run.cols \in Nat /\ run.text \in Seq(Contents)
  BY <1>1, <1>2, Zenon
<1>4. DOMAIN run.text = 1 .. Len(run.text) /\ Len(run.text) \in Nat
  BY <1>3
<1>. QED
  BY <1>1, <1>3, <1>4, Zenon

\* drawRun: finds the grapheme of column `c` in the text.
Lettered(cells, run, c) == \E n \in DOMAIN run.text : run.col + n - 1 = c /\ run.text[n] = cells[c].c

\* A cell of a run has the style for it, and its grapheme, if it has one, is in
\* the text where drawRun: looks for it.
LEMMA ColumnTold ==
    ASSUME NEW cells \in Seq(Cells), NEW run, Tells(cells, run),
           NEW c \in run.col .. run.col + run.cols - 1
    PROVE  /\ c \in 1 .. Len(cells) /\ Suits(run, cells[c])
           /\ cells[c].c # "" => Lettered(cells, run, c)
<1>1. /\ run.col \in Nat \ {0} /\ run.cols \in Nat /\ run.col + run.cols <= Len(cells) + 1
      /\ Len(run.text) \in Nat /\ DOMAIN run.text = 1 .. Len(run.text)
  BY RunNumbers
<1>2. c \in Nat /\ run.col <= c /\ c < run.col + run.cols /\ c \in 1 .. Len(cells)
  <2>1. PICK a \in Nat \ {0}, b \in Nat : a = run.col /\ b = run.cols
    BY <1>1, Zenon
  <2>2. c \in a .. a + b - 1 /\ a + b <= Len(cells) + 1
    BY <1>1, <2>1, Zenon
  <2>3. Len(cells) \in Nat
    OBVIOUS
  <2>4. c \in Nat /\ a <= c /\ c < a + b /\ c \in 1 .. Len(cells)
    BY <2>1, <2>2, <2>3, SMTT(40)
  <2>. QED
    BY <2>1, <2>4, Zenon
<1>. DEFINE n == c - run.col + 1
<1>3. n \in 1 .. run.cols /\ run.col + n - 1 = c /\ c \in 1 .. Len(cells)
  BY <1>1, <1>2, SMTT(40)
<1>. HIDE DEF n
<1>4. /\ Suits(run, cells[c])
      /\ IF n <= Len(run.text) THEN run.text[n] = cells[c].c /\ cells[c].c # "" ELSE cells[c].c = ""
  BY <1>3, Zenon DEF Tells
<1>5. n <= Len(run.text) => n \in DOMAIN run.text
  BY <1>1, <1>3
<1>. QED
  BY <1>3, <1>4, <1>5, Zenon DEF Lettered

\* Each cluster of a run is that of the cell it is drawn on.
LEMMA ClusterTold ==
    ASSUME NEW cells \in Seq(Cells), NEW run, Tells(cells, run), NEW n \in DOMAIN run.text
    PROVE  /\ run.col + n - 1 \in run.col .. run.col + run.cols - 1
           /\ run.text[n] = cells[run.col + n - 1].c /\ run.text[n] # ""
<1>1. /\ run.col \in Nat \ {0} /\ run.cols \in Nat /\ Len(run.text) \in Nat
      /\ DOMAIN run.text = 1 .. Len(run.text) /\ Len(run.text) <= run.cols
  BY RunNumbers
<1>2. n \in 1 .. run.cols /\ n <= Len(run.text) /\ run.col + n - 1 \in run.col .. run.col + run.cols - 1
  BY <1>1
<1>. QED
  BY <1>2, Zenon DEF Tells

\* build_row and drawRun: whatever the row, as long as its spacers stand behind
\* wide graphemes, its glyphs and its background come out where they belong.
LEMMA RowShown ==
    ASSUME NEW cells \in Seq(Cells), Spaced(cells)
    PROVE  ShownInPlace(cells)
<1>. DEFINE runs == BuildRow(cells)
            glyph(c) == <<c, cells[c].c, cells[c].s>>
            visible == {d \in DOMAIN cells : cells[d].c \notin {"", " "}}
            drawn == {g \in Glyphs(runs) : g[2] # " "}
            meant == {glyph(c) : c \in visible}
            grounded == {c \in DOMAIN cells : cells[c].s = "ground"}
<1>1. /\ \A run \in ToSet(runs) : Tells(cells, run)
      /\ \A c \in 1 .. Len(cells) : Covered(ToSet(runs), c) \/ IsBlank(cells[c])
  BY RowTold
<1>. HIDE DEF runs
<1>2. DOMAIN cells = 1 .. Len(cells) /\ \A c : glyph(c)[2] = cells[c].c
  OBVIOUS
<1>3. \A c \in 1 .. Len(cells) : c \in visible <=> cells[c].c # "" /\ cells[c].c # " "
  BY <1>2, Zenon
<1>4. \A c \in 1 .. Len(cells) : c \in grounded <=> cells[c].s = "ground"
  BY <1>2, Zenon
<1>5. \A c : c \in visible \/ c \in grounded => c \in 1 .. Len(cells)
  BY <1>2, Zenon
<1>6. \A g : g \in drawn <=> g \in Glyphs(runs) /\ g[2] # " "
  BY Zenon
<1>7. \A g : g \in meant <=> \E c \in visible : g = glyph(c)
  BY Zenon
<1>8. \A g : g \in Glyphs(runs) <=>
        \E run \in ToSet(runs) : \E n \in DOMAIN run.text : g = <<run.col + n - 1, run.text[n], run.style>>
  <2>. DEFINE of(run) == {<<run.col + n - 1, run.text[n], run.style>> : n \in DOMAIN run.text}
  <2>1. Glyphs(runs) = UNION {of(run) : run \in ToSet(runs)}
    BY Zenon DEF Glyphs
  <2>2. \A run, g : g \in of(run) <=> \E n \in DOMAIN run.text : g = <<run.col + n - 1, run.text[n], run.style>>
    BY Zenon
  <2>. HIDE DEF of
  <2>3. \A g : g \in Glyphs(runs) <=> \E run \in ToSet(runs) : g \in of(run)
    BY <2>1
  <2>. QED
    BY <2>2, <2>3
<1>9. \A c : c \in Ground(runs) <=>
        \E run \in ToSet(runs) : run.style = "ground" /\ c \in run.col .. run.col + run.cols - 1
  <2>. DEFINE painted == {r \in ToSet(runs) : r.style = "ground"}
              of(run) == run.col .. run.col + run.cols - 1
  <2>1. Ground(runs) = UNION {of(run) : run \in painted}
    BY Zenon DEF Ground
  <2>2. \A r : r \in painted <=> r \in ToSet(runs) /\ r.style = "ground"
    BY Zenon
  <2>. HIDE DEF of, painted
  <2>3. \A c : c \in Ground(runs) <=> \E run \in painted : c \in of(run)
    BY <2>1
  <2>. QED
    BY <2>2, <2>3, Zenon DEF of
<1>. HIDE DEF visible, drawn, meant, grounded
<1>10. ASSUME NEW g \in drawn PROVE g \in meant
  <2>1. PICK run \in ToSet(runs) :
          \E n \in DOMAIN run.text : g = <<run.col + n - 1, run.text[n], run.style>>
    BY <1>6, <1>8, Zenon
  <2>2. PICK n \in DOMAIN run.text : g = <<run.col + n - 1, run.text[n], run.style>>
    BY <2>1
  <2>3. Tells(cells, run)
    BY <1>1
  <2>4. PICK c : c = run.col + n - 1
    OBVIOUS
  <2>5. c \in run.col .. run.col + run.cols - 1 /\ run.text[n] = cells[c].c /\ cells[c].c # ""
    BY <2>3, <2>4, ClusterTold, Zenon
  <2>6. c \in 1 .. Len(cells) /\ Suits(run, cells[c])
    BY <2>3, <2>5, ColumnTold, Zenon
  <2>7. g = <<c, cells[c].c, run.style>>
    BY <2>2, <2>4, <2>5, Zenon
  <2>8. cells[c].c # " "
    <3>1. g[2] = cells[c].c
      BY <2>7
    <3>. QED
      BY <1>6, <3>1, Zenon
  <2>9. g = glyph(c)
    <3>1. run.style = cells[c].s
      BY <2>6, <2>8, Zenon DEF Suits, IsBlank
    <3>. QED
      BY <2>7, <3>1, Zenon
  <2>. QED
    BY <1>3, <1>7, <2>5, <2>6, <2>8, <2>9, Zenon
<1>11. ASSUME NEW g \in meant PROVE g \in drawn
  <2>1. PICK c \in visible : g = glyph(c)
    BY <1>7, Zenon
  <2>2. c \in 1 .. Len(cells) /\ cells[c].c # "" /\ cells[c].c # " "
    BY <1>3, <1>5, Zenon
  <2>3. ~IsBlank(cells[c])
    BY <2>2, Zenon DEF IsBlank
  <2>4. PICK run \in ToSet(runs) : c \in run.col .. run.col + run.cols - 1
    BY <1>1, <2>2, <2>3, Zenon DEF Covered
  <2>5. Tells(cells, run)
    BY <1>1
  <2>6. Suits(run, cells[c])
    BY <2>4, <2>5, ColumnTold, Zenon
  <2>7. PICK n \in DOMAIN run.text : run.col + n - 1 = c /\ run.text[n] = cells[c].c
    <3>1. Lettered(cells, run, c)
      BY <2>2, <2>4, <2>5, ColumnTold, Zenon
    <3>. QED
      BY <3>1, Zenon DEF Lettered
  <2>8. run.style = cells[c].s
    BY <2>3, <2>6, Zenon DEF Suits
  <2>9. g = <<run.col + n - 1, run.text[n], run.style>>
    BY <2>1, <2>7, <2>8, Zenon
  <2>10. g[2] # " "
    BY <1>2, <2>1, <2>2, Zenon
  <2>. QED
    BY <1>6, <1>8, <2>9, <2>10, Zenon
<1>12. ASSUME NEW c \in Ground(runs) PROVE c \in grounded
  <2>1. PICK run \in ToSet(runs) : run.style = "ground" /\ c \in run.col .. run.col + run.cols - 1
    BY <1>9, Zenon
  <2>2. Tells(cells, run)
    BY <1>1
  <2>3. c \in 1 .. Len(cells) /\ Suits(run, cells[c])
    BY <2>1, <2>2, ColumnTold, Zenon
  <2>4. cells[c].s = "ground"
    BY <2>1, <2>3, Zenon DEF Suits
  <2>. QED
    BY <1>4, <2>3, <2>4, Zenon
<1>13. ASSUME NEW c \in grounded PROVE c \in Ground(runs)
  <2>1. c \in 1 .. Len(cells) /\ cells[c].s = "ground"
    BY <1>4, <1>5, Zenon
  <2>2. ~IsBlank(cells[c])
    BY <2>1, Zenon DEF IsBlank
  <2>3. PICK run \in ToSet(runs) : c \in run.col .. run.col + run.cols - 1
    BY <1>1, <2>1, <2>2, Zenon DEF Covered
  <2>4. Tells(cells, run)
    BY <1>1
  <2>5. run.style = "ground"
    BY <2>1, <2>2, <2>3, <2>4, ColumnTold, Zenon DEF Suits
  <2>. QED
    BY <1>9, <2>3, <2>5, Zenon
<1>14. drawn = meant /\ Ground(runs) = grounded
  <2>1. drawn = meant
    BY <1>10, <1>11
  <2>2. Ground(runs) = grounded
    BY <1>12, <1>13
  <2>. QED
    BY <2>1, <2>2
<1>. QED
  BY <1>14, Zenon DEF ShownInPlace, runs, drawn, meant, visible, grounded

-----------------------------------------------------------------------------
(* The invariant: the rows are the layout of some text with the ink of the *)
(* line as it was written, and of that very line if it is narrow.  What    *)
(* the text is depends on the widths so far: blanks that one layout puts   *)
(* before a wide grapheme are text to the next.                            *)

LaysOut(text) ==
    /\ text \in Seq(TextCell)
    /\ rows = RenderRows(text, width)
    /\ Ink(text) = Ink(first.text)
    /\ Narrow(first.text) => text = first.text

ReflowInv ==
    /\ width \in Widths /\ first.text \in Texts
    /\ \E text : LaysOut(text)

\* The lines as first written are text, trimmed.
LEMMA FirstTexts ==
    ASSUME NEW text \in Texts
    PROVE  text \in Seq(TextCell) /\ Trimmed(text)
<1>1. text \in Seq({cell \in [c : Contents, s : Styles] : HoldsText(cell)})
      /\ (text = << >> \/ ~IsBlank(Last(text)))
  BY ReflowAssumption, Zenon
<1>2. TextCell = {cell \in [c : Contents, s : Styles] : HoldsText(cell)}
  BY Zenon DEF TextCell, Cells
<1>. QED
  BY <1>1, <1>2, Zenon DEF Trimmed

\* A new line is laid out.
LEMMA InitLaysOut ==
    ASSUME Init
    PROVE  ReflowInv
<1>1. PICK text \in Texts, w \in Widths :
         first = [text |-> text, width |-> w] /\ width = w /\ rows = RenderRows(text, w)
  BY DEF Init
<1>2. first.text = text
  BY <1>1
<1>3. LaysOut(text)
  BY <1>1, <1>2, FirstTexts, Zenon DEF LaysOut
<1>. QED
  BY <1>1, <1>2, <1>3, Zenon DEF ReflowInv

\* Packing the rows and laying them out again keeps it.
LEMMA RewrapLaysOut ==
    ASSUME ReflowInv, [Next]_vars
    PROVE  ReflowInv'
<1>1. CASE Next
  <2>1. PICK w \in Widths : width' = w /\ rows' = RenderRows(Packing(rows), w) /\ first' = first
    BY <1>1, Zenon DEF Next, Rewrap
  <2>2. PICK text : LaysOut(text)
    BY DEF ReflowInv
  <2>. DEFINE back == Packing(rows)
  <2>3. width \in Nat \ {0} /\ w \in Nat \ {0} /\ text \in Seq(TextCell) /\ rows = RenderRows(text, width)
    BY <2>2, ReflowAssumption DEF ReflowInv, LaysOut
  <2>4. rows \in Seq(Seq(Cells))
    BY <2>3, RowsOfLayout
  <2>5. back \in Seq(TextCell) /\ Ink(back) = Ink(FlattenSeq(rows))
    BY <2>4, PackingInk
  <2>6. Ink(FlattenSeq(rows)) = Ink(text)
    BY <2>3, LayoutInk
  <2>7. Narrow(first.text) => back = first.text
    <3>1. SUFFICES ASSUME Narrow(first.text) PROVE back = first.text
      OBVIOUS
    <3>2. text = first.text /\ Trimmed(first.text)
      BY <2>2, <3>1, FirstTexts DEF LaysOut, ReflowInv
    <3>3. Narrow(text) /\ Trimmed(text)
      BY <3>1, <3>2
    <3>4. back = text
      BY <2>3, <3>3, NarrowKept
    <3>. QED
      BY <3>2, <3>4
  <2>. HIDE DEF back
  <2>8. rows' = RenderRows(back, width')
    BY <2>1 DEF back
  <2>9. Ink(back) = Ink(first'.text) /\ (Narrow(first'.text) => back = first'.text)
    BY <2>1, <2>2, <2>5, <2>6, <2>7, Zenon DEF LaysOut
  <2>10. PICK line : line = back
    OBVIOUS
  <2>11. LaysOut(line)'
    BY <2>5, <2>8, <2>9, <2>10, Zenon DEF LaysOut
  <2>. QED
    BY <2>1, <2>11, Zenon DEF ReflowInv
<1>2. CASE UNCHANGED vars
  BY <1>2, Zenon DEF vars, ReflowInv, LaysOut
<1>. QED
  BY <1>1, <1>2

\* However often the width changes, the rows lay out such a text.
LEMMA AlwaysLaidOut == Spec => []ReflowInv
<1>1. Init => ReflowInv
  BY InitLaysOut
<1>2. ReflowInv /\ [Next]_vars => ReflowInv'
  BY RewrapLaysOut
<1>. QED
  BY <1>1, <1>2, PTL DEF Spec

\* What the rows are, in each state.
LEMMA RowsLaidOut ==
    ASSUME ReflowInv
    PROVE  /\ width \in Nat \ {0} /\ first.text \in Seq(TextCell) /\ Trimmed(first.text)
           /\ rows \in Seq(Seq(Cells)) /\ Packing(rows) \in Seq(TextCell)
           /\ \E text \in Seq(TextCell) : LaysOut(text)
<1>1. PICK text : LaysOut(text)
  BY DEF ReflowInv
<1>2. width \in Nat \ {0} /\ text \in Seq(TextCell) /\ rows = RenderRows(text, width)
  BY <1>1, ReflowAssumption DEF ReflowInv, LaysOut
<1>3. rows \in Seq(Seq(Cells))
  BY <1>2, RowsOfLayout
<1>4. first.text \in Seq(TextCell) /\ Trimmed(first.text)
  BY FirstTexts DEF ReflowInv
<1>. QED
  BY <1>1, <1>2, <1>3, <1>4, PackingInk

\* Screen::resize loses, changes or moves no visible grapheme, however often it
\* is called and whatever the widths; and a line without wide graphemes is laid
\* out as it was the first time whenever its width comes back.
THEOREM LineKept == Spec => []TextKept
<1>1. ASSUME ReflowInv PROVE TextKept
  <2>1. PICK text \in Seq(TextCell) : LaysOut(text)
    BY <1>1, RowsLaidOut
  <2>2. width \in Nat \ {0} /\ rows = RenderRows(text, width) /\ Ink(text) = Ink(first.text)
    BY <1>1, <2>1, RowsLaidOut DEF LaysOut
  <2>3. Ink(FlattenSeq(rows)) = Ink(first.text)
    BY <2>2, LayoutInk
  <2>4. Narrow(first.text) => rows = RenderRows(first.text, width)
    BY <2>1, <2>2, Zenon DEF LaysOut
  <2>. QED
    BY <2>3, <2>4, Zenon DEF TextKept, Narrow
<1>. QED
  BY <1>1, AlwaysLaidOut, PTL

\* compute_continuation_starts and cells_in_range: in every state the rows are
\* those of the greedy wrap, and a wide grapheme has both its cells in one row.
THEOREM WrapsKept == Spec => []WrapsGreedily
<1>1. ASSUME ReflowInv PROVE WrapsGreedily
  <2>. DEFINE text == Packing(rows)
              starts == ContinuationStarts(text, width)
              bounds == <<1>> \o starts \o <<Len(text) + 1>>
  <2>1. width \in Nat \ {0} /\ text \in Seq(TextCell)
    BY <1>1, RowsLaidOut
  <2>2. /\ starts \in Seq(2 .. Len(text)) /\ Len(text) \in Nat /\ Len(starts) \in Nat
        /\ \A k \in 1 .. Len(starts) + 1 : RowTaken(text, width, starts, k)
    <3>. HIDE DEF text
    <3>1. starts \in Seq(2 .. Len(text)) /\ \A k \in 1 .. Len(starts) + 1 : RowTaken(text, width, starts, k)
      BY <2>1, RowsTaken
    <3>. HIDE DEF starts
    <3>. QED
      BY <2>1, <3>1
  <2>. HIDE DEF text, starts
  <2>3. \A k \in 1 .. Len(starts) + 2 : bounds[k] = Begin(text, starts, k)
    BY <2>2, BoundsBegin
  <2>. HIDE DEF bounds
  <2>4. ASSUME NEW k \in 1 .. Len(starts) + 1
        PROVE  /\ text # << >> => bounds[k] < bounds[k + 1]
               /\ Span(text, bounds[k], bounds[k + 1]) <= width \/ bounds[k + 1] = bounds[k] + 1
               /\ k <= Len(starts) => Span(text, bounds[k], bounds[k + 1] + 1) > width
    <3>1. k \in 1 .. Len(starts) + 2 /\ k + 1 \in 1 .. Len(starts) + 2
      BY <2>2
    <3>2. bounds[k] = Begin(text, starts, k) /\ bounds[k + 1] = Begin(text, starts, k + 1)
      BY <2>3, <3>1
    <3>. QED
      BY <2>2, <3>2, Zenon DEF RowTaken
  <2>5. ASSUME NEW r \in DOMAIN rows
        PROVE  /\ Len(rows[r]) = width
               /\ \A c \in 1 .. width : (Width(rows[r][c].c) = 2 /\ width > 1) =>
                     c < width /\ rows[r][c + 1] = Spacer(rows[r][c].s)
    <3>1. PICK line \in Seq(TextCell) : LaysOut(line)
      BY <1>1, RowsLaidOut
    <3>. DEFINE begins == ContinuationStarts(line, width)
    <3>2. rows = RenderRows(line, width) /\ rows \in Seq(Seq(Cells)) /\ Len(rows) = Len(begins) + 1
          /\ \A k \in 1 .. Len(rows) : rows[k] = CellsInRange(Stretch(line, begins, k), width)
      <4>1. rows = RenderRows(line, width)
        BY <3>1 DEF LaysOut
      <4>. QED
        BY <2>1, <4>1, RowsOfLayout
    <3>3. r \in 1 .. Len(rows)
      BY <3>2
    <3>4. Len(rows[r]) = width
      <4>1. line \in Seq(Cells)
        BY DEF TextCell
      <4>2. width \in Nat
        BY <2>1
      <4>. QED
        BY <3>2, <3>3, <4>1, <4>2, RenderRowsType
    <3>5. width > 1 => WidePaired(rows[r])
      <4>1. r \in 1 .. Len(begins) + 1 /\ rows[r] = CellsInRange(Stretch(line, begins, r), width)
        BY <3>2, <3>3
      <4>. QED
        BY <2>1, <4>1, RowInk
    <3>. QED
      BY <3>4, <3>5, Zenon DEF WidePaired
  <2>. QED
    BY <2>4, <2>5, Zenon DEF WrapsGreedily, text, starts, bounds, Span
<1>. QED
  BY <1>1, AlwaysLaidOut, PTL

\* build_row and drawRun: in every state each row of the screen is drawn as it
\* is, whatever blanks, styles and wide graphemes meet in it: no run moves a
\* glyph, restyles one, or paints background where there is none.
THEOREM FramesTrue == Spec => []FrameShowsRows
<1>1. ASSUME ReflowInv PROVE FrameShowsRows
  <2>1. PICK text \in Seq(TextCell) : LaysOut(text)
    BY <1>1, RowsLaidOut
  <2>. DEFINE starts == ContinuationStarts(text, width)
  <2>2. width \in Nat \ {0} /\ rows = RenderRows(text, width)
    BY <1>1, <2>1, RowsLaidOut DEF LaysOut
  <2>3. rows \in Seq(Seq(Cells)) /\ Len(rows) = Len(starts) + 1
        /\ \A k \in 1 .. Len(rows) : rows[k] = CellsInRange(Stretch(text, starts, k), width)
    BY <2>2, RowsOfLayout
  <2>4. ASSUME NEW r \in DOMAIN rows PROVE ShownInPlace(rows[r])
    <3>1. r \in 1 .. Len(rows) /\ rows[r] \in Seq(Cells)
      BY <2>3
    <3>2. r \in 1 .. Len(starts) + 1 /\ rows[r] = CellsInRange(Stretch(text, starts, r), width)
      BY <2>3, <3>1
    <3>3. Spaced(rows[r])
      BY <2>2, <3>2, RowInk
    <3>. QED
      BY <3>1, <3>3, RowShown
  <2>. QED
    BY <2>4, Zenon DEF FrameShowsRows
<1>. QED
  BY <1>1, AlwaysLaidOut, PTL
=============================================================================
