----------------------------- MODULE LineProofs -----------------------------
(***************************************************************************)
(* What the operators of LogicalLine return, for every line and width: the *)
(* lengths are numbers, packing and laying out keep to cells, a display    *)
(* row is as wide as the screen.                                           *)
(***************************************************************************)
EXTENDS LogicalLine, SequenceTheorems, TLAPS

Cells == [c : Contents, s : Styles]

\* The bodies of the loops.
AddBytes(c, d, n, cell) == n + Bytes(cell.c)
AddWidth(c, d, n, cell) == n + Width(cell.c)
Choose(c, d, text, cell) == IF HoldsText(cell) THEN Append(text, cell) ELSE text
Join(c, d, whole, part) == whole \o part

Counting  == INSTANCE LoopLemmas WITH Body <- AddBytes
Measuring == INSTANCE LoopLemmas WITH Body <- AddWidth
Choosing  == INSTANCE LoopLemmas WITH Body <- Choose
Joining   == INSTANCE LoopLemmas WITH Body <- Join

\* Every grapheme has a number of bytes and of columns.
LEMMA GraphemeSizes ==
    ASSUME NEW content
    PROVE  Bytes(content) \in Nat /\ Width(content) \in 0 .. 2
  BY DEF Bytes, Width

\* The length in bytes is a fold of the bytes of the cells.
LEMMA ByteLenFold ==
    ASSUME NEW text
    PROVE  ByteLen(text) = Counting!FoldOf(0, 0, 0, text)
  BY Zenon DEF ByteLen, Counting!FoldOf, AddBytes, FoldLeft, MapThenFoldSet, Max,
               Counting!MapThenFoldSet, Counting!Greatest

\* The length in bytes is a number.
LEMMA ByteLenNat ==
    ASSUME NEW S, NEW text \in Seq(S)
    PROVE  ByteLen(text) \in Nat
<1>1. Len(text) \in Nat /\ DOMAIN text = 1 .. Len(text)
  OBVIOUS
<1>2. \A acc \in Nat, k \in 1 .. Len(text) : AddBytes(0, 0, acc, text[k]) \in Nat
  BY GraphemeSizes DEF AddBytes
<1>3. Counting!FoldOf(0, 0, 0, text) \in Nat
  BY <1>1, <1>2, Counting!FoldIn
<1>. QED
  BY <1>3, ByteLenFold

\* The width in columns is a fold of the widths of the cells.
LEMMA DisplayWidthFold ==
    ASSUME NEW text
    PROVE  DisplayWidth(text) = Measuring!FoldOf(0, 0, 0, text)
  BY Zenon DEF DisplayWidth, Measuring!FoldOf, AddWidth, FoldLeft, MapThenFoldSet, Max,
               Measuring!MapThenFoldSet, Measuring!Greatest

\* The width in columns is a number; one grapheme more adds its width.
LEMMA DisplayWidthNat ==
    ASSUME NEW S, NEW text \in Seq(S)
    PROVE  /\ DisplayWidth(text) \in Nat
           /\ DisplayWidth(<< >>) = 0
           /\ \A cell \in S : DisplayWidth(Append(text, cell)) = DisplayWidth(text) + Width(cell.c)
<1>1. Len(text) \in Nat /\ DOMAIN text = 1 .. Len(text)
  OBVIOUS
<1>2. \A acc \in Nat, k \in 1 .. Len(text) : AddWidth(0, 0, acc, text[k]) \in Nat
  BY GraphemeSizes DEF AddWidth
<1>3. Measuring!FoldOf(0, 0, 0, text) \in Nat
  BY <1>1, <1>2, Measuring!FoldIn
<1>4. Measuring!FoldOf(0, 0, 0, << >>) = 0
  BY Measuring!FoldEmpty
<1>5. ASSUME NEW cell \in S
      PROVE  DisplayWidth(Append(text, cell)) = DisplayWidth(text) + Width(cell.c)
  <2>1. Measuring!FoldOf(0, 0, 0, Append(text, cell))
           = AddWidth(0, 0, Measuring!FoldOf(0, 0, 0, text), cell)
    BY Measuring!FoldAppend
  <2>. QED
    BY <2>1, DisplayWidthFold, Zenon DEF AddWidth
<1>. QED
  BY <1>3, <1>4, <1>5, DisplayWidthFold

\* What a row packs to.
TextCells(cells) == Chosen(cells, HoldsText)

\* The cells that hold text are a fold, which only appends.
LEMMA ChosenFold ==
    ASSUME NEW cells
    PROVE  TextCells(cells) = Choosing!FoldOf(0, 0, << >>, cells)
  BY Zenon DEF TextCells, Chosen, Choosing!FoldOf, Choose, FoldLeft, MapThenFoldSet, Max,
               Choosing!MapThenFoldSet, Choosing!Greatest

\* Filtering a text cell by cell only ever adds to its end.
LEMMA ChooseAppends ==
    ASSUME NEW S
    PROVE  Choosing!Appends(0, 0, S, S)
<1>1. SUFFICES ASSUME NEW acc \in Seq(S), NEW cell \in S
               PROVE  /\ Choose(0, 0, << >>, cell) \in Seq(S)
                      /\ Choose(0, 0, acc, cell) = acc \o Choose(0, 0, << >>, cell)
  BY Zenon DEF Choosing!Appends
<1>2. CASE HoldsText(cell)
  BY <1>2 DEF Choose
<1>3. CASE ~HoldsText(cell)
  BY <1>3 DEF Choose
<1>. QED
  BY <1>2, <1>3

\* Chosen cells are of the sort they were chosen from; those of two sequences
\* one after the other are those of the first, then those of the second.
LEMMA ChosenConcat ==
    ASSUME NEW X, NEW f \in Seq(X), NEW g \in Seq(X)
    PROVE  /\ TextCells(f) \in Seq(X)
           /\ TextCells(f \o g) = TextCells(f) \o TextCells(g)
<1>1. Choosing!Appends(0, 0, X, X)
  BY ChooseAppends
<1>2. /\ Choosing!FoldOf(0, 0, << >>, f) \in Seq(X)
      /\ Choosing!Splits(0, 0, f, g)
  BY <1>1, Choosing!FoldConcat
<1>3. /\ TextCells(f) = Choosing!FoldOf(0, 0, << >>, f)
      /\ TextCells(g) = Choosing!FoldOf(0, 0, << >>, g)
      /\ TextCells(f \o g) = Choosing!FoldOf(0, 0, << >>, f \o g)
  BY ChosenFold
<1>. QED
  BY <1>2, <1>3 DEF Choosing!Splits

\* The last cell that passes: none, or one of the cells.
LEMMA LastThatPasses ==
    ASSUME NEW S, NEW cells \in Seq(S), NEW I \in SUBSET (1 .. Len(cells)), I # {}
    PROVE  Max(I) \in I /\ \A y \in I : Max(I) >= y
<1>1. Len(cells) \in Nat
  OBVIOUS
<1>2. Counting!Greatest(I) \in I /\ \A y \in I : Counting!Greatest(I) >= y
  BY <1>1, Counting!LargestNumber
<1>3. Counting!Greatest(I) = Max(I)
  BY Zenon DEF Max, Counting!Greatest
<1>. QED
  BY <1>2, <1>3

\* Where the visible part of a row ends.
LastVisible(cells) == SelectLastInSeq(cells, LAMBDA cell : ~IsBlank(cell))

\* The last visible cell is where it is, and all behind it are blank.
LEMMA LastVisibleCell ==
    ASSUME NEW S, NEW cells \in Seq(S)
    PROVE  /\ LastVisible(cells) \in 0 .. Len(cells)
           /\ LastVisible(cells) > 0 => ~IsBlank(cells[LastVisible(cells)])
           /\ \A i \in LastVisible(cells) + 1 .. Len(cells) : IsBlank(cells[i])
<1>. DEFINE I == {i \in 1 .. Len(cells) : ~IsBlank(cells[i])}
            P == LastVisible(cells)
<1>1. P = IF I # {} THEN Max(I) ELSE 0
  BY Zenon DEF LastVisible, SelectLastInSeq
<1>. HIDE DEF P
<1>2. CASE I = {}
  <2>1. P = 0
    BY <1>1, <1>2
  <2>. QED
    BY <2>1, <1>2 DEF P
<1>3. CASE I # {}
  <2>1. Max(I) \in I /\ \A y \in I : Max(I) >= y
    <3>1. I \in SUBSET (1 .. Len(cells))
      OBVIOUS
    <3>. HIDE DEF I
    <3>. QED
      BY <1>3, <3>1, LastThatPasses
  <2>2. P = Max(I)
    BY <1>1, <1>3
  <2>3. P \in I /\ \A y \in I : P >= y
    BY <2>1, <2>2, Zenon
  <2>4. P \in 1 .. Len(cells) /\ ~IsBlank(cells[P])
    BY <2>3
  <2>5. ASSUME NEW i \in P + 1 .. Len(cells) PROVE IsBlank(cells[i])
    <3>1. i \in 1 .. Len(cells) /\ ~(P >= i)
      BY <2>4
    <3>. QED
      BY <2>3, <3>1
  <2>. QED
    BY <2>4, <2>5 DEF P
<1>. QED
  BY <1>2, <1>3

\* What a row appends to a line's text is some of its cells.
LEMMA PushCellsType ==
    ASSUME NEW S, NEW text \in Seq(S), NEW cells \in Seq(S), NEW trim \in BOOLEAN
    PROVE  PushCells(text, cells, trim) \in Seq(S)
<1>. DEFINE end == IF trim THEN LastVisible(cells) ELSE Len(cells)
            part == SubSeq(cells, 1, end)
<1>1. end \in 0 .. Len(cells)
  <2>1. CASE trim
    BY <2>1, LastVisibleCell
  <2>2. CASE ~trim
    BY <2>2
  <2>. QED
    BY <2>1, <2>2
<1>2. part \in Seq(S)
  <2>. HIDE DEF end
  <2>. QED
    BY <1>1
<1>3. Packed(cells, trim) = TextCells(part)
  BY Zenon DEF Packed, LastVisible, TextCells
<1>4. Packed(cells, trim) \in Seq(S)
  <2>. HIDE DEF part
  <2>. QED
    BY <1>2, <1>3, ChosenConcat, Zenon
<1>. QED
  BY <1>4 DEF PushCells

\* The bytes of a text are those of its parts.
LEMMA BytesAdd ==
    ASSUME NEW X, NEW s \in Seq(X), NEW t \in Seq(X)
    PROVE  /\ ByteLen(s) \in Nat /\ ByteLen(t) \in Nat
           /\ ByteLen(s \o t) = ByteLen(s) + ByteLen(t)
<1>1. Counting!Adds(0, 0, X)
  <2>1. ASSUME NEW acc \in Nat, NEW cell \in X
        PROVE  /\ AddBytes(0, 0, 0, cell) \in Nat
               /\ AddBytes(0, 0, acc, cell) = acc + AddBytes(0, 0, 0, cell)
    BY GraphemeSizes DEF AddBytes
  <2>. QED
    BY <2>1, Zenon DEF Counting!Adds
<1>2. /\ Counting!FoldOf(0, 0, 0, s) \in Nat /\ Counting!FoldOf(0, 0, 0, t) \in Nat
      /\ Counting!FoldOf(0, 0, 0, s \o t) = Counting!FoldOf(0, 0, 0, s) + Counting!FoldOf(0, 0, 0, t)
  BY <1>1, Counting!FoldSums
<1>. QED
  BY <1>2, ByteLenFold, Zenon

\* No text, no bytes.
LEMMA NoBytes == ByteLen(<< >>) = 0
  BY ByteLenFold, Counting!FoldEmpty

\* Leaving the spacers out loses no bytes.
LEMMA TextKeepsBytes ==
    ASSUME NEW cells \in Seq(Cells)
    PROVE  TextCells(cells) \in Seq(Cells) /\ ByteLen(TextCells(cells)) = ByteLen(cells)
<1>1. PICK n \in Nat : n = Len(cells) /\ DOMAIN cells = 1 .. n /\ \A k \in 1 .. n : cells[k] \in Cells
  OBVIOUS
<1>2. PICK t : Counting!Trace(0, 0, 0, cells, n, t) /\ Counting!FoldOf(0, 0, 0, cells) = t[n]
  BY <1>1, Counting!FoldTrace
<1>3. t[0] = 0 /\ \A k \in 1 .. n : t[k] = t[k - 1] + Bytes(cells[k].c)
  BY <1>2, Zenon DEF Counting!Trace, AddBytes
<1>. DEFINE Inv == [k \in 0 .. n |-> {text \in Seq(Cells) : ByteLen(text) = t[k]}]
<1>4. << >> \in Inv[0]
  <2>1. << >> \in Seq(Cells) /\ 0 \in 0 .. n
    BY <1>1
  <2>2. ByteLen(<< >>) = t[0]
    BY <1>3, NoBytes
  <2>. QED
    BY <2>1, <2>2, Zenon
<1>5. ASSUME NEW k \in 0 .. n - 1, NEW text \in Inv[k] PROVE Choose(0, 0, text, cells[k + 1]) \in Inv[k + 1]
  <2>1. k \in 0 .. n /\ k + 1 \in 0 .. n /\ k + 1 \in 1 .. n /\ (k + 1) - 1 = k
    BY <1>1
  <2>2. PICK cell : cell = cells[k + 1] /\ cell \in Cells
    BY <1>1, <2>1
  <2>3. text \in Seq(Cells) /\ ByteLen(text) = t[k] /\ ByteLen(text) \in Nat
    BY <2>1, ByteLenNat
  <2>4. t[k + 1] = t[k] + Bytes(cell.c)
    BY <1>3, <2>1, <2>2
  <2>5. CASE HoldsText(cell)
    <3>1. Choose(0, 0, text, cell) = Append(text, cell) /\ Append(text, cell) \in Seq(Cells)
      BY <2>2, <2>3, <2>5 DEF Choose
    <3>2. ByteLen(Append(text, cell)) = ByteLen(text) + Bytes(cell.c)
      <4>1. Counting!FoldOf(0, 0, 0, Append(text, cell)) = AddBytes(0, 0, Counting!FoldOf(0, 0, 0, text), cell)
        BY <2>2, <2>3, Counting!FoldAppend
      <4>. QED
        BY <4>1, ByteLenFold, Zenon DEF AddBytes
    <3>. QED
      BY <2>1, <2>2, <2>3, <2>4, <3>1, <3>2
  <2>6. CASE ~HoldsText(cell)
    <3>1. Choose(0, 0, text, cell) = text
      BY <2>6, Zenon DEF Choose
    <3>2. Bytes(cell.c) = 0
      BY <2>6 DEF HoldsText, Bytes
    <3>3. t[k + 1] = t[k]
      BY <2>3, <2>4, <3>2
    <3>. QED
      BY <2>1, <2>2, <2>3, <3>1, <3>3
  <2>. QED
    BY <2>5, <2>6
<1>. HIDE DEF Inv
<1>6. Choosing!FoldOf(0, 0, << >>, cells) \in Inv[n]
  BY ONLY <1>1, <1>4, <1>5, Choosing!FoldAlong, Zenon
<1>7. n \in 0 .. n
  BY <1>1
<1>. QED
  BY <1>2, <1>6, <1>7, ChosenFold, ByteLenFold DEF Inv

\* What is packed of a row is the text in its first cells: all of them, unless
\* the row ends its line.
LEMMA PackedPrefix ==
    ASSUME NEW cells \in Seq(Cells), NEW trim \in BOOLEAN
    PROVE  \E end \in 0 .. Len(cells) :
              Packed(cells, trim) = TextCells(SubSeq(cells, 1, end)) /\ (trim \/ end = Len(cells))
<1>1. PICK end : end = IF trim THEN LastVisible(cells) ELSE Len(cells)
  OBVIOUS
<1>2. end \in 0 .. Len(cells) /\ (trim \/ end = Len(cells))
  <2>1. CASE trim
    BY <1>1, <2>1, LastVisibleCell
  <2>2. CASE ~trim
    <3>1. end = Len(cells)
      BY <1>1, <2>2, Zenon
    <3>. QED
      BY <3>1
  <2>. QED
    BY <2>1, <2>2
<1>3. Packed(cells, trim) = TextCells(SubSeq(cells, 1, end))
  BY <1>1, Zenon DEF Packed, LastVisible, TextCells
<1>. QED
  BY <1>2, <1>3

\* Joining texts only ever adds to the end.
LEMMA JoinAppends ==
    ASSUME NEW X
    PROVE  Joining!Appends(0, 0, X, Seq(X))
<1>1. SUFFICES ASSUME NEW acc \in Seq(X), NEW part \in Seq(X)
               PROVE  /\ Join(0, 0, << >>, part) \in Seq(X)
                      /\ Join(0, 0, acc, part) = acc \o Join(0, 0, << >>, part)
  BY Zenon DEF Joining!Appends
<1>2. << >> \o part = part
  OBVIOUS
<1>. QED
  BY <1>2 DEF Join

\* FlattenSeq puts the parts one after the other, as a loop does.
LEMMA FlattenFold ==
    ASSUME NEW X, NEW parts \in Seq(Seq(X))
    PROVE  FlattenSeq(parts) = Joining!FoldOf(0, 0, << >>, parts)
<1>. DEFINE n == Len(parts)
            Defines(f) == f = [i \in 1 .. n |-> IF i = 1 THEN parts[i] ELSE f[i - 1] \o parts[i]]
            flatten == CHOOSE f : Defines(f)
<1>1. n \in Nat /\ DOMAIN parts = 1 .. n /\ \A i \in 1 .. n : parts[i] \in Seq(X)
  OBVIOUS
<1>2. CASE n = 0
  <2>1. parts = << >> /\ FlattenSeq(parts) = parts
    BY <1>2 DEF FlattenSeq
  <2>2. Joining!FoldOf(0, 0, << >>, << >>) = << >>
    BY Joining!FoldEmpty
  <2>. QED
    BY <2>1, <2>2
<1>3. CASE n # 0
  <2>1. PICK t : Joining!Trace(0, 0, << >>, parts, n, t) /\ Joining!FoldOf(0, 0, << >>, parts) = t[n]
    <3>. HIDE DEF n
    <3>. QED
      BY <1>1, Joining!FoldTrace
  <2>2. t[0] = << >> /\ \A i \in 1 .. n : t[i] = t[i - 1] \o parts[i]
    BY <2>1, Zenon DEF Joining!Trace, Join
  <2>0. t[1] = parts[1]
    <3>1. 1 \in 1 .. n /\ 1 - 1 = 0
      BY <1>1, <1>3
    <3>2. t[1] = t[1 - 1] \o parts[1]
      BY <2>2, <3>1, Zenon
    <3>3. t[1] = << >> \o parts[1]
      BY <2>2, <3>1, <3>2, Zenon
    <3>4. parts[1] \in Seq(X)
      BY <1>1, <3>1
    <3>. QED
      BY <3>3, <3>4
  <2>. DEFINE f == [i \in 1 .. n |-> t[i]]
  <2>3. Defines(f)
    <3>1. ASSUME NEW i \in 1 .. n
          PROVE  t[i] = IF i = 1 THEN parts[i] ELSE f[i - 1] \o parts[i]
      <4>1. CASE i = 1
        BY <2>0, <4>1
      <4>2. CASE i # 1
        <5>1. i - 1 \in 1 .. n
          BY <4>2, <1>1
        <5>2. f[i - 1] = t[i - 1]
          BY <5>1
        <5>. QED
          BY <4>2, <5>2, <2>2, Zenon
      <4>. QED
        BY <4>1, <4>2
    <3>. HIDE DEF n
    <3>. QED
      BY <3>1, Zenon
  <2>4. Defines(flatten)
    <3>. HIDE DEF Defines
    <3>. QED
      BY <2>3, Zenon
  <2>5. FlattenSeq(parts) = flatten[n]
    <3>1. FlattenSeq(parts) = IF n = 0 THEN parts ELSE flatten[n]
      BY Zenon DEF FlattenSeq
    <3>. QED
      BY <3>1, <1>3, Zenon
  <2>. HIDE DEF flatten
  <2>. DEFINE T == {i \in 0 .. n : i > 0 => flatten[i] = t[i]}
  <2>6. 0 \in T
    BY <1>1
  <2>7. ASSUME NEW i \in 0 .. n - 1, i \in T PROVE i + 1 \in T
    <3>1. i + 1 \in 1 .. n /\ (i + 1) - 1 = i /\ i \in 0 .. n /\ i + 1 \in 0 .. n
      BY <1>1
    <3>2. flatten[i + 1] = IF i + 1 = 1 THEN parts[i + 1] ELSE flatten[(i + 1) - 1] \o parts[i + 1]
      BY <2>4, <3>1
    <3>3. t[i + 1] = t[(i + 1) - 1] \o parts[i + 1]
      BY <2>2, <3>1, Zenon
    <3>4. CASE i = 0
      <4>1. i + 1 = 1
        BY <3>4
      <4>2. flatten[i + 1] = parts[i + 1]
        BY <3>2, <4>1, Zenon
      <4>3. flatten[i + 1] = t[i + 1]
        BY <2>0, <4>1, <4>2, Zenon
      <4>. QED
        BY <4>3, <3>1
    <3>5. CASE i # 0
      <4>1. i > 0 /\ ~(i + 1 = 1)
        BY <3>1, <3>5
      <4>2. flatten[i] = t[i]
        BY <2>7, <4>1
      <4>3. flatten[i + 1] = t[i + 1]
        BY <3>1, <3>2, <3>3, <4>1, <4>2, Zenon
      <4>. QED
        BY <4>3, <3>1
    <3>. QED
      BY <3>4, <3>5
  <2>8. n \in T
    <3>. HIDE DEF T, n
    <3>1. \A i \in 0 .. n : i \in T
      BY <1>1, <2>6, <2>7, Joining!Induction
    <3>. QED
      BY <3>1, <1>1
  <2>. QED
    BY <1>1, <1>3, <2>1, <2>5, <2>8
<1>. QED
  BY <1>2, <1>3

\* Flattening keeps the sort of the elements, and takes two lists of parts one
\* after the other.
LEMMA FlattenConcat ==
    ASSUME NEW X, NEW f \in Seq(Seq(X)), NEW g \in Seq(Seq(X))
    PROVE  /\ FlattenSeq(f) \in Seq(X)
           /\ FlattenSeq(f \o g) = FlattenSeq(f) \o FlattenSeq(g)
<1>1. Joining!Appends(0, 0, X, Seq(X))
  BY JoinAppends
<1>2. /\ Joining!FoldOf(0, 0, << >>, f) \in Seq(X)
      /\ Joining!Splits(0, 0, f, g)
  BY <1>1, Joining!FoldConcat
<1>3. f \o g \in Seq(Seq(X))
  OBVIOUS
<1>4. /\ FlattenSeq(f) = Joining!FoldOf(0, 0, << >>, f)
      /\ FlattenSeq(g) = Joining!FoldOf(0, 0, << >>, g)
  BY FlattenFold
<1>5. FlattenSeq(f \o g) = Joining!FoldOf(0, 0, << >>, f \o g)
  <2>. DEFINE both == f \o g
  <2>. HIDE DEF both
  <2>1. FlattenSeq(both) = Joining!FoldOf(0, 0, << >>, both)
    BY <1>3, FlattenFold DEF both
  <2>. QED
    BY <2>1 DEF both
<1>. QED
  BY <1>2, <1>4, <1>5 DEF Joining!Splits

-----------------------------------------------------------------------------
(* Wrapping. *)

\* A grapheme of a packed line: it holds text and takes a column or two.
TextCell == {cell \in Cells : HoldsText(cell)}

\* A cell that holds text is one or two columns wide.
LEMMA TextWidth ==
    ASSUME NEW cell \in TextCell
    PROVE  Width(cell.c) \in {1, 2}
<1>1. cell.c \in Contents \ {""}
  BY DEF TextCell, Cells, HoldsText
<1>2. cell.c \notin {"", "+"}
  BY <1>1, Zenon DEF Contents
<1>. QED
  BY <1>2, Zenon DEF Width

\* The columns that the graphemes `from` up to `upto`, not included, take.
Span(text, from, upto) == DisplayWidth(SubSeq(text, from, upto - 1))

\* A stretch of text one cell longer is wider by that cell.
LEMMA SpanGrows ==
    ASSUME NEW S, NEW text \in Seq(S), NEW from \in 1 .. Len(text) + 1, NEW upto \in from .. Len(text)
    PROVE  /\ Span(text, from, upto) \in Nat
           /\ Span(text, from, upto + 1) = Span(text, from, upto) + Width(text[upto].c)
           /\ Span(text, upto, upto + 1) = Width(text[upto].c)
<1>1. /\ from \in 1 .. Len(text) /\ upto \in 1 .. Len(text) /\ upto \in Nat
      /\ (upto + 1) - 1 = upto /\ text[upto] \in S
  OBVIOUS
<1>. DEFINE old == SubSeq(text, from, upto - 1)
            new == SubSeq(text, from, upto)
            one == SubSeq(text, upto, upto)
<1>2. old \in Seq(S)
  BY <1>1
<1>3. new = Append(old, text[upto])
  <2>1. new = old \o <<text[upto]>>
    BY <1>1, SubSeqRecursiveSecond
  <2>. HIDE DEF new, old
  <2>. QED
    BY <1>1, <1>2, <2>1
<1>4. one = Append(<< >>, text[upto])
  <2>1. one \in Seq(S) /\ Len(one) = 1 /\ one[1] = text[upto]
    BY <1>1, SubSeqProperties
  <2>. HIDE DEF one
  <2>. QED
    BY <1>1, <2>1
<1>5. DisplayWidth(old) \in Nat /\ DisplayWidth(<< >>) = 0
      /\ DisplayWidth(Append(old, text[upto])) = DisplayWidth(old) + Width(text[upto].c)
  <2>. HIDE DEF old
  <2>. QED
    BY <1>1, <1>2, DisplayWidthNat
<1>6. DisplayWidth(Append(<< >>, text[upto])) = DisplayWidth(<< >>) + Width(text[upto].c)
  <2>1. << >> \in Seq(S)
    OBVIOUS
  <2>. QED
    BY <1>1, <2>1, DisplayWidthNat
<1>7. Span(text, from, upto) = DisplayWidth(old)
  BY DEF Span
<1>8. Span(text, from, upto + 1) = DisplayWidth(new)
  BY <1>1, Zenon DEF Span
<1>9. Span(text, upto, upto + 1) = DisplayWidth(one)
  BY <1>1, Zenon DEF Span
<1>10. Width(text[upto].c) \in Nat
  BY GraphemeSizes
<1>. HIDE DEF old, new, one
<1>. QED
  BY <1>3, <1>4, <1>5, <1>6, <1>7, <1>8, <1>9, <1>10

\* The first grapheme of display row `j`, counted from 1.
RowBegin(starts, j) == IF j = 1 THEN 1 ELSE starts[j - 1]

\* A row from grapheme `from` up to `upto` holds what fits, and one at least.
Fits(text, width, from, upto) ==
    from < upto /\ (Span(text, from, upto) <= width \/ upto = from + 1)

\* Row `j` is full: the first grapheme of the next would not have fitted.
Full(text, width, starts, j) ==
    /\ Fits(text, width, RowBegin(starts, j), RowBegin(starts, j + 1))
    /\ Span(text, RowBegin(starts, j), RowBegin(starts, j + 1) + 1) > width

\* One grapheme is placed; the loop of ContinuationStarts.
Place(text, width, acc, i) ==
    LET w == Width(text[i].c) IN
    IF acc.col > 0 /\ acc.col + w > width
    THEN [col |-> w, starts |-> Append(acc.starts, i)]
    ELSE [acc EXCEPT !.col = @ + w]

Wrapping == INSTANCE LoopLemmas WITH Body <- Place

\* The state of the loop after `k` graphemes: the columns of the row it is in,
\* and the starts of the rows after the first.
Placed(text, width, k, col, starts) ==
    LET last == RowBegin(starts, Len(starts) + 1) IN
    /\ col \in Nat /\ starts \in Seq(2 .. k)
    /\ k = 0 => col = 0
    /\ k > 0 => col > 0 /\ col = Span(text, last, k + 1) /\ Fits(text, width, last, k + 1)
    /\ \A j \in 1 .. Len(starts) : Full(text, width, starts, j)

\* One grapheme more: the row goes on, or the next one begins with it.
LEMMA PlaceOne ==
    ASSUME NEW text \in Seq(TextCell), NEW width \in Nat, NEW k \in 0 .. Len(text) - 1,
           NEW col, NEW starts, Placed(text, width, k, col, starts)
    PROVE  \E more, rest : /\ Place(text, width, [col |-> col, starts |-> starts], k + 1)
                                = [col |-> more, starts |-> rest]
                           /\ Placed(text, width, k + 1, more, rest)
<1>. DEFINE i == k + 1
            w == Width(text[i].c)
            n == Len(starts)
            last == RowBegin(starts, n + 1)
            new == Place(text, width, [col |-> col, starts |-> starts], i)
<1>1. i \in 1 .. Len(text) /\ k \in Nat /\ text[i] \in TextCell
  OBVIOUS
<1>2. w \in {1, 2}
  BY <1>1, TextWidth
<1>3. col \in Nat /\ starts \in Seq(2 .. k) /\ n \in Nat
  BY DEF Placed
<1>4. last \in 1 .. i
  BY <1>3, <1>1 DEF RowBegin
<1>5. \A j \in 1 .. n : Full(text, width, starts, j)
  BY DEF Placed
<1>6. k = 0 => col = 0 /\ n = 0 /\ last = i
  BY <1>1, <1>3, <1>4 DEF Placed
<1>7. k > 0 => col > 0 /\ col = Span(text, last, i) /\ Fits(text, width, last, i)
  BY DEF Placed
<1>8. Span(text, last, i) \in Nat /\ Span(text, last, i + 1) = Span(text, last, i) + w
      /\ Span(text, i, i + 1) = w
  <2>1. last \in 1 .. Len(text) + 1 /\ i \in last .. Len(text)
    BY <1>1, <1>4
  <2>. HIDE DEF last, i
  <2>. QED
    BY <2>1, SpanGrows
<1>9. CASE col > 0 /\ col + w > width
  <2>1. k > 0 /\ col = Span(text, last, i) /\ Fits(text, width, last, i)
    BY <1>1, <1>6, <1>7, <1>9
  <2>. DEFINE rest == Append(starts, i)
  <2>2. new = [col |-> w, starts |-> rest]
    BY <1>9 DEF Place
  <2>3. rest \in Seq(2 .. i) /\ Len(rest) = n + 1 /\ rest[n + 1] = i
        /\ \A j \in 1 .. n : rest[j] = starts[j]
    BY <1>1, <1>3, <2>1
  <2>4. \A j \in 1 .. n + 1 : RowBegin(rest, j) = RowBegin(starts, j)
    BY <1>3, <2>3 DEF RowBegin
  <2>5. RowBegin(rest, n + 2) = i
    BY <1>3, <2>3 DEF RowBegin
  <2>6. \A j \in 1 .. n : Full(text, width, rest, j)
    <3>1. SUFFICES ASSUME NEW j \in 1 .. n PROVE Full(text, width, rest, j)
      OBVIOUS
    <3>2. j \in 1 .. n + 1 /\ j + 1 \in 1 .. n + 1
      BY <1>3
    <3>3. RowBegin(rest, j) = RowBegin(starts, j) /\ RowBegin(rest, j + 1) = RowBegin(starts, j + 1)
      BY <2>4, <3>2
    <3>4. Full(text, width, starts, j)
      BY <1>5
    <3>. QED
      BY <3>3, <3>4, Zenon DEF Full
  <2>7. Full(text, width, rest, n + 1)
    <3>1. Span(text, last, i + 1) > width
      <4>. HIDE DEF last, i, w
      <4>. QED
        BY <1>9, <2>1, <1>8
    <3>2. RowBegin(rest, n + 1) = last
      BY <1>3, <2>4
    <3>3. RowBegin(rest, (n + 1) + 1) = i
      <4>1. (n + 1) + 1 = n + 2
        BY <1>3
      <4>. QED
        BY <2>5, <4>1, Zenon
    <3>. HIDE DEF last, i, rest, n
    <3>. QED
      BY <2>1, <3>1, <3>2, <3>3, Zenon DEF Full
  <2>8. Fits(text, width, i, i + 1)
    BY <1>1 DEF Fits
  <2>9. w > 0 /\ w \in Nat /\ i > 0
    BY <1>1, <1>2
  <2>10. RowBegin(rest, Len(rest) + 1) = i
    <3>1. Len(rest) + 1 = n + 2
      BY <1>3, <2>3
    <3>. QED
      BY <2>5, <3>1, Zenon
  <2>11. \A j \in 1 .. Len(rest) : Full(text, width, rest, j)
    <3>. HIDE DEF rest, n
    <3>. QED
      BY <1>3, <2>3, <2>6, <2>7
  <2>. HIDE DEF new, w, n, i, rest
  <2>12. Placed(text, width, i, w, rest)
    BY <1>8, <2>3, <2>8, <2>9, <2>10, <2>11 DEF Placed
  <2>. QED
    BY <2>2, <2>12 DEF i, new
<1>10. CASE ~(col > 0 /\ col + w > width)
  <2>. DEFINE more == col + w
  <2>1. new = [col |-> more, starts |-> starts]
    <3>1. new = [[col |-> col, starts |-> starts] EXCEPT !.col = col + w]
      BY <1>10 DEF Place
    <3>. HIDE DEF new, w
    <3>. QED
      BY <3>1
  <2>2. more \in Nat /\ more > 0 /\ i > 0 /\ starts \in Seq(2 .. i)
    <3>1. 2 .. k \in SUBSET (2 .. i)
      BY <1>1
    <3>2. more \in Nat /\ more > 0 /\ i > 0
      BY <1>1, <1>2, <1>3
    <3>. QED
      BY <1>1, <1>3, <3>1, <3>2
  <2>3. more = Span(text, last, i + 1)
    <3>1. CASE k = 0
      <4>1. last = i /\ col = 0
        BY <1>6, <3>1
      <4>2. w \in Nat
        BY <1>2
      <4>3. Span(text, last, i + 1) = w
        BY <1>8, <4>1, Zenon
      <4>. HIDE DEF last, i, w
      <4>. QED
        BY <4>1, <4>2, <4>3 DEF more
    <3>2. CASE k > 0
      <4>1. col = Span(text, last, i)
        BY <1>7, <3>2
      <4>. HIDE DEF last, i, w
      <4>. QED
        BY <4>1, <1>8
    <3>. QED
      BY <3>1, <3>2, <1>1
  <2>4. Fits(text, width, last, i + 1)
    <3>1. CASE col = 0
      <4>1. last = i
        BY <1>1, <1>6, <1>7, <3>1
      <4>2. i < i + 1
        BY <1>1
      <4>. HIDE DEF last, i
      <4>. QED
        BY <4>1, <4>2 DEF Fits
    <3>2. CASE col # 0
      <4>1. more <= width
        BY <3>2, <1>10, <1>3, <1>2
      <4>2. last < i + 1
        BY <1>1, <1>4
      <4>. HIDE DEF last, i, w, more
      <4>. QED
        BY <4>1, <4>2, <2>3 DEF Fits
    <3>. QED
      BY <3>1, <3>2
  <2>. HIDE DEF new, w, i, more
  <2>5. Placed(text, width, i, more, starts)
    <3>1. i \in Int
      BY <1>1
    <3>. QED
      BY <3>1, <2>2, <2>3, <2>4, <1>5 DEF Placed
  <2>. QED
    BY <2>1, <2>5 DEF i, new
<1>. QED
  BY <1>9, <1>10

\* The places where the rows after the first begin are a fold.
Unplaced == [col |-> 0, starts |-> << >>]

\* The wrap of the code is a fold over the places of the text.
LEMMA WrapFold ==
    ASSUME NEW text, NEW width, width # 0
    PROVE  ContinuationStarts(text, width)
              = Wrapping!FoldOf(text, width, Unplaced, [i \in DOMAIN text |-> i]).starts
  BY Zenon DEF ContinuationStarts, Unplaced, Wrapping!FoldOf, Place, FoldLeftDomain, FoldLeft,
               MapThenFoldSet, Max, Wrapping!MapThenFoldSet, Wrapping!Greatest

\* Whatever the text, rows begin at places of it.
LEMMA StartsType ==
    ASSUME NEW S, NEW text \in Seq(S), NEW width \in Nat
    PROVE  ContinuationStarts(text, width) \in Seq(1 .. Len(text))
<1>. DEFINE Places == Seq(1 .. Len(text))
            States == [col : Nat, starts : Places]
            e == [i \in DOMAIN text |-> i]
<1>1. CASE width = 0
  <2>1. ContinuationStarts(text, width) = << >>
    BY <1>1, Zenon DEF ContinuationStarts
  <2>. QED
    BY <2>1
<1>2. CASE width # 0
  <2>1. Len(text) \in Nat /\ DOMAIN e = 1 .. Len(text) /\ \A i \in 1 .. Len(text) : e[i] = i
    OBVIOUS
  <2>2. Unplaced \in States
    BY DEF Unplaced
  <2>3. ASSUME NEW acc \in States, NEW k \in 1 .. Len(text)
        PROVE  Place(text, width, acc, e[k]) \in States
    <3>. DEFINE w == Width(text[k].c)
    <3>1. w \in Nat
      BY GraphemeSizes
    <3>2. acc.col \in Nat /\ acc.starts \in Places /\ Append(acc.starts, k) \in Places
      OBVIOUS
    <3>3. Place(text, width, acc, k) = IF acc.col > 0 /\ acc.col + w > width
                                       THEN [col |-> w, starts |-> Append(acc.starts, k)]
                                       ELSE [acc EXCEPT !.col = acc.col + w]
      BY Zenon DEF Place
    <3>. HIDE DEF w, Places
    <3>4. [acc EXCEPT !.col = acc.col + w] \in States
      BY <3>1, <3>2
    <3>5. [col |-> w, starts |-> Append(acc.starts, k)] \in States
      BY <3>1, <3>2
    <3>6. Place(text, width, acc, k) \in States
      <4>. HIDE DEF States
      <4>. QED
        BY <3>3, <3>4, <3>5, Zenon
    <3>. QED
      BY <3>6, <2>1
  <2>. HIDE DEF States, e
  <2>4. Wrapping!FoldOf(text, width, Unplaced, e) \in States
    BY <2>1, <2>2, <2>3, Wrapping!FoldIn
  <2>5. ContinuationStarts(text, width) = Wrapping!FoldOf(text, width, Unplaced, e).starts
    BY <1>2, WrapFold DEF e
  <2>. QED
    BY <2>4, <2>5 DEF States, Places
<1>. QED
  BY <1>1, <1>2

\* The rows of a wrapped line are full, in their order, and the last one fits.
WrappedAt(text, width, starts) ==
    /\ starts \in Seq(2 .. Len(text))
    /\ \A j \in 1 .. Len(starts) : Full(text, width, starts, j)
    /\ text # << >> => Fits(text, width, RowBegin(starts, Len(starts) + 1), Len(text) + 1)
    /\ text = << >> => starts = << >>

\* compute_continuation_starts wraps greedily, every line at every width.
THEOREM WrapIsGreedy ==
    ASSUME NEW text \in Seq(TextCell), NEW width \in Nat \ {0}
    PROVE  WrappedAt(text, width, ContinuationStarts(text, width))
<1>. DEFINE n == Len(text)
            e == [i \in DOMAIN text |-> i]
<1>1. n \in Nat /\ DOMAIN e = 1 .. n /\ (\A i \in 1 .. n : e[i] = i)
      /\ (text = << >> <=> n = 0)
  OBVIOUS
<1>2. PICK t : Wrapping!Trace(text, width, Unplaced, e, n, t)
               /\ Wrapping!FoldOf(text, width, Unplaced, e) = t[n]
  <2>. HIDE DEF e, n
  <2>. QED
    BY <1>1, Wrapping!FoldTrace
<1>. DEFINE Good(k) == \E col, starts : /\ t[k] = [col |-> col, starts |-> starts]
                                        /\ Placed(text, width, k, col, starts)
            T == {k \in 0 .. n : Good(k)}
<1>3. 0 \in T
  <2>1. t[0] = [col |-> 0, starts |-> << >>]
    BY <1>2 DEF Wrapping!Trace, Unplaced
  <2>2. Placed(text, width, 0, 0, << >>)
    BY DEF Placed
  <2>. QED
    BY <1>1, <2>1, <2>2
<1>4. ASSUME NEW k \in 0 .. n - 1, k \in T PROVE k + 1 \in T
  <2>1. PICK col, starts : /\ t[k] = [col |-> col, starts |-> starts]
                           /\ Placed(text, width, k, col, starts)
    <3>1. Good(k)
      <4>. HIDE DEF Good
      <4>. QED
        BY <1>4
    <3>. QED
      BY <3>1
  <2>2. PICK more, rest : /\ Place(text, width, [col |-> col, starts |-> starts], k + 1)
                                = [col |-> more, starts |-> rest]
                          /\ Placed(text, width, k + 1, more, rest)
    BY <2>1, PlaceOne
  <2>3. t[k + 1] = Place(text, width, t[k], k + 1)
    <3>1. k + 1 \in 1 .. n /\ (k + 1) - 1 = k /\ e[k + 1] = k + 1
      BY <1>1
    <3>2. t[k + 1] = Place(text, width, t[(k + 1) - 1], e[k + 1])
      <4>. HIDE DEF e, n
      <4>. QED
        BY <1>2, <3>1, Zenon DEF Wrapping!Trace
    <3>. QED
      BY <3>1, <3>2, Zenon
  <2>4. Good(k + 1)
    BY <2>1, <2>2, <2>3, Zenon
  <2>5. k + 1 \in 0 .. n
    BY <1>1
  <2>. HIDE DEF Good
  <2>. QED
    BY <2>4, <2>5
<1>5. Good(n)
  <2>. HIDE DEF Good
  <2>1. n \in T
    <3>. HIDE DEF T, n
    <3>1. \A k \in 0 .. n : k \in T
      BY <1>1, <1>3, <1>4, Wrapping!Induction
    <3>. QED
      BY <1>1, <3>1
  <2>. QED
    BY <2>1
<1>6. PICK col, starts : t[n] = [col |-> col, starts |-> starts] /\ Placed(text, width, n, col, starts)
  BY <1>5
<1>7. ContinuationStarts(text, width) = starts
  <2>1. ContinuationStarts(text, width) = Wrapping!FoldOf(text, width, Unplaced, e).starts
    BY WrapFold
  <2>. QED
    BY <1>2, <1>6, <2>1
<1>8. starts \in Seq(2 .. n) /\ \A j \in 1 .. Len(starts) : Full(text, width, starts, j)
  BY <1>6 DEF Placed
<1>9. text # << >> => Fits(text, width, RowBegin(starts, Len(starts) + 1), n + 1)
  BY <1>1, <1>6 DEF Placed
<1>10. text = << >> => starts = << >>
  BY <1>1, <1>8
<1>. QED
  BY <1>7, <1>8, <1>9, <1>10 DEF WrappedAt

\* The cells that a layout adds.
LEMMA SpacerCell ==
    /\ Blank \in Cells
    /\ \A style \in Styles : Spacer(style) \in Cells
<1>1. " " \in Contents /\ "" \in Contents /\ "plain" \in Styles
  BY Zenon DEF Contents, Styles
<1>. QED
  BY <1>1, Zenon DEF Blank, Spacer, Cell, Cells

\* A display row is as wide as asked for, and made of cells.
LEMMA CellsInRangeType ==
    ASSUME NEW text \in Seq(Cells), NEW width \in Nat
    PROVE  /\ CellsInRange(text, width) \in Seq(Cells)
           /\ Len(CellsInRange(text, width)) = width
<1>. DEFINE parts == [i \in DOMAIN text |->
                        IF Width(text[i].c) = 2 THEN <<text[i], Spacer(text[i].s)>> ELSE <<text[i]>>]
            cells == FlattenSeq(parts)
            row == [i \in 1 .. width |-> IF i <= Len(cells) THEN cells[i] ELSE Blank]
<1>1. parts \in Seq(Seq(Cells))
  <2>1. ASSUME NEW i \in 1 .. Len(text)
        PROVE  (IF Width(text[i].c) = 2 THEN <<text[i], Spacer(text[i].s)>> ELSE <<text[i]>>) \in Seq(Cells)
    <3>0. text[i] \in Cells
      OBVIOUS
    <3>. DEFINE style == text[i].s
    <3>01. style \in Styles
      BY <3>0 DEF Cells
    <3>. HIDE DEF style
    <3>02. Spacer(style) \in Cells
      BY <3>01, SpacerCell
    <3>1. text[i] \in Cells /\ Spacer(text[i].s) \in Cells
      BY <3>0, <3>02 DEF style
    <3>2. <<text[i], Spacer(text[i].s)>> \in Seq(Cells) /\ <<text[i]>> \in Seq(Cells)
      BY <3>1
    <3>. QED
      BY <3>2, Zenon
  <2>2. DOMAIN text = 1 .. Len(text) /\ Len(text) \in Nat
    OBVIOUS
  <2>. QED
    BY <2>1, <2>2
<1>2. cells \in Seq(Cells)
  <2>. HIDE DEF parts
  <2>. QED
    BY <1>1, FlattenConcat
<1>. HIDE DEF cells
<1>3. Blank \in Cells
  BY SpacerCell
<1>4. row \in Seq(Cells) /\ Len(row) = width
  <2>1. ASSUME NEW i \in 1 .. width PROVE (IF i <= Len(cells) THEN cells[i] ELSE Blank) \in Cells
    BY <1>2, <1>3
  <2>. QED
    BY <2>1
<1>5. CellsInRange(text, width) = row
  BY Zenon DEF CellsInRange, cells
<1>. QED
  BY <1>4, <1>5

\* The display rows of a line: one at least, each as wide as the screen.
LEMMA RenderRowsType ==
    ASSUME NEW text \in Seq(Cells), NEW width \in Nat
    PROVE  /\ RenderRows(text, width) \in Seq(Seq(Cells))
           /\ Len(RenderRows(text, width)) >= 1
           /\ \A k \in 1 .. Len(RenderRows(text, width)) : Len(RenderRows(text, width)[k]) = width
<1>. DEFINE starts == ContinuationStarts(text, width)
            bounds == <<1>> \o starts \o <<Len(text) + 1>>
            part(k) == SubSeq(text, bounds[k], bounds[k + 1] - 1)
            rows == [k \in 1 .. Len(bounds) - 1 |-> CellsInRange(part(k), width)]
<1>1. CASE width = 0
  <2>1. RenderRows(text, width) = << << >> >>
    BY <1>1 DEF RenderRows
  <2>. DEFINE none == << << >> >>
  <2>2. none \in Seq(Seq(Cells)) /\ Len(none) = 1 /\ none[1] = << >> /\ Len(<< >>) = 0
    OBVIOUS
  <2>. HIDE DEF none
  <2>3. \A k \in 1 .. Len(none) : Len(none[k]) = width
    BY <1>1, <2>2
  <2>. QED
    BY <2>1, <2>2, <2>3 DEF none
<1>2. CASE width # 0
  <2>0. starts \in Seq(1 .. Len(text))
    <3>. HIDE DEF starts
    <3>. QED
      BY StartsType DEF starts
  <2>1. starts \in Seq(1 .. Len(text)) /\ Len(starts) \in Nat /\ Len(text) \in Nat
    BY <2>0
  <2>. HIDE DEF starts
  <2>2. bounds \in Seq(1 .. Len(text) + 1) /\ Len(bounds) = Len(starts) + 2
    BY <2>1
  <2>. HIDE DEF bounds
  <2>3. ASSUME NEW k \in 1 .. Len(bounds) - 1
        PROVE  CellsInRange(part(k), width) \in Seq(Cells) /\ Len(CellsInRange(part(k), width)) = width
    <3>1. bounds[k] \in 1 .. Len(text) + 1 /\ bounds[k + 1] \in 1 .. Len(text) + 1
      BY <2>1, <2>2
    <3>2. part(k) \in Seq(Cells)
      BY <3>1, <2>1
    <3>. HIDE DEF part
    <3>. QED
      BY <3>2, CellsInRangeType
  <2>4. RenderRows(text, width) = rows
    BY <1>2, Zenon DEF RenderRows, bounds, starts
  <2>. HIDE DEF part
  <2>5. rows \in Seq(Seq(Cells)) /\ Len(rows) = Len(starts) + 1
        /\ \A k \in 1 .. Len(rows) : rows[k] = CellsInRange(part(k), width)
    BY <2>1, <2>2, <2>3
  <2>. HIDE DEF rows
  <2>. QED
    BY <2>1, <2>2, <2>3, <2>4, <2>5
<1>. QED
  BY <1>1, <1>2
=============================================================================
