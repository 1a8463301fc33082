---------------------------- MODULE ScreenProofs ----------------------------
(***************************************************************************)
(* What holds of the screen after any commands and resizes, for every      *)
(* program, every size of the window and any caps of the store; and what   *)
(* freezing one row, and one push, leave of lines in order.                *)
(***************************************************************************)
EXTENDS Screen, LineProofs, FiniteSetTheorems, WellFoundedInduction

\* Rows, lines and stores whose ids are below `n`, the next id to be given out.
RowBelow(n)  == [id : 0 .. n - 1, wrapped : BOOLEAN, cells : Seq(Cells)]
LineBelow(n) == [id : 0 .. n - 1, text : Seq(Cells)]
RowsBelow(n) == Seq(RowBelow(n))
HeadsBelow(n) == LineBelow(n) \cup {NoLine}
StoresBelow(n) == {sb \in [lines : Seq(LineBelow(n)), total_bytes : Nat] :
                        Capped(sb) /\ BytesCounted(sb)}
Sizes == [rows : Nat, cols : Nat]

\* A screen that has given out the ids below `n`.
GridsAt(n) == [size : Sizes, rows : RowsBelow(n), cursor : Cursors, top : Nat, bottom : Nat,
               pending : HeadsBelow(n), scrollback : StoresBelow(n), next : {n}]

\* A buffer's rows are those of the screen's size, its cursor and margins inside.
Shaped(g) == Rectangle(g.rows, g.size) /\ Within(g.cursor, g.size) /\ Margins(g.top, g.bottom, g.size)

\* Rows that are `cols` columns wide.
WideRows(n, cols) == {row \in RowBelow(n) : Len(row.cells) = cols}

Grids == UNION {GridsAt(n) : n \in Nat}

\* What an edit of the screen `g` may leave: a screen of that size and no less
\* ids given out, with its history if that is hidden.
Leaves(g) ==
    {h \in UNION {GridsAt(n) : n \in {k \in Nat : k >= g.next}} :
        /\ h.size = g.size
        /\ IsAlternate => h.scrollback = g.scrollback /\ h.pending = g.pending}

\* And in shape if `g` was.
After(g) == {h \in Leaves(g) : Shaped(g) => Shaped(h)}

-----------------------------------------------------------------------------
(* Rows put in and taken out. *)

\* Vec::insert: one more row, and no other kind of row.
LEMMA RowPutIn ==
    ASSUME NEW S, NEW seq \in Seq(S), NEW at \in 1 .. Len(seq) + 1, NEW x \in S
    PROVE  InsertAt(seq, at, x) \in Seq(S) /\ Len(InsertAt(seq, at, x)) = Len(seq) + 1
<1>. DEFINE left == SubSeq(seq, 1, at - 1)
            right == SubSeq(seq, at, Len(seq))
<1>1. left \in Seq(S) /\ Len(left) = at - 1
  <2>1. 1 \in Int /\ at - 1 \in Int /\ \A i \in 1 .. at - 1 : seq[i] \in S
    OBVIOUS
  <2>. QED
    BY <2>1, SubSeqProperties
<1>2. right \in Seq(S) /\ Len(right) = Len(seq) - at + 1
  <2>1. at \in Int /\ Len(seq) \in Int /\ \A i \in at .. Len(seq) : seq[i] \in S
    OBVIOUS
  <2>2. right \in Seq(S) /\ Len(right) = IF at <= Len(seq) THEN Len(seq) - at + 1 ELSE 0
    BY <2>1, SubSeqProperties
  <2>. HIDE DEF right
  <2>3. CASE at <= Len(seq)
    BY <2>1, <2>2, <2>3
  <2>4. CASE ~(at <= Len(seq))
    BY <2>1, <2>2, <2>4
  <2>. QED
    BY <2>3, <2>4
<1>3. InsertAt(seq, at, x) = left \o <<x>> \o right
  BY Zenon DEF InsertAt
<1>. HIDE DEF left, right
<1>. DEFINE front == left \o <<x>>
<1>4. front \in Seq(S) /\ Len(front) = at
  BY <1>1
<1>5. InsertAt(seq, at, x) = front \o right
  BY <1>3
<1>. HIDE DEF front
<1>6. front \o right \in Seq(S) /\ Len(front \o right) = Len(front) + Len(right)
  BY <1>2, <1>4, ConcatProperties
<1>7. Len(seq) \in Nat
  OBVIOUS
<1>. QED
  BY <1>2, <1>4, <1>5, <1>6, <1>7

\* Vec::remove: one row less, and no other kind of row.
LEMMA RowTakenOut ==
    ASSUME NEW S, NEW seq \in Seq(S), NEW at \in 1 .. Len(seq)
    PROVE  RemoveAt(seq, at) \in Seq(S) /\ Len(RemoveAt(seq, at)) = Len(seq) - 1
<1>. DEFINE left == SubSeq(seq, 1, at - 1)
            right == SubSeq(seq, at + 1, Len(seq))
<1>1. left \in Seq(S) /\ Len(left) = at - 1
  <2>1. 1 \in Int /\ at - 1 \in Int /\ \A i \in 1 .. at - 1 : seq[i] \in S
    OBVIOUS
  <2>. QED
    BY <2>1, SubSeqProperties
<1>2. right \in Seq(S) /\ Len(right) = Len(seq) - at
  BY SubSeqProperties
<1>3. RemoveAt(seq, at) = left \o right
  BY Zenon DEF RemoveAt
<1>. HIDE DEF left, right
<1>. QED
  BY <1>1, <1>2, <1>3

-----------------------------------------------------------------------------
(* The store.  Evicted takes the least number of oldest lines that brings  *)
(* the rest within the caps: there is one, and the newest line is never    *)
(* among them.                                                             *)

\* Popping the oldest lines leaves the rest of the lines, in their order.
LEMMA PopLeaves ==
    ASSUME NEW sb, NEW n
    PROVE  PopOldest(sb, n).lines = SubSeq(sb.lines, n + 1, Len(sb.lines))
  BY Zenon DEF PopOldest

\* Adding up the bytes of lines; the loops of pop_oldest and of the count.
AddLine(c, d, sum, line) == sum + ByteLen(line.text)

Summing == INSTANCE LoopLemmas WITH Body <- AddLine

\* The bytes of some lines.
LinesBytes(lines) == FoldLeft(LAMBDA n, line : n + ByteLen(line.text), 0, lines)

\* The bytes of a list of lines are summed one line after the other.
LEMMA LinesBytesFold ==
    ASSUME NEW lines
    PROVE  LinesBytes(lines) = Summing!FoldOf(0, 0, 0, lines)
  BY Zenon DEF LinesBytes, Summing!FoldOf, AddLine, FoldLeft, MapThenFoldSet, Max,
               Summing!MapThenFoldSet, Summing!Greatest

\* A store of no lines counts no bytes.
LEMMA NoLinesCounted ==
    ASSUME NEW sb, sb.lines = << >>, sb.total_bytes = 0
    PROVE  BytesCounted(sb)
<1>1. LinesBytes(<< >>) = 0
  BY LinesBytesFold, Summing!FoldEmpty
<1>2. BytesCounted(sb) <=> sb.total_bytes = LinesBytes(sb.lines)
  BY Zenon DEF BytesCounted, LinesBytes
<1>. QED
  BY <1>1, <1>2

\* Lines whose texts are sequences: their bytes can be counted.
Texts(lines) == \A line \in lines : \E S : line.text \in Seq(S)

\* The bytes of two lists of lines one after the other are those of the two.
LEMMA LinesBytesSum ==
    ASSUME NEW S, Texts(S), NEW s \in Seq(S), NEW t \in Seq(S)
    PROVE  /\ LinesBytes(s) \in Nat /\ LinesBytes(t) \in Nat
           /\ LinesBytes(s \o t) = LinesBytes(s) + LinesBytes(t)
<1>1. Summing!Adds(0, 0, S)
  <2>1. SUFFICES ASSUME NEW acc \in Nat, NEW line \in S
                 PROVE  AddLine(0, 0, 0, line) \in Nat
                        /\ AddLine(0, 0, acc, line) = acc + AddLine(0, 0, 0, line)
    BY Zenon DEF Summing!Adds
  <2>2. PICK T : line.text \in Seq(T)
    BY DEF Texts
  <2>3. ByteLen(line.text) \in Nat
    BY <2>2, ByteLenNat
  <2>. QED
    BY <2>3 DEF AddLine
<1>2. /\ Summing!FoldOf(0, 0, 0, s) \in Nat /\ Summing!FoldOf(0, 0, 0, t) \in Nat
      /\ Summing!FoldOf(0, 0, 0, s \o t) = Summing!FoldOf(0, 0, 0, s) + Summing!FoldOf(0, 0, 0, t)
  BY <1>1, Summing!FoldSums
<1>3. /\ LinesBytes(s) = Summing!FoldOf(0, 0, 0, s) /\ LinesBytes(t) = Summing!FoldOf(0, 0, 0, t)
      /\ LinesBytes(s \o t) = Summing!FoldOf(0, 0, 0, s \o t)
  BY LinesBytesFold
<1>. QED
  BY <1>2, <1>3

\* Evicted drops the oldest lines, just as many as the caps ask for: with one
\* line less dropped the store would still be over them (scrollback.rs evict).
THEOREM EvictsLeast ==
    ASSUME NEW S, NEW sb, sb.lines \in Seq(S), MaxLines \in Nat
    PROVE  \E n \in 0 .. Len(sb.lines) :
              /\ Evicted(sb) = PopOldest(sb, n)
              /\ WithinCaps(PopOldest(sb, n))
              /\ \A m \in 0 .. n - 1 : ~WithinCaps(PopOldest(sb, m))
<1>. DEFINE count == Len(sb.lines)
            Enough == {n \in 0 .. count : WithinCaps(PopOldest(sb, n))}
            Least(n) == /\ WithinCaps(PopOldest(sb, n))
                        /\ \A m \in 0 .. n - 1 : ~WithinCaps(PopOldest(sb, m))
<1>1. count \in Nat
  OBVIOUS
<1>2. WithinCaps(PopOldest(sb, count))
  <2>1. PopOldest(sb, count).lines = << >>
    BY PopLeaves, <1>1
  <2>. QED
    BY <2>1 DEF WithinCaps
<1>3. Enough \in SUBSET Nat /\ Enough # {}
  BY <1>1, <1>2
<1>4. PICK n \in Enough : \A m \in Enough : n <= m
  BY <1>3, Summing!LeastNumber
<1>5. Least(n) /\ n \in 0 .. count
  BY <1>1, <1>4
<1>6. Evicted(sb) = PopOldest(sb, CHOOSE k \in 0 .. count : Least(k))
  BY Zenon DEF Evicted
<1>. DEFINE least == CHOOSE k \in 0 .. count : Least(k)
<1>7. least \in 0 .. count /\ Least(least)
  <2>. HIDE DEF Least, count
  <2>. QED
    BY <1>5, Zenon
<1>. QED
  BY <1>6, <1>7

\* After a push the store is within both caps, and its lines are the newest ones:
\* an end of what was there with the new line after it, which is never dropped,
\* however long it is (scrollback.rs push).
THEOREM PushKeepsNewest ==
    ASSUME NEW S, NEW sb, sb.lines \in Seq(S), NEW line \in S, MaxLines \in Nat \ {0}
    PROVE  /\ WithinCaps(Pushed(sb, line))
           /\ \E n \in 0 .. Len(sb.lines) :
                 Pushed(sb, line).lines = SubSeq(sb.lines, n + 1, Len(sb.lines)) \o <<line>>
<1>. DEFINE count == Len(sb.lines)
            all == Append(sb.lines, line)
            full == [lines |-> all, total_bytes |-> sb.total_bytes + ByteLen(line.text)]
<1>1. /\ count \in Nat
      /\ full.lines = all
      /\ all \in Seq(S) /\ Len(all) = count + 1
  OBVIOUS
<1>2. Pushed(sb, line) = Evicted(full)
  BY DEF Pushed
<1>. HIDE DEF full
<1>3. PICK n \in 0 .. Len(full.lines) :
          /\ Evicted(full) = PopOldest(full, n)
          /\ WithinCaps(PopOldest(full, n))
          /\ \A m \in 0 .. n - 1 : ~WithinCaps(PopOldest(full, m))
  BY <1>1, EvictsLeast
<1>4. WithinCaps(PopOldest(full, count))
  <2>1. PopOldest(full, count).lines = SubSeq(all, count + 1, count + 1)
    BY <1>1, PopLeaves
  <2>2. Len(SubSeq(all, count + 1, count + 1)) = 1
    BY <1>1
  <2>. QED
    BY <2>1, <2>2 DEF WithinCaps
<1>5. n \in 0 .. count
  BY <1>1, <1>3, <1>4
<1>6. PopOldest(full, n).lines = SubSeq(all, n + 1, count + 1)
  BY <1>1, PopLeaves
<1>7. SubSeq(all, n + 1, count + 1) = SubSeq(sb.lines, n + 1, count) \o <<line>>
  <2>1. SubSeq(all, n + 1, count + 1) = SubSeq(all, n + 1, count) \o <<all[count + 1]>>
    <3>1. n + 1 \in 1 .. Len(all) /\ count + 1 \in n + 1 .. Len(all)
      BY <1>1, <1>5
    <3>2. (count + 1) - 1 = count
      BY <1>1
    <3>. HIDE DEF all, count
    <3>3. SubSeq(all, n + 1, count + 1)
             = SubSeq(all, n + 1, (count + 1) - 1) \o <<all[count + 1]>>
      BY <1>1, <3>1, SubSeqRecursiveSecond, Zenon
    <3>. QED
      BY <3>2, <3>3, Zenon
  <2>2. all[count + 1] = line /\ \A i \in 1 .. count : all[i] = sb.lines[i]
    BY <1>1
  <2>3. SubSeq(all, n + 1, count) = SubSeq(sb.lines, n + 1, count)
    <3>. DEFINE old == SubSeq(sb.lines, n + 1, count)
                new == SubSeq(all, n + 1, count)
    <3>1. /\ old \in Seq(S) /\ new \in Seq(S)
          /\ Len(old) = Len(new)
          /\ \A i \in 1 .. Len(new) : new[i] = old[i]
      BY <1>1, <1>5, <2>2, SubSeqProperties
    <3>. QED
      BY <3>1, SeqEqual
  <2>. QED
    BY <2>1, <2>2, <2>3
<1>. QED
  BY <1>2, <1>3, <1>5, <1>6, <1>7

\* Popping lines keeps the count of the bytes.
LEMMA PopCounts ==
    ASSUME NEW S, Texts(S), NEW sb, sb.lines \in Seq(S), BytesCounted(sb),
           NEW n \in 0 .. Len(sb.lines)
    PROVE  BytesCounted(PopOldest(sb, n)) /\ PopOldest(sb, n).lines \in Seq(S)
<1>. DEFINE lines == sb.lines
            gone == SubSeq(lines, 1, n)
            left == SubSeq(lines, n + 1, Len(lines))
            popped == PopOldest(sb, n)
<1>1. n \in Nat /\ Len(lines) \in Nat /\ n <= Len(lines)
  OBVIOUS
<1>2. gone \in Seq(S) /\ left \in Seq(S)
  BY <1>1
<1>3. lines = gone \o left
  <2>1. CASE n = 0
    <3>1. gone = << >>
      BY <2>1
    <3>2. left = lines
      <4>1. n + 1 = 1
        BY <2>1
      <4>2. SubSeq(lines, 1, Len(lines)) = lines
        BY SubSeqFull
      <4>. QED
        BY <4>1, <4>2, Zenon
    <3>3. << >> \o lines = lines
      OBVIOUS
    <3>. QED
      BY <3>1, <3>2, <3>3, Zenon
  <2>2. CASE n > 0
    <3>1. Len(gone) = n /\ (\A i \in 1 .. n : gone[i] = lines[i])
      BY <1>1, SubSeqProperties
    <3>2. Len(left) = Len(lines) - n /\ (\A i \in 1 .. Len(lines) - n : left[i] = lines[n + i])
      <4>1. n + 1 \in Int /\ Len(lines) \in Int /\ \A i \in n + 1 .. Len(lines) : lines[i] \in S
        BY <1>1
      <4>2. /\ Len(left) = IF n + 1 <= Len(lines) THEN Len(lines) - (n + 1) + 1 ELSE 0
            /\ \A i \in 1 .. Len(lines) - (n + 1) + 1 : left[i] = lines[(n + 1) + i - 1]
        BY <4>1, SubSeqProperties
      <4>. HIDE DEF left, lines
      <4>3. Len(lines) - (n + 1) + 1 = Len(lines) - n
        BY <1>1
      <4>4. \A i \in 1 .. Len(lines) - n : (n + 1) + i - 1 = n + i
        BY <1>1
      <4>5. Len(left) = Len(lines) - n
        BY <4>2, <1>1
      <4>. QED
        BY <4>2, <4>3, <4>4, <4>5, Zenon
    <3>. DEFINE both == gone \o left
    <3>. HIDE DEF gone, left, lines
    <3>3. /\ both \in Seq(S) /\ Len(both) = n + (Len(lines) - n)
          /\ \A i \in 1 .. n + (Len(lines) - n) : both[i] = IF i <= n THEN gone[i] ELSE left[i - n]
      BY <1>2, <3>1, <3>2, ConcatProperties
    <3>4. Len(both) = Len(lines) /\ n + (Len(lines) - n) = Len(lines)
      BY <1>1, <3>3
    <3>5. ASSUME NEW i \in 1 .. Len(lines) PROVE both[i] = lines[i]
      <4>0. both[i] = IF i <= n THEN gone[i] ELSE left[i - n]
        BY <3>3, <3>4
      <4>1. CASE i <= n
        BY <4>0, <4>1, <3>1, <1>1
      <4>2. CASE ~(i <= n)
        <5>1. i - n \in 1 .. Len(lines) - n /\ n + (i - n) = i
          BY <4>2, <1>1
        <5>2. left[i - n] = lines[n + (i - n)]
          BY <3>2, <5>1
        <5>. QED
          BY <4>0, <4>2, <5>1, <5>2
      <4>. QED
        BY <4>1, <4>2
    <3>6. lines \in Seq(S)
      BY DEF lines
    <3>. HIDE DEF both
    <3>7. both = lines
      BY <3>3, <3>4, <3>5, <3>6, SeqEqual
    <3>. QED
      BY <3>7 DEF both
  <2>3. n = 0 \/ n > 0
    BY <1>1
  <2>. QED
    BY <2>1, <2>2, <2>3, Zenon
<1>4. LinesBytes(gone) \in Nat /\ LinesBytes(left) \in Nat
      /\ LinesBytes(lines) = LinesBytes(gone) + LinesBytes(left)
  <2>. HIDE DEF gone, left, lines
  <2>1. /\ LinesBytes(gone) \in Nat /\ LinesBytes(left) \in Nat
        /\ LinesBytes(gone \o left) = LinesBytes(gone) + LinesBytes(left)
    BY <1>2, LinesBytesSum
  <2>. QED
    BY <1>3, <2>1
<1>5. sb.total_bytes = LinesBytes(lines)
  BY Zenon DEF BytesCounted, LinesBytes
<1>6. popped.total_bytes = sb.total_bytes - LinesBytes(gone) /\ popped.lines = left
  <2>1. popped = [lines |-> left, total_bytes |-> sb.total_bytes - LinesBytes(gone)]
    BY Zenon DEF PopOldest, LinesBytes
  <2>. HIDE DEF popped, left, gone
  <2>. QED
    BY <2>1
<1>7. BytesCounted(popped) <=> popped.total_bytes = LinesBytes(popped.lines)
  BY Zenon DEF BytesCounted, LinesBytes
<1>. HIDE DEF popped, left, gone, lines
<1>8. popped.total_bytes = LinesBytes(popped.lines)
  BY <1>4, <1>5, <1>6
<1>. QED
  BY <1>2, <1>6, <1>7, <1>8 DEF popped

\* The store keeps within its caps and counts the bytes it keeps, whatever is
\* pushed and in whatever order (scrollback.rs push, evict).
THEOREM PushKeepsStore ==
    ASSUME NEW S, Texts(S), NEW sb, sb.lines \in Seq(S), BytesCounted(sb), NEW line \in S,
           MaxLines \in Nat, MaxBytes \in Nat
    PROVE  /\ Pushed(sb, line) \in [lines : Seq(S), total_bytes : Nat]
           /\ Capped(Pushed(sb, line)) /\ BytesCounted(Pushed(sb, line))
<1>. DEFINE all == Append(sb.lines, line)
            full == [lines |-> all, total_bytes |-> sb.total_bytes + ByteLen(line.text)]
            new == Pushed(sb, line)
<1>1. full.lines = all /\ all \in Seq(S) /\ full.total_bytes = sb.total_bytes + ByteLen(line.text)
  OBVIOUS
<1>2. Pushed(sb, line) = Evicted(full)
  BY DEF Pushed
<1>3. BytesCounted(full)
  <2>1. sb.total_bytes = LinesBytes(sb.lines)
    BY Zenon DEF BytesCounted, LinesBytes
  <2>2. LinesBytes(all) = LinesBytes(sb.lines) + ByteLen(line.text)
    <3>1. Summing!FoldOf(0, 0, 0, Append(sb.lines, line))
             = AddLine(0, 0, Summing!FoldOf(0, 0, 0, sb.lines), line)
      BY Summing!FoldAppend
    <3>. QED
      BY <3>1, LinesBytesFold, Zenon DEF AddLine
  <2>3. BytesCounted(full) <=> full.total_bytes = LinesBytes(full.lines)
    BY Zenon DEF BytesCounted, LinesBytes
  <2>. HIDE DEF full, all
  <2>. QED
    BY <1>1, <2>1, <2>2, <2>3
<1>. HIDE DEF full
<1>4. PICK n \in 0 .. Len(full.lines) :
          /\ Evicted(full) = PopOldest(full, n)
          /\ WithinCaps(PopOldest(full, n))
  BY <1>1, EvictsLeast
<1>5. BytesCounted(new) /\ new.lines \in Seq(S) /\ WithinCaps(new)
  <2>1. new = Evicted(full)
    BY <1>2
  <2>. HIDE DEF new
  <2>. QED
    BY <1>1, <2>1, <1>3, <1>4, PopCounts
<1>. HIDE DEF new
<1>6. Capped(new)
  <2>1. new.total_bytes = LinesBytes(new.lines)
    BY <1>5, Zenon DEF BytesCounted, LinesBytes
  <2>2. Len(new.lines) = 0 => new.total_bytes = 0
    <3>1. LinesBytes(<< >>) = 0
      BY LinesBytesFold, Summing!FoldEmpty
    <3>2. Len(new.lines) = 0 => new.lines = << >>
      BY <1>5
    <3>. QED
      BY <2>1, <3>1, <3>2
  <2>3. Len(new.lines) \in Nat
    BY <1>5
  <2>4. new.total_bytes > MaxBytes => ~(new.total_bytes <= MaxBytes) /\ new.total_bytes # 0
    <3>1. new.total_bytes \in Nat
      BY <1>5, <2>1, LinesBytesSum
    <3>. QED
      BY <3>1
  <2>. DEFINE kept == Len(new.lines)
              bytes == new.total_bytes
  <2>5. kept <= MaxLines /\ (bytes <= MaxBytes \/ kept <= 1)
    BY <1>5 DEF WithinCaps
  <2>6. (kept = 0 => bytes = 0) /\ kept \in Nat
        /\ (bytes > MaxBytes => ~(bytes <= MaxBytes) /\ bytes # 0)
    BY <2>2, <2>3, <2>4
  <2>. HIDE DEF kept, bytes
  <2>7. ASSUME bytes > MaxBytes PROVE kept = 1
    <3>1. kept <= 1 /\ kept # 0
      BY <2>5, <2>6, <2>7, Zenon
    <3>. QED
      BY <2>6, <3>1
  <2>. QED
    BY <2>5, <2>7 DEF Capped, kept, bytes
<1>7. new \in [lines : Seq(S), total_bytes : Nat]
  <2>1. new.total_bytes \in Nat
    <3>1. new.total_bytes = LinesBytes(new.lines)
      BY <1>5, Zenon DEF BytesCounted, LinesBytes
    <3>. QED
      BY <1>5, <3>1, LinesBytesSum
  <2>2. PopOldest(full, n) = [lines |-> PopOldest(full, n).lines,
                              total_bytes |-> PopOldest(full, n).total_bytes]
    BY Zenon DEF PopOldest
  <2>3. new = [lines |-> new.lines, total_bytes |-> new.total_bytes]
    BY <1>2, <1>4, <2>2, Zenon DEF new
  <2>. QED
    BY <1>5, <2>1, <2>3
<1>. QED
  BY <1>5, <1>6, <1>7 DEF new

\* A push leaves a store of the same sort.
LEMMA PushedType ==
    ASSUME NEW n \in Nat, NEW sb \in StoresBelow(n), NEW line \in LineBelow(n)
    PROVE  Pushed(sb, line) \in StoresBelow(n)
<1>. DEFINE S == LineBelow(n)
            new == Pushed(sb, line)
<1>1. MaxLines \in Nat /\ MaxBytes \in Nat
  BY ScreenAssumption
<1>2. Texts(S)
  BY DEF Texts, LineBelow
<1>3. line \in S /\ sb.lines \in Seq(S) /\ BytesCounted(sb)
  BY DEF StoresBelow
<1>. HIDE DEF S
<1>4. new \in [lines : Seq(S), total_bytes : Nat] /\ Capped(new) /\ BytesCounted(new)
  BY <1>1, <1>2, <1>3, PushKeepsStore
<1>. HIDE DEF new
<1>. QED
  BY <1>4 DEF StoresBelow, S, new

-----------------------------------------------------------------------------
(* Screens, and what edits may leave. *)

\* What is below an id is below a later one.
LEMMA LaterIds ==
    ASSUME NEW n \in Nat, NEW m \in Nat, n <= m
    PROVE  /\ RowsBelow(n) \subseteq RowsBelow(m)
           /\ LineBelow(n) \subseteq LineBelow(m)
           /\ HeadsBelow(n) \subseteq HeadsBelow(m)
           /\ StoresBelow(n) \subseteq StoresBelow(m)
<1>1. 0 .. n - 1 \subseteq 0 .. m - 1
  OBVIOUS
<1>2. RowBelow(n) \subseteq RowBelow(m) /\ LineBelow(n) \subseteq LineBelow(m)
  BY <1>1 DEF RowBelow, LineBelow
<1>3. RowsBelow(n) \subseteq RowsBelow(m)
  BY <1>2 DEF RowsBelow
<1>4. Seq(LineBelow(n)) \subseteq Seq(LineBelow(m))
  BY <1>2
<1>5. StoresBelow(n) \subseteq StoresBelow(m)
  BY <1>4 DEF StoresBelow
<1>. QED
  BY <1>2, <1>3, <1>5 DEF HeadsBelow

\* The fields of a grid whose ids are below n.
LEMMA GridParts ==
    ASSUME NEW n, NEW g \in GridsAt(n)
    PROVE  /\ g.size \in Sizes /\ g.size.rows \in Nat /\ g.size.cols \in Nat
           /\ g.rows \in RowsBelow(n)
           /\ g.cursor \in Cursors /\ g.cursor.row \in Nat /\ g.cursor.col \in Nat
           /\ g.top \in Nat /\ g.bottom \in Nat
           /\ g.pending \in HeadsBelow(n) /\ g.scrollback \in StoresBelow(n) /\ g.next = n
  BY DEF GridsAt, Sizes, Cursors

\* What makes a grid a result of an edit.
LEMMA InAfter ==
    ASSUME NEW g, NEW n \in Nat, n >= g.next, NEW h \in GridsAt(n), h.size = g.size,
           Shaped(g) => Shaped(h), IsAlternate => h.scrollback = g.scrollback /\ h.pending = g.pending
    PROVE  h \in After(g)
  BY DEF After, Leaves

\* What the result of a command is known to be, shape aside.
LEMMA LeavesGrids ==
    ASSUME NEW g \in Grids, NEW h \in Leaves(g)
    PROVE  /\ h \in Grids /\ h.size = g.size
           /\ (IsAlternate => h.scrollback = g.scrollback /\ h.pending = g.pending)
           /\ g.next \in Nat /\ h.next \in Nat /\ h.next >= g.next
           /\ h \in GridsAt(h.next) /\ g \in GridsAt(g.next)
<1>1. PICK n \in Nat : g \in GridsAt(n)
  BY DEF Grids
<1>2. PICK m \in Nat : m >= g.next /\ h \in GridsAt(m)
  BY DEF After, Leaves
<1>3. g.next = n /\ h.next = m
  BY <1>1, <1>2, GridParts
<1>4. h \in Grids
  BY <1>2 DEF Grids
<1>. QED
  BY <1>1, <1>2, <1>3, <1>4 DEF Leaves

\* What the result of an edit is known to be.
LEMMA AfterGrids ==
    ASSUME NEW g \in Grids, NEW h \in After(g)
    PROVE  /\ h \in Grids /\ h.size = g.size /\ (Shaped(g) => Shaped(h))
           /\ (IsAlternate => h.scrollback = g.scrollback /\ h.pending = g.pending)
           /\ g.next \in Nat /\ h.next \in Nat /\ h.next >= g.next
           /\ h \in GridsAt(h.next) /\ g \in GridsAt(g.next)
  BY LeavesGrids DEF After

\* An edit may leave the screen as it is, and be followed by another.
LEMMA NoEdit ==
    ASSUME NEW g \in Grids
    PROVE  g \in After(g)
<1>1. PICK n \in Nat : g \in GridsAt(n)
  BY DEF Grids
<1>2. g.next = n
  BY <1>1, GridParts
<1>. QED
  BY <1>1, <1>2, InAfter

\* An edit after an edit is an edit.
LEMMA EditsCompose ==
    ASSUME NEW g \in Grids, NEW h \in After(g), NEW k \in After(h)
    PROVE  k \in After(g)
<1>1. /\ h \in Grids /\ h.size = g.size /\ (Shaped(g) => Shaped(h)) 
      /\ (IsAlternate => h.scrollback = g.scrollback /\ h.pending = g.pending)
      /\ g.next \in Nat /\ h.next >= g.next
  BY AfterGrids
<1>2. /\ k.size = h.size /\ (Shaped(h) => Shaped(k)) 
      /\ (IsAlternate => k.scrollback = h.scrollback /\ k.pending = h.pending)
      /\ h.next \in Nat /\ k.next \in Nat /\ k.next >= h.next /\ k \in GridsAt(k.next)
  BY <1>1, AfterGrids
<1>3. k.next >= g.next
  BY <1>1, <1>2
<1>. QED
  BY <1>1, <1>2, <1>3, InAfter

\* A command after a command is a command, shape aside.
LEMMA LeavesCompose ==
    ASSUME NEW g \in Grids, NEW h \in Leaves(g), NEW k \in Leaves(h)
    PROVE  k \in Leaves(g)
<1>1. /\ h \in Grids /\ h.size = g.size /\ (IsAlternate => h.scrollback = g.scrollback /\ h.pending = g.pending)
      /\ g.next \in Nat /\ h.next >= g.next
  BY LeavesGrids
<1>2. /\ k.size = h.size /\ (IsAlternate => k.scrollback = h.scrollback /\ k.pending = h.pending)
      /\ h.next \in Nat /\ k.next \in Nat /\ k.next >= h.next /\ k \in GridsAt(k.next)
  BY <1>1, LeavesGrids
<1>3. k.next >= g.next
  BY <1>1, <1>2
<1>. QED
  BY <1>1, <1>2, <1>3 DEF Leaves

-----------------------------------------------------------------------------
(* The cursor. *)

\* Moving the cursor within the screen keeps everything else (move_to).
LEMMA MoveToAfter ==
    ASSUME NEW g \in Grids, NEW row \in Nat, NEW col \in Nat,
           Shaped(g) => Within(At(row, col), g.size)
    PROVE  MoveTo(g, row, col) \in After(g)
<1>1. PICK n \in Nat : g \in GridsAt(n)
  BY DEF Grids
<1>. DEFINE h == MoveTo(g, row, col)
            c == At(row, col)
<1>2. c \in Cursors
  BY DEF At, Cursors
<1>3. h = [g EXCEPT !.cursor = c]
  BY DEF MoveTo
<1>. HIDE DEF c, h
<1>4. /\ h \in GridsAt(n) /\ h.size = g.size /\ h.scrollback = g.scrollback /\ h.pending = g.pending
      /\ h.rows = g.rows /\ h.cursor = c /\ h.top = g.top /\ h.bottom = g.bottom
  BY <1>1, <1>2, <1>3 DEF GridsAt
<1>5. Shaped(g) => Shaped(h)
  BY <1>4 DEF Shaped, c
<1>6. g.next = n
  BY <1>1, GridParts
<1>. QED
  BY <1>4, <1>5, <1>6, InAfter DEF h

\* Arming the deferred wrap changes no row.
LEMMA ArmWrapAfter ==
    ASSUME NEW g \in Grids
    PROVE  ArmWrap(g) \in After(g)
<1>1. PICK n \in Nat : g \in GridsAt(n)
  BY DEF Grids
<1>. DEFINE h == ArmWrap(g)
            c == [g.cursor EXCEPT !.wrap = TRUE]
<1>2. c \in Cursors /\ c.row = g.cursor.row /\ c.col = g.cursor.col
  BY <1>1, GridParts, ZenonT(40) DEF Cursors
<1>3. h = [g EXCEPT !.cursor = c]
  BY DEF ArmWrap
<1>. HIDE DEF c, h
<1>4. /\ h \in GridsAt(n) /\ h.size = g.size /\ h.scrollback = g.scrollback /\ h.pending = g.pending
      /\ h.rows = g.rows /\ h.cursor = c /\ h.top = g.top /\ h.bottom = g.bottom
  BY <1>1, <1>2, <1>3 DEF GridsAt
<1>5. Shaped(g) => Shaped(h)
  BY <1>2, <1>4 DEF Shaped, Within
<1>6. g.next = n
  BY <1>1, GridParts
<1>. QED
  BY <1>4, <1>5, <1>6, InAfter DEF h

\* cursor_to clamps the position it is given into the screen.
LEMMA CursorToAfter ==
    ASSUME NEW g \in Grids, NEW row \in Nat, NEW col \in Nat
    PROVE  CursorTo(g, row, col) \in After(g)
<1>. DEFINE r == Less(row, Minus(g.size.rows, 1))
            c == Less(col, Minus(g.size.cols, 1))
<1>1. g.size.rows \in Nat /\ g.size.cols \in Nat
  BY GridParts DEF Grids
<1>2. r \in Nat /\ c \in Nat /\ Within(At(r, c), g.size)
  BY <1>1 DEF Less, Minus, Within, At
<1>. HIDE DEF r, c
<1>3. MoveTo(g, r, c) \in After(g)
  BY <1>2, MoveToAfter
<1>. QED
  BY <1>3 DEF CursorTo, r, c

\* A carriage return keeps the cursor on the screen.
LEMMA CarriageReturnAfter ==
    ASSUME NEW g \in Grids
    PROVE  CarriageReturn(g) \in After(g)
<1>1. g.cursor.row \in Nat /\ g.size.cols \in Nat
  BY GridParts DEF Grids
<1>2. Shaped(g) => Within(At(g.cursor.row, 0), g.size)
  BY <1>1 DEF Shaped, Within, At, Minus
<1>. QED
  BY <1>1, <1>2, MoveToAfter DEF CarriageReturn

\* The full region is one of the screen.
LEMMA ResetScrollRegionAfter ==
    ASSUME NEW g \in Grids
    PROVE  ResetScrollRegion(g) \in After(g)
<1>1. PICK n \in Nat : g \in GridsAt(n)
  BY DEF Grids
<1>. DEFINE h == ResetScrollRegion(g)
            b == Minus(g.size.rows, 1)
<1>2. b \in Nat /\ g.size.rows \in Nat
  BY <1>1, GridParts DEF Minus
<1>3. h = [g EXCEPT !.top = 0, !.bottom = b]
  BY DEF ResetScrollRegion
<1>. HIDE DEF h, b
<1>4. /\ h \in GridsAt(n) /\ h.size = g.size /\ h.scrollback = g.scrollback /\ h.pending = g.pending
      /\ h.rows = g.rows /\ h.cursor = g.cursor /\ h.top = 0 /\ h.bottom = b
  BY <1>1, <1>2, <1>3 DEF GridsAt
<1>5. Shaped(g) => Shaped(h)
  BY <1>2, <1>4 DEF Shaped, Margins, b
<1>6. g.next = n
  BY <1>1, GridParts
<1>. QED
  BY <1>4, <1>5, <1>6, InAfter DEF h

-----------------------------------------------------------------------------
(* Rows leaving and entering the screen. *)

\* Replacing a row by one of the same kind changes neither number nor kind.
LEMMA RowChanged ==
    ASSUME NEW S, NEW seq \in Seq(S), NEW at \in Int, NEW x, at \in 1 .. Len(seq) => x \in S
    PROVE  [seq EXCEPT ![at] = x] \in Seq(S) /\ Len([seq EXCEPT ![at] = x]) = Len(seq)
<1>. DEFINE new == [seq EXCEPT ![at] = x]
<1>1. Len(seq) \in Nat /\ new = [i \in 1 .. Len(seq) |-> IF i = at THEN x ELSE seq[i]]
  OBVIOUS
<1>2. \A i \in 1 .. Len(seq) : (IF i = at THEN x ELSE seq[i]) \in S
  OBVIOUS
<1>. HIDE DEF new
<1>3. new \in Seq(S) /\ Len(new) = Len(seq)
  BY <1>1, <1>2
<1>. QED
  BY <1>3 DEF new

\* A rectangle is a list of as many rows as the screen has, each as wide as it.
LEMMA Rectangular ==
    ASSUME NEW n, NEW rows \in RowsBelow(n), NEW size \in Sizes
    PROVE  Rectangle(rows, size) <=> Len(rows) = size.rows /\ rows \in Seq(WideRows(n, size.cols))
<1>1. Len(rows) \in Nat /\ DOMAIN rows = 1 .. Len(rows) /\ \A r \in 1 .. Len(rows) : rows[r] \in RowBelow(n)
  BY DEF RowsBelow
<1>2. (\A r \in DOMAIN rows : Len(rows[r].cells) = size.cols) => rows \in Seq(WideRows(n, size.cols))
  BY <1>1 DEF WideRows, RowsBelow
<1>3. ASSUME rows \in Seq(WideRows(n, size.cols))
      PROVE  \A r \in DOMAIN rows : Len(rows[r].cells) = size.cols
  BY <1>1, <1>3 DEF WideRows
<1>. QED
  BY <1>2, <1>3 DEF Rectangle

\* Every wide row is a row, and one of a later screen too.
LEMMA WideRowsAreRows ==
    ASSUME NEW n \in Nat, NEW m \in Nat, n <= m, NEW cols
    PROVE  WideRows(n, cols) \subseteq RowBelow(n) /\ WideRows(n, cols) \subseteq WideRows(m, cols)
<1>1. 0 .. n - 1 \subseteq 0 .. m - 1
  OBVIOUS
<1>2. RowBelow(n) \subseteq RowBelow(m)
  BY <1>1 DEF RowBelow
<1>. QED
  BY <1>2 DEF WideRows

\* A blank row is as wide as asked and has the id it was given.
LEMMA BlankRowType ==
    ASSUME NEW n \in Nat, NEW id \in 0 .. n - 1, NEW cols \in Nat
    PROVE  BlankRow(cols, id) \in WideRows(n, cols) /\ BlankRow(cols, id) \in RowBelow(n)
<1>. DEFINE cells == [c \in 1 .. cols |-> Blank]
<1>1. cells \in Seq(Cells) /\ Len(cells) = cols
  BY SpacerCell
<1>2. BlankRow(cols, id) = [id |-> id, wrapped |-> FALSE, cells |-> cells]
  BY DEF BlankRow
<1>. HIDE DEF cells
<1>. QED
  BY <1>1, <1>2 DEF WideRows, RowBelow

\* A blank screen is a rectangle with ids from `first` on.
LEMMA BlankRowsType ==
    ASSUME NEW n \in Nat, NEW size \in Sizes, NEW first \in Nat, first + size.rows <= n
    PROVE  /\ BlankRows(size, first) \in Seq(WideRows(n, size.cols))
           /\ BlankRows(size, first) \in RowsBelow(n)
           /\ Len(BlankRows(size, first)) = size.rows
<1>. DEFINE new == BlankRows(size, first)
<1>1. size.rows \in Nat /\ size.cols \in Nat
  BY DEF Sizes
<1>2. ASSUME NEW r \in 1 .. size.rows
      PROVE  BlankRow(size.cols, first + r - 1) \in WideRows(n, size.cols)
             /\ BlankRow(size.cols, first + r - 1) \in RowBelow(n)
  <2>. DEFINE id == first + r - 1
  <2>1. id \in 0 .. n - 1
    BY <1>1
  <2>. HIDE DEF id
  <2>2. BlankRow(size.cols, id) \in WideRows(n, size.cols) /\ BlankRow(size.cols, id) \in RowBelow(n)
    BY <1>1, <2>1, BlankRowType
  <2>. QED
    BY <2>2 DEF id
<1>3. new = [r \in 1 .. size.rows |-> BlankRow(size.cols, first + r - 1)]
  BY DEF BlankRows
<1>. QED
  BY <1>1, <1>2, <1>3 DEF RowsBelow

\* The screen `h` is `g` with a blank row put in `at` a place it has: the ids up
\* to `m` are given out.
PutIn(n, m, g, at, h) ==
    /\ m \in Nat /\ n <= m /\ h \in GridsAt(m)
    /\ h.size = g.size /\ h.cursor = g.cursor /\ h.top = g.top /\ h.bottom = g.bottom
    /\ h.pending = g.pending /\ h.scrollback = g.scrollback
    /\ at <= Len(g.rows) =>
         /\ Len(h.rows) = Len(g.rows) + 1
         /\ g.rows \in Seq(WideRows(n, g.size.cols)) => h.rows \in Seq(WideRows(m, g.size.cols))
    /\ ~(at <= Len(g.rows)) => h.rows = g.rows

\* A blank row is put in: one more row, of the same width, and one more id if
\* it starts a line.
LEMMA InsertBlankRowType ==
    ASSUME NEW n \in Nat, NEW g \in GridsAt(n), NEW at \in Nat, NEW line_id \in (0 .. n - 1) \cup {Fresh},
           NEW m, m = IF line_id = Fresh THEN n + 1 ELSE n
    PROVE  PutIn(n, m, g, at, InsertBlankRow(g, at, line_id))
<1>. DEFINE h == InsertBlankRow(g, at, line_id)
            id == IF line_id = Fresh THEN n ELSE line_id
            cut == [g.rows[at] EXCEPT !.wrapped = FALSE]
            above == IF at > 0 /\ at <= Len(g.rows) /\ g.rows[at].id # id
                     THEN [g.rows EXCEPT ![at] = cut] ELSE g.rows
            blank == BlankRow(g.size.cols, id)
            rows == IF at <= Len(g.rows) THEN InsertAt(above, at + 1, blank) ELSE g.rows
<1>1. /\ g.size.cols \in Nat /\ g.rows \in Seq(RowBelow(n)) /\ Len(g.rows) \in Nat
      /\ g.next = n
  BY GridParts DEF RowsBelow
<1>2. m \in Nat /\ n <= m /\ id \in 0 .. m - 1
  BY DEF Fresh
<1>3. h = [g EXCEPT !.rows = rows, !.next = m]
  BY <1>1 DEF InsertBlankRow
<1>4. blank \in WideRows(m, g.size.cols) /\ blank \in RowBelow(m)
  <2>. HIDE DEF id
  <2>. QED
    BY <1>1, <1>2, BlankRowType
<1>. HIDE DEF id, blank
<1>5. g.rows \in Seq(RowBelow(m))
  BY <1>1, <1>2, LaterIds DEF RowsBelow
<1>6. ASSUME NEW S, g.rows \in Seq(S), blank \in S, at \in 1 .. Len(g.rows) => cut \in S
      PROVE  rows \in Seq(S) /\ (at <= Len(g.rows) => Len(rows) = Len(g.rows) + 1)
  <2>. HIDE DEF cut
  <2>1. above \in Seq(S) /\ Len(above) = Len(g.rows)
    BY <1>6, <1>1
  <2>. HIDE DEF above
  <2>2. ASSUME at <= Len(g.rows)
        PROVE  InsertAt(above, at + 1, blank) \in Seq(S)
               /\ Len(InsertAt(above, at + 1, blank)) = Len(g.rows) + 1
    <3>1. at + 1 \in 1 .. Len(above) + 1
      BY <2>1, <2>2, <1>1
    <3>. QED
      BY <1>6, <2>1, <3>1, RowPutIn
  <2>. QED
    BY <2>2, <1>6
<1>7. at \in 1 .. Len(g.rows) => cut \in RowBelow(m)
  <2>1. SUFFICES ASSUME at \in 1 .. Len(g.rows) PROVE cut \in RowBelow(m)
    OBVIOUS
  <2>2. g.rows[at] \in RowBelow(m)
    BY <1>5, <2>1
  <2>. QED
    BY <2>2 DEF RowBelow
<1>8. ASSUME g.rows \in Seq(WideRows(n, g.size.cols))
      PROVE  g.rows \in Seq(WideRows(m, g.size.cols))
             /\ (at \in 1 .. Len(g.rows) => cut \in WideRows(m, g.size.cols))
  <2>1. g.rows \in Seq(WideRows(m, g.size.cols))
    BY <1>8, <1>2, WideRowsAreRows
  <2>2. ASSUME at \in 1 .. Len(g.rows) PROVE cut \in WideRows(m, g.size.cols)
    <3>1. g.rows[at] \in WideRows(m, g.size.cols)
      BY <2>1, <2>2
    <3>2. cut.cells = g.rows[at].cells
      BY <3>1 DEF WideRows, RowBelow
    <3>. QED
      BY <1>7, <2>2, <3>1, <3>2 DEF WideRows
  <2>. QED
    BY <2>1, <2>2
<1>9. rows \in RowsBelow(m) /\ (at <= Len(g.rows) => Len(rows) = Len(g.rows) + 1)
  <2>. HIDE DEF rows, cut
  <2>. QED
    BY <1>4, <1>5, <1>6, <1>7 DEF RowsBelow
<1>10. g.rows \in Seq(WideRows(n, g.size.cols)) => rows \in Seq(WideRows(m, g.size.cols))
  <2>. HIDE DEF rows, cut
  <2>. QED
    BY <1>4, <1>6, <1>8
<1>11. ~(at <= Len(g.rows)) => rows = g.rows
  OBVIOUS
<1>. HIDE DEF rows, h
<1>12. g.pending \in HeadsBelow(m) /\ g.scrollback \in StoresBelow(m)
  BY <1>2, LaterIds, GridParts
<1>13. /\ h \in GridsAt(m) /\ h.size = g.size /\ h.cursor = g.cursor /\ h.top = g.top /\ h.bottom = g.bottom
       /\ h.pending = g.pending /\ h.scrollback = g.scrollback /\ h.rows = rows
  BY <1>3, <1>9, <1>12 DEF GridsAt
<1>. QED
  BY <1>2, <1>9, <1>10, <1>11, <1>13 DEF h, PutIn

\* A row put in at `to`, after one was taken out, leaves the screen in shape.
LEMMA RowSwapped ==
    ASSUME NEW n \in Nat, NEW g \in GridsAt(n), NEW k \in GridsAt(n),
           NEW from \in Nat, NEW to \in Nat, from < Len(g.rows), to < Len(g.rows),
           NEW line_id \in (0 .. n - 1) \cup {Fresh},
           k.size = g.size, k.cursor = g.cursor, k.top = g.top, k.bottom = g.bottom,
           k.rows = RemoveAt(g.rows, from + 1), IsAlternate => k.scrollback = g.scrollback /\ k.pending = g.pending
    PROVE  LET h == InsertBlankRow(k, to, line_id) IN
           /\ h \in After(g) /\ Len(h.rows) = Len(g.rows)
           /\ h.cursor = g.cursor /\ h.top = g.top /\ h.bottom = g.bottom
<1>. DEFINE h == InsertBlankRow(k, to, line_id)
            cols == g.size.cols
<1>0. PICK m : m = IF line_id = Fresh THEN n + 1 ELSE n
  OBVIOUS
<1>1. /\ g.size \in Sizes /\ cols \in Nat /\ g.rows \in Seq(RowBelow(n)) /\ g.next = n
      /\ Len(g.rows) \in Nat
  BY GridParts DEF RowsBelow
<1>2. from + 1 \in 1 .. Len(g.rows)
  BY <1>1
<1>3. k.rows \in Seq(RowBelow(n)) /\ Len(k.rows) = Len(g.rows) - 1
  BY <1>1, <1>2, RowTakenOut
<1>4. g.rows \in Seq(WideRows(n, cols)) => k.rows \in Seq(WideRows(n, cols))
  BY <1>2, RowTakenOut
<1>5. to <= Len(k.rows)
  BY <1>1, <1>3
<1>6. /\ m \in Nat /\ n <= m /\ h \in GridsAt(m)
      /\ h.size = k.size /\ h.cursor = k.cursor /\ h.top = k.top /\ h.bottom = k.bottom
      /\ h.scrollback = k.scrollback /\ h.pending = k.pending
      /\ Len(h.rows) = Len(k.rows) + 1
      /\ k.rows \in Seq(WideRows(n, k.size.cols)) => h.rows \in Seq(WideRows(m, k.size.cols))
  <2>1. PutIn(n, m, k, to, h)
    BY <1>0, InsertBlankRowType
  <2>. HIDE DEF h
  <2>. QED
    BY <1>5, <2>1 DEF PutIn
<1>. HIDE DEF h
<1>7. Len(h.rows) = Len(g.rows)
  BY <1>1, <1>3, <1>6
<1>8. Shaped(g) => Shaped(h)
  <2>1. Rectangle(g.rows, g.size) <=> Len(g.rows) = g.size.rows /\ g.rows \in Seq(WideRows(n, cols))
    BY <1>1, Rectangular DEF RowsBelow
  <2>2. Rectangle(h.rows, g.size) <=> Len(h.rows) = g.size.rows /\ h.rows \in Seq(WideRows(m, cols))
    BY <1>1, <1>6, GridParts, Rectangular, SMTT(60)
  <2>. QED
    BY <2>1, <2>2, <1>4, <1>6, <1>7 DEF Shaped
<1>9. h \in After(g)
  BY <1>1, <1>6, <1>8, InAfter
<1>. QED
  BY <1>6, <1>7, <1>9 DEF h

\* Freezing a row touches the frozen head and the history only.
LEMMA FreezeRowType ==
    ASSUME NEW n \in Nat, NEW g \in GridsAt(n), NEW row \in RowBelow(n)
    PROVE  LET h == FreezeRow(g, row) IN
           /\ h \in GridsAt(n) /\ h.size = g.size /\ h.rows = g.rows /\ h.cursor = g.cursor
           /\ h.top = g.top /\ h.bottom = g.bottom
<1>. DEFINE ends == ~row.wrapped
            continues == g.pending.id = row.id
            head == IF continues THEN g.pending.text ELSE << >>
            line == [id |-> row.id, text |-> PushCells(head, row.cells, ends)]
            before == IF continues \/ g.pending = NoLine THEN g.scrollback
                      ELSE Pushed(g.scrollback, g.pending)
            pending == IF ends THEN NoLine ELSE line
            store == IF ends THEN Pushed(before, line) ELSE before
            h == FreezeRow(g, row)
<1>1. /\ g.pending \in HeadsBelow(n) /\ g.scrollback \in StoresBelow(n)
      /\ row.id \in 0 .. n - 1 /\ row.cells \in Seq(Cells) /\ ends \in BOOLEAN
  BY GridParts DEF RowBelow
<1>2. head \in Seq(Cells)
  <2>1. NoLine.text = << >> /\ << >> \in Seq(Cells)
    BY DEF NoLine
  <2>2. g.pending.text \in Seq(Cells)
    BY <1>1, <2>1 DEF HeadsBelow, LineBelow
  <2>. QED
    BY <2>1, <2>2
<1>3. line \in LineBelow(n)
  <2>. HIDE DEF head, ends
  <2>1. PushCells(head, row.cells, ends) \in Seq(Cells)
    BY <1>1, <1>2, PushCellsType
  <2>. QED
    BY <1>1, <2>1 DEF LineBelow
<1>. HIDE DEF line
<1>4. before \in StoresBelow(n)
  <2>1. g.pending # NoLine => g.pending \in LineBelow(n)
    BY <1>1 DEF HeadsBelow
  <2>. QED
    BY <1>1, <2>1, PushedType
<1>. HIDE DEF before
<1>5. store \in StoresBelow(n) /\ pending \in HeadsBelow(n)
  <2>1. Pushed(before, line) \in StoresBelow(n)
    BY <1>3, <1>4, PushedType
  <2>2. store \in StoresBelow(n)
    BY <1>4, <2>1, Zenon
  <2>3. pending \in HeadsBelow(n)
    BY <1>3, Zenon DEF HeadsBelow
  <2>. QED
    BY <2>2, <2>3
<1>6. h = [g EXCEPT !.pending = pending, !.scrollback = store]
  BY Zenon DEF FreezeRow, line, before
<1>. HIDE DEF pending, store, h
<1>7. /\ h \in GridsAt(n) /\ h.size = g.size /\ h.rows = g.rows /\ h.cursor = g.cursor
      /\ h.top = g.top /\ h.bottom = g.bottom
  BY <1>5, <1>6 DEF GridsAt
<1>. QED
  BY <1>7 DEF h

\* One row up, one row down: in a region of the screen, rows are neither lost
\* nor gained, and a hidden history stays as it is.
LEMMA ScrollUpAfter ==
    ASSUME NEW g \in Grids, NEW line_id \in (0 .. g.next - 1) \cup {Fresh}
    PROVE  LET h == ScrollUpOnce(g, line_id) IN
           /\ h \in After(g) /\ Len(h.rows) = Len(g.rows)
           /\ h.cursor = g.cursor /\ h.top = g.top /\ h.bottom = g.bottom
<1>1. PICK n \in Nat : g \in GridsAt(n)
  BY DEF Grids
<1>2. /\ g.next = n /\ g.top \in Nat /\ g.bottom \in Nat
      /\ g.rows \in Seq(RowBelow(n)) /\ Len(g.rows) \in Nat
  BY <1>1, GridParts DEF RowsBelow
<1>3. CASE NoRegion(g)
  BY <1>3, NoEdit DEF ScrollUpOnce
<1>4. CASE ~NoRegion(g)
  <2>. DEFINE rows == RemoveAt(g.rows, g.top + 1)
              left == [g EXCEPT !.rows = rows]
              row == g.rows[g.top + 1]
              k == IF RegionIsWholeScreen(g) /\ ~IsAlternate THEN FreezeRow(left, row) ELSE left
  <2>1. g.top < Len(g.rows) /\ g.bottom < Len(g.rows) /\ g.top + 1 \in 1 .. Len(g.rows)
    BY <1>2, <1>4 DEF NoRegion
  <2>2. rows \in RowsBelow(n) /\ row \in RowBelow(n)
    BY <1>2, <2>1, RowTakenOut DEF RowsBelow
  <2>. HIDE DEF rows, row
  <2>3. /\ left \in GridsAt(n) /\ left.size = g.size /\ left.cursor = g.cursor /\ left.top = g.top
        /\ left.bottom = g.bottom /\ left.rows = rows /\ left.scrollback = g.scrollback /\ left.pending = g.pending
    BY <1>1, <2>2 DEF GridsAt
  <2>. HIDE DEF left
  <2>4. /\ k \in GridsAt(n) /\ k.size = g.size /\ k.cursor = g.cursor /\ k.top = g.top
        /\ k.bottom = g.bottom /\ k.rows = rows /\ (IsAlternate => k.scrollback = g.scrollback /\ k.pending = g.pending)
    <3>1. CASE RegionIsWholeScreen(g) /\ ~IsAlternate
      BY <2>2, <2>3, <3>1, FreezeRowType
    <3>2. CASE ~(RegionIsWholeScreen(g) /\ ~IsAlternate)
      BY <2>3, <3>2
    <3>. QED
      BY <3>1, <3>2
  <2>5. ScrollUpOnce(g, line_id) = InsertBlankRow(k, g.bottom, line_id)
    BY <1>4, Zenon DEF ScrollUpOnce, left, row, rows
  <2>. HIDE DEF k
  <2>6. k.rows = RemoveAt(g.rows, g.top + 1) /\ line_id \in (0 .. n - 1) \cup {Fresh}
    BY <1>2, <2>4 DEF rows
  <2>7. LET h == InsertBlankRow(k, g.bottom, line_id) IN
        /\ h \in After(g) /\ Len(h.rows) = Len(g.rows)
        /\ h.cursor = g.cursor /\ h.top = g.top /\ h.bottom = g.bottom
    <3>1. /\ g.top < Len(g.rows) /\ g.bottom < Len(g.rows) /\ g.top \in Nat /\ g.bottom \in Nat
          /\ k.size = g.size /\ k.cursor = g.cursor /\ k.top = g.top /\ k.bottom = g.bottom
          /\ k \in GridsAt(n) /\ k.rows = RemoveAt(g.rows, g.top + 1)
          /\ (IsAlternate => k.scrollback = g.scrollback /\ k.pending = g.pending)
      BY <1>2, <2>1, <2>4, <2>6
    <3>. QED
      BY ONLY n \in Nat, <1>1, <2>6, <3>1, RowSwapped, SMTT(60)
  <2>. QED
    BY ONLY <2>5, <2>7
<1>. QED
  BY <1>3, <1>4

\* Scrolling down keeps the number of rows, the cursor and the region.
LEMMA ScrollDownAfter ==
    ASSUME NEW g \in Grids
    PROVE  LET h == ScrollDownOnce(g) IN
           /\ h \in After(g) /\ Len(h.rows) = Len(g.rows)
           /\ h.cursor = g.cursor /\ h.top = g.top /\ h.bottom = g.bottom
<1>1. PICK n \in Nat : g \in GridsAt(n)
  BY DEF Grids
<1>2. /\ g.next = n /\ g.top \in Nat /\ g.bottom \in Nat
      /\ g.rows \in Seq(RowBelow(n)) /\ Len(g.rows) \in Nat
  BY <1>1, GridParts DEF RowsBelow
<1>3. CASE NoRegion(g)
  BY <1>3, NoEdit DEF ScrollDownOnce
<1>4. CASE ~NoRegion(g)
  <2>. DEFINE rows == RemoveAt(g.rows, g.bottom + 1)
              left == [g EXCEPT !.rows = rows]
  <2>1. g.top < Len(g.rows) /\ g.bottom < Len(g.rows) /\ g.bottom + 1 \in 1 .. Len(g.rows)
    BY <1>2, <1>4 DEF NoRegion
  <2>2. rows \in RowsBelow(n)
    BY <1>2, <2>1, RowTakenOut DEF RowsBelow
  <2>0. PICK id : id = Fresh
    OBVIOUS
  <2>3. ScrollDownOnce(g) = InsertBlankRow(left, g.top, id)
    BY <1>4, <2>0 DEF ScrollDownOnce
  <2>. HIDE DEF rows
  <2>4. /\ left \in GridsAt(n) /\ left.size = g.size /\ left.cursor = g.cursor /\ left.top = g.top
        /\ left.bottom = g.bottom /\ left.rows = rows /\ left.scrollback = g.scrollback /\ left.pending = g.pending
    BY <1>1, <2>2 DEF GridsAt
  <2>. HIDE DEF left
  <2>5. left.rows = RemoveAt(g.rows, g.bottom + 1) /\ id \in (0 .. n - 1) \cup {Fresh}
    BY <2>0, <2>4 DEF rows
  <2>. QED
    BY <1>1, <1>2, <2>1, <2>3, <2>4, <2>5, RowSwapped
<1>. QED
  BY <1>3, <1>4

\* A line feed is an edit, whether it scrolls or not.
LEMMA LineFeedAfter ==
    ASSUME NEW g \in Grids
    PROVE  LineFeed(g) \in After(g)
<1>1. /\ g.cursor.row \in Nat /\ g.cursor.col \in Nat /\ g.bottom \in Nat /\ Len(g.rows) \in Nat
      /\ g.size.rows \in Nat /\ g.size.cols \in Nat
  BY GridParts DEF Grids, RowsBelow
<1>2. CASE g.cursor.row = g.bottom
  <2>. DEFINE h == ScrollUpOnce(g, Fresh)
  <2>1. h \in After(g) /\ h.cursor = g.cursor
    BY ScrollUpAfter
  <2>. HIDE DEF h
  <2>2. h \in Grids
    BY <2>1, AfterGrids
  <2>3. Shaped(h) => Within(At(g.cursor.row, g.cursor.col), h.size)
    BY <2>1 DEF Shaped, Within, At
  <2>4. MoveTo(h, g.cursor.row, g.cursor.col) \in After(h)
    BY <1>1, <2>2, <2>3, MoveToAfter
  <2>5. MoveTo(h, g.cursor.row, g.cursor.col) \in After(g)
    BY <2>1, <2>4, EditsCompose
  <2>. QED
    BY <1>2, <2>5, Zenon DEF LineFeed, h
<1>3. CASE g.cursor.row # g.bottom /\ g.cursor.row + 1 < Len(g.rows)
  <2>1. Shaped(g) => Within(At(g.cursor.row + 1, g.cursor.col), g.size)
    BY <1>1, <1>3 DEF Shaped, Within, At, Rectangle, Minus
  <2>2. MoveTo(g, g.cursor.row + 1, g.cursor.col) \in After(g)
    BY <1>1, <2>1, MoveToAfter
  <2>. QED
    BY <1>3, <2>2, Zenon DEF LineFeed
<1>4. CASE g.cursor.row # g.bottom /\ ~(g.cursor.row + 1 < Len(g.rows))
  BY <1>4, NoEdit, Zenon DEF LineFeed
<1>. QED
  BY <1>2, <1>3, <1>4

\* A reverse index is an edit, whether it scrolls or not.
LEMMA ReverseIndexAfter ==
    ASSUME NEW g \in Grids
    PROVE  ReverseIndex(g) \in After(g)
<1>1. /\ g.cursor.row \in Nat /\ g.cursor.col \in Nat
  BY GridParts DEF Grids
<1>2. CASE g.cursor.row = g.top
  <2>. DEFINE h == ScrollDownOnce(g)
  <2>1. h \in After(g) /\ h.cursor = g.cursor
    BY ScrollDownAfter
  <2>. HIDE DEF h
  <2>2. h \in Grids
    BY <2>1, AfterGrids
  <2>3. Shaped(h) => Within(At(g.cursor.row, g.cursor.col), h.size)
    BY <2>1 DEF Shaped, Within, At
  <2>4. MoveTo(h, g.cursor.row, g.cursor.col) \in After(h)
    BY <1>1, <2>2, <2>3, MoveToAfter
  <2>5. MoveTo(h, g.cursor.row, g.cursor.col) \in After(g)
    BY <2>1, <2>4, EditsCompose
  <2>. QED
    BY <1>2, <2>5, Zenon DEF ReverseIndex, h
<1>3. CASE g.cursor.row # g.top /\ g.cursor.row > 0
  <2>1. g.cursor.row - 1 \in Nat
    BY <1>1, <1>3
  <2>2. Shaped(g) => Within(At(g.cursor.row - 1, g.cursor.col), g.size)
    <3>1. g.size.rows \in Nat
      BY GridParts DEF Grids
    <3>. QED
      BY <1>1, <1>3, <3>1 DEF Shaped, Within, At, Minus
  <2>3. MoveTo(g, g.cursor.row - 1, g.cursor.col) \in After(g)
    BY <1>1, <2>1, <2>2, MoveToAfter
  <2>. QED
    BY <1>3, <2>3, Zenon DEF ReverseIndex
<1>4. CASE g.cursor.row # g.top /\ ~(g.cursor.row > 0)
  BY <1>4, NoEdit, Zenon DEF ReverseIndex
<1>. QED
  BY <1>2, <1>3, <1>4

-----------------------------------------------------------------------------
(* The commands that loop. *)

\* The bodies: SU, SD, and IL and DL, which take a row out and put one in.
ScrollUpRound(c, d, g, k) == ScrollUpOnce(g, Fresh)
ScrollDownRound(c, d, g, k) == ScrollDownOnce(g)
EditRound(from, to, g, k) == InsertBlankRow(RemoveRow(g, from), to, Fresh)

ScrollingUp   == INSTANCE LoopLemmas WITH Body <- ScrollUpRound
ScrollingDown == INSTANCE LoopLemmas WITH Body <- ScrollDownRound
EditingLines  == INSTANCE LoopLemmas WITH Body <- EditRound

\* Scrolling up any number of times is an edit.
LEMMA ScrollsUpAfter ==
    ASSUME NEW g \in Grids, NEW n \in Nat
    PROVE  Repeat(LAMBDA h : ScrollUpOnce(h, Fresh), g, n) \in After(g)
<1>1. Repeat(LAMBDA h : ScrollUpOnce(h, Fresh), g, n) = ScrollingUp!RoundsOf(0, 0, g, n)
  BY Zenon DEF Repeat, ScrollingUp!RoundsOf, ScrollUpRound
<1>2. ASSUME NEW h \in After(g), NEW k \in 1 .. n PROVE ScrollUpRound(0, 0, h, k) \in After(g)
  <2>1. h \in Grids
    BY AfterGrids
  <2>2. ScrollUpOnce(h, Fresh) \in After(h)
    BY <2>1, ScrollUpAfter
  <2>. QED
    BY <2>2, EditsCompose DEF ScrollUpRound
<1>3. g \in After(g)
  BY NoEdit
<1>4. ScrollingUp!RoundsOf(0, 0, g, n) \in After(g)
  BY <1>2, <1>3, ScrollingUp!RoundsIn
<1>. QED
  BY <1>1, <1>4, Zenon

\* Scrolling down any number of times is an edit.
LEMMA ScrollsDownAfter ==
    ASSUME NEW g \in Grids, NEW n \in Nat
    PROVE  Repeat(ScrollDownOnce, g, n) \in After(g)
<1>1. Repeat(ScrollDownOnce, g, n) = ScrollingDown!RoundsOf(0, 0, g, n)
  BY Zenon DEF Repeat, ScrollingDown!RoundsOf, ScrollDownRound
<1>2. ASSUME NEW h \in After(g), NEW k \in 1 .. n PROVE ScrollDownRound(0, 0, h, k) \in After(g)
  <2>1. h \in Grids
    BY AfterGrids
  <2>2. ScrollDownOnce(h) \in After(h)
    BY <2>1, ScrollDownAfter
  <2>. QED
    BY <2>2, EditsCompose DEF ScrollDownRound
<1>3. g \in After(g)
  BY NoEdit
<1>4. ScrollingDown!RoundsOf(0, 0, g, n) \in After(g)
  BY <1>2, <1>3, ScrollingDown!RoundsIn
<1>. QED
  BY <1>1, <1>4, Zenon

\* The rows IL and DL name are on the screen.
OnScreen(g, from, to) == from < Len(g.rows) /\ to < Len(g.rows)

\* One round keeps the types; it keeps the shape too if there is a row to take
\* out and a place to put one in.
LEMMA EditRoundAfter ==
    ASSUME NEW g \in Grids, NEW from \in Nat, NEW to \in Nat, NEW k
    PROVE  LET h == EditRound(from, to, g, k) IN
           /\ h \in Leaves(g)
           /\ OnScreen(g, from, to) => h \in After(g) /\ Len(h.rows) = Len(g.rows)
<1>. DEFINE left == RemoveRow(g, from)
            h == InsertBlankRow(left, to, Fresh)
<1>1. PICK n \in Nat : g \in GridsAt(n)
  BY DEF Grids
<1>2. /\ g.next = n /\ g.rows \in Seq(RowBelow(n)) /\ Len(g.rows) \in Nat
  BY <1>1, GridParts DEF RowsBelow
<1>3. /\ left \in GridsAt(n) /\ left.size = g.size /\ left.cursor = g.cursor /\ left.top = g.top
      /\ left.bottom = g.bottom /\ left.scrollback = g.scrollback /\ left.pending = g.pending
      /\ from < Len(g.rows) => left.rows = RemoveAt(g.rows, from + 1)
  <2>1. CASE from < Len(g.rows)
    <3>. DEFINE rows == RemoveAt(g.rows, from + 1)
    <3>1. left = [g EXCEPT !.rows = rows]
      BY <2>1 DEF RemoveRow
    <3>2. rows \in RowsBelow(n)
      <4>1. from + 1 \in 1 .. Len(g.rows)
        BY <1>2, <2>1
      <4>. QED
        BY <1>2, <4>1, RowTakenOut DEF RowsBelow
    <3>. HIDE DEF left, rows
    <3>3. /\ left \in GridsAt(n) /\ left.size = g.size /\ left.cursor = g.cursor /\ left.top = g.top
          /\ left.bottom = g.bottom /\ left.scrollback = g.scrollback /\ left.pending = g.pending /\ left.rows = rows
      BY <1>1, <3>1, <3>2 DEF GridsAt
    <3>. QED
      BY <3>3 DEF rows
  <2>2. CASE ~(from < Len(g.rows))
    BY <1>1, <2>2 DEF RemoveRow
  <2>. QED
    BY <2>1, <2>2
<1>. HIDE DEF left
<1>4. PICK id : id = Fresh
  OBVIOUS
<1>5. h \in Leaves(g)
  <2>1. PICK m : m = IF id = Fresh THEN n + 1 ELSE n
    OBVIOUS
  <2>2. PutIn(n, m, left, to, h)
    BY <1>3, <1>4, <2>1, InsertBlankRowType
  <2>. HIDE DEF h
  <2>3. m \in Nat /\ m >= g.next /\ h \in GridsAt(m) /\ h.size = g.size /\ h.scrollback = g.scrollback /\ h.pending = g.pending
    BY <1>2, <1>3, <2>2 DEF PutIn
  <2>. QED
    BY <2>3 DEF Leaves
<1>6. ASSUME OnScreen(g, from, to) PROVE h \in After(g) /\ Len(h.rows) = Len(g.rows)
  <2>1. from < Len(g.rows) /\ to < Len(g.rows) /\ left.rows = RemoveAt(g.rows, from + 1)
    BY <1>3, <1>6 DEF OnScreen
  <2>2. id \in (0 .. n - 1) \cup {Fresh} /\ h = InsertBlankRow(left, to, id)
    BY <1>4
  <2>. HIDE DEF h
  <2>. QED
    BY <1>1, <1>3, <2>1, <2>2, RowSwapped
<1>. QED
  BY <1>5, <1>6 DEF EditRound, left, h

\* IL and DL.
LEMMA EditLinesAfter ==
    ASSUME NEW g \in Grids, NEW n \in Nat, NEW from \in Nat, NEW to \in Nat
    PROVE  /\ EditLines(g, n, from, to) \in Leaves(g)
           /\ (Shaped(g) => OnScreen(g, from, to)) => EditLines(g, n, from, to) \in After(g)
<1>. DEFINE Kept(h) == OnScreen(g, from, to) => h \in After(g) /\ Len(h.rows) = Len(g.rows)
            Inv == {h \in Leaves(g) : Kept(h)}
            once(h) == InsertBlankRow(RemoveRow(h, from), to, Fresh)
            panics == n > 0 /\ to > Len(RemoveRow(g, from).rows)
            count == Less(n, g.bottom - g.cursor.row + 1)
            many == Repeat(once, g, count)
<1>1. ASSUME NEW h \in Inv, NEW k PROVE EditRound(from, to, h, k) \in Inv
  <2>1. h \in Grids
    BY LeavesGrids
  <2>2. EditRound(from, to, h, k) \in Leaves(h)
    BY <2>1, EditRoundAfter
  <2>3. EditRound(from, to, h, k) \in Leaves(g)
    BY <2>2, LeavesCompose
  <2>4. ASSUME OnScreen(g, from, to)
        PROVE  EditRound(from, to, h, k) \in After(g) /\ Len(EditRound(from, to, h, k).rows) = Len(g.rows)
    <3>1. h \in After(g) /\ Len(h.rows) = Len(g.rows)
      BY <2>4
    <3>2. OnScreen(h, from, to)
      BY <2>4, <3>1 DEF OnScreen
    <3>3. EditRound(from, to, h, k) \in After(h) /\ Len(EditRound(from, to, h, k).rows) = Len(h.rows)
      BY <2>1, <3>2, EditRoundAfter
    <3>. QED
      BY <3>1, <3>3, EditsCompose
  <2>. QED
    BY <2>3, <2>4
<1>2. g \in Inv /\ g \in After(g) /\ g \in Leaves(g)
  BY NoEdit DEF After
<1>3. ASSUME NEW h \in Inv
      PROVE  h \in Leaves(g) /\ ((Shaped(g) => OnScreen(g, from, to)) => h \in After(g))
  BY <1>3 DEF After
<1>4. CASE ~CursorInRegion(g)
  BY <1>2, <1>4, Zenon DEF EditLines
<1>5. CASE CursorInRegion(g) /\ panics
  <2>1. EditLines(g, n, from, to) = once(g)
    BY <1>5, Zenon DEF EditLines
  <2>2. once(g) \in Inv
    BY <1>1, <1>2, Zenon DEF EditRound
  <2>. HIDE DEF Inv, once
  <2>. QED
    BY <1>3, <2>1, <2>2
<1>6. CASE CursorInRegion(g) /\ ~panics
  <2>1. EditLines(g, n, from, to) = CarriageReturn(many)
    BY <1>6, Zenon DEF EditLines
  <2>2. many = EditingLines!RoundsOf(from, to, g, count)
    BY Zenon DEF Repeat, EditingLines!RoundsOf, EditRound
  <2>3. count \in Nat
    <3>1. g.bottom \in Nat /\ g.cursor.row \in Nat
      BY GridParts DEF Grids
    <3>2. g.cursor.row <= g.bottom
      BY <1>6 DEF CursorInRegion
    <3>. QED
      BY <3>1, <3>2 DEF Less
  <2>. HIDE DEF Inv, many, count
  <2>4. many \in Inv
    BY <1>1, <1>2, <2>2, <2>3, EditingLines!RoundsIn
  <2>5. many \in Leaves(g) /\ ((Shaped(g) => OnScreen(g, from, to)) => many \in After(g))
    BY <1>3, <2>4
  <2>6. many \in Grids
    BY <2>5, LeavesGrids
  <2>7. CarriageReturn(many) \in After(many) /\ CarriageReturn(many) \in Leaves(many)
    BY <2>6, CarriageReturnAfter DEF After
  <2>8. CarriageReturn(many) \in Leaves(g)
    BY <2>5, <2>7, LeavesCompose
  <2>9. many \in After(g) => CarriageReturn(many) \in After(g)
    BY <2>7, EditsCompose
  <2>. QED
    BY <2>1, <2>5, <2>8, <2>9
<1>. QED
  BY <1>4, <1>5, <1>6

-----------------------------------------------------------------------------
(* Writing. *)

\* The screen `h` is `g` with other rows, and as many.
RowsOnly(g, h) ==
    /\ h \in After(g) /\ Len(h.rows) = Len(g.rows) /\ h.next = g.next
    /\ h.cursor = g.cursor /\ h.top = g.top /\ h.bottom = g.bottom

\* Rows of the same types and widths leave the screen in shape.
LEMMA RowsReplaced ==
    ASSUME NEW g \in Grids, NEW rows \in RowsBelow(g.next), Len(rows) = Len(g.rows),
           \A cols : g.rows \in Seq(WideRows(g.next, cols)) => rows \in Seq(WideRows(g.next, cols))
    PROVE  RowsOnly(g, [g EXCEPT !.rows = rows])
<1>1. PICK n \in Nat : g \in GridsAt(n)
  BY DEF Grids
<1>2. g.next = n /\ g.size \in Sizes /\ g.rows \in RowsBelow(n)
  BY <1>1, GridParts
<1>. DEFINE h == [g EXCEPT !.rows = rows]
<1>3. /\ h \in GridsAt(n) /\ h.size = g.size /\ h.scrollback = g.scrollback /\ h.pending = g.pending
      /\ h.rows = rows /\ h.cursor = g.cursor /\ h.top = g.top /\ h.bottom = g.bottom
      /\ h.next = g.next
  BY <1>1, <1>2 DEF GridsAt
<1>. HIDE DEF h
<1>4. Shaped(g) => Shaped(h)
  <2>1. Rectangle(g.rows, g.size) <=> Len(g.rows) = g.size.rows /\ g.rows \in Seq(WideRows(n, g.size.cols))
    BY <1>2, Rectangular
  <2>2. Rectangle(rows, g.size) <=> Len(rows) = g.size.rows /\ rows \in Seq(WideRows(n, g.size.cols))
    BY <1>2, Rectangular
  <2>. QED
    BY <1>2, <1>3, <2>1, <2>2 DEF Shaped
<1>5. h \in After(g)
  BY <1>2, <1>3, <1>4, InAfter
<1>. QED
  BY <1>3, <1>5 DEF RowsOnly, h

\* A row replaced by one as wide changes the rows alone.
LEMMA RowReplaced ==
    ASSUME NEW g \in Grids, NEW at \in Int, NEW x,
           at \in 1 .. Len(g.rows) => x \in RowBelow(g.next) /\ Len(x.cells) = Len(g.rows[at].cells)
    PROVE  RowsOnly(g, [g EXCEPT !.rows = [g.rows EXCEPT ![at] = x]])
<1>. DEFINE rows == [g.rows EXCEPT ![at] = x]
<1>1. g.rows \in Seq(RowBelow(g.next))
  BY GridParts DEF Grids, RowsBelow
<1>2. rows \in Seq(RowBelow(g.next)) /\ Len(rows) = Len(g.rows)
  BY <1>1, RowChanged
<1>3. ASSUME NEW cols, g.rows \in Seq(WideRows(g.next, cols)) PROVE rows \in Seq(WideRows(g.next, cols))
  <2>1. at \in 1 .. Len(g.rows) => x \in WideRows(g.next, cols)
    <3>1. at \in 1 .. Len(g.rows) => g.rows[at] \in WideRows(g.next, cols)
      BY <1>3
    <3>. QED
      BY <3>1 DEF WideRows
  <2>. QED
    BY <1>3, <2>1, RowChanged
<1>. HIDE DEF rows
<1>4. RowsOnly(g, [g EXCEPT !.rows = rows])
  BY <1>2, <1>3, RowsReplaced DEF RowsBelow
<1>. QED
  BY <1>4 DEF rows

\* Other cells in one row, and as many.
LEMMA CellsReplaced ==
    ASSUME NEW g \in Grids, NEW at \in Int, NEW cells,
           at \in 1 .. Len(g.rows) => cells \in Seq(Cells) /\ Len(cells) = Len(g.rows[at].cells)
    PROVE  RowsOnly(g, [g EXCEPT !.rows[at].cells = cells])
<1>. DEFINE x == [g.rows[at] EXCEPT !.cells = cells]
<1>1. g.rows \in Seq(RowBelow(g.next))
  BY GridParts DEF Grids, RowsBelow
<1>2. at \in 1 .. Len(g.rows) => x \in RowBelow(g.next) /\ Len(x.cells) = Len(g.rows[at].cells)
  <2>1. at \in 1 .. Len(g.rows) => g.rows[at] \in RowBelow(g.next)
    BY <1>1
  <2>. QED
    BY <2>1 DEF RowBelow
<1>. HIDE DEF x
<1>3. RowsOnly(g, [g EXCEPT !.rows = [g.rows EXCEPT ![at] = x]])
  BY <1>2, RowReplaced
<1>. QED
  BY <1>3 DEF x

\* The cells of a row, written one by one.
LEMMA EachCellReplaced ==
    ASSUME NEW g \in Grids, NEW at \in Int, NEW cells,
           at \in 1 .. Len(g.rows) => cells \in [DOMAIN g.rows[at].cells -> Cells]
    PROVE  RowsOnly(g, [g EXCEPT !.rows[at].cells = cells])
<1>1. g.rows \in Seq(RowBelow(g.next))
  BY GridParts DEF Grids, RowsBelow
<1>2. at \in 1 .. Len(g.rows) => cells \in Seq(Cells) /\ Len(cells) = Len(g.rows[at].cells)
  <2>1. SUFFICES ASSUME at \in 1 .. Len(g.rows)
                 PROVE  cells \in Seq(Cells) /\ Len(cells) = Len(g.rows[at].cells)
    OBVIOUS
  <2>2. g.rows[at] \in RowBelow(g.next)
    BY <1>1, <2>1
  <2>3. g.rows[at].cells \in Seq(Cells)
    BY <2>2 DEF RowBelow
  <2>4. DOMAIN g.rows[at].cells = 1 .. Len(g.rows[at].cells) /\ Len(g.rows[at].cells) \in Nat
    BY <2>3
  <2>. QED
    BY <2>1, <2>4
<1>. QED
  BY <1>2, CellsReplaced

\* The cell that is read is a cell.
LEMMA CellOf ==
    ASSUME NEW g \in Grids, NEW at \in 1 .. Len(g.rows), NEW c \in DOMAIN g.rows[at].cells
    PROVE  g.rows[at].cells[c] \in Cells
<1>1. g.rows \in Seq(RowBelow(g.next))
  BY GridParts DEF Grids, RowsBelow
<1>2. g.rows[at] \in RowBelow(g.next)
  BY <1>1
<1>3. g.rows[at].cells \in Seq(Cells)
  BY <1>2 DEF RowBelow
<1>. QED
  BY <1>3

\* A row is filled from one column to another.
LEMMA FillRowAfter ==
    ASSUME NEW g \in Grids, NEW row \in Nat, NEW from, NEW upto, NEW cell \in Cells
    PROVE  RowsOnly(g, FillRow(g, row, from, upto, cell))
<1>1. CASE row >= Len(g.rows)
  BY <1>1, NoEdit DEF FillRow, RowsOnly
<1>2. CASE ~(row >= Len(g.rows))
  <2>. DEFINE at == row + 1
              cells == [c \in DOMAIN g.rows[at].cells |->
                          IF from < c /\ c <= upto THEN cell ELSE g.rows[at].cells[c]]
  <2>1. at \in 1 .. Len(g.rows) => cells \in [DOMAIN g.rows[at].cells -> Cells]
    BY CellOf
  <2>2. FillRow(g, row, from, upto, cell) = [g EXCEPT !.rows[at].cells = cells]
    BY <1>2 DEF FillRow
  <2>. HIDE DEF cells
  <2>3. at \in Int
    OBVIOUS
  <2>. HIDE DEF at
  <2>. QED
    BY <2>1, <2>2, <2>3, EachCellReplaced
<1>. QED
  BY <1>1, <1>2

\* Inserting or deleting characters changes the cells of one row.
LEMMA ShiftCellsAfter ==
    ASSUME NEW g \in Grids, NEW by \in Int, EraseCell \in Cells
    PROVE  RowsOnly(g, ShiftCells(g, by))
<1>1. g.cursor.row \in Nat /\ g.cursor.col \in Nat /\ Len(g.rows) \in Nat
  BY GridParts DEF Grids, RowsBelow
<1>2. CASE g.cursor.row >= Len(g.rows)
  BY <1>2, NoEdit DEF ShiftCells, RowsOnly
<1>3. CASE ~(g.cursor.row >= Len(g.rows))
  <2>. DEFINE at == g.cursor.row + 1
              old == g.rows[at].cells
              n == IF by < 0 THEN -by ELSE by
              moved(c) ==
                 CASE c <= g.cursor.col -> old[c]
                   [] c > g.cursor.col /\ by >= 0 /\ c > g.cursor.col + n -> old[c - n]
                   [] c > g.cursor.col /\ by < 0 /\ c + n <= Len(old)   -> old[c + n]
                   [] OTHER -> EraseCell
              cells == [c \in DOMAIN old |-> moved(c)]
  <2>1. at \in 1 .. Len(g.rows)
    BY <1>1, <1>3
  <2>2. DOMAIN old = 1 .. Len(old) /\ Len(old) \in Nat /\ \A c \in 1 .. Len(old) : old[c] \in Cells
    <3>1. g.rows \in Seq(RowBelow(g.next))
      BY GridParts DEF Grids, RowsBelow
    <3>2. g.rows[at] \in RowBelow(g.next)
      BY <2>1, <3>1
    <3>3. old \in Seq(Cells)
      BY <3>2 DEF RowBelow
    <3>. HIDE DEF old
    <3>. QED
      BY <3>3
  <2>3. ShiftCells(g, by) = [g EXCEPT !.rows[at].cells = cells]
    BY <1>3, Zenon DEF ShiftCells
  <2>. HIDE DEF at, old
  <2>4. ASSUME NEW c \in DOMAIN old PROVE moved(c) \in Cells
    <3>1. n \in Nat /\ c \in 1 .. Len(old) /\ (by < 0 => n > 0)
      BY <2>2
    <3>2. CASE c <= g.cursor.col
      <4>1. ~(c > g.cursor.col) /\ old[c] \in Cells
        BY <1>1, <2>2, <3>1, <3>2
      <4>. QED
        BY <3>2, <4>1, Zenon
    <3>3. CASE c > g.cursor.col /\ by >= 0 /\ c > g.cursor.col + n
      <4>1. c - n \in 1 .. Len(old) /\ ~(c <= g.cursor.col)
        BY <1>1, <3>1, <3>3
      <4>. QED
        BY <2>2, <3>3, <4>1
    <3>4. CASE c > g.cursor.col /\ by < 0 /\ c + n <= Len(old)
      <4>1. c + n \in 1 .. Len(old) /\ ~(c <= g.cursor.col) /\ ~(by >= 0)
        BY <1>1, <3>1, <3>4
      <4>. QED
        BY <2>2, <3>4, <4>1
    <3>5. CASE ~(c <= g.cursor.col) /\ ~(c > g.cursor.col /\ by >= 0 /\ c > g.cursor.col + n)
               /\ ~(c > g.cursor.col /\ by < 0 /\ c + n <= Len(old))
      BY <3>5, Zenon
    <3>. QED
      BY <3>2, <3>3, <3>4, <3>5
  <2>5. cells \in [DOMAIN old -> Cells]
    BY <2>4
  <2>. HIDE DEF cells
  <2>. QED
    BY <1>1, <2>1, <2>3, <2>5, EachCellReplaced DEF old
<1>. QED
  BY <1>2, <1>3

\* Rows are filled from one to another.
LEMMA FillRowsAfter ==
    ASSUME NEW g \in Grids, NEW from, NEW upto, NEW cell \in Cells
    PROVE  RowsOnly(g, FillRows(g, from, upto, cell))
<1>. DEFINE blank(r) == Filled(g.rows[r], cell)
            new(r) == IF from < r /\ r <= upto THEN blank(r) ELSE g.rows[r]
            rows == [r \in DOMAIN g.rows |-> new(r)]
<1>1. /\ g.rows \in Seq(RowBelow(g.next)) /\ Len(g.rows) \in Nat /\ DOMAIN g.rows = 1 .. Len(g.rows)
  BY GridParts DEF Grids, RowsBelow
<1>2. ASSUME NEW r \in 1 .. Len(g.rows)
      PROVE  new(r) \in RowBelow(g.next) /\ Len(new(r).cells) = Len(g.rows[r].cells)
  <2>1. g.rows[r] \in RowBelow(g.next)
    BY <1>1
  <2>2. [c \in DOMAIN g.rows[r].cells |-> cell] \in Seq(Cells)
        /\ Len([c \in DOMAIN g.rows[r].cells |-> cell]) = Len(g.rows[r].cells)
    <3>1. g.rows[r].cells \in Seq(Cells)
      BY <2>1 DEF RowBelow
    <3>2. DOMAIN g.rows[r].cells = 1 .. Len(g.rows[r].cells) /\ Len(g.rows[r].cells) \in Nat
      BY <3>1
    <3>. QED
      BY <3>2
  <2>3. blank(r) \in RowBelow(g.next) /\ Len(blank(r).cells) = Len(g.rows[r].cells)
    BY <2>1, <2>2 DEF RowBelow, Filled
  <2>. HIDE DEF blank
  <2>. QED
    BY <2>1, <2>3
<1>3. rows \in RowsBelow(g.next) /\ Len(rows) = Len(g.rows)
  <2>. HIDE DEF new
  <2>. QED
    BY <1>1, <1>2 DEF RowsBelow
<1>4. ASSUME NEW cols, g.rows \in Seq(WideRows(g.next, cols)) PROVE rows \in Seq(WideRows(g.next, cols))
  <2>1. ASSUME NEW r \in 1 .. Len(g.rows) PROVE new(r) \in WideRows(g.next, cols)
    <3>1. g.rows[r] \in WideRows(g.next, cols)
      BY <1>4
    <3>2. new(r) \in RowBelow(g.next) /\ Len(new(r).cells) = Len(g.rows[r].cells)
      BY <1>2
    <3>. HIDE DEF new
    <3>. QED
      BY <3>1, <3>2 DEF WideRows
  <2>. HIDE DEF new
  <2>. QED
    BY <1>1, <2>1
<1>5. FillRows(g, from, upto, cell) = [g EXCEPT !.rows = rows]
  BY DEF FillRows
<1>. HIDE DEF rows
<1>. QED
  BY <1>3, <1>4, <1>5, RowsReplaced

\* Other rows, and others again.
LEMMA RowsOnlyCompose ==
    ASSUME NEW g \in Grids, NEW h, NEW k, RowsOnly(g, h), RowsOnly(h, k)
    PROVE  RowsOnly(g, k)
<1>1. k \in After(g)
  BY EditsCompose DEF RowsOnly
<1>. QED
  BY <1>1 DEF RowsOnly

\* A change of the rows alone, each as wide as before, is an edit.
LEMMA RowsOnlyAfter ==
    ASSUME NEW g \in Grids, NEW h, RowsOnly(g, h)
    PROVE  h \in After(g) /\ h \in Grids
  BY AfterGrids DEF RowsOnly

\* Erasing in a line changes the cells of one row.
LEMMA EraseInLineAfter ==
    ASSUME NEW g \in Grids, NEW mode \in EraseModes, NEW cell \in Cells
    PROVE  RowsOnly(g, EraseInLine(g, mode, cell))
<1>1. g.cursor.row \in Nat
  BY GridParts DEF Grids
<1>2. CASE mode = "ToEnd"
  BY <1>1, <1>2, FillRowAfter DEF EraseInLine
<1>3. CASE mode = "ToStart"
  <2>1. mode # "ToEnd"
    BY <1>3
  <2>. QED
    BY <1>1, <1>3, <2>1, FillRowAfter DEF EraseInLine
<1>4. CASE mode = "All"
  <2>1. mode # "ToEnd" /\ mode # "ToStart"
    BY <1>4
  <2>. QED
    BY <1>1, <1>4, <2>1, FillRowAfter DEF EraseInLine
<1>. QED
  BY <1>2, <1>3, <1>4 DEF EraseModes

\* Erasing in the display changes the cells of its rows.
LEMMA EraseInDisplayAfter ==
    ASSUME NEW g \in Grids, NEW mode \in EraseModes, NEW cell \in Cells
    PROVE  RowsOnly(g, EraseInDisplay(g, mode, cell))
<1>. DEFINE h == EraseInLine(g, mode, cell)
<1>1. RowsOnly(g, h) /\ h \in Grids
  BY EraseInLineAfter, RowsOnlyAfter
<1>. HIDE DEF h
<1>2. CASE mode = "ToEnd"
  <2>1. EraseInDisplay(g, mode, cell) = FillRows(h, g.cursor.row + 1, Len(g.rows), cell)
    BY <1>2, Zenon DEF EraseInDisplay, h
  <2>. QED
    BY <1>1, <2>1, FillRowsAfter, RowsOnlyCompose
<1>3. CASE mode = "ToStart"
  <2>1. mode # "ToEnd"
    BY <1>3
  <2>2. EraseInDisplay(g, mode, cell) = FillRows(h, 0, g.cursor.row, cell)
    BY <1>3, <2>1, Zenon DEF EraseInDisplay, h
  <2>. QED
    BY <1>1, <2>2, FillRowsAfter, RowsOnlyCompose
<1>4. CASE mode = "All"
  <2>1. mode # "ToEnd" /\ mode # "ToStart"
    BY <1>4
  <2>. QED
    BY <1>4, <2>1, FillRowsAfter DEF EraseInDisplay
<1>. QED
  BY <1>2, <1>3, <1>4 DEF EraseModes

\* What an erase writes is a cell.
LEMMA EraseCellType ==
    ASSUME pen \in Styles
    PROVE  EraseCell \in Cells
  BY DEF EraseCell, EraseStyle, Cell, Cells, Contents, Styles

\* A grapheme is put in the cells under the cursor.
LEMMA PutAfter ==
    ASSUME NEW g \in Grids, NEW content \in Contents, pen \in Styles
    PROVE  RowsOnly(g, Put(g, content))
<1>. DEFINE at == g.cursor.row + 1
            col == g.cursor.col + 1
            cells == [c \in DOMAIN g.rows[at].cells |->
                        CASE c = col -> Cell(content, pen)
                          [] c = col + 1 /\ Width(content) = 2 -> Spacer(pen)
                          [] OTHER -> g.rows[at].cells[c]]
<1>1. at \in Int /\ col \in Int
  BY GridParts DEF Grids
<1>2. Cell(content, pen) \in Cells /\ Spacer(pen) \in Cells
  BY SpacerCell DEF Cell, Cells
<1>3. Put(g, content) = [g EXCEPT !.rows[at].cells = cells]
  BY DEF Put
<1>. HIDE DEF at, col
<1>4. at \in 1 .. Len(g.rows) => cells \in [DOMAIN g.rows[at].cells -> Cells]
  <2>1. ASSUME at \in 1 .. Len(g.rows), NEW c \in DOMAIN g.rows[at].cells PROVE cells[c] \in Cells
    <3>1. g.rows[at].cells[c] \in Cells
      BY <2>1, CellOf
    <3>2. CASE c = col
      <4>1. c # col + 1
        BY <1>1, <3>2
      <4>. QED
        BY <1>2, <2>1, <3>2, <4>1, Zenon
    <3>3. CASE c # col
      BY <1>2, <2>1, <3>1, <3>3
    <3>. QED
      BY <3>2, <3>3
  <2>2. cells = [c \in DOMAIN g.rows[at].cells |-> cells[c]]
    OBVIOUS
  <2>. HIDE DEF cells
  <2>. QED
    BY <2>1, <2>2
<1>. HIDE DEF cells
<1>. QED
  BY <1>1, <1>3, <1>4, EachCellReplaced

\* A grapheme with a mark attached is a grapheme.
LEMMA MarkedContent ==
    ASSUME NEW content \in Contents
    PROVE  WithMark(content) \in Contents
<1>1. CASE content = " "
  BY <1>1, Zenon DEF WithMark, Contents
<1>2. CASE content = "a"
  BY <1>2 DEF WithMark, Contents
<1>3. CASE content = "W"
  BY <1>3 DEF WithMark, Contents
<1>4. CASE content \notin {" ", "a", "W"}
  <2>1. content # " " /\ content # "a" /\ content # "W"
    BY <1>4, Zenon
  <2>. QED
    BY <2>1, Zenon DEF WithMark
<1>. QED
  BY <1>1, <1>2, <1>3, <1>4, Zenon

\* A mark joins the grapheme before the cursor.
LEMMA AttachCombiningAfter ==
    ASSUME NEW g \in Grids
    PROVE  RowsOnly(g, AttachCombining(g))
<1>. DEFINE target == IF g.cursor.wrap THEN g.cursor.col ELSE g.cursor.col - 1
            at == g.cursor.row + 1
            old == g.rows[at].cells
            mark == [old[target + 1] EXCEPT !.c = WithMark(old[target + 1].c)]
            cells == [old EXCEPT ![target + 1] = mark]
<1>1. at \in Int /\ target \in Int
  <2>1. g.cursor.row \in Nat /\ g.cursor.col \in Nat
    BY GridParts DEF Grids
  <2>2. target = g.cursor.col \/ target = g.cursor.col - 1
    BY Zenon
  <2>. QED
    BY <2>1, <2>2
<1>2. CASE target < 0
  BY <1>2, NoEdit DEF AttachCombining, RowsOnly
<1>3. CASE ~(target < 0)
  <2>1. AttachCombining(g) = [g EXCEPT !.rows[at].cells = cells]
    BY <1>3, Zenon DEF AttachCombining
  <2>. HIDE DEF at, target
  <2>2. at \in 1 .. Len(g.rows) => cells \in Seq(Cells) /\ Len(cells) = Len(g.rows[at].cells)
    <3>1. SUFFICES ASSUME at \in 1 .. Len(g.rows)
                   PROVE  cells \in Seq(Cells) /\ Len(cells) = Len(old)
      OBVIOUS
    <3>2. g.rows \in Seq(RowBelow(g.next))
      BY GridParts DEF Grids, RowsBelow
    <3>3. g.rows[at] \in RowBelow(g.next)
      BY <3>1, <3>2
    <3>4. old \in Seq(Cells)
      BY <3>3 DEF RowBelow
    <3>. HIDE DEF old
    <3>5. target + 1 \in 1 .. Len(old) => mark \in Cells
      <4>1. target + 1 \in 1 .. Len(old) => old[target + 1] \in Cells
        BY <3>4
      <4>2. target + 1 \in 1 .. Len(old) => WithMark(old[target + 1].c) \in Contents
        BY <4>1, MarkedContent DEF Cells
      <4>. QED
        BY <4>1, <4>2 DEF Cells
    <3>. HIDE DEF mark
    <3>. QED
      BY <1>1, <3>4, <3>5, RowChanged
  <2>. HIDE DEF cells
  <2>. QED
    BY <1>1, <2>1, <2>2, CellsReplaced
<1>. QED
  BY <1>2, <1>3

\* The cursor comes to rest inside.
LEMMA AdvanceAfter ==
    ASSUME NEW g \in Grids, NEW w \in Nat, ~Empty(g.size), autowrap \in BOOLEAN
    PROVE  Advance(g, w) \in After(g)
<1>1. PICK n \in Nat : g \in GridsAt(n)
  BY DEF Grids
<1>2. /\ g.cursor.row \in Nat /\ g.cursor.col \in Nat /\ g.size.rows \in Nat /\ g.size.cols \in Nat
      /\ g.size.cols > 0 /\ g.next = n
  BY <1>1, GridParts DEF Empty
<1>3. CASE g.cursor.col + w < g.size.cols
  <2>1. Shaped(g) => Within(At(g.cursor.row, g.cursor.col + w), g.size)
    BY <1>2, <1>3 DEF Shaped, Within, At, Minus
  <2>2. MoveTo(g, g.cursor.row, g.cursor.col + w) \in After(g)
    BY <1>2, <2>1, MoveToAfter
  <2>. QED
    BY <1>3, <2>2 DEF Advance
<1>4. CASE ~(g.cursor.col + w < g.size.cols)
  <2>. DEFINE c == [row |-> g.cursor.row, col |-> g.size.cols - 1, wrap |-> autowrap]
              h == [g EXCEPT !.cursor = c]
  <2>1. c \in Cursors
    BY <1>2 DEF Cursors
  <2>2. Within(g.cursor, g.size) => Within(c, g.size)
    BY <1>2 DEF Within, Minus
  <2>3. Advance(g, w) = h
    BY <1>4 DEF Advance
  <2>. HIDE DEF c
  <2>4. /\ h \in GridsAt(n) /\ h.size = g.size /\ h.scrollback = g.scrollback /\ h.pending = g.pending
        /\ h.rows = g.rows /\ h.cursor = c /\ h.top = g.top /\ h.bottom = g.bottom
    BY <1>1, <2>1 DEF GridsAt
  <2>. HIDE DEF h
  <2>5. Shaped(g) => Shaped(h)
    BY <2>2, <2>4 DEF Shaped
  <2>. QED
    BY <1>2, <2>3, <2>4, <2>5, InAfter
<1>. QED
  BY <1>3, <1>4

\* The line goes on in the next row, which comes in with the line's id.
LEMMA AutoWrapAfter ==
    ASSUME NEW g \in Grids
    PROVE  AutoWrap(g) \in After(g)
<1>. DEFINE row == g.cursor.row
            id == g.rows[row + 1].id
            marked == [g.rows[row + 1] EXCEPT !.wrapped = TRUE]
            h == [g EXCEPT !.rows = [g.rows EXCEPT ![row + 1] = marked]]
<1>1. /\ row \in Nat /\ g.bottom \in Nat /\ g.size.rows \in Nat /\ g.size.cols \in Nat
      /\ Len(g.rows) \in Nat /\ g.rows \in Seq(RowBelow(g.next))
  BY GridParts DEF Grids, RowsBelow
<1>2. CASE row >= Len(g.rows)
  <2>1. ~(row < Len(g.rows)) /\ ~(row + 1 < Len(g.rows))
    BY <1>1, <1>2
  <2>2. AutoWrap(g) = g
    BY <1>2, <2>1, Zenon DEF AutoWrap
  <2>. QED
    BY <2>2, NoEdit
<1>3. CASE ~(row >= Len(g.rows))
  <2>1. row < Len(g.rows) /\ row + 1 \in 1 .. Len(g.rows) /\ row + 1 \in Int
    BY <1>1, <1>3
  <2>2. g.rows[row + 1] \in RowBelow(g.next)
    BY <1>1, <2>1
  <2>3. marked \in RowBelow(g.next) /\ Len(marked.cells) = Len(g.rows[row + 1].cells)
        /\ id \in 0 .. g.next - 1
    BY <2>2 DEF RowBelow
  <2>. HIDE DEF marked, id
  <2>4. RowsOnly(g, h)
    <3>. HIDE DEF row
    <3>. QED
      BY <2>1, <2>3, RowReplaced
  <2>5. h \in Grids /\ h \in After(g) /\ h.size = g.size /\ h.cursor = g.cursor
        /\ Len(h.rows) = Len(g.rows) /\ h.next = g.next
    BY <2>4, RowsOnlyAfter, AfterGrids DEF RowsOnly
  <2>6. h = [g EXCEPT !.rows[row + 1].wrapped = TRUE]
    BY DEF marked
  <2>. HIDE DEF h
  <2>7. CASE row = g.bottom
    <3>. DEFINE k == ScrollUpOnce(h, id)
    <3>1. AutoWrap(g) = MoveTo(k, row, 0)
      BY <2>1, <2>6, <2>7, <1>3, Zenon DEF AutoWrap, id
    <3>2. k \in After(h) /\ k.cursor = h.cursor
      <4>1. id \in (0 .. h.next - 1) \cup {Fresh}
        BY <2>3, <2>5
      <4>. QED
        BY <2>5, <4>1, ScrollUpAfter
    <3>. HIDE DEF k
    <3>3. k \in Grids /\ k.size = g.size
      BY <2>5, <3>2, AfterGrids
    <3>4. Shaped(k) => Within(At(row, 0), k.size)
      BY <1>1, <2>5, <3>2, <3>3 DEF Shaped, Within, At, Minus
    <3>5. MoveTo(k, row, 0) \in After(k)
      BY <1>1, <3>3, <3>4, MoveToAfter
    <3>6. MoveTo(k, row, 0) \in After(h)
      BY <2>5, <3>2, <3>5, EditsCompose
    <3>. QED
      BY <2>5, <3>1, <3>6, EditsCompose
  <2>8. CASE row # g.bottom /\ row + 1 < Len(g.rows)
    <3>. DEFINE next == [[h.rows[row + 2] EXCEPT !.id = id] EXCEPT !.wrapped = FALSE]
                k == [h EXCEPT !.rows = [h.rows EXCEPT ![row + 2] = next]]
    <3>1. k = [h EXCEPT !.rows[row + 2].id = id, !.rows[row + 2].wrapped = FALSE]
      <4>1. h.rows \in Seq(RowBelow(h.next)) /\ row + 2 \in 1 .. Len(h.rows)
        BY <1>1, <2>5, <2>8, GridParts DEF Grids, RowsBelow
      <4>2. \A x, y : [[h.rows EXCEPT ![row + 2] = x] EXCEPT ![row + 2] = y] = [h.rows EXCEPT ![row + 2] = y]
                      /\ [h.rows EXCEPT ![row + 2] = x][row + 2] = x
        BY <4>1
      <4>3. \A x : [h EXCEPT !.rows = x].rows = x
                   /\ \A y : [[h EXCEPT !.rows = x] EXCEPT !.rows = y] = [h EXCEPT !.rows = y]
        <5>1. PICK n \in Nat : h \in GridsAt(n)
          BY <2>5 DEF Grids
        <5>. QED
          BY <5>1, Zenon DEF GridsAt
      <4>. QED
        BY <4>2, <4>3, ZenonT(60)
    <3>2. AutoWrap(g) = MoveTo(k, row + 1, 0)
      BY <2>1, <2>6, <2>8, <1>3, <3>1, Zenon DEF AutoWrap, id
    <3>3. row + 2 \in Int /\ (row + 2 \in 1 .. Len(h.rows) =>
              next \in RowBelow(h.next) /\ Len(next.cells) = Len(h.rows[row + 2].cells))
      <4>1. row + 2 \in 1 .. Len(h.rows)
        BY <1>1, <2>5, <2>8
      <4>2. h.rows[row + 2] \in RowBelow(h.next)
        BY <2>5, <4>1, GridParts, SMTT(40) DEF Grids, RowsBelow
      <4>3. ASSUME NEW x \in RowBelow(h.next)
            PROVE  LET y == [[x EXCEPT !.id = id] EXCEPT !.wrapped = FALSE]
                   IN  y \in RowBelow(h.next) /\ y.cells = x.cells
        BY <2>3, <2>5 DEF RowBelow
      <4>4. next \in RowBelow(h.next) /\ next.cells = h.rows[row + 2].cells
        BY <4>2, <4>3, Zenon
      <4>. HIDE DEF next
      <4>. QED
        BY <1>1, <4>4
    <3>. HIDE DEF next
    <3>4. RowsOnly(h, k)
      <4>. HIDE DEF row
      <4>. QED
        BY <2>5, <3>3, RowReplaced
    <3>5. k \in After(h) /\ k \in Grids /\ k.size = g.size /\ Len(k.rows) = Len(g.rows)
      BY <2>5, <3>4, RowsOnlyAfter, AfterGrids DEF RowsOnly
    <3>. HIDE DEF k
    <3>6. Shaped(k) => Within(At(row + 1, 0), k.size)
      BY <1>1, <2>8, <3>5 DEF Shaped, Within, At, Rectangle, Minus
    <3>7. MoveTo(k, row + 1, 0) \in After(k)
      BY <1>1, <3>5, <3>6, MoveToAfter
    <3>8. MoveTo(k, row + 1, 0) \in After(h)
      BY <2>5, <3>5, <3>7, EditsCompose
    <3>. QED
      BY <2>5, <3>2, <3>8, EditsCompose
  <2>9. CASE row # g.bottom /\ ~(row + 1 < Len(g.rows))
    <3>1. AutoWrap(g) = h
      BY <2>1, <2>6, <2>9, <1>3, Zenon DEF AutoWrap
    <3>. QED
      BY <2>5, <3>1
  <2>. QED
    BY <2>7, <2>8, <2>9
<1>. QED
  BY <1>2, <1>3

\* What a program prints is a mark or a grapheme of one or two columns.
LEMMA PrintWidth ==
    ASSUME NEW content \in {"a", "W", "+"}
    PROVE  Width(content) \in 0 .. 2 /\ (Width(content) > 0 => content \in Contents)
<1>1. CASE content = "a"
  BY <1>1 DEF Width, Contents
<1>2. CASE content = "W"
  BY <1>2 DEF Width, Contents
<1>3. CASE content = "+"
  BY <1>3 DEF Width, Contents
<1>. QED
  BY <1>1, <1>2, <1>3

\* Printing a character is an edit, wherever the cursor is.
LEMMA PrintOneAfter ==
    ASSUME NEW g \in Grids, NEW content \in {"a", "W", "+"}, pen \in Styles, autowrap \in BOOLEAN
    PROVE  PrintOne(g, content) \in After(g)
<1>. DEFINE w == Width(content)
            no_room == g.cursor.wrap \/ g.cursor.col + w > g.size.cols
<1>1. w \in Nat /\ (w > 0 => content \in Contents)
  BY PrintWidth
<1>2. /\ g.cursor.row \in Nat /\ g.cursor.col \in Nat /\ g.size.rows \in Nat /\ g.size.cols \in Nat
  BY GridParts DEF Grids
<1>3. ASSUME NEW h \in After(g), w > 0, ~Empty(g.size)
      PROVE  Advance(Put(h, content), w) \in After(g)
  <2>. DEFINE k == Put(h, content)
  <2>1. h \in Grids /\ h.size = g.size
    BY AfterGrids
  <2>2. RowsOnly(h, k) 
    BY <1>1, <1>3, <2>1, PutAfter
  <2>. HIDE DEF k
  <2>3. k \in After(h) /\ k \in Grids /\ k.size = g.size
    BY <2>1, <2>2, RowsOnlyAfter, AfterGrids
  <2>4. Advance(k, w) \in After(k)
    BY <1>1, <1>3, <2>3, AdvanceAfter
  <2>5. Advance(k, w) \in After(h)
    BY <2>1, <2>3, <2>4, EditsCompose
  <2>. QED
    BY <2>5, EditsCompose DEF k
<1>4. CASE Empty(g.size)
  BY <1>4, NoEdit, Zenon DEF PrintOne
<1>5. CASE ~Empty(g.size) /\ w = 0
  <2>0. ~(w > 0)
    BY <1>5
  <2>1. PrintOne(g, content) = AttachCombining(g)
    BY <1>5, <2>0, Zenon DEF PrintOne
  <2>. QED
    BY <2>1, AttachCombiningAfter, RowsOnlyAfter
<1>6. CASE ~Empty(g.size) /\ w > 0 /\ ~no_room
  <2>1. ~(w = 0)
    BY <1>6
  <2>2. PrintOne(g, content) = Advance(Put(g, content), w)
    BY <1>6, <2>1, Zenon DEF PrintOne
  <2>3. g \in After(g)
    BY NoEdit
  <2>. QED
    BY <1>3, <1>6, <2>2, <2>3
<1>7. CASE ~Empty(g.size) /\ w > 0 /\ no_room /\ autowrap
  <2>1. ~(w = 0)
    BY <1>7
  <2>2. PrintOne(g, content) = Advance(Put(AutoWrap(g), content), w)
    BY <1>7, <2>1, Zenon DEF PrintOne
  <2>3. AutoWrap(g) \in After(g)
    BY AutoWrapAfter
  <2>. QED
    BY <1>3, <1>7, <2>2, <2>3
<1>8. CASE ~Empty(g.size) /\ w > 0 /\ no_room /\ ~autowrap /\ w <= g.size.cols
  <2>1. ~(w = 0) /\ g.size.cols - w \in Nat
    BY <1>1, <1>2, <1>8
  <2>2. PrintOne(g, content) = Advance(Put(MoveTo(g, g.cursor.row, g.size.cols - w), content), w)
    BY <1>8, <2>1, Zenon DEF PrintOne
  <2>3. Shaped(g) => Within(At(g.cursor.row, g.size.cols - w), g.size)
    BY <1>1, <1>2, <1>8 DEF Shaped, Within, At, Minus
  <2>4. MoveTo(g, g.cursor.row, g.size.cols - w) \in After(g)
    BY <1>2, <2>1, <2>3, MoveToAfter
  <2>. QED
    BY <1>3, <1>8, <2>2, <2>4
<1>9. CASE ~Empty(g.size) /\ w > 0 /\ no_room /\ ~autowrap /\ ~(w <= g.size.cols)
  <2>1. ~(w = 0)
    BY <1>9
  <2>2. PrintOne(g, content) = g
    BY <1>9, <2>1, Zenon DEF PrintOne
  <2>. QED
    BY <2>2, NoEdit
<1>10. w = 0 \/ w > 0
  BY <1>1
<1>. QED
  BY <1>4, <1>5, <1>6, <1>7, <1>8, <1>9, <1>10

-----------------------------------------------------------------------------
(* Reflow: the lines on the screen. *)

\* The bodies of the folds over rows.
RegroupRow(c, d, lines, row) == Regroup(lines, row)
FreezeOne(c, d, g, row) == FreezeRow(g, row)
PushLine(c, d, sb, line) == Pushed(sb, line)

Regrouping == INSTANCE LoopLemmas WITH Body <- RegroupRow
Freezing   == INSTANCE LoopLemmas WITH Body <- FreezeOne
Pushing    == INSTANCE LoopLemmas WITH Body <- PushLine

\* A row joins the line before it or begins one of its own id.
LEMMA RegroupType ==
    ASSUME NEW n \in Nat, NEW lines \in Seq(LineBelow(n)), NEW row \in RowBelow(n)
    PROVE  Regroup(lines, row) \in Seq(LineBelow(n))
<1>. DEFINE last == Len(lines)
            ends == ~row.wrapped
            text == PushCells(lines[last].text, row.cells, ends)
            longer == [lines[last] EXCEPT !.text = text]
            first == [id |-> row.id, text |-> PushCells(<< >>, row.cells, ends)]
<1>1. last \in Nat /\ row.id \in 0 .. n - 1 /\ row.cells \in Seq(Cells) /\ ends \in BOOLEAN
  BY DEF RowBelow
<1>. HIDE DEF ends
<1>2. CASE last > 0 /\ lines[last].id = row.id
  <2>1. lines[last] \in LineBelow(n)
    BY <1>1, <1>2
  <2>2. text \in Seq(Cells)
    <3>1. lines[last].text \in Seq(Cells)
      BY <2>1 DEF LineBelow
    <3>. HIDE DEF last
    <3>. QED
      BY <1>1, <3>1, PushCellsType
  <2>. HIDE DEF text
  <2>3. longer \in LineBelow(n)
    BY <2>1, <2>2 DEF LineBelow
  <2>4. Regroup(lines, row) = [lines EXCEPT ![last] = longer]
    BY <1>2, Zenon DEF Regroup, text, ends
  <2>. HIDE DEF longer
  <2>. QED
    BY <1>1, <2>3, <2>4, RowChanged
<1>3. CASE ~(last > 0 /\ lines[last].id = row.id)
  <2>1. Regroup(lines, row) = Append(lines, first)
    BY <1>3, Zenon DEF Regroup, ends
  <2>2. PushCells(<< >>, row.cells, ends) \in Seq(Cells)
    <3>0. << >> \in Seq(Cells)
      OBVIOUS
    <3>1. PICK none \in Seq(Cells) : none = << >>
      BY <3>0, Zenon
    <3>2. PushCells(none, row.cells, ends) \in Seq(Cells)
      BY <1>1, PushCellsType
    <3>. QED
      BY <3>1, <3>2
  <2>3. first \in LineBelow(n)
    BY <1>1, <2>2 DEF LineBelow
  <2>. HIDE DEF first
  <2>. QED
    BY <2>1, <2>3
<1>. QED
  BY <1>2, <1>3

\* A number below no id is the id of a line.
LEMMA HeadLine ==
    ASSUME NEW n \in Nat, NEW head \in HeadsBelow(n), head.id \in Nat
    PROVE  head \in LineBelow(n)
<1>1. NoLine.id = -1
  BY DEF NoLine
<1>. QED
  BY <1>1 DEF HeadsBelow

\* The lines rebuilt from the rows carry ids that were handed out.
LEMMA ActiveLinesType ==
    ASSUME NEW n \in Nat, NEW g \in GridsAt(n)
    PROVE  ActiveLines(g) \in Seq(LineBelow(n))
<1>1. g.rows \in Seq(RowBelow(n)) /\ g.pending \in HeadsBelow(n)
  BY GridParts DEF RowsBelow
<1>2. Len(g.rows) \in Nat /\ DOMAIN g.rows = 1 .. Len(g.rows)
      /\ \A k \in 1 .. Len(g.rows) : g.rows[k] \in RowBelow(n)
  BY <1>1
<1>3. HeadToRejoin(g) \in Seq(LineBelow(n))
  <2>1. CASE g.rows # << >> /\ g.pending.id = g.rows[1].id
    <3>1. g.rows[1] \in RowBelow(n)
      BY <1>1, <2>1
    <3>2. g.pending.id \in Nat
      BY <2>1, <3>1 DEF RowBelow
    <3>3. g.pending \in LineBelow(n)
      BY <1>1, <3>2, HeadLine
    <3>. QED
      BY <2>1, <3>3 DEF HeadToRejoin
  <2>2. CASE ~(g.rows # << >> /\ g.pending.id = g.rows[1].id)
    BY <2>2 DEF HeadToRejoin
  <2>. QED
    BY <2>1, <2>2
<1>4. ASSUME NEW lines \in Seq(LineBelow(n)), NEW k \in 1 .. Len(g.rows)
      PROVE  RegroupRow(0, 0, lines, g.rows[k]) \in Seq(LineBelow(n))
  BY <1>2, RegroupType DEF RegroupRow
<1>5. Regrouping!FoldOf(0, 0, HeadToRejoin(g), g.rows) \in Seq(LineBelow(n))
  <2>. DEFINE Inv == Seq(LineBelow(n))
  <2>. HIDE DEF Inv
  <2>1. HeadToRejoin(g) \in Inv /\ \A lines \in Inv, k \in 1 .. Len(g.rows) :
                                        RegroupRow(0, 0, lines, g.rows[k]) \in Inv
    BY <1>3, <1>4 DEF Inv
  <2>2. Regrouping!FoldOf(0, 0, HeadToRejoin(g), g.rows) \in Inv
    BY <1>2, <2>1, Regrouping!FoldIn
  <2>. QED
    BY <2>2 DEF Inv
<1>6. ActiveLines(g) = Regrouping!FoldOf(0, 0, HeadToRejoin(g), g.rows)
  BY Zenon DEF ActiveLines, Regrouping!FoldOf, RegroupRow, FoldLeft, MapThenFoldSet, Max,
               Regrouping!MapThenFoldSet, Regrouping!Greatest
<1>. QED
  BY <1>5, <1>6

\* Lines pushed one after the other.
LEMMA LinesPushed ==
    ASSUME NEW n \in Nat, NEW sb \in StoresBelow(n), NEW lines \in Seq(LineBelow(n))
    PROVE  FoldLeft(Pushed, sb, lines) \in StoresBelow(n)
<1>1. Len(lines) \in Nat /\ DOMAIN lines = 1 .. Len(lines)
      /\ \A k \in 1 .. Len(lines) : lines[k] \in LineBelow(n)
  OBVIOUS
<1>2. ASSUME NEW s \in StoresBelow(n), NEW k \in 1 .. Len(lines)
      PROVE  PushLine(0, 0, s, lines[k]) \in StoresBelow(n)
  BY <1>1, PushedType DEF PushLine
<1>3. Pushing!FoldOf(0, 0, sb, lines) \in StoresBelow(n)
  BY <1>1, <1>2, Pushing!FoldIn
<1>4. FoldLeft(Pushed, sb, lines) = Pushing!FoldOf(0, 0, sb, lines)
  BY Zenon DEF Pushing!FoldOf, PushLine, FoldLeft, MapThenFoldSet, Max,
               Pushing!MapThenFoldSet, Pushing!Greatest
<1>. QED
  BY <1>3, <1>4

\* Rows frozen one after the other.
LEMMA RowsFrozen ==
    ASSUME NEW n \in Nat, NEW g \in GridsAt(n), NEW rows \in Seq(RowBelow(n))
    PROVE  LET h == FoldLeft(FreezeRow, g, rows) IN
           /\ h \in GridsAt(n) /\ h.size = g.size
<1>. DEFINE Inv == {h \in GridsAt(n) : h.size = g.size}
<1>1. Len(rows) \in Nat /\ DOMAIN rows = 1 .. Len(rows)
      /\ \A k \in 1 .. Len(rows) : rows[k] \in RowBelow(n)
  OBVIOUS
<1>2. ASSUME NEW h \in Inv, NEW k \in 1 .. Len(rows)
      PROVE  FreezeOne(0, 0, h, rows[k]) \in Inv
  BY <1>1, FreezeRowType DEF FreezeOne
<1>3. g \in Inv
  OBVIOUS
<1>. HIDE DEF Inv
<1>4. Freezing!FoldOf(0, 0, g, rows) \in Inv
  BY <1>1, <1>2, <1>3, Freezing!FoldIn
<1>5. FoldLeft(FreezeRow, g, rows) = Freezing!FoldOf(0, 0, g, rows)
  BY Zenon DEF Freezing!FoldOf, FreezeOne, FoldLeft, MapThenFoldSet, Max,
               Freezing!MapThenFoldSet, Freezing!Greatest
<1>. QED
  BY <1>4, <1>5 DEF Inv

\* The display rows of a line, and where the anchored place is among them.
LEMMA ReflowedRowsType ==
    ASSUME NEW n \in Nat, NEW line \in LineBelow(n), NEW cols \in Nat
    PROVE  ReflowedRows(line, cols) \in Seq(WideRows(n, cols))
<1>. DEFINE rows == RenderRows(line.text, cols)
            new(k) == [id |-> line.id, wrapped |-> k < Len(rows), cells |-> rows[k]]
<1>1. line.id \in 0 .. n - 1 /\ line.text \in Seq(Cells)
  BY DEF LineBelow
<1>2. rows \in Seq(Seq(Cells)) /\ Len(rows) \in Nat
      /\ \A k \in 1 .. Len(rows) : Len(rows[k]) = cols
  <2>1. rows \in Seq(Seq(Cells)) /\ \A k \in 1 .. Len(rows) : Len(rows[k]) = cols
    BY <1>1, RenderRowsType, Zenon
  <2>. HIDE DEF rows
  <2>. QED
    BY <2>1
<1>3. ReflowedRows(line, cols) = [k \in DOMAIN rows |-> new(k)]
  BY DEF ReflowedRows
<1>. HIDE DEF rows
<1>4. ASSUME NEW k \in 1 .. Len(rows) PROVE new(k) \in WideRows(n, cols)
  <2>1. rows[k] \in Seq(Cells) /\ Len(rows[k]) = cols /\ (k < Len(rows)) \in BOOLEAN
    BY <1>2
  <2>. QED
    BY <1>1, <2>1 DEF WideRows, RowBelow
<1>5. DOMAIN rows = 1 .. Len(rows)
  BY <1>2
<1>. HIDE DEF new
<1>. QED
  BY <1>2, <1>3, <1>4, <1>5

\* An anchor at the end of a cell, or before the mark on it, is put on the screen.
LEMMA AnchorSpotType ==
    ASSUME NEW anchor, NEW text \in Seq(Cells), NEW cols \in Nat \ {0},
           \E k \in 0 .. Len(text) : EndsAt(text, k, OffsetIn(anchor, text))
    PROVE  AnchorSpot(anchor, text, cols) \in Cursors /\ AnchorSpot(anchor, text, cols).col <= cols - 1
<1>. DEFINE off    == OffsetIn(anchor, text)
            starts == ContinuationStarts(text, cols)
            passed == {k \in DOMAIN starts : ByteLen(SubSeq(text, 1, starts[k] - 1)) <= off}
            sub    == Cardinality(passed)
            upto   == CHOOSE k \in 0 .. Len(text) : EndsAt(text, k, off)
            from   == IF sub = 0 THEN 1 ELSE starts[sub]
            width  == DisplayWidth(SubSeq(text, from, upto))
<1>1. starts \in Seq(1 .. Len(text)) /\ Len(starts) \in Nat /\ DOMAIN starts = 1 .. Len(starts)
  <2>1. cols \in Nat
    OBVIOUS
  <2>2. starts \in Seq(1 .. Len(text))
    BY <2>1, StartsType, Zenon
  <2>. HIDE DEF starts
  <2>. QED
    BY <2>2
<1>2. upto \in 0 .. Len(text)
  <2>. HIDE DEF off
  <2>. QED
    BY Zenon DEF off
<1>3. sub \in 0 .. Len(starts)
  <2>1. passed \in SUBSET (1 .. Len(starts))
    BY <1>1
  <2>. HIDE DEF passed, starts
  <2>2. IsFiniteSet(1 .. Len(starts)) /\ Cardinality(1 .. Len(starts)) = Len(starts)
    <3>. DEFINE m == Len(starts)
    <3>1. m \in Int /\ 1 \in Int /\ m >= 0
      BY <1>1
    <3>. HIDE DEF m
    <3>2. IsFiniteSet(1 .. m) /\ Cardinality(1 .. m) = IF 1 > m THEN 0 ELSE m - 1 + 1
      BY <3>1, FS_Interval
    <3>3. Cardinality(1 .. m) = m
      BY <3>1, <3>2
    <3>. QED
      BY <3>2, <3>3 DEF m
  <2>3. IsFiniteSet(passed) /\ Cardinality(passed) <= Len(starts)
    BY <2>1, <2>2, FS_Subset
  <2>. QED
    BY <1>1, <2>3, FS_CardinalityType
<1>4. AnchorSpot(anchor, text, cols) = [row |-> sub, col |-> Less(width, cols - 1), wrap |-> width >= cols]
  BY Zenon DEF AnchorSpot
<1>. HIDE DEF sub, upto, starts
<1>5. from \in Int /\ from >= 1 /\ upto \in Int /\ upto <= Len(text)
  <2>1. CASE sub = 0
    BY <1>2, <2>1
  <2>2. CASE sub # 0
    <3>1. starts[sub] \in 1 .. Len(text)
      BY <1>1, <1>3, <2>2
    <3>. QED
      BY <1>2, <2>2, <3>1
  <2>. QED
    BY <2>1, <2>2
<1>. HIDE DEF from
<1>6. width \in Nat
  <2>1. \A i \in from .. upto : text[i] \in Cells
    BY <1>5
  <2>2. SubSeq(text, from, upto) \in Seq(Cells)
    BY <1>5, <2>1, SubSeqProperties
  <2>. DEFINE part == SubSeq(text, from, upto)
  <2>. HIDE DEF part
  <2>3. DisplayWidth(part) \in Nat
    BY <2>2, DisplayWidthNat DEF part
  <2>. QED
    BY <2>3 DEF part
<1>. HIDE DEF width
<1>. QED
  BY <1>3, <1>4, <1>6 DEF Cursors, Less

-----------------------------------------------------------------------------
(* Reflow: the screen after it. *)

\* The screen `h` is `g` with blank rows below, and it has all of them.
FilledUp(n, m, g, h) ==
    /\ m \in Nat /\ n <= m /\ h \in GridsAt(m)
    /\ h.size = g.size /\ h.cursor = g.cursor /\ h.top = g.top /\ h.bottom = g.bottom
    /\ h.pending = g.pending /\ h.scrollback = g.scrollback
    /\ g.rows \in Seq(WideRows(n, g.size.cols)) => Rectangle(h.rows, h.size)

\* Padding fills the screen up with blank rows of fresh ids.
LEMMA PaddedType ==
    ASSUME NEW n \in Nat, NEW g \in GridsAt(n), Len(g.rows) <= g.size.rows,
           NEW m, m = n + (g.size.rows - Len(g.rows))
    PROVE  FilledUp(n, m, g, Padded(g))
<1>. DEFINE short == g.size.rows - Len(g.rows)
            size == [g.size EXCEPT !.rows = short]
            blank == BlankRows(size, n)
            rows == g.rows \o blank
            h == Padded(g)
            Wide == Seq(WideRows(n, g.size.cols))
            WideM == Seq(WideRows(m, g.size.cols))
<1>1. /\ g.size \in Sizes /\ g.size.rows \in Nat /\ g.size.cols \in Nat /\ g.next = n
      /\ g.rows \in RowsBelow(n) /\ Len(g.rows) \in Nat
  BY GridParts DEF RowsBelow
<1>2. short \in Nat /\ m \in Nat /\ n <= m /\ m = n + short
  BY <1>1, SMTT(60)
<1>. HIDE DEF short
<1>3. size \in Sizes /\ size.rows = short /\ size.cols = g.size.cols
  BY <1>1, <1>2 DEF Sizes
<1>. HIDE DEF size
<1>4. blank \in WideM /\ blank \in RowsBelow(m) /\ Len(blank) = short
  <2>1. n + size.rows <= m
    BY <1>2, <1>3
  <2>. HIDE DEF WideM
  <2>2. blank \in Seq(WideRows(m, size.cols)) /\ blank \in RowsBelow(m) /\ Len(blank) = size.rows
    BY <1>2, <1>3, <2>1, BlankRowsType
  <2>. QED
    BY <1>3, <2>2 DEF WideM
<1>5. h = [g EXCEPT !.rows = rows, !.next = m]
  <2>1. g.next + short = m
    BY <1>1, <1>2
  <2>2. h = [g EXCEPT !.rows = g.rows \o BlankRows(size, g.next), !.next = g.next + short]
    BY Zenon DEF Padded, size, short
  <2>. QED
    BY <1>1, <2>1, <2>2
<1>. HIDE DEF blank
<1>6. g.rows \in RowsBelow(m) /\ g.pending \in HeadsBelow(m) /\ g.scrollback \in StoresBelow(m)
  BY <1>1, <1>2, LaterIds, GridParts
<1>7. rows \in RowsBelow(m) /\ Len(rows) = g.size.rows
  <2>1. rows \in Seq(RowBelow(m)) /\ Len(rows) = Len(g.rows) + Len(blank)
    BY <1>4, <1>6, ConcatProperties, ZenonT(60) DEF RowsBelow
  <2>. HIDE DEF rows
  <2>. QED
    BY <1>1, <1>4, <2>1 DEF RowsBelow, short
<1>8. g.rows \in Wide => rows \in WideM
  <2>1. g.rows \in Wide => g.rows \in WideM
    BY <1>2, WideRowsAreRows
  <2>. QED
    BY <1>4, <2>1
<1>. HIDE DEF rows, h
<1>9. /\ h \in GridsAt(m) /\ h.size = g.size /\ h.cursor = g.cursor /\ h.top = g.top /\ h.bottom = g.bottom
      /\ h.pending = g.pending /\ h.scrollback = g.scrollback /\ h.rows = rows
  BY <1>2, <1>5, <1>6, <1>7 DEF GridsAt
<1>10. g.rows \in Wide => Rectangle(h.rows, h.size)
  BY <1>1, <1>7, <1>8, <1>9, Rectangular
<1>. QED
  BY <1>2, <1>9, <1>10 DEF FilledUp, h

\* What the change of size leaves: a screen of that size, in shape if no slice
\* was cut in a grapheme.
Resized(g, size, whole) ==
    {h \in UNION {GridsAt(n) : n \in {k \in Nat : k >= g.next}} : h.size = size /\ (whole => Shaped(h))}

\* Rows in place, the rest is blank and the margins are the edges.
LEMMA RowsFilledUp ==
    ASSUME NEW n \in Nat, NEW k \in GridsAt(n), Len(k.rows) <= k.size.rows,
           k.rows \in Seq(WideRows(n, k.size.cols))
    PROVE  LET h == ResetScrollRegion(Padded(k)) IN
           \E m \in Nat : /\ n <= m /\ h \in GridsAt(m) /\ h.size = k.size /\ h.cursor = k.cursor
                         /\ h.pending = k.pending
                         /\ Rectangle(h.rows, h.size) /\ Margins(h.top, h.bottom, h.size)
<1>. DEFINE p == Padded(k)
            h == ResetScrollRegion(p)
            b == Minus(k.size.rows, 1)
<1>0. PICK m : m = n + (k.size.rows - Len(k.rows))
  OBVIOUS
<1>1. FilledUp(n, m, k, p)
  BY <1>0, PaddedType
<1>. HIDE DEF p
<1>2. /\ m \in Nat /\ n <= m /\ p \in GridsAt(m) /\ p.size = k.size /\ p.cursor = k.cursor
      /\ p.pending = k.pending
      /\ Rectangle(p.rows, k.size)
  BY <1>1 DEF FilledUp
<1>3. b \in Nat /\ k.size.rows \in Nat
  BY GridParts DEF Minus
<1>4. h = [p EXCEPT !.top = 0, !.bottom = b]
  BY <1>2 DEF ResetScrollRegion
<1>. HIDE DEF h, b
<1>5. /\ h \in GridsAt(m) /\ h.size = k.size
      /\ h.rows = p.rows /\ h.cursor = k.cursor /\ h.top = 0 /\ h.bottom = b
      /\ h.pending = k.pending
  BY <1>2, <1>3, <1>4 DEF GridsAt
<1>6. Margins(h.top, h.bottom, h.size) /\ Rectangle(h.rows, h.size)
  BY <1>2, <1>3, <1>5 DEF Margins, b
<1>. HIDE DEF h
<1>7. \E i \in Nat : /\ n <= i /\ h \in GridsAt(i) /\ h.size = k.size /\ h.cursor = k.cursor
                         /\ h.pending = k.pending
                    /\ Rectangle(h.rows, h.size) /\ Margins(h.top, h.bottom, h.size)
  BY <1>2, <1>5, <1>6, Zenon
<1>. QED
  BY <1>7, Zenon DEF h, p

\* Rows that fit, padded to the height and with a full region, are a screen of that size.
LEMMA RowsLaidOut ==
    ASSUME NEW n \in Nat, NEW g, NEW k \in GridsAt(n), g.next \in Nat, g.next <= n,
           NEW size, k.size = size, Len(k.rows) <= size.rows,
           k.rows \in Seq(WideRows(n, size.cols)), Within(k.cursor, size)
    PROVE  ResetScrollRegion(Padded(k)) \in Resized(g, size, TRUE)
<1>. DEFINE h == ResetScrollRegion(Padded(k))
<1>1. PICK m \in Nat : /\ n <= m /\ h \in GridsAt(m) /\ h.size = k.size /\ h.cursor = k.cursor
                       /\ Rectangle(h.rows, h.size) /\ Margins(h.top, h.bottom, h.size)
  BY RowsFilledUp
<1>. HIDE DEF h
<1>2. m >= g.next /\ Shaped(h) /\ h.size = size
  BY <1>1 DEF Shaped
<1>. QED
  BY <1>1, <1>2 DEF Resized, h

\* Taking the lines off the screen leaves the store and the ids alone.
LEMMA LinesTakenType ==
    ASSUME NEW n \in Nat, NEW g \in GridsAt(n), NEW size \in Sizes
    PROVE  LET h == LinesTaken(g, size) IN
           h \in GridsAt(n) /\ h.size = size /\ h.scrollback = g.scrollback
<1>1. NoLine \in HeadsBelow(n)
  BY DEF HeadsBelow
<1>. QED
  BY <1>1 DEF LinesTaken, GridsAt

\* A screen without rows or columns keeps its history.
LEMMA ResizedToEmptyType ==
    ASSUME NEW n \in Nat, NEW g \in GridsAt(n), NEW size \in Sizes
    PROVE  ResizedToEmpty(g, size) \in Resized(g, size, TRUE)
<1>. DEFINE taken == LinesTaken(g, size)
            store == FoldLeft(Pushed, taken.scrollback, ActiveLines(g))
            none == << >>
            at == At(0, 0)
            k == [taken EXCEPT !.rows = none, !.cursor = at, !.scrollback = store]
<1>1. taken \in GridsAt(n) /\ taken.size = size /\ taken.scrollback \in StoresBelow(n)
  BY LinesTakenType, GridParts
<1>2. store \in StoresBelow(n)
  BY <1>1, ActiveLinesType, LinesPushed
<1>3. ResizedToEmpty(g, size) = ResetScrollRegion(Padded(k))
  BY Zenon DEF ResizedToEmpty
<1>4. none \in RowsBelow(n) /\ none \in Seq(WideRows(n, size.cols)) /\ Len(none) = 0
  BY DEF RowsBelow
<1>5. at \in Cursors /\ Within(at, size)
  BY DEF At, Cursors, Within, Minus, Sizes
<1>. HIDE DEF taken, store, none, at
<1>6. k \in GridsAt(n) /\ k.size = size /\ k.rows = none /\ k.cursor = at
  BY <1>1, <1>2, <1>4, <1>5 DEF GridsAt
<1>. HIDE DEF k
<1>7. /\ Len(k.rows) <= size.rows /\ g.next \in Nat /\ g.next <= n
      /\ k.rows \in Seq(WideRows(n, size.cols)) /\ Within(k.cursor, size)
  BY <1>4, <1>5, <1>6, GridParts DEF Sizes
<1>8. ResetScrollRegion(Padded(k)) \in Resized(g, size, TRUE)
  BY <1>6, <1>7, RowsLaidOut
<1>. QED
  BY <1>3, <1>8

\* The last line with the anchor's id, if there is one.
LastWithId(lines, id) == SelectLastInSeq(lines, LAMBDA l : l.id = id)

\* The line an anchor is found in has the id of the anchor.
LEMMA AnchoredLine ==
    ASSUME NEW S, NEW lines \in Seq(S), NEW id
    PROVE  LET line == LastWithId(lines, id)
           IN  line \in 0 .. Len(lines) /\ (line # 0 => lines[line].id = id)
<1>. DEFINE I == {i \in 1 .. Len(lines) : lines[i].id = id}
            line == LastWithId(lines, id)
<1>0. Len(lines) \in Nat
  OBVIOUS
<1>1. line = IF I # {} THEN Max(I) ELSE 0
  BY Zenon DEF LastWithId, SelectLastInSeq
<1>2. I \in SUBSET (1 .. Len(lines)) /\ \A i \in I : lines[i].id = id
  OBVIOUS
<1>. HIDE DEF I, line
<1>3. CASE I = {}
  <2>1. line = 0
    BY <1>1, <1>3
  <2>. QED
    BY <1>0, <2>1 DEF line
<1>4. CASE I # {}
  <2>1. Max(I) \in I
    BY <1>2, <1>4, LastThatPasses
  <2>2. line = Max(I)
    BY <1>1, <1>4
  <2>3. line \in 1 .. Len(lines) /\ lines[line].id = id
    BY <1>2, <2>1, <2>2
  <2>. QED
    BY <1>0, <2>3 DEF line
<1>. QED
  BY <1>3, <1>4

\* Where the cursor comes to rest once `overflow` rows are above the screen.
RestingPlace(g, size, overflow) ==
    LET lines    == ActiveLines(g)
        anchor   == CursorAnchor(g)
        parts    == [i \in DOMAIN lines |-> ReflowedRows(lines[i], size.cols)]
        line     == LastWithId(lines, anchor.id)
        spot     == IF line = 0 THEN At(0, 0) ELSE AnchorSpot(anchor, lines[line].text, size.cols)
        row      == IF line = 0 THEN 0 ELSE Len(FlattenSeq(SubSeq(parts, 1, line - 1))) + spot.row
    IN  [spot EXCEPT !.row = Less(Minus(row, overflow), size.rows - 1)]

\* It is on the screen, when it was between graphemes before.
LEMMA CursorPlaced ==
    ASSUME NEW n \in Nat, NEW g \in GridsAt(n), NEW size \in Sizes, ~Empty(size), AnchorAligned(g),
           NEW overflow \in Nat
    PROVE  RestingPlace(g, size, overflow) \in Cursors /\ Within(RestingPlace(g, size, overflow), size)
<1>. DEFINE W        == WideRows(n, size.cols)
            lines    == ActiveLines(g)
            anchor   == CursorAnchor(g)
            parts    == [i \in DOMAIN lines |-> ReflowedRows(lines[i], size.cols)]
            line     == LastWithId(lines, anchor.id)
            spot     == IF line = 0 THEN At(0, 0) ELSE AnchorSpot(anchor, lines[line].text, size.cols)
            row      == IF line = 0 THEN 0 ELSE Len(FlattenSeq(SubSeq(parts, 1, line - 1))) + spot.row
            cursor   == [spot EXCEPT !.row = Less(Minus(row, overflow), size.rows - 1)]
<1>0. cursor = RestingPlace(g, size, overflow)
  BY Zenon DEF RestingPlace
<1>1. size.rows \in Nat \ {0} /\ size.cols \in Nat \ {0}
  BY DEF Empty, Sizes
<1>2. lines \in Seq(LineBelow(n)) /\ Len(lines) \in Nat /\ DOMAIN lines = 1 .. Len(lines)
  <2>1. lines \in Seq(LineBelow(n))
    BY ActiveLinesType
  <2>. HIDE DEF lines
  <2>. QED
    BY <2>1
<1>4. line \in 0 .. Len(lines) /\ (line # 0 => lines[line].id = anchor.id)
  <2>. HIDE DEF lines, anchor
  <2>. QED
    BY <1>2, AnchoredLine
<1>5. \A l \in ToSet(lines) : l.id = anchor.id =>
        \E i \in 0 .. Len(l.text) : EndsAt(l.text, i, OffsetIn(anchor, l.text))
  BY Zenon DEF AnchorAligned
<1>. HIDE DEF lines, anchor, line
<1>6. parts \in Seq(Seq(W)) /\ Len(parts) = Len(lines)
  <2>1. ASSUME NEW i \in 1 .. Len(lines) PROVE ReflowedRows(lines[i], size.cols) \in Seq(W)
    <3>1. lines[i] \in LineBelow(n)
      BY <1>2
    <3>. QED
      BY <1>1, <3>1, ReflowedRowsType
  <2>. HIDE DEF W
  <2>. QED
    BY <1>2, <2>1
<1>. HIDE DEF parts
<1>11. spot \in Cursors /\ spot.col <= size.cols - 1 /\ row \in Nat
  <2>1. CASE line = 0
    <3>1. At(0, 0) \in Cursors /\ At(0, 0).col = 0
      BY DEF At, Cursors
    <3>. QED
      BY <1>1, <2>1, <3>1
  <2>2. CASE line # 0
    <3>1. line \in 1 .. Len(lines) /\ lines[line].id = anchor.id
      BY <1>2, <1>4, <2>2
    <3>2. lines[line] \in LineBelow(n) /\ lines[line] \in ToSet(lines)
      BY <1>2, <3>1 DEF ToSet
    <3>. DEFINE text == lines[line].text
    <3>3. text \in Seq(Cells)
      BY <3>2 DEF LineBelow
    <3>4. \E i \in 0 .. Len(text) : EndsAt(text, i, OffsetIn(anchor, text))
      BY <1>5, <3>1, <3>2, Zenon
    <3>5. spot = AnchorSpot(anchor, text, size.cols)
      BY <2>2
    <3>. HIDE DEF text
    <3>6. spot \in Cursors /\ spot.col <= size.cols - 1
      <4>. HIDE DEF spot
      <4>. QED
        BY <1>1, <3>3, <3>4, <3>5, AnchorSpotType
    <3>. HIDE DEF spot
    <3>7. Len(FlattenSeq(SubSeq(parts, 1, line - 1))) \in Nat
      <4>. DEFINE above == SubSeq(parts, 1, line - 1)
      <4>1. above \in Seq(Seq(W))
        <5>. HIDE DEF W
        <5>. QED
          BY <1>2, <1>6, <3>1
      <4>. HIDE DEF above, W
      <4>2. FlattenSeq(above) \in Seq(W)
        BY <4>1, FlattenConcat
      <4>. QED
        BY <4>2 DEF above
    <3>8. row \in Nat
      BY <2>2, <3>6, <3>7 DEF Cursors
    <3>. QED
      BY <3>6, <3>8
  <2>. QED
    BY <2>1, <2>2
<1>. HIDE DEF spot, row
<1>12. cursor \in Cursors /\ Within(cursor, size)
  <2>. DEFINE r == Less(Minus(row, overflow), size.rows - 1)
  <2>1. r \in Nat /\ r <= size.rows - 1
    BY <1>1, <1>11 DEF Less, Minus
  <2>. HIDE DEF r
  <2>2. cursor = [spot EXCEPT !.row = r]
    BY DEF r
  <2>. HIDE DEF cursor
  <2>3. cursor \in Cursors /\ cursor.row = r /\ cursor.col = spot.col
    BY <1>11, <2>1, <2>2 DEF Cursors
  <2>. QED
    BY <1>1, <1>11, <2>1, <2>3 DEF Within, Minus
<1>. QED
  BY <1>0, <1>12

\* The reflow of a screen whose cursor is between graphemes.
LEMMA ReflowedType ==
    ASSUME NEW n \in Nat, NEW g \in GridsAt(n), NEW size \in Sizes, ~Empty(size), AnchorAligned(g)
    PROVE  Reflowed(g, size) \in Resized(g, size, TRUE)
<1>. DEFINE W        == WideRows(n, size.cols)
            lines    == ActiveLines(g)
            parts    == [i \in DOMAIN lines |-> ReflowedRows(lines[i], size.cols)]
            flat     == FlattenSeq(parts)
            overflow == Minus(Len(flat), size.rows)
            gone     == SubSeq(flat, 1, overflow)
            rows     == SubSeq(flat, overflow + 1, Len(flat))
            frozen   == FoldLeft(FreezeRow, LinesTaken(g, size), gone)
            cursor   == RestingPlace(g, size, overflow)
            k        == [frozen EXCEPT !.rows = rows, !.cursor = cursor]
<1>1. size.rows \in Nat \ {0} /\ size.cols \in Nat \ {0}
  BY DEF Empty, Sizes
<1>2. lines \in Seq(LineBelow(n)) /\ Len(lines) \in Nat /\ DOMAIN lines = 1 .. Len(lines)
  <2>1. lines \in Seq(LineBelow(n))
    BY ActiveLinesType
  <2>. HIDE DEF lines
  <2>. QED
    BY <2>1
<1>3. Reflowed(g, size) = ResetScrollRegion(Padded(k))
  BY Zenon DEF Reflowed, RestingPlace, LastWithId
<1>. HIDE DEF lines
<1>6. parts \in Seq(Seq(W)) /\ Len(parts) = Len(lines)
  <2>1. ASSUME NEW i \in 1 .. Len(lines) PROVE ReflowedRows(lines[i], size.cols) \in Seq(W)
    <3>1. lines[i] \in LineBelow(n)
      BY <1>2
    <3>. QED
      BY <1>1, <3>1, ReflowedRowsType
  <2>. HIDE DEF W
  <2>. QED
    BY <1>2, <2>1
<1>. HIDE DEF parts
<1>7. flat \in Seq(W) /\ Len(flat) \in Nat
  <2>. HIDE DEF W
  <2>1. flat \in Seq(W)
    BY <1>6, FlattenConcat
  <2>. HIDE DEF flat
  <2>. QED
    BY <2>1
<1>. HIDE DEF flat
<1>8. overflow \in 0 .. Len(flat) /\ Len(flat) - overflow <= size.rows
  BY <1>1, <1>7 DEF Minus
<1>. HIDE DEF overflow
<1>9. gone \in Seq(RowBelow(n)) /\ rows \in Seq(W) /\ rows \in RowsBelow(n) /\ Len(rows) <= size.rows
  <2>1. W \subseteq RowBelow(n)
    BY WideRowsAreRows
  <2>. HIDE DEF W
  <2>2. gone \in Seq(W)
    BY <1>7, <1>8
  <2>3. rows \in Seq(W) /\ Len(rows) = Len(flat) - overflow
    <3>1. overflow + 1 \in Int /\ Len(flat) \in Int /\ \A i \in overflow + 1 .. Len(flat) : flat[i] \in W
      BY <1>7, <1>8
    <3>2. rows \in Seq(W) /\ Len(rows) = IF overflow + 1 <= Len(flat) THEN Len(flat) - (overflow + 1) + 1 ELSE 0
      BY <3>1, SubSeqProperties
    <3>. HIDE DEF rows
    <3>3. CASE overflow + 1 <= Len(flat)
      BY <1>7, <1>8, <3>2, <3>3
    <3>4. CASE ~(overflow + 1 <= Len(flat))
      BY <1>7, <1>8, <3>2, <3>4
    <3>. QED
      BY <3>3, <3>4
  <2>. HIDE DEF gone, rows
  <2>4. gone \in Seq(RowBelow(n)) /\ rows \in Seq(RowBelow(n))
    BY <2>1, <2>2, <2>3
  <2>. QED
    BY <1>8, <2>3, <2>4 DEF RowsBelow
<1>. HIDE DEF gone, rows
<1>10. frozen \in GridsAt(n) /\ frozen.size = size
  <2>. DEFINE taken == LinesTaken(g, size)
  <2>1. taken \in GridsAt(n) /\ taken.size = size
    BY LinesTakenType
  <2>. HIDE DEF taken
  <2>2. FoldLeft(FreezeRow, taken, gone) \in GridsAt(n) /\ FoldLeft(FreezeRow, taken, gone).size = taken.size
    BY <1>9, <2>1, RowsFrozen
  <2>. QED
    BY <2>1, <2>2, Zenon DEF taken
<1>12. cursor \in Cursors /\ Within(cursor, size)
  <2>1. overflow \in Nat
    BY <1>7, <1>8
  <2>. QED
    BY <2>1, CursorPlaced
<1>. HIDE DEF cursor, frozen, W
<1>13. k \in GridsAt(n) /\ k.size = size /\ k.rows = rows /\ k.cursor = cursor
  BY <1>9, <1>10, <1>12 DEF GridsAt
<1>. HIDE DEF k
<1>14. /\ Len(k.rows) <= size.rows /\ g.next \in Nat /\ g.next <= n
       /\ k.rows \in Seq(WideRows(n, size.cols)) /\ Within(k.cursor, size)
  BY <1>9, <1>12, <1>13, GridParts DEF W
<1>15. ResetScrollRegion(Padded(k)) \in Resized(g, size, TRUE)
  BY <1>13, <1>14, RowsLaidOut
<1>. QED
  BY <1>3, <1>15

\* The primary screen after a resize, whatever was on it.
LEMMA PrimaryResizedType ==
    ASSUME NEW g \in Grids, NEW size \in Sizes
    PROVE  PrimaryResized(g, size) \in Resized(g, size, Empty(size) \/ AnchorAligned(g))
<1>. DEFINE whole == Empty(size) \/ AnchorAligned(g)
<1>1. PICK n \in Nat : g \in GridsAt(n)
  BY DEF Grids
<1>2. \A h \in Resized(g, size, TRUE) : h \in Resized(g, size, whole)
  BY DEF Resized
<1>3. CASE Empty(size)
  <2>1. PrimaryResized(g, size) = ResizedToEmpty(g, size)
    BY <1>3, Zenon DEF PrimaryResized
  <2>2. ResizedToEmpty(g, size) \in Resized(g, size, TRUE)
    BY <1>1, ResizedToEmptyType
  <2>. QED
    BY <1>2, <2>1, <2>2, Zenon
<1>4. CASE ~Empty(size) /\ AnchorAligned(g)
  <2>1. PrimaryResized(g, size) = Reflowed(g, size)
    BY <1>4, Zenon DEF PrimaryResized
  <2>2. Reflowed(g, size) \in Resized(g, size, TRUE)
    BY <1>1, <1>4, ReflowedType
  <2>. QED
    BY <1>2, <2>1, <2>2, Zenon
<1>5. CASE ~Empty(size) /\ ~AnchorAligned(g)
  <2>1. PrimaryResized(g, size) = LinesTaken(g, size)
    BY <1>5, Zenon DEF PrimaryResized
  <2>2. LinesTaken(g, size) \in GridsAt(n) /\ LinesTaken(g, size).size = size /\ g.next = n
    BY <1>1, LinesTakenType, GridParts
  <2>. QED
    BY <1>5, <2>1, <2>2 DEF Resized
<1>. QED
  BY <1>3, <1>4, <1>5

-----------------------------------------------------------------------------
(* The alternate screen. *)

\* A row is cut or padded to the width.
LEMMA CutRowType ==
    ASSUME NEW n \in Nat, NEW row \in RowBelow(n), NEW cols \in Nat
    PROVE  CutRow(row, cols) \in WideRows(n, cols)
<1>. DEFINE cells == [c \in 1 .. cols |-> IF c <= Len(row.cells) THEN row.cells[c] ELSE Blank]
<1>1. row.cells \in Seq(Cells) /\ Blank \in Cells
  BY SpacerCell DEF RowBelow
<1>2. cells \in Seq(Cells) /\ Len(cells) = cols
  <2>1. ASSUME NEW c \in 1 .. cols
        PROVE  (IF c <= Len(row.cells) THEN row.cells[c] ELSE Blank) \in Cells
    <3>1. CASE c <= Len(row.cells)
      <4>1. c \in 1 .. Len(row.cells)
        BY <1>1, <3>1
      <4>. QED
        BY <1>1, <3>1, <4>1
    <3>2. CASE ~(c <= Len(row.cells))
      BY <1>1, <3>2
    <3>. QED
      BY <3>1, <3>2
  <2>. QED
    BY <2>1
<1>3. CutRow(row, cols) = [row EXCEPT !.cells = cells]
  BY DEF CutRow
<1>. HIDE DEF cells
<1>. QED
  BY <1>2, <1>3 DEF WideRows, RowBelow

\* Clipping cuts every row, and drops those below the screen.
LEMMA CutType ==
    ASSUME NEW n \in Nat, NEW g \in GridsAt(n)
    PROVE  LET h == Cut(g) IN
           /\ h \in GridsAt(n) /\ h.size = g.size /\ h.cursor = g.cursor /\ h.pending = g.pending
           /\ h.rows \in Seq(WideRows(n, h.size.cols)) /\ Len(h.rows) <= h.size.rows
<1>. DEFINE W == WideRows(n, g.size.cols)
            count == Less(g.size.rows, Len(g.rows))
            rows == [r \in 1 .. count |-> CutRow(g.rows[r], g.size.cols)]
            h == Cut(g)
<1>1. /\ g.size.rows \in Nat /\ g.size.cols \in Nat /\ g.rows \in Seq(RowBelow(n))
      /\ Len(g.rows) \in Nat
  BY GridParts DEF RowsBelow
<1>2. count \in Nat /\ count <= g.size.rows /\ count <= Len(g.rows)
  BY <1>1 DEF Less
<1>3. h = [g EXCEPT !.rows = rows]
  BY Zenon DEF Cut
<1>. HIDE DEF count
<1>4. rows \in Seq(W) /\ Len(rows) = count
  <2>1. ASSUME NEW r \in 1 .. count PROVE CutRow(g.rows[r], g.size.cols) \in W
    <3>1. g.rows[r] \in RowBelow(n)
      BY <1>1, <1>2
    <3>. QED
      BY <1>1, <3>1, CutRowType
  <2>. HIDE DEF W
  <2>. QED
    BY <1>2, <2>1
<1>. HIDE DEF rows, h
<1>5. rows \in RowsBelow(n)
  <2>1. W \subseteq RowBelow(n)
    BY DEF WideRows
  <2>. HIDE DEF W
  <2>. QED
    BY <1>4, <2>1 DEF RowsBelow
<1>6. h \in GridsAt(n) /\ h.size = g.size /\ h.cursor = g.cursor /\ h.rows = rows
      /\ h.pending = g.pending
  BY <1>3, <1>5 DEF GridsAt
<1>. QED
  BY <1>2, <1>4, <1>6 DEF h

\* Cut, padded, the cursor brought back in: the screen is in shape whatever it
\* was before.
LEMMA ClippedType ==
    ASSUME NEW g \in Grids
    PROVE  Clipped(g) \in Resized(g, g.size, TRUE) /\ Clipped(g).pending = g.pending
<1>. DEFINE k == Cut(g)
            h == ResetScrollRegion(Padded(k))
            r == Less(g.cursor.row, Minus(g.size.rows, 1))
            c == Less(g.cursor.col, Minus(g.size.cols, 1))
            at == At(r, c)
            last == [h EXCEPT !.cursor = at]
<1>1. PICK n \in Nat : g \in GridsAt(n)
  BY DEF Grids
<1>2. /\ g.size.rows \in Nat /\ g.size.cols \in Nat /\ g.cursor.row \in Nat /\ g.cursor.col \in Nat
      /\ g.next = n
  BY <1>1, GridParts
<1>3. /\ k \in GridsAt(n) /\ k.size = g.size /\ k.pending = g.pending
      /\ k.rows \in Seq(WideRows(n, k.size.cols)) /\ Len(k.rows) <= k.size.rows
  BY <1>1, CutType
<1>. HIDE DEF k
<1>4. PICK m \in Nat : /\ n <= m /\ h \in GridsAt(m) /\ h.size = k.size /\ h.cursor = k.cursor
                       /\ h.pending = k.pending
                       /\ Rectangle(h.rows, h.size) /\ Margins(h.top, h.bottom, h.size)
  BY <1>3, RowsFilledUp
<1>. HIDE DEF h
<1>5. at \in Cursors /\ Within(at, g.size)
  BY <1>2 DEF Less, Minus, Within, At, Cursors
<1>6. Clipped(g) = last
  BY <1>3, <1>4 DEF Clipped, CursorTo, MoveTo, h, k
<1>. HIDE DEF at
<1>7. /\ last \in GridsAt(m) /\ last.size = g.size /\ last.rows = h.rows /\ last.cursor = at
      /\ last.top = h.top /\ last.bottom = h.bottom /\ last.pending = g.pending
  BY <1>3, <1>4, <1>5 DEF GridsAt
<1>. HIDE DEF last
<1>8. Shaped(last)
  BY <1>3, <1>4, <1>5, <1>7 DEF Shaped
<1>9. m >= g.next
  BY <1>2, <1>4
<1>. QED
  BY <1>6, <1>7, <1>8, <1>9 DEF Resized

\* A buffer set aside, its ids below `n`.
BuffersBelow(n) == [rows : RowsBelow(n), cursor : Cursors, top : Nat, bottom : Nat, pending : HeadsBelow(n)]

\* What the main buffer sets aside has the ids of its grid.
LEMMA BufferType ==
    ASSUME NEW n \in Nat, NEW g \in GridsAt(n)
    PROVE  Buffer(g) \in BuffersBelow(n)
  BY GridParts DEF Buffer, BuffersBelow

\* What was set aside stays valid when more ids are handed out.
LEMMA LaterBuffers ==
    ASSUME NEW n \in Nat, NEW m \in Nat, n <= m
    PROVE  BuffersBelow(n) \subseteq BuffersBelow(m)
  BY LaterIds DEF BuffersBelow

\* The buffer shown is the one that was set aside, with the store as it is.
LEMMA ShowType ==
    ASSUME NEW n \in Nat, NEW g \in GridsAt(n), NEW b \in BuffersBelow(n)
    PROVE  LET h == Show(g, b) IN
           /\ h \in GridsAt(n) /\ h.size = g.size /\ h.scrollback = g.scrollback /\ h.next = g.next
           /\ Buffer(h) = b
<1>. DEFINE h == Show(g, b)
<1>1. /\ b.rows \in RowsBelow(n) /\ b.cursor \in Cursors /\ b.top \in Nat /\ b.bottom \in Nat
      /\ b.pending \in HeadsBelow(n)
      /\ b = [rows |-> b.rows, cursor |-> b.cursor, top |-> b.top, bottom |-> b.bottom,
              pending |-> b.pending]
  BY DEF BuffersBelow
<1>2. /\ h \in GridsAt(n) /\ h.size = g.size /\ h.scrollback = g.scrollback /\ h.next = g.next
      /\ h.rows = b.rows /\ h.cursor = b.cursor /\ h.top = b.top /\ h.bottom = b.bottom
      /\ h.pending = b.pending
  BY <1>1 DEF Show, GridsAt
<1>. HIDE DEF h
<1>3. Buffer(h) = b
  BY <1>1, <1>2, Zenon DEF Buffer
<1>. QED
  BY <1>2, <1>3 DEF h

-----------------------------------------------------------------------------
(* The inductive invariant. *)

SavedCursors == [row : Nat, col : Nat, wrap : BOOLEAN, pen : Styles]

\* Everything has its type, whatever the program did: every id on the screen, in
\* the buffer set aside, in the frozen head and in the history is below the
\* next one, and the store keeps its caps and its count.  No line waits above
\* the alternate screen.
ScreenInv ==
    /\ program \in Programs /\ grid.size \in program.sizes
    /\ grid.next \in Nat /\ grid \in GridsAt(grid.next)
    /\ stash \in Seq(BuffersBelow(grid.next)) /\ Len(stash) <= 1
    /\ saved \in Seq(SavedCursors) /\ Len(saved) <= 1
    /\ pen \in Styles /\ autowrap \in BOOLEAN /\ printed \in Nat
    /\ IsAlternate => grid.pending = NoLine

ShapedBuffer(b, size) ==
    Rectangle(b.rows, size) /\ Within(b.cursor, size) /\ Margins(b.top, b.bottom, size)

\* Both buffers are in the shape of the window.
ShapeInv == Shaped(grid) /\ (IsAlternate => ShapedBuffer(stash[1], grid.size))

\* The steps after which the code has no screen of the window's shape: a reflow
\* that panics, with the cursor inside a character of the text it is measured in,
\* and a line edit where there is no row to take out.
ReflowPanics ==
    /\ Resize \/ ResizeAlternate
    /\ ~Empty(grid'.size)
    /\ ~AnchorAligned(IF IsAlternate THEN Show(grid, stash[1]) ELSE grid)
EditsNoRows == (InsertsLines \/ DeletesLines) /\ grid.rows = << >>
LosesShape == ReflowPanics \/ EditsNoRows

\* What PrimaryUntouched says of one step.
Untouched ==
    (IsAlternate \/ IsAlternate') /\ grid'.size = grid.size /\ ~Reset
        => /\ Primary(grid', stash') = Primary(grid, stash)
           /\ grid'.scrollback = grid.scrollback

\* Only a resize changes the size.
SameSize == Resize \/ ResizeAlternate \/ grid'.size = grid.size

\* What every step of the screen does.
GoodStep == ScreenInv' /\ Untouched /\ SameSize /\ ((ShapeInv /\ ~LosesShape) => ShapeInv')

\* The grid and its fields, as the invariant knows them.
LEMMA InvGrid ==
    ASSUME ScreenInv
    PROVE  /\ grid \in Grids /\ grid.next \in Nat /\ grid \in GridsAt(grid.next)
           /\ grid.size \in Sizes /\ grid.size.rows \in Nat /\ grid.size.cols \in Nat
           /\ grid.cursor \in Cursors /\ grid.cursor.row \in Nat /\ grid.cursor.col \in Nat
           /\ grid.top \in Nat /\ grid.bottom \in Nat
<1>1. grid.next \in Nat /\ grid \in GridsAt(grid.next)
  BY DEF ScreenInv
<1>2. grid \in Grids
  BY <1>1 DEF Grids
<1>. QED
  BY <1>1, <1>2, GridParts

\* What a program may send, as the invariant knows it.
LEMMA InvProgram ==
    ASSUME ScreenInv
    PROVE  /\ program \in Programs /\ program.sizes \subseteq Sizes
           /\ program.prints \subseteq {"a", "W", "+"} /\ program.pens \subseteq Styles
           /\ program.counts \subseteq Nat
  BY ScreenAssumption DEF ScreenInv, Sizes

\* The buffer set aside is one whatever is shown.
LEMMA StashLater ==
    ASSUME ScreenInv, NEW m \in Nat, grid.next <= m
    PROVE  stash \in Seq(BuffersBelow(m))
<1>1. BuffersBelow(grid.next) \subseteq BuffersBelow(m)
  BY InvGrid, LaterBuffers
<1>. QED
  BY <1>1 DEF ScreenInv

\* A step that edits the screen and leaves the other buffer alone.
LEMMA EditStep ==
    ASSUME ScreenInv, NEW h \in Leaves(grid), (ShapeInv /\ ~LosesShape) => h \in After(grid),
           grid' = h, stash' = stash, program' = program,
           saved' \in Seq(SavedCursors), Len(saved') <= 1,
           pen' \in Styles, autowrap' \in BOOLEAN, printed' \in Nat
    PROVE  GoodStep
<1>1. /\ h \in Grids /\ h.size = grid.size /\ (IsAlternate => h.scrollback = grid.scrollback /\ h.pending = grid.pending)
      /\ h.next \in Nat /\ h.next >= grid.next /\ h \in GridsAt(h.next) /\ grid.next \in Nat
  BY InvGrid, LeavesGrids
<1>2. ScreenInv'
  <2>1. stash \in Seq(BuffersBelow(h.next))
    BY <1>1, StashLater
  <2>2. (IsAlternate => grid.pending = NoLine)'
    BY <1>1 DEF ScreenInv, IsAlternate
  <2>. QED
    BY <1>1, <2>1, <2>2 DEF ScreenInv
<1>3. Untouched
  <2>1. stash # << >> => Primary(h, stash) = Primary(grid, stash)
    BY DEF Primary
  <2>. QED
    BY <1>1, <2>1 DEF Untouched, IsAlternate
<1>4. ASSUME ShapeInv, ~LosesShape PROVE ShapeInv'
  <2>1. h \in After(grid) /\ Shaped(grid)
    BY <1>4 DEF ShapeInv
  <2>2. Shaped(h)
    BY <2>1 DEF After
  <2>. QED
    BY <1>1, <1>4, <2>2 DEF ShapeInv, Shaped, ShapedBuffer, IsAlternate
<1>. QED
  BY <1>1, <1>2, <1>3, <1>4 DEF GoodStep, SameSize

\* A command that edits the grid and nothing else is a good step.
LEMMA EditCommand ==
    ASSUME ScreenInv, NEW command, NEW h \in Leaves(grid),
           (ShapeInv /\ ~LosesShape) => h \in After(grid), Edit(command, h)
    PROVE  GoodStep
<1>1. /\ grid' = h /\ stash' = stash /\ program' = program /\ saved' = saved /\ pen' = pen
      /\ autowrap' = autowrap /\ printed' = printed
  BY DEF Edit
<1>2. saved' \in Seq(SavedCursors) /\ Len(saved') <= 1
      /\ pen' \in Styles /\ autowrap' \in BOOLEAN /\ printed' \in Nat
  BY <1>1 DEF ScreenInv
<1>. QED
  BY <1>1, <1>2, EditStep

\* The commands that only ever edit in place.
LEMMA EditAfter ==
    ASSUME ScreenInv, NEW command, NEW h \in After(grid), Edit(command, h)
    PROVE  GoodStep
<1>1. h \in Leaves(grid)
  BY DEF After
<1>. QED
  BY <1>1, EditCommand

\* Stuttering is a good step.
LEMMA StutterStep ==
    ASSUME ScreenInv, UNCHANGED vars
    PROVE  GoodStep
<1>1. /\ grid' = grid /\ stash' = stash /\ program' = program /\ saved' = saved /\ pen' = pen
      /\ autowrap' = autowrap /\ printed' = printed
  BY DEF vars
<1>2. saved' \in Seq(SavedCursors) /\ Len(saved') <= 1
      /\ pen' \in Styles /\ autowrap' \in BOOLEAN /\ printed' \in Nat
  BY <1>1 DEF ScreenInv
<1>3. grid \in After(grid)
  BY InvGrid, NoEdit
<1>4. grid \in Leaves(grid)
  BY <1>3 DEF After
<1>. QED
  BY <1>1, <1>2, <1>3, <1>4, EditStep

-----------------------------------------------------------------------------
(* The commands. *)

\* Printing is a good step (print).
LEMMA PrintTextStep ==
    ASSUME ScreenInv, PrintText
    PROVE  GoodStep
<1>1. PICK content \in program.prints :
          /\ grid' = PrintOne(grid, content) /\ printed' = printed + 1
          /\ stash' = stash /\ saved' = saved /\ pen' = pen /\ autowrap' = autowrap /\ program' = program
  BY Zenon DEF PrintText
<1>2. content \in {"a", "W", "+"}
  BY InvProgram
<1>3. pen \in Styles /\ autowrap \in BOOLEAN
  BY DEF ScreenInv
<1>. DEFINE h == PrintOne(grid, content)
<1>4. h \in After(grid)
  BY <1>2, <1>3, InvGrid, PrintOneAfter
<1>. HIDE DEF h
<1>5. h \in Leaves(grid)
  BY <1>4 DEF After
<1>6. /\ saved' \in Seq(SavedCursors) /\ Len(saved') <= 1
      /\ pen' \in Styles /\ autowrap' \in BOOLEAN /\ printed' \in Nat
  BY <1>1 DEF ScreenInv
<1>. QED
  BY <1>1, <1>4, <1>5, <1>6, EditStep DEF h

\* The commands that move the cursor are good steps.
LEMMA CursorSteps ==
    ASSUME ScreenInv,
           \/ CarriageReturns \/ LineFeeds \/ NextLine \/ ReverseIndexes
           \/ CursorUp \/ CursorDown \/ CursorForward \/ CursorBack \/ Tab \/ CursorPosition
    PROVE  GoodStep
<1>. USE InvGrid
<1>1. CASE CarriageReturns
  BY <1>1, CarriageReturnAfter, EditAfter DEF CarriageReturns
<1>2. CASE LineFeeds
  BY <1>2, LineFeedAfter, EditAfter DEF LineFeeds
<1>3. CASE NextLine
  <2>. DEFINE h == LineFeed(grid)
  <2>1. h \in After(grid)
    BY LineFeedAfter
  <2>. HIDE DEF h
  <2>2. h \in Grids
    BY <2>1, AfterGrids
  <2>3. CarriageReturn(h) \in After(grid)
    BY <2>1, <2>2, CarriageReturnAfter, EditsCompose
  <2>. QED
    BY <1>3, <2>3, EditAfter DEF NextLine, h
<1>4. CASE ReverseIndexes
  BY <1>4, ReverseIndexAfter, EditAfter DEF ReverseIndexes
<1>5. CASE CursorUp
  <2>1. PICK n \in program.counts : Edit("CUU", CursorTo(grid, Minus(grid.cursor.row, n), grid.cursor.col))
    BY <1>5 DEF CursorUp
  <2>2. n \in Nat
    BY InvProgram
  <2>3. Minus(grid.cursor.row, n) \in Nat
    BY <2>2 DEF Minus
  <2>. QED
    BY <2>1, <2>3, CursorToAfter, EditAfter
<1>6. CASE CursorDown
  <2>1. PICK n \in program.counts : Edit("CUD", CursorTo(grid, grid.cursor.row + n, grid.cursor.col))
    BY <1>6 DEF CursorDown
  <2>2. n \in Nat
    BY InvProgram
  <2>3. grid.cursor.row + n \in Nat
    BY <2>2
  <2>. QED
    BY <2>1, <2>3, CursorToAfter, EditAfter
<1>7. CASE CursorForward
  <2>1. PICK n \in program.counts : Edit("CUF", CursorTo(grid, grid.cursor.row, grid.cursor.col + n))
    BY <1>7 DEF CursorForward
  <2>2. n \in Nat
    BY InvProgram
  <2>3. grid.cursor.col + n \in Nat
    BY <2>2
  <2>. QED
    BY <2>1, <2>3, CursorToAfter, EditAfter
<1>8. CASE CursorBack
  <2>1. PICK n \in program.counts : Edit("CUB", CursorTo(grid, grid.cursor.row, Minus(grid.cursor.col, n)))
    BY <1>8 DEF CursorBack
  <2>2. n \in Nat
    BY InvProgram
  <2>3. Minus(grid.cursor.col, n) \in Nat
    BY <2>2 DEF Minus
  <2>. QED
    BY <2>1, <2>3, CursorToAfter, EditAfter
<1>9. CASE Tab
  <2>1. (grid.cursor.col \div 8 + 1) * 8 \in Nat
    OBVIOUS
  <2>. QED
    BY <1>9, <2>1, CursorToAfter, EditAfter DEF Tab
<1>10. CASE CursorPosition
  <2>1. PICK row \in 0 .. grid.size.rows, col \in 0 .. grid.size.cols : Edit("CUP", CursorTo(grid, row, col))
    BY <1>10 DEF CursorPosition
  <2>2. row \in Nat /\ col \in Nat
    OBVIOUS
  <2>. QED
    BY <2>1, <2>2, CursorToAfter, EditAfter
<1>. QED
  BY <1>1, <1>2, <1>3, <1>4, <1>5, <1>6, <1>7, <1>8, <1>9, <1>10

\* DECSTBM is a good step (set_scroll_region).
LEMMA SetScrollRegionStep ==
    ASSUME ScreenInv, SetScrollRegion
    PROVE  GoodStep
<1>1. PICK top \in 0 .. grid.size.rows, bottom \in 0 .. grid.size.rows :
          LET last == Less(bottom, Minus(grid.size.rows, 1)) IN
          top < last /\ Edit("DECSTBM", MoveTo([grid EXCEPT !.top = top, !.bottom = last], 0, 0))
  BY Zenon DEF SetScrollRegion
<1>. DEFINE last == Less(bottom, Minus(grid.size.rows, 1))
            g == [grid EXCEPT !.top = top, !.bottom = last]
<1>2. /\ grid.size.rows \in Nat /\ grid.next \in Nat /\ grid \in GridsAt(grid.next) /\ grid \in Grids
      /\ grid.size.cols \in Nat
  BY InvGrid
<1>3. last \in Nat /\ top \in Nat /\ top < last /\ last <= Minus(grid.size.rows, 1)
  BY <1>1, <1>2 DEF Less, Minus
<1>4. Edit("DECSTBM", MoveTo(g, 0, 0))
  BY <1>1
<1>. HIDE DEF last
<1>5. /\ g \in GridsAt(grid.next) /\ g.size = grid.size /\ g.scrollback = grid.scrollback /\ g.pending = grid.pending
      /\ g.rows = grid.rows /\ g.cursor = grid.cursor /\ g.top = top /\ g.bottom = last
  BY <1>2, <1>3 DEF GridsAt
<1>. HIDE DEF g
<1>6. g \in After(grid) /\ g \in Grids
  <2>1. Shaped(grid) => Shaped(g)
    BY <1>3, <1>5 DEF Shaped, Margins
  <2>2. g \in After(grid)
    BY <1>2, <1>5, <2>1, InAfter
  <2>. QED
    BY <1>2, <2>2, AfterGrids
<1>7. MoveTo(g, 0, 0) \in After(g)
  <2>1. Shaped(g) => Within(At(0, 0), g.size)
    BY <1>2, <1>5 DEF Within, At, Minus
  <2>. QED
    BY <1>6, <2>1, MoveToAfter
<1>8. MoveTo(g, 0, 0) \in After(grid)
  BY <1>2, <1>6, <1>7, EditsCompose
<1>. QED
  BY <1>4, <1>8, EditAfter

\* The commands that shift rows are good steps.
LEMMA RowSteps ==
    ASSUME ScreenInv, ScrollUp \/ ScrollDown \/ InsertsLines \/ DeletesLines
    PROVE  GoodStep
<1>1. CASE ScrollUp
  <2>1. PICK n, h : /\ n \in program.counts
                    /\ h = Repeat(LAMBDA g : ScrollUpOnce(g, Fresh), grid, n) /\ Edit("SU", h)
    BY <1>1, Zenon DEF ScrollUp
  <2>. n \in program.counts
    BY <2>1, Zenon
  <2>2. n \in Nat
    BY InvProgram
  <2>3. h \in After(grid)
    BY <2>1, <2>2, InvGrid, ScrollsUpAfter
  <2>. QED
    BY <2>1, <2>3, EditAfter
<1>2. CASE ScrollDown
  <2>1. PICK n, h : n \in program.counts /\ h = Repeat(ScrollDownOnce, grid, n) /\ Edit("SD", h)
    BY <1>2, Zenon DEF ScrollDown
  <2>2. n \in Nat
    BY <2>1, InvProgram
  <2>3. h \in After(grid)
    BY <2>1, <2>2, InvGrid, ScrollsDownAfter
  <2>. QED
    BY <2>1, <2>3, EditAfter
<1>3. ASSUME InsertsLines \/ DeletesLines, ShapeInv, ~LosesShape
      PROVE  Shaped(grid) => OnScreen(grid, grid.bottom, grid.cursor.row)
  <2>1. grid.rows # << >> /\ grid.rows \in Seq(RowBelow(grid.next)) /\ Len(grid.rows) \in Nat
    BY <1>3, InvGrid, GridParts DEF LosesShape, EditsNoRows, RowsBelow
  <2>2. Len(grid.rows) > 0
    BY <2>1
  <2>3. Shaped(grid) => /\ Len(grid.rows) = grid.size.rows
                       /\ grid.cursor.row <= Minus(grid.size.rows, 1)
                       /\ grid.bottom <= Minus(grid.size.rows, 1)
    BY DEF Shaped, Rectangle, Within, Margins
  <2>. QED
    BY <2>1, <2>2, <2>3, InvGrid DEF OnScreen, Minus
<1>4. CASE InsertsLines
  <2>1. PICK n \in program.counts : Edit("IL", EditLines(grid, n, grid.bottom, grid.cursor.row))
    BY <1>4, Zenon DEF InsertsLines, InsertLines
  <2>. DEFINE h == EditLines(grid, n, grid.bottom, grid.cursor.row)
  <2>2. n \in Nat
    BY InvProgram
  <2>3. h \in Leaves(grid)
        /\ ((Shaped(grid) => OnScreen(grid, grid.bottom, grid.cursor.row)) => h \in After(grid))
    BY <2>2, InvGrid, EditLinesAfter
  <2>4. (ShapeInv /\ ~LosesShape) => h \in After(grid)
    BY <1>3, <1>4, <2>3
  <2>. HIDE DEF h
  <2>5. Edit("IL", h)
    BY <2>1 DEF h
  <2>. QED
    BY <2>3, <2>4, <2>5, EditCommand
<1>5. CASE DeletesLines
  <2>1. PICK n \in program.counts : Edit("DL", EditLines(grid, n, grid.cursor.row, grid.bottom))
    BY <1>5, Zenon DEF DeletesLines, DeleteLines
  <2>. DEFINE h == EditLines(grid, n, grid.cursor.row, grid.bottom)
  <2>2. n \in Nat
    BY InvProgram
  <2>3. h \in Leaves(grid)
        /\ ((Shaped(grid) => OnScreen(grid, grid.cursor.row, grid.bottom)) => h \in After(grid))
    BY <2>2, InvGrid, EditLinesAfter
  <2>4. (ShapeInv /\ ~LosesShape) => h \in After(grid)
    BY <1>3, <1>5, <2>3 DEF OnScreen
  <2>. HIDE DEF h
  <2>5. Edit("DL", h)
    BY <2>1 DEF h
  <2>. QED
    BY <2>3, <2>4, <2>5, EditCommand
<1>. QED
  BY <1>1, <1>2, <1>4, <1>5

\* The commands that change cells are good steps.
LEMMA CellSteps ==
    ASSUME ScreenInv,
           InsertChars \/ DeleteChars \/ EraseChars \/ ErasesInLine \/ ErasesInDisplay
    PROVE  GoodStep
<1>. USE InvGrid
<1>0. EraseCell \in Cells
  BY EraseCellType DEF ScreenInv
<1>1. ASSUME NEW command, NEW h, RowsOnly(grid, h), Edit(command, h) PROVE GoodStep
  BY <1>1, EditAfter DEF RowsOnly
<1>2. CASE InsertChars
  <2>1. PICK n \in program.counts : Edit("ICH", ShiftCells(grid, n))
    BY <1>2 DEF InsertChars
  <2>2. n \in Int
    BY InvProgram
  <2>. QED
    BY <1>0, <1>1, <2>1, <2>2, ShiftCellsAfter
<1>3. CASE DeleteChars
  <2>1. PICK n \in program.counts : Edit("DCH", ShiftCells(grid, -n))
    BY <1>3 DEF DeleteChars
  <2>2. n \in Nat
    BY InvProgram
  <2>3. -n \in Int
    BY <2>2
  <2>. QED
    BY <1>0, <1>1, <2>1, <2>3, ShiftCellsAfter
<1>4. CASE EraseChars
  <2>1. PICK n \in program.counts :
          Edit("ECH", FillRow(grid, grid.cursor.row, grid.cursor.col, grid.cursor.col + n, EraseCell))
    BY <1>4 DEF EraseChars
  <2>. QED
    BY <1>0, <1>1, <2>1, FillRowAfter
<1>5. CASE ErasesInLine
  <2>1. PICK mode \in EraseModes : Edit("EL", EraseInLine(grid, mode, EraseCell))
    BY <1>5 DEF ErasesInLine
  <2>. QED
    BY <1>0, <1>1, <2>1, EraseInLineAfter
<1>6. CASE ErasesInDisplay
  <2>1. PICK mode \in EraseModes : Edit("ED", EraseInDisplay(grid, mode, EraseCell))
    BY <1>6 DEF ErasesInDisplay
  <2>. QED
    BY <1>0, <1>1, <2>1, EraseInDisplayAfter
<1>. QED
  BY <1>2, <1>3, <1>4, <1>5, <1>6

\* The commands that leave the grid alone are good steps.
LEMMA ModeSteps ==
    ASSUME ScreenInv, SelectPen \/ SetAutowrap \/ SaveCursor
    PROVE  GoodStep
<1>0. grid \in After(grid) /\ grid \in Leaves(grid)
  BY InvGrid, NoEdit DEF After
<1>1. /\ pen \in Styles /\ autowrap \in BOOLEAN /\ printed \in Nat
      /\ saved \in Seq(SavedCursors) /\ Len(saved) <= 1
  BY DEF ScreenInv
<1>2. CASE SelectPen
  <2>1. /\ pen' \in Styles
        /\ grid' = grid /\ stash' = stash /\ saved' = saved /\ autowrap' = autowrap
        /\ printed' = printed /\ program' = program
    BY <1>2, InvProgram DEF SelectPen
  <2>. QED
    BY <1>0, <1>1, <2>1, EditStep
<1>3. CASE SetAutowrap
  <2>1. /\ autowrap' \in BOOLEAN
        /\ grid' = grid /\ stash' = stash /\ saved' = saved /\ pen' = pen
        /\ printed' = printed /\ program' = program
    BY <1>3 DEF SetAutowrap
  <2>. QED
    BY <1>0, <1>1, <2>1, EditStep
<1>4. CASE SaveCursor
  <2>. DEFINE s == [row |-> grid.cursor.row, col |-> grid.cursor.col, wrap |-> grid.cursor.wrap, pen |-> pen]
  <2>1. /\ saved' = <<s>>
        /\ grid' = grid /\ stash' = stash /\ pen' = pen /\ autowrap' = autowrap
        /\ printed' = printed /\ program' = program
    BY <1>4 DEF SaveCursor
  <2>2. s \in SavedCursors
    BY <1>1, InvGrid DEF SavedCursors, Cursors
  <2>. HIDE DEF s
  <2>3. saved' \in Seq(SavedCursors) /\ Len(saved') <= 1
    BY <2>1, <2>2
  <2>. QED
    BY <1>0, <1>1, <2>1, <2>3, EditStep
<1>. QED
  BY <1>2, <1>3, <1>4

\* Restoring the cursor clamps it into the screen of today.
LEMMA RestoreCursorStep ==
    ASSUME ScreenInv, RestoreCursor
    PROVE  GoodStep
<1>. DEFINE s == IF saved = << >> THEN [row |-> 0, col |-> 0, wrap |-> FALSE, pen |-> "plain"] ELSE saved[1]
            g == CursorTo(grid, s.row, s.col)
            h == IF s.wrap THEN ArmWrap(g) ELSE g
<1>1. /\ pen' = s.pen /\ grid' = h
      /\ stash' = stash /\ saved' = saved /\ autowrap' = autowrap /\ printed' = printed
      /\ program' = program
  BY Zenon DEF RestoreCursor
<1>2. s \in SavedCursors
  <2>1. CASE saved = << >>
    <3>1. "plain" \in Styles
      BY DEF Styles
    <3>. QED
      BY <2>1, <3>1 DEF SavedCursors
  <2>2. CASE saved # << >>
    <3>1. saved[1] \in SavedCursors
      BY <2>2 DEF ScreenInv
    <3>. QED
      BY <2>2, <3>1
  <2>. QED
    BY <2>1, <2>2
<1>. HIDE DEF s
<1>3. s.row \in Nat /\ s.col \in Nat /\ s.pen \in Styles
  BY <1>2 DEF SavedCursors
<1>4. g \in After(grid) /\ g \in Grids
  <2>. HIDE DEF g
  <2>1. g \in After(grid)
    BY <1>3, InvGrid, CursorToAfter DEF g
  <2>. QED
    BY <2>1, InvGrid, AfterGrids
<1>. HIDE DEF g
<1>5. h \in After(grid)
  <2>1. ArmWrap(g) \in After(grid)
    BY <1>4, InvGrid, ArmWrapAfter, EditsCompose
  <2>. QED
    BY <1>4, <2>1, Zenon
<1>. HIDE DEF h
<1>6. h \in Leaves(grid)
  BY <1>5 DEF After
<1>7. /\ saved' \in Seq(SavedCursors) /\ Len(saved') <= 1
      /\ pen' \in Styles /\ autowrap' \in BOOLEAN /\ printed' \in Nat
  BY <1>1, <1>3 DEF ScreenInv
<1>. QED
  BY <1>1, <1>5, <1>6, <1>7, EditStep

\* The buffer set aside is a buffer.
LEMMA StashType ==
    ASSUME ScreenInv, IsAlternate
    PROVE  stash[1] \in BuffersBelow(grid.next) /\ stash = <<stash[1]>>
<1>1. stash \in Seq(BuffersBelow(grid.next)) /\ Len(stash) <= 1 /\ stash # << >>
  BY DEF ScreenInv, IsAlternate
<1>2. Len(stash) \in Nat /\ Len(stash) # 0
  BY <1>1
<1>3. Len(stash) = 1
  <2>1. ASSUME NEW k \in Nat, k <= 1, k # 0 PROVE k = 1
    BY <2>1
  <2>. QED
    BY <1>1, <1>2, <2>1, Zenon
<1>. QED
  BY <1>1, <1>3

\* A screen is in shape if its buffer is.
LEMMA ShapedShown ==
    ASSUME NEW g, NEW b, Buffer(g) = b
    PROVE  Shaped(g) <=> ShapedBuffer(b, g.size)
<1>1. b.rows = g.rows /\ b.cursor = g.cursor /\ b.top = g.top /\ b.bottom = g.bottom
  BY DEF Buffer
<1>. QED
  BY <1>1 DEF Shaped, ShapedBuffer

\* Entering the alternate buffer sets the rows aside (enter_alternate).
LEMMA EnterAlternateStep ==
    ASSUME ScreenInv, EnterAlternate
    PROVE  GoodStep
<1>. DEFINE n == grid.next
            m == n + grid.size.rows
            b == Minus(grid.size.rows, 1)
            rows == BlankRows(grid.size, n)
            at == At(0, 0)
            h == [grid EXCEPT !.top = 0, !.bottom = b, !.rows = rows, !.next = m,
                              !.cursor = at, !.pending = NoLine]
            aside == Buffer(grid)
<1>1. /\ grid \in GridsAt(n) /\ n \in Nat /\ grid.size \in Sizes /\ grid.size.rows \in Nat
      /\ grid.size.cols \in Nat
  BY InvGrid
<1>2. m \in Nat /\ n <= m /\ b \in Nat
  BY <1>1 DEF Minus
<1>3. rows \in RowsBelow(m) /\ Rectangle(rows, grid.size)
  <2>1. n + grid.size.rows <= m
    BY <1>1
  <2>2. /\ rows \in Seq(WideRows(m, grid.size.cols)) /\ rows \in RowsBelow(m)
        /\ Len(rows) = grid.size.rows
    BY <1>1, <1>2, <2>1, BlankRowsType
  <2>. HIDE DEF rows
  <2>. QED
    BY <1>1, <2>2, Rectangular
<1>4. /\ grid' = h /\ stash' = <<aside>> /\ ~IsAlternate
      /\ saved' = saved /\ pen' = pen /\ autowrap' = autowrap /\ printed' = printed /\ program' = program
  BY <1>1 DEF EnterAlternate, ResetScrollRegion
<1>5. NoLine \in HeadsBelow(m) /\ at \in Cursors /\ Within(at, grid.size) /\ at = At(0, 0)
      /\ Margins(0, b, grid.size)
  BY <1>1, <1>2 DEF HeadsBelow, At, Cursors, Within, Margins, Minus
<1>6. aside \in BuffersBelow(m)
  BY <1>1, <1>2, BufferType, LaterBuffers
<1>7. grid.scrollback \in StoresBelow(m)
  BY <1>1, <1>2, LaterIds, GridParts
<1>. HIDE DEF rows, at, b, aside
<1>8. /\ h \in GridsAt(m) /\ h.size = grid.size /\ h.scrollback = grid.scrollback /\ h.next = m
      /\ h.rows = rows /\ h.cursor = at /\ h.top = 0 /\ h.bottom = b /\ h.pending = NoLine
  BY <1>1, <1>2, <1>3, <1>5, <1>7 DEF GridsAt
<1>. HIDE DEF h, m
<1>9. ScreenInv'
  <2>1. <<aside>> \in Seq(BuffersBelow(m)) /\ Len(<<aside>>) <= 1
    BY <1>6
  <2>. QED
    BY <1>2, <1>4, <1>8, <2>1 DEF ScreenInv
<1>10. stash' # << >> /\ stash'[1] = aside /\ stash = << >>
  BY <1>4 DEF IsAlternate
<1>11. Untouched
  <2>1. Primary(grid', stash') = aside /\ Primary(grid, stash) = aside
    BY <1>10 DEF Primary, aside
  <2>. QED
    BY <1>4, <1>8, <2>1 DEF Untouched
<1>12. ASSUME ShapeInv PROVE ShapeInv'
  <2>1. Shaped(h)
    BY <1>3, <1>5, <1>8 DEF Shaped
  <2>2. ShapedBuffer(aside, grid.size)
    BY <1>12, ShapedShown DEF aside, ShapeInv
  <2>. QED
    BY <1>4, <1>8, <1>10, <2>1, <2>2 DEF ShapeInv, IsAlternate
<1>. QED
  BY <1>4, <1>8, <1>9, <1>11, <1>12 DEF GoodStep, SameSize

\* Leaving the alternate buffer shows the rows set aside (exit_alternate).
LEMMA ExitAlternateStep ==
    ASSUME ScreenInv, ExitAlternate
    PROVE  GoodStep
<1>. DEFINE n == grid.next
            h == Show(grid, stash[1])
<1>1. /\ grid' = h /\ stash' = << >> /\ IsAlternate
      /\ saved' = saved /\ pen' = pen /\ autowrap' = autowrap /\ printed' = printed /\ program' = program
  BY DEF ExitAlternate
<1>2. stash[1] \in BuffersBelow(n) /\ stash # << >>
  BY <1>1, StashType DEF IsAlternate
<1>3. /\ h \in GridsAt(n) /\ h.size = grid.size /\ h.scrollback = grid.scrollback /\ h.next = n
      /\ Buffer(h) = stash[1] /\ n \in Nat
  BY <1>2, InvGrid, ShowType
<1>. HIDE DEF h
<1>4. ScreenInv'
  <2>1. << >> \in Seq(BuffersBelow(n)) /\ Len(<< >>) <= 1
    OBVIOUS
  <2>. QED
    BY <1>1, <1>3, <2>1 DEF ScreenInv, IsAlternate
<1>5. Untouched
  <2>1. Primary(grid', stash') = stash[1] /\ Primary(grid, stash) = stash[1]
    BY <1>1, <1>2, <1>3 DEF Primary
  <2>. QED
    BY <1>1, <1>3, <2>1 DEF Untouched
<1>6. ASSUME ShapeInv PROVE ShapeInv'
  <2>1. ShapedBuffer(stash[1], grid.size)
    BY <1>1, <1>6 DEF ShapeInv
  <2>2. Shaped(h)
    BY <1>3, <2>1, ShapedShown
  <2>. QED
    BY <1>1, <2>2 DEF ShapeInv, IsAlternate
<1>. QED
  BY <1>1, <1>3, <1>4, <1>5, <1>6 DEF GoodStep, SameSize

\* RIS is a good step (reset).
LEMMA ResetStep ==
    ASSUME ScreenInv, Reset
    PROVE  GoodStep
<1>. DEFINE n == grid.next
            primary == IF IsAlternate THEN Show(grid, stash[1]) ELSE grid
            region == ResetScrollRegion(primary)
            home == MoveTo(region, 0, 0)
            h == EraseInDisplay(home, "All", Blank)
<1>1. /\ grid' = h /\ stash' = << >> /\ saved' = << >> /\ pen' = "plain" /\ autowrap' = TRUE
      /\ printed' = printed /\ program' = program
  BY Zenon DEF Reset
<1>2. /\ primary \in GridsAt(n) /\ primary.size = grid.size /\ primary.next = n /\ n \in Nat
      /\ (ShapeInv => Shaped(primary))
  <2>1. CASE IsAlternate
    <3>1. primary = Show(grid, stash[1]) /\ stash[1] \in BuffersBelow(n)
      BY <2>1, StashType
    <3>2. /\ primary \in GridsAt(n) /\ primary.size = grid.size /\ primary.next = n
          /\ Buffer(primary) = stash[1]
      BY <3>1, InvGrid, ShowType
    <3>3. ShapeInv => ShapedBuffer(stash[1], grid.size)
      BY <2>1 DEF ShapeInv
    <3>. HIDE DEF primary
    <3>. QED
      BY <3>2, <3>3, InvGrid, ShapedShown
  <2>2. CASE ~IsAlternate
    BY <2>2, InvGrid DEF ShapeInv
  <2>. QED
    BY <2>1, <2>2
<1>. HIDE DEF primary
<1>3. primary \in Grids
  BY <1>2 DEF Grids
<1>4. region \in After(primary) /\ region \in Grids
  BY <1>3, ResetScrollRegionAfter, AfterGrids
<1>. HIDE DEF region
<1>5. home \in After(primary) /\ home \in Grids
  <2>1. region.size.rows \in Nat /\ region.size.cols \in Nat
    BY <1>4, GridParts DEF Grids
  <2>2. Shaped(region) => Within(At(0, 0), region.size)
    BY <2>1 DEF Within, At, Minus
  <2>3. home \in After(region)
    BY <1>4, <2>2, MoveToAfter
  <2>. HIDE DEF home
  <2>4. home \in After(primary)
    BY <1>3, <1>4, <2>3, EditsCompose
  <2>. QED
    BY <1>3, <2>4, AfterGrids
<1>. HIDE DEF home
<1>6. h \in After(primary)
  <2>1. "All" \in EraseModes /\ Blank \in Cells
    BY SpacerCell DEF EraseModes
  <2>2. RowsOnly(home, h)
    BY <1>5, <2>1, EraseInDisplayAfter
  <2>. HIDE DEF h
  <2>. QED
    BY <1>3, <1>5, <2>2, EditsCompose DEF RowsOnly
<1>. HIDE DEF h
<1>7. /\ h \in GridsAt(h.next) /\ h.next \in Nat /\ h.size = grid.size
      /\ (ShapeInv => Shaped(h))
  BY <1>2, <1>3, <1>6, AfterGrids
<1>8. ScreenInv'
  <2>1. << >> \in Seq(BuffersBelow(h.next)) /\ << >> \in Seq(SavedCursors) /\ Len(<< >>) <= 1
        /\ "plain" \in Styles /\ TRUE \in BOOLEAN
    BY DEF Styles
  <2>. QED
    BY <1>1, <1>7, <2>1 DEF ScreenInv, IsAlternate
<1>9. ShapeInv => ShapeInv'
  BY <1>1, <1>7 DEF ShapeInv, IsAlternate
<1>. QED
  BY <1>1, <1>7, <1>8, <1>9 DEF GoodStep, Untouched, SameSize

\* What a resize of the main buffer is known to leave.
LEMMA ResizedGrid ==
    ASSUME NEW n \in Nat, NEW g, g.next = n, NEW size, NEW whole, NEW h \in Resized(g, size, whole)
    PROVE  /\ h.next \in Nat /\ n <= h.next /\ h \in GridsAt(h.next) /\ h \in Grids
           /\ h.size = size /\ (whole => Shaped(h))
<1>1. PICK m \in Nat : m >= g.next /\ h \in GridsAt(m) /\ h.size = size /\ (whole => Shaped(h))
  BY DEF Resized
<1>2. h.next = m /\ h \in Grids
  BY <1>1, GridParts DEF Grids
<1>. QED
  BY <1>1, <1>2

\* What a resize of the alternate buffer is known to leave.
LEMMA ClippedGrid ==
    ASSUME NEW g \in Grids, NEW size, NEW h \in Resized(g, size, TRUE)
    PROVE  /\ h.next \in Nat /\ g.next <= h.next /\ h \in GridsAt(h.next) /\ h \in Grids
           /\ h.size = size /\ Shaped(h)
<1>1. PICK m \in Nat : m >= g.next /\ h \in GridsAt(m) /\ h.size = size /\ Shaped(h)
  BY Zenon DEF Resized
<1>2. h.next = m /\ h \in Grids
  BY <1>1, GridParts DEF Grids
<1>3. g.next \in Nat
  BY GridParts DEF Grids
<1>. QED
  BY <1>1, <1>2, <1>3

\* Resizing the main buffer is a good step (resize).
LEMMA ResizeStep ==
    ASSUME ScreenInv, Resize
    PROVE  GoodStep
<1>1. PICK size \in program.sizes \ {grid.size} :
          /\ ~IsAlternate /\ grid' = PrimaryResized(grid, size)
          /\ stash' = stash /\ saved' = saved /\ pen' = pen /\ autowrap' = autowrap
          /\ printed' = printed /\ program' = program
  BY Zenon DEF Resize
<1>. DEFINE h == PrimaryResized(grid, size)
            whole == Empty(size) \/ AnchorAligned(grid)
<1>2. size \in Sizes /\ size \in program.sizes /\ size # grid.size
  BY InvProgram
<1>3. h \in Resized(grid, size, whole)
  BY <1>2, InvGrid, PrimaryResizedType
<1>. HIDE DEF h
<1>4. /\ h.next \in Nat /\ grid.next <= h.next /\ h \in GridsAt(h.next)
      /\ h.size = size /\ (whole => Shaped(h))
  <2>. HIDE DEF whole
  <2>. QED
    BY <1>3, InvGrid, ResizedGrid
<1>5. grid' = h
  BY <1>1 DEF h
<1>6. ScreenInv'
  <2>1. stash \in Seq(BuffersBelow(h.next))
    BY <1>4, StashLater
  <2>. QED
    BY <1>1, <1>2, <1>4, <1>5, <2>1 DEF ScreenInv, IsAlternate
<1>7. Untouched
  BY <1>2, <1>4, <1>5 DEF Untouched
<1>8. ASSUME ~LosesShape PROVE ShapeInv'
  <2>1. whole
    BY <1>1, <1>4, <1>5, <1>8 DEF LosesShape, ReflowPanics
  <2>. QED
    BY <1>1, <1>4, <1>5, <2>1 DEF ShapeInv, IsAlternate
<1>. QED
  BY <1>6, <1>7, <1>8 DEF GoodStep, SameSize

\* Resizing while the alternate buffer is shown: the main one is laid out again.
LEMMA ResizeAlternateStep ==
    ASSUME ScreenInv, ResizeAlternate
    PROVE  GoodStep
<1>1. PICK size, beneath, primary :
          /\ size \in program.sizes \ {grid.size}
          /\ beneath = Show(grid, stash[1]) /\ primary = PrimaryResized(beneath, size)
          /\ IsAlternate
          /\ grid' = IF ~Empty(size) /\ ~AnchorAligned(beneath) THEN primary
                     ELSE Clipped(Show(primary, Buffer(grid)))
          /\ stash' = IF ~Empty(size) /\ ~AnchorAligned(beneath) THEN << >> ELSE <<Buffer(primary)>>
          /\ saved' = saved /\ pen' = pen /\ autowrap' = autowrap
          /\ printed' = printed /\ program' = program
  BY Zenon DEF ResizeAlternate
<1>. DEFINE n == grid.next
            whole == Empty(size) \/ AnchorAligned(beneath)
            aside == Buffer(grid)
            k == Show(primary, aside)
            h == Clipped(k)
<1>2. size \in Sizes /\ size \in program.sizes /\ size # grid.size /\ n \in Nat /\ grid \in GridsAt(n)
  BY <1>1, InvProgram, InvGrid
<1>3. beneath \in GridsAt(n) /\ beneath.next = n /\ beneath \in Grids
  <2>1. stash[1] \in BuffersBelow(n)
    BY <1>1, StashType
  <2>2. beneath \in GridsAt(n) /\ beneath.next = n
    BY <1>1, <1>2, <2>1, ShowType, GridParts
  <2>. QED
    BY <1>2, <2>2 DEF Grids
<1>4. primary \in Resized(beneath, size, whole)
  BY <1>1, <1>2, <1>3, PrimaryResizedType
<1>5. /\ primary.next \in Nat /\ n <= primary.next /\ primary \in GridsAt(primary.next)
      /\ primary.size = size /\ (whole => Shaped(primary))
  <2>. HIDE DEF whole, n
  <2>. QED
    BY <1>2, <1>3, <1>4, ResizedGrid
<1>6. CASE ~whole
  <2>1. grid' = primary /\ stash' = << >>
    BY <1>1, <1>6
  <2>2. ScreenInv'
    <3>1. << >> \in Seq(BuffersBelow(primary.next)) /\ Len(<< >>) <= 1
      OBVIOUS
    <3>. QED
      BY <1>1, <1>2, <1>5, <2>1, <3>1 DEF ScreenInv, IsAlternate
  <2>3. LosesShape
    BY <1>1, <1>5, <1>6, <2>1 DEF LosesShape, ReflowPanics
  <2>. QED
    BY <1>2, <1>5, <2>1, <2>2, <2>3 DEF GoodStep, Untouched, SameSize
<1>7. CASE whole
  <2>1. grid' = h /\ stash' = <<Buffer(primary)>>
    BY <1>1, <1>7
  <2>2. /\ aside \in BuffersBelow(primary.next) /\ Buffer(primary) \in BuffersBelow(primary.next)
    BY <1>2, <1>5, BufferType, LaterBuffers
  <2>9. aside.pending = NoLine
    BY <1>1 DEF ScreenInv, Buffer
  <2>. HIDE DEF aside
  <2>3. k \in GridsAt(primary.next) /\ k.size = size /\ k.next = primary.next /\ k \in Grids
        /\ k.pending = NoLine
    <3>1. k \in GridsAt(primary.next) /\ k.size = size /\ k.next = primary.next
          /\ Buffer(k) = aside
      BY <1>5, <2>2, ShowType
    <3>2. k.pending = NoLine
      <4>. HIDE DEF k
      <4>. QED
        BY <2>9, <3>1 DEF Buffer
    <3>. HIDE DEF k
    <3>. QED
      BY <1>5, <3>1, <3>2 DEF Grids
  <2>. HIDE DEF k
  <2>4. h \in Resized(k, k.size, TRUE) /\ h.pending = NoLine
    BY <2>3, ClippedType
  <2>. HIDE DEF h
  <2>5. /\ h.next \in Nat /\ primary.next <= h.next /\ h \in GridsAt(h.next)
        /\ h.size = size /\ Shaped(h)
    <3>1. h \in Resized(k, size, TRUE)
      BY <2>3, <2>4, Zenon
    <3>2. /\ h.next \in Nat /\ k.next <= h.next /\ h \in GridsAt(h.next)
          /\ h.size = size /\ Shaped(h)
      BY <2>3, <3>1, ClippedGrid, Zenon
    <3>. QED
      BY <2>3, <3>2
  <2>6. Buffer(primary) \in BuffersBelow(h.next)
    BY <1>5, <2>2, <2>5, LaterBuffers
  <2>7. ScreenInv'
    <3>1. <<Buffer(primary)>> \in Seq(BuffersBelow(h.next)) /\ Len(<<Buffer(primary)>>) <= 1
      BY <2>6
    <3>. QED
      BY <1>1, <1>2, <2>1, <2>4, <2>5, <3>1 DEF ScreenInv
  <2>8. ShapeInv'
    <3>1. ShapedBuffer(Buffer(primary), size)
      BY <1>5, <1>7, ShapedShown
    <3>. QED
      BY <2>1, <2>5, <3>1 DEF ShapeInv, IsAlternate
  <2>. QED
    BY <1>2, <2>1, <2>5, <2>7, <2>8 DEF GoodStep, Untouched, SameSize
<1>. QED
  BY <1>6, <1>7

-----------------------------------------------------------------------------
(* The theorems. *)

\* A new screen is as the invariants say.
LEMMA InitInv ==
    ASSUME Init
    PROVE  ScreenInv /\ ShapeInv
<1>1. PICK size \in program.sizes :
          /\ program \in Programs
          /\ grid = [size |-> size, rows |-> BlankRows(size, 0), cursor |-> At(0, 0),
                     top |-> 0, bottom |-> Minus(size.rows, 1), pending |-> NoLine,
                     scrollback |-> EmptyStore, next |-> size.rows]
          /\ stash = << >> /\ saved = << >>
          /\ pen = "plain" /\ autowrap = TRUE /\ printed = 0
  BY Zenon DEF Init
<1>. DEFINE rows == BlankRows(size, 0)
            at == At(0, 0)
            b == Minus(size.rows, 1)
            store == EmptyStore
            n == size.rows
<1>2. size \in Sizes /\ size.rows \in Nat /\ size.cols \in Nat
  <2>1. size \in Sizes
    BY <1>1, ScreenAssumption DEF Sizes
  <2>. QED
    BY <2>1 DEF Sizes
<1>3. rows \in RowsBelow(n) /\ Rectangle(rows, size)
  <2>1. 0 + size.rows <= n /\ 0 \in Nat
    BY <1>2
  <2>2. rows \in Seq(WideRows(n, size.cols)) /\ rows \in RowsBelow(n) /\ Len(rows) = size.rows
    BY <1>2, <2>1, BlankRowsType
  <2>. HIDE DEF rows
  <2>. QED
    BY <1>2, <2>2, Rectangular
<1>4. NoLine \in HeadsBelow(n) /\ at \in Cursors /\ Within(at, size) /\ b \in Nat
      /\ Margins(0, b, size)
  BY <1>2 DEF HeadsBelow, At, Cursors, Within, Margins, Minus
<1>5. store \in StoresBelow(n)
  <2>0. MaxLines \in Nat /\ MaxBytes \in Nat
    BY ScreenAssumption
  <2>1. store = [lines |-> << >>, total_bytes |-> 0]
    BY DEF EmptyStore
  <2>. HIDE DEF store
  <2>2. store.lines = << >> /\ store.total_bytes = 0 /\ store \in [lines : Seq(LineBelow(n)), total_bytes : Nat]
    BY <2>1
  <2>3. Len(store.lines) = 0
    BY <2>2
  <2>4. Capped(store)
    BY <2>0, <2>2, <2>3 DEF Capped
  <2>5. BytesCounted(store)
    BY <2>2, NoLinesCounted
  <2>. QED
    BY <2>2, <2>4, <2>5 DEF StoresBelow
<1>6. /\ grid.size = size /\ grid.rows = rows /\ grid.cursor = at /\ grid.top = 0 /\ grid.bottom = b
      /\ grid.next = n /\ grid.pending = NoLine /\ grid.scrollback = store
  BY <1>1
<1>. HIDE DEF rows, at, b, store
<1>7. grid \in GridsAt(n)
  <2>1. grid = [size |-> size, rows |-> rows, cursor |-> at, top |-> 0, bottom |-> b,
                pending |-> NoLine, scrollback |-> store, next |-> n]
    BY <1>1 DEF rows, at, b, store
  <2>. QED
    BY <1>2, <1>3, <1>4, <1>5, <2>1 DEF GridsAt
<1>8. ScreenInv
  <2>1. << >> \in Seq(BuffersBelow(n)) /\ << >> \in Seq(SavedCursors) /\ Len(<< >>) <= 1
        /\ "plain" \in Styles /\ TRUE \in BOOLEAN /\ 0 \in Nat
    BY DEF Styles
  <2>. QED
    BY <1>1, <1>2, <1>6, <1>7, <2>1 DEF ScreenInv, IsAlternate
<1>9. ShapeInv
  BY <1>1, <1>3, <1>4, <1>6 DEF ShapeInv, Shaped, IsAlternate
<1>. QED
  BY <1>8, <1>9

\* Every step is a good one: the cases are those of Next.
LEMMA NextStep ==
    ASSUME ScreenInv, [Next]_vars
    PROVE  GoodStep
<1>1. CASE PrintText
  BY <1>1, PrintTextStep
<1>2. CASE \/ CarriageReturns \/ LineFeeds \/ NextLine \/ ReverseIndexes
           \/ CursorUp \/ CursorDown \/ CursorForward \/ CursorBack \/ Tab \/ CursorPosition
  BY <1>2, CursorSteps
<1>3. CASE SetScrollRegion
  BY <1>3, SetScrollRegionStep
<1>4. CASE ScrollUp \/ ScrollDown \/ InsertsLines \/ DeletesLines
  BY <1>4, RowSteps
<1>5. CASE InsertChars \/ DeleteChars \/ EraseChars \/ ErasesInLine \/ ErasesInDisplay
  BY <1>5, CellSteps
<1>6. CASE SelectPen \/ SetAutowrap \/ SaveCursor
  BY <1>6, ModeSteps
<1>7. CASE RestoreCursor
  BY <1>7, RestoreCursorStep
<1>8. CASE EnterAlternate
  BY <1>8, EnterAlternateStep
<1>9. CASE ExitAlternate
  BY <1>9, ExitAlternateStep
<1>10. CASE Reset
  BY <1>10, ResetStep
<1>11. CASE Resize
  BY <1>11, ResizeStep
<1>12. CASE ResizeAlternate
  BY <1>12, ResizeAlternateStep
<1>13. CASE UNCHANGED vars
  BY <1>13, StutterStep
<1>. QED
  BY <1>1, <1>2, <1>3, <1>4, <1>5, <1>6, <1>7, <1>8, <1>9, <1>10, <1>11, <1>12, <1>13, Zenon DEF Next

\* Every screen the code can reach has its types, with all ids below the next,
\* whatever program runs, and also after a panic.
THEOREM ScreenTyped == Spec => []ScreenInv
<1>1. Init => ScreenInv
  BY InitInv
<1>2. ScreenInv /\ [Next]_vars => ScreenInv'
  BY NextStep DEF GoodStep
<1>. QED
  BY <1>1, <1>2, PTL DEF Spec

\* Ids below the next one, and each handed out once, are never reused.
LEMMA InvIds ==
    ASSUME ScreenInv
    PROVE  IdsNeverReused
<1>. DEFINE n == grid.next
<1>1. /\ n \in Nat /\ grid.rows \in Seq(RowBelow(n)) /\ grid.pending \in HeadsBelow(n)
      /\ grid.scrollback.lines \in Seq(LineBelow(n))
  BY InvGrid, GridParts DEF RowsBelow, StoresBelow
<1>. HIDE DEF n
<1>2. ASSUME NEW rows \in Seq(RowBelow(n)), NEW id \in Ids(rows) PROVE id < n
  <2>1. PICK r \in DOMAIN rows : id = rows[r].id
    BY DEF Ids
  <2>2. rows[r] \in RowBelow(n)
    BY <2>1
  <2>. QED
    BY <1>1, <2>1, <2>2 DEF RowBelow
<1>3. ASSUME NEW head \in HeadsBelow(n) PROVE head.id < n
  BY <1>1, <1>3 DEF HeadsBelow, LineBelow, NoLine
<1>4. ASSUME NEW b \in {Buffer(grid)} \cup ToSet(stash) PROVE b.rows \in Seq(RowBelow(n)) /\ b.pending \in HeadsBelow(n)
  <2>1. CASE b = Buffer(grid)
    BY <1>1, <2>1 DEF Buffer
  <2>2. CASE b \in ToSet(stash)
    <3>1. b \in BuffersBelow(n)
      BY <2>2 DEF ScreenInv, ToSet, n
    <3>. QED
      BY <3>1 DEF BuffersBelow, RowsBelow
  <2>. QED
    BY <2>1, <2>2
<1>5. ASSUME NEW line \in ToSet(grid.scrollback.lines) PROVE line.id < n
  <2>1. line \in LineBelow(n)
    BY <1>1 DEF ToSet
  <2>. QED
    BY <1>1, <2>1 DEF LineBelow
<1>. QED
  BY <1>2, <1>3, <1>4, <1>5 DEF IdsNeverReused, n

\* alloc_line_id: an id once handed out is never handed out again, in any run of
\* any program with any sizes of the window.
THEOREM NoIdTwice == Spec => []IdsNeverReused
<1>1. ScreenInv => IdsNeverReused
  BY InvIds
<1>. QED
  BY <1>1, ScreenTyped, PTL

\* The history keeps within its caps and counts its bytes, whatever was frozen
\* or evicted on the way (scrollback.rs evict).
StoreKept == Capped(grid.scrollback) /\ BytesCounted(grid.scrollback)

\* The store of the screen is so in every state, on either buffer.
THEOREM HistoryKept == Spec => []StoreKept
<1>1. ScreenInv => StoreKept
  BY InvGrid, GridParts DEF StoresBelow, StoreKept
<1>. QED
  BY <1>1, ScreenTyped, PTL

\* What a program does on the alternate screen stays there: the primary buffer
\* and the history are touched only by a resize and a full reset.
THEOREM PrimaryKept == Spec => PrimaryUntouched
<1>1. ScreenInv /\ [Next]_vars
        => [(IsAlternate \/ IsAlternate') /\ grid'.size = grid.size /\ ~Reset
              => /\ Primary(grid', stash') = Primary(grid, stash)
                 /\ grid'.scrollback = grid.scrollback]_vars
  BY NextStep DEF GoodStep, Untouched
<1>. QED
  BY <1>1, ScreenTyped, PTL DEF Spec, PrimaryUntouched

\* A screen with its types whose buffers are in shape is as the code trusts it.
LEMMA TypesInShape ==
    ASSUME ScreenInv, ShapeInv
    PROVE  ScreenTypeOK
<1>. DEFINE n == grid.next
<1>1. /\ n \in Nat /\ grid \in GridsAt(n) /\ grid.pending \in HeadsBelow(n)
      /\ grid.scrollback.lines \in Seq(LineBelow(n)) /\ grid.top \in Nat /\ grid.bottom \in Nat
      /\ grid.size \in Sizes
  BY InvGrid, GridParts DEF StoresBelow
<1>. HIDE DEF n
<1>2. LineBelow(n) \subseteq Lines /\ RowBelow(n) \subseteq [id : Nat, wrapped : BOOLEAN, cells : Seq(Cells)]
  BY <1>1 DEF LineBelow, Lines, RowBelow, Cells
<1>3. RowsBelow(n) \subseteq Rows /\ Seq(LineBelow(n)) \subseteq Seq(Lines)
  <2>1. ASSUME NEW S, NEW T, S \subseteq T PROVE Seq(S) \subseteq Seq(T)
    BY <2>1
  <2>2. Seq(RowBelow(n)) \subseteq Seq([id : Nat, wrapped : BOOLEAN, cells : Seq(Cells)])
    BY <1>2, <2>1, Zenon
  <2>3. Seq(LineBelow(n)) \subseteq Seq(Lines)
    BY <1>2, <2>1, Zenon
  <2>. QED
    BY <2>2, <2>3, Zenon DEF RowsBelow, Rows, Cells
<1>4. ASSUME NEW b \in {Buffer(grid)} \cup ToSet(stash)
      PROVE  b \in BuffersBelow(n) /\ ShapedBuffer(b, grid.size)
  <2>1. CASE b = Buffer(grid)
    <3>1. b \in BuffersBelow(n)
      BY <1>1, <2>1, BufferType
    <3>2. ShapedBuffer(b, grid.size)
      BY <2>1, ShapedShown DEF ShapeInv
    <3>. QED
      BY <3>1, <3>2
  <2>2. CASE b \in ToSet(stash)
    <3>1. stash # << >> /\ stash \in Seq(BuffersBelow(n)) /\ Len(stash) <= 1
      BY <2>2 DEF ToSet, ScreenInv, n
    <3>2. IsAlternate
      BY <3>1 DEF IsAlternate
    <3>3. stash = <<stash[1]>> /\ stash[1] \in BuffersBelow(n)
      BY <3>2, StashType DEF n
    <3>4. b = stash[1]
      <4>1. PICK k \in DOMAIN stash : b = stash[k]
        BY <2>2 DEF ToSet
      <4>2. k = 1
        BY <3>3, <4>1
      <4>. QED
        BY <4>1, <4>2
    <3>. QED
      BY <3>2, <3>3, <3>4 DEF ShapeInv
  <2>. QED
    BY <2>1, <2>2
<1>5. ASSUME NEW b \in {Buffer(grid)} \cup ToSet(stash)
      PROVE  /\ b.rows \in Rows /\ b.cursor \in Cursors
             /\ Rectangle(b.rows, grid.size) /\ Within(b.cursor, grid.size)
             /\ Margins(b.top, b.bottom, grid.size)
  <2>1. b.rows \in RowsBelow(n) /\ b.cursor \in Cursors
    BY <1>4 DEF BuffersBelow
  <2>. QED
    BY <1>3, <1>4, <2>1 DEF ShapedBuffer
<1>6. /\ program \in Programs /\ grid.size \in program.sizes /\ printed \in Nat
      /\ pen \in Styles /\ autowrap \in BOOLEAN
  BY DEF ScreenInv
<1>7. grid.pending \in Lines \cup {NoLine}
  BY <1>1, <1>2 DEF HeadsBelow
<1>. QED
  BY <1>1, <1>3, <1>5, <1>6, <1>7 DEF ScreenTypeOK, n

\* The shape that the row edits and the copy-out trust: between two resizes both
\* buffers are rectangles of the current size, with cursor and margins inside.
\* It is kept by all that the code does but the two steps of LosesShape.
THEOREM ShapeKept == Spec /\ [][~LosesShape]_vars => []ScreenTypeOK
<1>. DEFINE Inv == ScreenInv /\ ShapeInv
<1>1. Init => Inv
  BY InitInv
<1>2. Inv /\ [Next]_vars /\ [~LosesShape]_vars => Inv'
  <2>1. ASSUME Inv, [Next]_vars, ~LosesShape PROVE Inv'
    BY <2>1, NextStep DEF GoodStep
  <2>2. ASSUME Inv, UNCHANGED vars PROVE Inv'
    BY <2>2 DEF vars, ScreenInv, ShapeInv, IsAlternate
  <2>. QED
    BY <2>1, <2>2
<1>3. Inv => ScreenTypeOK
  BY TypesInShape
<1>. QED
  BY <1>1, <1>2, <1>3, PTL DEF Spec

-----------------------------------------------------------------------------
(* Lines in order: rows that ascend, above them a history that ascends.    *)

\* The rows are in the order of their lines, and the mark of a soft wrap is on
\* every row but the last of its line.
RowsInOrder(rows) ==
    \A r \in 1 .. Len(rows) :
        /\ \A q \in 1 .. r : rows[q].id <= rows[r].id
        /\ rows[r].wrapped <=> (r < Len(rows) /\ rows[r + 1].id = rows[r].id)

\* Lines, each newer than the one before.
LinesAscend(lines) == \A i, j \in 1 .. Len(lines) : i < j => lines[i].id < lines[j].id

\* `lines` and `head` are what is frozen once the first `k` of the rows are: all
\* older than the rows left, but a head that the first of these goes on with.
FrozenUpTo(lines, head, rows, k) ==
    /\ LinesAscend(lines)
    /\ \A i \in 1 .. Len(lines), r \in k + 1 .. Len(rows) : lines[i].id < rows[r].id
    /\ head # NoLine => k < Len(rows) /\ rows[k + 1].id = head.id

InOrder(g) == RowsInOrder(g.rows) /\ FrozenUpTo(g.scrollback.lines, g.pending, g.rows, 0)

\* What is known of rows whose ids are below `n`.
LEMMA RowIds ==
    ASSUME NEW n \in Nat, NEW rows \in RowsBelow(n)
    PROVE  /\ Len(rows) \in Nat /\ DOMAIN rows = 1 .. Len(rows)
           /\ \A r \in 1 .. Len(rows) :
                rows[r] \in RowBelow(n) /\ rows[r].id \in 0 .. n - 1 /\ rows[r].id \in Nat
                /\ rows[r].wrapped \in BOOLEAN
<1>1. rows \in Seq(RowBelow(n))
  BY DEF RowsBelow
<1>2. \A row \in RowBelow(n) : row.id \in 0 .. n - 1 /\ row.id \in Nat /\ row.wrapped \in BOOLEAN
  BY DEF RowBelow
<1>. QED
  BY <1>1, <1>2

\* A line newer than all that are there is pushed: what is left ascends, and
\* nothing is new in it but that line.
LEMMA PushAscends ==
    ASSUME NEW n \in Nat, NEW sb \in StoresBelow(n), NEW line \in LineBelow(n),
           LinesAscend(sb.lines), \A i \in 1 .. Len(sb.lines) : sb.lines[i].id < line.id
    PROVE  LET new == Pushed(sb, line).lines IN
           /\ LinesAscend(new)
           /\ \A i \in 1 .. Len(new) :
                new[i].id = line.id \/ \E j \in 1 .. Len(sb.lines) : new[i].id = sb.lines[j].id
<1>. DEFINE old == sb.lines
            count == Len(old)
            all == Append(old, line)
            full == [lines |-> all, total_bytes |-> sb.total_bytes + ByteLen(line.text)]
            new == Pushed(sb, line).lines
            Lines_n == LineBelow(n)
<1>0. MaxLines \in Nat
  BY ScreenAssumption
<1>1. old \in Seq(Lines_n) /\ line \in Lines_n
  BY DEF StoresBelow
<1>. HIDE DEF Lines_n, old
<1>2. /\ full.lines = all /\ all \in Seq(Lines_n) /\ Len(all) = count + 1 /\ count \in Nat
      /\ all[count + 1] = line /\ \A i \in 1 .. count : all[i] = old[i]
  BY <1>1
<1>3. Pushed(sb, line) = Evicted(full)
  BY DEF Pushed, old
<1>. HIDE DEF full
<1>4. PICK m \in 0 .. Len(full.lines) : Evicted(full) = PopOldest(full, m)
  BY <1>0, <1>2, EvictsLeast, Zenon
<1>5. new = SubSeq(all, m + 1, count + 1)
  BY <1>2, <1>3, <1>4, PopLeaves, Zenon
<1>. HIDE DEF new
<1>6. m \in 0 .. count + 1
  BY <1>2, <1>4
<1>. HIDE DEF all, count
<1>7. Len(new) = count + 1 - m /\ \A i \in 1 .. Len(new) : new[i] = all[m + i]
  <2>1. m + 1 \in Int /\ count + 1 \in Int /\ \A i \in m + 1 .. count + 1 : all[i] \in Lines_n
    BY <1>2, <1>6
  <2>2. /\ Len(new) = IF m + 1 <= count + 1 THEN (count + 1) - (m + 1) + 1 ELSE 0
        /\ \A i \in 1 .. (count + 1) - (m + 1) + 1 : new[i] = all[(m + 1) + i - 1]
    BY <1>5, <2>1, SubSeqProperties
  <2>3. (count + 1) - (m + 1) + 1 = count + 1 - m /\ \A i \in Int : (m + 1) + i - 1 = m + i
    BY <1>2, <1>6
  <2>4. Len(new) = count + 1 - m
    BY <1>2, <1>6, <2>2
  <2>. QED
    BY <2>2, <2>3, <2>4
<1>8. \A i, j \in 1 .. count + 1 : i < j => all[i].id < all[j].id
  <2>1. ASSUME NEW i \in 1 .. count + 1, NEW j \in 1 .. count + 1, i < j
        PROVE  all[i].id < all[j].id
    <3>1. i \in 1 .. count /\ all[i] = old[i]
      BY <1>2, <2>1
    <3>2. CASE j = count + 1
      <4>1. old[i].id < line.id
        BY <3>1 DEF old, count
      <4>. QED
        BY <1>2, <3>1, <3>2, <4>1
    <3>3. CASE j # count + 1
      <4>1. j \in 1 .. count /\ all[j] = old[j]
        BY <1>2, <3>3
      <4>2. old[i].id < old[j].id
        BY <2>1, <3>1, <4>1 DEF LinesAscend, old, count
      <4>. QED
        BY <3>1, <4>1, <4>2
    <3>. QED
      BY <3>2, <3>3
  <2>. QED
    BY <2>1
<1>9. LinesAscend(new)
  <2>1. ASSUME NEW i \in 1 .. Len(new), NEW j \in 1 .. Len(new), i < j
        PROVE  new[i].id < new[j].id
    <3>1. m + i \in 1 .. count + 1 /\ m + j \in 1 .. count + 1 /\ m + i < m + j
      BY <1>2, <1>6, <1>7, <2>1
    <3>. QED
      BY <1>7, <1>8, <3>1, Zenon
  <2>. QED
    BY <2>1 DEF LinesAscend
<1>10. ASSUME NEW i \in 1 .. Len(new)
       PROVE  new[i].id = line.id \/ \E j \in 1 .. count : new[i].id = old[j].id
  <2>1. m + i \in 1 .. count + 1 /\ new[i] = all[m + i]
    BY <1>2, <1>6, <1>7
  <2>2. CASE m + i = count + 1
    BY <1>2, <2>1, <2>2
  <2>3. CASE m + i # count + 1
    <3>1. m + i \in 1 .. count
      BY <1>2, <2>1, <2>3
    <3>. QED
      BY <1>2, <2>1, <3>1
  <2>. QED
    BY <2>2, <2>3
<1>. QED
  BY <1>9, <1>10 DEF new, old, count

\* The store `new` is `old` without its `n` oldest lines, and behind what stays
\* lines from the id `f` on.  A line was dropped to make room: it would not fit
\* back in, or a line from `f` on had to go after it.
MakesRoom(line, new, f) ==
    \/ Len(new.lines) = MaxLines
    \/ new.total_bytes + ByteLen(line.text) > MaxBytes
    \/ f < OldestId(new.lines)
SlidBy(n, old, new, f) ==
    LET kept == Len(old.lines) - n IN
    /\ kept <= Len(new.lines)
    /\ \A i \in 1 .. kept : new.lines[i] = old.lines[n + i]
    /\ \A i \in kept + 1 .. Len(new.lines) : f <= new.lines[i].id
    /\ n > 0 => MakesRoom(old.lines[n], new, f)
Slid(old, new, f) == \E n \in 0 .. Len(old.lines) : SlidBy(n, old, new, f)

Stores == UNION {StoresBelow(n) : n \in Nat}

\* No push, no slide.
LEMMA NothingSlid ==
    ASSUME NEW sb \in Stores, NEW f
    PROVE  Slid(sb, sb, f)
<1>1. Len(sb.lines) \in Nat
  BY DEF Stores, StoresBelow
<1>2. PICK lines, n : lines = sb.lines /\ n = 0
  OBVIOUS
<1>3. Len(lines) - n = Len(lines) /\ n \in 0 .. Len(lines) /\ ~(n > 0) /\ \A i \in 1 .. Len(lines) : n + i = i
  BY <1>1, <1>2
<1>4. Len(lines) <= Len(lines) /\ \A i \in Len(lines) + 1 .. Len(lines) : FALSE
  BY <1>1, <1>2
<1>5. SlidBy(n, sb, sb, f)
  BY <1>2, <1>3, <1>4 DEF SlidBy
<1>. QED
  BY <1>2, <1>3, <1>5 DEF Slid

\* The bytes of one line are the difference between dropping it and keeping it.
LEMMA PoppedBytes ==
    ASSUME NEW S, Texts(S), NEW sb, sb.lines \in Seq(S), sb.total_bytes \in Int, NEW m \in 1 .. Len(sb.lines)
    PROVE  /\ PopOldest(sb, m).total_bytes \in Int /\ ByteLen(sb.lines[m].text) \in Nat
           /\ PopOldest(sb, m - 1).total_bytes = PopOldest(sb, m).total_bytes + ByteLen(sb.lines[m].text)
<1>. DEFINE lines == sb.lines
            most == SubSeq(lines, 1, m - 1)
            one == <<lines[m]>>
<1>1. PICK p : p = m - 1 /\ p \in Nat /\ m \in Nat /\ m \in 1 .. Len(lines) /\ 1 \in 1 .. Len(lines) /\ m \in 1 .. Len(lines)
  OBVIOUS
<1>2. SubSeq(lines, 1, m) = most \o one
  <2>. HIDE DEF lines
  <2>1. lines \in Seq(S)
    BY DEF lines
  <2>. QED
    BY <1>1, <2>1, SubSeqRecursiveSecond, Zenon
<1>3. most \in Seq(S) /\ one \in Seq(S) /\ lines[m] \in S
  OBVIOUS
<1>4. LinesBytes(one) = ByteLen(lines[m].text)
  <2>1. PICK none : none = << >>
    OBVIOUS
  <2>2. one = Append(none, lines[m])
    BY <2>1
  <2>3. Summing!FoldOf(0, 0, 0, Append(none, lines[m])) = AddLine(0, 0, Summing!FoldOf(0, 0, 0, none), lines[m])
    <3>1. none \in Seq(S)
      BY <2>1
    <3>. QED
      BY <1>3, <3>1, Summing!FoldAppend
  <2>4. Summing!FoldOf(0, 0, 0, none) = 0
    BY <2>1, Summing!FoldEmpty
  <2>5. ByteLen(lines[m].text) \in Nat
    BY <1>3, ByteLenNat DEF Texts
  <2>. HIDE DEF one, lines
  <2>. QED
    BY <2>2, <2>3, <2>4, <2>5, LinesBytesFold DEF AddLine
<1>5. LinesBytes(most) \in Nat /\ LinesBytes(one) \in Nat /\ LinesBytes(most \o one) = LinesBytes(most) + LinesBytes(one)
  <2>. HIDE DEF most, one
  <2>. QED
    BY <1>3, LinesBytesSum
<1>6. \A n : PopOldest(sb, n).total_bytes = sb.total_bytes - LinesBytes(SubSeq(lines, 1, n))
  <2>1. ASSUME NEW n PROVE PopOldest(sb, n).total_bytes = sb.total_bytes - LinesBytes(SubSeq(lines, 1, n))
    <3>1. PopOldest(sb, n) = [lines |-> SubSeq(lines, n + 1, Len(lines)),
                              total_bytes |-> sb.total_bytes - LinesBytes(SubSeq(lines, 1, n))]
      BY Zenon DEF PopOldest, LinesBytes
    <3>. QED
      BY <3>1
  <2>. QED
    BY <2>1
<1>7. PopOldest(sb, m).total_bytes = sb.total_bytes - LinesBytes(most \o one)
  BY <1>2, <1>6, Zenon
<1>8. PopOldest(sb, m - 1).total_bytes = sb.total_bytes - LinesBytes(most)
  BY <1>6
<1>. HIDE DEF most, one
<1>. QED
  BY <1>4, <1>5, <1>7, <1>8

\* A push slides the store on.
LEMMA PushSlides ==
    ASSUME NEW n \in Nat, NEW old \in Stores, NEW sb \in StoresBelow(n), NEW line \in LineBelow(n), NEW f \in Nat,
           Slid(old, sb, f), f <= line.id,
           LinesAscend(sb.lines), \A i \in 1 .. Len(sb.lines) : sb.lines[i].id < line.id
    PROVE  Slid(old, Pushed(sb, line), f)
<1>. DEFINE c == Len(sb.lines)
            o == Len(old.lines)
            all == Append(sb.lines, line)
            full == [lines |-> all, total_bytes |-> sb.total_bytes + ByteLen(line.text)]
            new == Pushed(sb, line)
            S == LineBelow(n)
<1>0. MaxLines \in Nat /\ MaxBytes \in Nat
  BY ScreenAssumption
<1>1. sb.lines \in Seq(S) /\ line \in S /\ c \in Nat /\ sb.total_bytes \in Nat /\ Texts(S) /\ Capped(sb)
  BY DEF StoresBelow, Texts, LineBelow
<1>2. /\ full.lines = all /\ all \in Seq(S) /\ Len(all) = c + 1
      /\ all[c + 1] = line /\ \A i \in 1 .. c : all[i] = sb.lines[i]
  BY <1>1
<1>3. full.total_bytes \in Nat /\ full.total_bytes >= sb.total_bytes
  <2>1. ByteLen(line.text) \in Nat
    BY <1>1, ByteLenNat DEF Texts
  <2>. QED
    BY <1>1, <2>1
<1>4. o \in Nat /\ \A i \in 1 .. o : ByteLen(old.lines[i].text) \in Nat
  <2>1. PICK k \in Nat : old \in StoresBelow(k)
    BY DEF Stores
  <2>2. old.lines \in Seq(LineBelow(k)) /\ Texts(LineBelow(k))
    BY <2>1 DEF StoresBelow, Texts, LineBelow
  <2>3. \A i \in 1 .. o : old.lines[i] \in LineBelow(k)
    BY <2>2
  <2>. QED
    BY <2>2, <2>3, ByteLenNat DEF Texts
<1>5. \A i, j \in 1 .. c + 1 : i < j => all[i].id < all[j].id
  <2>1. ASSUME NEW i \in 1 .. c + 1, NEW j \in 1 .. c + 1, i < j PROVE all[i].id < all[j].id
    <3>1. i \in 1 .. c /\ (j = c + 1 \/ j \in 1 .. c)
      BY <1>1, <2>1
    <3>. QED
      BY <1>2, <2>1, <3>1 DEF LinesAscend
  <2>. QED
    BY <2>1
<1>6. \A i \in 1 .. c + 1 : all[i].id \in Nat
  <2>1. \A l \in S : l.id \in Nat
    BY DEF LineBelow
  <2>. QED
    BY <1>2, <2>1
<1>7. new = Evicted(full)
  BY DEF Pushed
<1>. HIDE DEF full, all, S
<1>8. PICK m \in 0 .. c + 1 :
         /\ Evicted(full) = PopOldest(full, m)
         /\ WithinCaps(PopOldest(full, m))
         /\ \A j \in 0 .. m - 1 : ~WithinCaps(PopOldest(full, j))
  BY <1>0, <1>2, EvictsLeast, Zenon
<1>9. \A j \in 0 .. c + 1 : /\ PopOldest(full, j).lines = SubSeq(all, j + 1, c + 1)
                            /\ Len(PopOldest(full, j).lines) = c + 1 - j
                            /\ \A i \in 1 .. c + 1 - j : PopOldest(full, j).lines[i] = all[j + i]
  <2>1. ASSUME NEW j \in 0 .. c + 1
        PROVE  /\ PopOldest(full, j).lines = SubSeq(all, j + 1, c + 1)
               /\ Len(PopOldest(full, j).lines) = c + 1 - j
               /\ \A i \in 1 .. c + 1 - j : PopOldest(full, j).lines[i] = all[j + i]
    <3>. DEFINE left == SubSeq(all, j + 1, c + 1)
    <3>1. PopOldest(full, j).lines = left
      BY <1>2, PopLeaves, Zenon
    <3>2. j + 1 \in Int /\ c + 1 \in Int /\ \A i \in j + 1 .. c + 1 : all[i] \in S
      BY <1>1, <1>2
    <3>3. /\ Len(left) = IF j + 1 <= c + 1 THEN (c + 1) - (j + 1) + 1 ELSE 0
          /\ \A i \in 1 .. (c + 1) - (j + 1) + 1 : left[i] = all[(j + 1) + i - 1]
      BY <3>2, SubSeqProperties
    <3>. HIDE DEF left, c
    <3>4. (c + 1) - (j + 1) + 1 = c + 1 - j /\ \A i \in Int : (j + 1) + i - 1 = j + i
      BY <1>1
    <3>5. Len(left) = c + 1 - j
      BY <1>1, <3>3
    <3>6. ASSUME NEW i \in 1 .. c + 1 - j PROVE left[i] = all[j + i]
      <4>1. i \in 1 .. (c + 1) - (j + 1) + 1 /\ (j + 1) + i - 1 = j + i
        BY <1>1
      <4>2. left[i] = all[(j + 1) + i - 1]
        BY <3>3, <4>1, Zenon
      <4>. QED
        BY <4>1, <4>2, Zenon
    <3>. QED
      BY <3>1, <3>5, <3>6, Zenon DEF left
  <2>. QED
    BY <2>1
<1>10. new = PopOldest(full, m) /\ Len(new.lines) = c + 1 - m /\ \A i \in 1 .. c + 1 - m : new.lines[i] = all[m + i]
  BY <1>7, <1>8, <1>9
<1>11. PICK p \in 0 .. o : SlidBy(p, old, sb, f)
  BY DEF Slid
<1>12. /\ o - p <= c /\ \A i \in 1 .. o - p : sb.lines[i] = old.lines[p + i]
       /\ \A i \in o - p + 1 .. c : f <= sb.lines[i].id
       /\ p > 0 => MakesRoom(old.lines[p], sb, f)
  BY <1>11, Zenon DEF SlidBy
<1>. HIDE DEF c, o, new
<1>13. \A i \in o - p + 1 .. c + 1 : f <= all[i].id
  <2>1. ASSUME NEW i \in o - p + 1 .. c + 1 PROVE f <= all[i].id
    <3>1. i = c + 1 \/ (i \in 1 .. c /\ i \in o - p + 1 .. c)
      BY <1>1, <1>4
    <3>. QED
      BY <1>2, <1>12, <3>1
  <2>. QED
    BY <2>1
\* What the last line dropped makes room for.
<1>14. m > 0 => \/ Len(new.lines) = MaxLines
                \/ new.total_bytes + ByteLen(all[m].text) > MaxBytes
  <2>1. SUFFICES ASSUME m > 0 PROVE \/ Len(new.lines) = MaxLines
                                    \/ new.total_bytes + ByteLen(all[m].text) > MaxBytes
    OBVIOUS
  <2>2. m - 1 \in 0 .. m - 1 /\ m - 1 \in 0 .. c + 1 /\ m \in 1 .. Len(all)
    BY <1>1, <1>2, <2>1
  <2>3. ~WithinCaps(PopOldest(full, m - 1)) /\ Len(PopOldest(full, m - 1).lines) = c + 1 - (m - 1)
    BY <1>8, <1>9, <2>2
  <2>4. /\ PopOldest(full, m).total_bytes \in Int /\ ByteLen(all[m].text) \in Nat
        /\ PopOldest(full, m - 1).total_bytes = PopOldest(full, m).total_bytes + ByteLen(all[m].text)
    <3>1. full.lines \in Seq(S) /\ full.total_bytes \in Int /\ m \in 1 .. Len(full.lines) /\ full.lines[m] = all[m]
      BY <1>2, <1>3, <2>2
    <3>2. /\ PopOldest(full, m).total_bytes \in Int /\ ByteLen(full.lines[m].text) \in Nat
          /\ PopOldest(full, m - 1).total_bytes = PopOldest(full, m).total_bytes + ByteLen(full.lines[m].text)
      BY ONLY <1>1, <3>1, PoppedBytes, Zenon
    <3>. QED
      BY <3>1, <3>2
  <2>5. Len(new.lines) <= MaxLines
    BY <1>8, <1>10 DEF WithinCaps
  <2>6. CASE ~(c + 1 - (m - 1) <= MaxLines)
    BY <1>0, <1>1, <1>10, <2>5, <2>6
  <2>7. CASE ~(PopOldest(full, m - 1).total_bytes <= MaxBytes)
    BY <1>0, <1>10, <2>4, <2>7
  <2>. QED
    BY <2>3, <2>6, <2>7 DEF WithinCaps
<1>15. CASE m <= o - p
  <2>. DEFINE q == p + m
              kept == o - q
  <2>0. /\ p \in Nat /\ m \in Nat /\ o \in Nat /\ c \in Nat /\ p <= o /\ o - p <= c /\ m <= o - p
        /\ Len(new.lines) = c + 1 - m
    BY <1>1, <1>4, <1>10, <1>12, <1>15
  <2>1. q \in 0 .. o /\ kept = (o - p) - m /\ kept <= c + 1 - m /\ q = p + m
    BY ONLY <2>0
  <2>. HIDE DEF q, kept
  <2>2. \A i \in 1 .. kept : new.lines[i] = old.lines[q + i]
    <3>1. ASSUME NEW i \in 1 .. kept PROVE new.lines[i] = old.lines[q + i]
      <4>1. i \in 1 .. c + 1 - m /\ m + i \in 1 .. o - p /\ m + i \in 1 .. c /\ p + (m + i) = q + i
        BY ONLY <2>0, <2>1, i \in 1 .. kept
      <4>. QED
        BY <1>2, <1>10, <1>12, <4>1, ZenonT(40)
    <3>. QED
      BY <3>1
  <2>3. \A i \in kept + 1 .. Len(new.lines) : f <= new.lines[i].id
    <3>1. ASSUME NEW i \in kept + 1 .. Len(new.lines) PROVE f <= new.lines[i].id
      <4>1. i \in 1 .. c + 1 - m /\ m + i \in o - p + 1 .. c + 1
        BY ONLY <2>0, <2>1, i \in kept + 1 .. Len(new.lines)
      <4>. QED
        BY <1>10, <1>13, <4>1, Zenon
    <3>. QED
      BY <3>1
  <2>4. ASSUME q > 0 PROVE MakesRoom(old.lines[q], new, f)
    <3>1. CASE m > 0
      <4>1. m \in 1 .. o - p /\ m \in 1 .. c /\ q = p + m
        BY ONLY <2>0, <2>1, <3>1
      <4>2. all[m] = old.lines[q]
        BY <1>2, <1>12, <4>1
      <4>. QED
        BY <1>14, <3>1, <4>2 DEF MakesRoom
    <3>2. CASE m = 0
      <4>1. q = p /\ p > 0 /\ p \in 1 .. o
        BY ONLY <2>0, <2>1, <2>4, <3>2
      <4>2. PopOldest(full, 0).total_bytes = full.total_bytes
        <5>1. SubSeq(full.lines, 1, 0) = << >>
          BY <1>2
        <5>2. PopOldest(full, 0) = [lines |-> SubSeq(full.lines, 0 + 1, Len(full.lines)),
                                    total_bytes |-> full.total_bytes - LinesBytes(SubSeq(full.lines, 1, 0))]
          BY Zenon DEF PopOldest, LinesBytes
        <5>3. LinesBytes(<< >>) = 0
          BY LinesBytesFold, Summing!FoldEmpty
        <5>4. \A a, b : [lines |-> a, total_bytes |-> b].total_bytes = b
          OBVIOUS
        <5>5. PopOldest(full, 0).total_bytes = full.total_bytes - LinesBytes(SubSeq(full.lines, 1, 0))
          BY <5>2, <5>4, Zenon
        <5>6. PopOldest(full, 0).total_bytes = full.total_bytes - 0
          BY <5>1, <5>3, <5>5, Zenon
        <5>. QED
          BY <1>3, <5>6
      <4>3. new.total_bytes = full.total_bytes /\ Len(new.lines) = c + 1 /\ c + 1 <= MaxLines
        BY <1>1, <1>8, <1>10, <3>2, <4>2 DEF WithinCaps
      <4>4. CASE Len(sb.lines) = MaxLines
        BY <1>0, <1>1, <4>3, <4>4 DEF c
      <4>5. CASE sb.total_bytes + ByteLen(old.lines[p].text) > MaxBytes
        <5>1. ByteLen(old.lines[p].text) \in Nat
          BY <1>4, <4>1
        <5>. QED
          BY <1>0, <1>1, <1>3, <4>1, <4>3, <4>5, <5>1 DEF MakesRoom
      <4>6. CASE f < OldestId(sb.lines)
        <5>1. sb.lines # << >>
          BY <4>6 DEF OldestId
        <5>2. 1 \in 1 .. c /\ 1 \in 1 .. c + 1 - m /\ m + 1 = 1
          BY <1>1, <3>2, <5>1 DEF c
        <5>3. Head(sb.lines) = sb.lines[1] /\ new.lines[1] = sb.lines[1]
          BY <1>1, <1>2, <1>10, <5>1, <5>2
        <5>4. new.lines # << >> /\ Head(new.lines) = new.lines[1]
          <6>1. Len(new.lines) # 0
            BY <1>1, <4>3
          <6>2. new.lines # << >>
            BY <6>1
          <6>. QED
            BY <6>2 DEF Head
        <5>5. OldestId(new.lines) = OldestId(sb.lines)
          BY <5>1, <5>3, <5>4, Zenon DEF OldestId
        <5>. QED
          BY <4>6, <5>5 DEF MakesRoom
      <4>. QED
        BY <1>12, <4>1, <4>4, <4>5, <4>6 DEF MakesRoom
    <3>3. m > 0 \/ m = 0
      BY <1>1
    <3>. QED
      BY <3>1, <3>2, <3>3
  <2>5. SlidBy(q, old, new, f)
    BY <1>10, <2>1, <2>2, <2>3, <2>4 DEF SlidBy, o, kept
  <2>. QED
    BY <2>1, <2>5 DEF Slid, new, o
<1>16. CASE m > o - p
  <2>1. \A i \in 1 .. Len(new.lines) : f <= new.lines[i].id
    <3>1. ASSUME NEW i \in 1 .. Len(new.lines) PROVE f <= new.lines[i].id
      <4>1. i \in 1 .. c + 1 - m /\ m + i \in o - p + 1 .. c + 1
        BY <1>1, <1>4, <1>10, <1>16
      <4>. QED
        BY <1>10, <1>13, <4>1, Zenon
    <3>. QED
      BY <3>1
  <2>2. ASSUME m = c + 1, NEW l PROVE MakesRoom(l, new, f)
    <3>1. Len(new.lines) = 0
      BY <1>1, <1>10, <2>2
    <3>2. c \in 0 .. m - 1 /\ c \in 0 .. c + 1
      BY <1>1, <2>2
    <3>3. ~WithinCaps(PopOldest(full, c)) /\ Len(PopOldest(full, c).lines) = c + 1 - c
      BY <1>8, <1>9, <3>2, Zenon
    <3>4. c + 1 - c = 1
      BY <1>1
    <3>5. ~(1 <= MaxLines)
      BY <3>3, <3>4 DEF WithinCaps
    <3>6. Len(new.lines) = MaxLines
      BY <1>0, <3>1, <3>5
    <3>. QED
      BY <3>6 DEF MakesRoom
  <2>3. ASSUME m <= c, NEW l PROVE MakesRoom(l, new, f)
    <3>1. /\ m \in o - p + 1 .. c + 1 /\ m \in 1 .. c + 1 /\ m + 1 \in 1 .. c + 1 /\ m < m + 1
          /\ 1 \in 1 .. c + 1 - m
      BY <1>1, <1>4, <1>16, <2>3
    <3>2. f <= all[m].id /\ all[m].id < all[m + 1].id /\ new.lines[1] = all[m + 1]
      BY <1>5, <1>10, <1>13, <3>1
    <3>3. f < new.lines[1].id
      BY <1>6, <3>1, <3>2
    <3>4. new.lines # << >> /\ Head(new.lines) = new.lines[1]
      <4>1. Len(new.lines) # 0
        BY <1>1, <1>10, <3>1
      <4>2. new.lines # << >>
        BY <4>1
      <4>. QED
        BY <4>2 DEF Head
    <3>5. f < OldestId(new.lines)
      BY <3>3, <3>4 DEF OldestId
    <3>. QED
      BY <3>5 DEF MakesRoom
  <2>4. MakesRoom(old.lines[o], new, f)
    <3>1. m = c + 1 \/ m <= c
      BY <1>1
    <3>2. \A l : MakesRoom(l, new, f)
      BY <2>2, <2>3, <3>1 DEF MakesRoom
    <3>. QED
      BY <3>2
  <2>5. o \in 0 .. o /\ o - o = 0 /\ 0 <= Len(new.lines) /\ 0 + 1 = 1 /\ \A i \in 1 .. 0 : FALSE
    BY <1>1, <1>4, <1>10
  <2>6. SlidBy(o, old, new, f)
    BY <2>1, <2>4, <2>5 DEF SlidBy, o
  <2>. QED
    BY <2>5, <2>6 DEF Slid, new, o
<1>. QED
  BY <1>1, <1>4, <1>15, <1>16 DEF new

\* Freezing the first row that is left, be it the end of its line or not: what is
\* frozen stays in order, and slides.
LEMMA FreezeNext ==
    ASSUME NEW n \in Nat, NEW g \in GridsAt(n), NEW m \in Nat, NEW rows \in RowsBelow(m),
           RowsInOrder(rows),
           NEW k \in 0 .. Len(rows) - 1, NEW row \in RowBelow(n),
           row.id = rows[k + 1].id, row.wrapped = rows[k + 1].wrapped,
           FrozenUpTo(g.scrollback.lines, g.pending, rows, k)
    PROVE  LET h == FreezeRow(g, row) IN
           /\ FrozenUpTo(h.scrollback.lines, h.pending, rows, k + 1)
           /\ \A since \in Stores, f \in Nat : f <= row.id /\ Slid(since, g.scrollback, f) => Slid(since, h.scrollback, f)
<1>. DEFINE ends == ~row.wrapped
            continues == g.pending.id = row.id
            head == IF continues THEN g.pending.text ELSE << >>
            line == [id |-> row.id, text |-> PushCells(head, row.cells, ends)]
            before == IF continues \/ g.pending = NoLine THEN g.scrollback
                      ELSE Pushed(g.scrollback, g.pending)
            pending == IF ends THEN NoLine ELSE line
            store == IF ends THEN Pushed(before, line) ELSE before
            h == FreezeRow(g, row)
            old == g.scrollback.lines
<1>1. /\ g.pending \in HeadsBelow(n) /\ g.scrollback \in StoresBelow(n)
      /\ row.id \in 0 .. n - 1 /\ row.cells \in Seq(Cells) /\ ends \in BOOLEAN
  BY GridParts DEF RowBelow
<1>2. head \in Seq(Cells)
  <2>1. NoLine.text = << >> /\ << >> \in Seq(Cells)
    BY DEF NoLine
  <2>2. g.pending.text \in Seq(Cells)
    BY <1>1, <2>1, Zenon DEF HeadsBelow, LineBelow
  <2>. QED
    BY <2>1, <2>2
<1>3. line \in LineBelow(n) /\ line.id = row.id
  <2>. HIDE DEF head, ends
  <2>1. PushCells(head, row.cells, ends) \in Seq(Cells)
    BY <1>1, <1>2, PushCellsType, Zenon
  <2>. QED
    BY <1>1, <2>1 DEF LineBelow
<1>. HIDE DEF line
<1>4. before = g.scrollback
  <2>1. g.pending # NoLine => continues
    BY DEF FrozenUpTo
  <2>. QED
    BY <2>1
<1>5. h.pending = pending /\ h.scrollback = store
  <2>1. h = [g EXCEPT !.pending = pending, !.scrollback = store]
    BY Zenon DEF FreezeRow, line, before
  <2>. HIDE DEF pending, store, h
  <2>. QED
    BY <2>1 DEF GridsAt
<1>. HIDE DEF before, h
<1>6. /\ Len(rows) \in Nat /\ k \in Nat
      /\ \A r \in 1 .. Len(rows) : rows[r].id \in 0 .. m - 1
  BY RowIds
<1>7. \A q, r \in 1 .. Len(rows) : q <= r => rows[q].id <= rows[r].id
  BY <1>6 DEF RowsInOrder
<1>8. k + 1 \in 1 .. Len(rows) /\ (row.wrapped <=> k + 1 < Len(rows) /\ rows[(k + 1) + 1].id = row.id)
  BY <1>6 DEF RowsInOrder
<1>9. LinesAscend(old) /\ \A i \in 1 .. Len(old), r \in k + 1 .. Len(rows) : old[i].id < rows[r].id
  BY DEF FrozenUpTo
<1>10. ASSUME row.wrapped
       PROVE  /\ FrozenUpTo(h.scrollback.lines, h.pending, rows, k + 1)
              /\ h.scrollback = g.scrollback
  <2>1. pending = line /\ store = g.scrollback
    BY <1>4, <1>10
  <2>2. \A i \in 1 .. Len(old), r \in (k + 1) + 1 .. Len(rows) : old[i].id < rows[r].id
    <3>1. \A r \in (k + 1) + 1 .. Len(rows) : r \in k + 1 .. Len(rows)
      BY <1>6
    <3>. QED
      BY <1>9, <3>1, Zenon
  <2>3. k + 1 < Len(rows) /\ rows[(k + 1) + 1].id = line.id
    BY <1>3, <1>8, <1>10
  <2>. HIDE DEF pending, store
  <2>. QED
    BY <1>5, <1>9, <2>1, <2>2, <2>3 DEF FrozenUpTo
<1>11. ASSUME ~row.wrapped
       PROVE  /\ FrozenUpTo(h.scrollback.lines, h.pending, rows, k + 1)
              /\ h.scrollback = Pushed(g.scrollback, line)
              /\ \A i \in 1 .. Len(old) : old[i].id < line.id
  <2>. DEFINE new == Pushed(g.scrollback, line).lines
  <2>1. pending = NoLine /\ store = Pushed(g.scrollback, line)
    BY <1>4, <1>11
  <2>. HIDE DEF pending, store
  <2>2. \A i \in 1 .. Len(old) : old[i].id < line.id
    <3>1. k + 1 \in k + 1 .. Len(rows)
      BY <1>6, <1>8
    <3>2. \A i \in 1 .. Len(old) : old[i].id < rows[k + 1].id
      BY ONLY <1>9, <3>1, Zenon
    <3>. HIDE DEF old
    <3>. QED
      BY <1>3, <3>2
  <2>3. /\ LinesAscend(new)
        /\ \A i \in 1 .. Len(new) : new[i].id = line.id \/ \E j \in 1 .. Len(old) : new[i].id = old[j].id
    BY <1>1, <1>3, <1>9, <2>2, PushAscends, Zenon
  <2>. HIDE DEF new, old
  <2>4. ASSUME NEW r \in (k + 1) + 1 .. Len(rows) PROVE line.id < rows[r].id
    <3>1. k + 1 < Len(rows) /\ (k + 1) + 1 \in 1 .. Len(rows) /\ r \in 1 .. Len(rows) /\ (k + 1) + 1 <= r
      BY <1>6
    <3>2. rows[(k + 1) + 1].id # row.id /\ rows[k + 1].id <= rows[(k + 1) + 1].id
      BY <1>6, <1>7, <1>8, <1>11, <3>1
    <3>3. rows[(k + 1) + 1].id <= rows[r].id
      BY <1>7, <3>1
    <3>4. row.id \in Nat /\ rows[(k + 1) + 1].id \in Nat /\ rows[r].id \in Nat
      BY <1>1, <1>6, <3>1
    <3>. QED
      BY <1>3, <3>2, <3>3, <3>4, SMTT(60)
  <2>5. ASSUME NEW i \in 1 .. Len(new), NEW r \in (k + 1) + 1 .. Len(rows) PROVE new[i].id < rows[r].id
    <3>1. CASE new[i].id = line.id
      BY <2>4, <3>1
    <3>2. CASE new[i].id # line.id
      <4>1. PICK j \in 1 .. Len(old) : new[i].id = old[j].id
        BY <2>3, <3>2
      <4>2. r \in k + 1 .. Len(rows)
        BY <1>6
      <4>. QED
        BY <1>9, <4>1, <4>2
    <3>. QED
      BY <3>1, <3>2
  <2>. QED
    <3>1. FrozenUpTo(h.scrollback.lines, h.pending, rows, k + 1)
      BY <1>5, <2>1, <2>3, <2>5, Zenon DEF FrozenUpTo, new
    <3>. QED
      BY <1>5, <2>1, <2>2, <3>1, Zenon DEF old
<1>12. ASSUME NEW since \in Stores, NEW f \in Nat, f <= row.id, Slid(since, g.scrollback, f)
       PROVE  Slid(since, h.scrollback, f)
  <2>1. CASE row.wrapped
    BY <1>10, <1>12, <2>1, Zenon
  <2>2. CASE ~row.wrapped
    <3>1. g.scrollback \in StoresBelow(n) /\ line \in LineBelow(n) /\ f <= line.id
          /\ LinesAscend(g.scrollback.lines) /\ \A i \in 1 .. Len(g.scrollback.lines) : g.scrollback.lines[i].id < line.id
      BY <1>1, <1>3, <1>9, <1>11, <1>12, <2>2, Zenon
    <3>2. Slid(since, Pushed(g.scrollback, line), f)
      BY <1>12, <3>1, PushSlides, Zenon
    <3>. QED
      BY <1>11, <2>2, <3>2, Zenon
  <2>. QED
    BY <2>1, <2>2
<1>13. row.wrapped \/ ~row.wrapped
  OBVIOUS
<1>. QED
  BY <1>10, <1>11, <1>12, <1>13, Zenon DEF h

\* What is left below the first `k` rows is a screen in order.
LEMMA RowsLeft ==
    ASSUME NEW n \in Nat, NEW rows \in RowsBelow(n), RowsInOrder(rows), NEW k \in 0 .. Len(rows),
           NEW left, Len(left) = Len(rows) - k, \A r \in 1 .. Len(left) : left[r].id = rows[k + r].id
                                                   /\ left[r].wrapped = rows[k + r].wrapped
    PROVE  /\ RowsInOrder(left)
           /\ \A lines, head : FrozenUpTo(lines, head, rows, k) => FrozenUpTo(lines, head, left, 0)
<1>1. Len(rows) \in Nat /\ k \in Nat /\ Len(left) \in Nat
  BY DEF RowsBelow
<1>2. ASSUME NEW r \in 1 .. Len(left)
      PROVE  /\ \A q \in 1 .. r : left[q].id <= left[r].id
             /\ left[r].wrapped <=> (r < Len(left) /\ left[r + 1].id = left[r].id)
  <2>1. k + r \in 1 .. Len(rows)
    BY <1>1
  <2>2. /\ \A q \in 1 .. k + r : rows[q].id <= rows[k + r].id
        /\ rows[k + r].wrapped <=> (k + r < Len(rows) /\ rows[(k + r) + 1].id = rows[k + r].id)
    BY <2>1, Zenon DEF RowsInOrder
  <2>3. ASSUME NEW q \in 1 .. r PROVE left[q].id <= left[r].id
    <3>1. q \in 1 .. Len(left) /\ k + q \in 1 .. k + r
      BY ONLY <1>1, r \in 1 .. Len(left), q \in 1 .. r
    <3>2. left[q].id = rows[k + q].id /\ left[r].id = rows[k + r].id
      BY <3>1, Zenon
    <3>3. rows[k + q].id <= rows[k + r].id
      BY <2>2, <3>1, Zenon
    <3>. QED
      BY <3>2, <3>3, Zenon
  <2>4. r < Len(left) => left[r + 1].id = rows[(k + r) + 1].id
    <3>1. r < Len(left) => r + 1 \in 1 .. Len(left) /\ k + (r + 1) = (k + r) + 1
      BY <1>1
    <3>. QED
      BY <3>1
  <2>5. r < Len(left) <=> k + r < Len(rows)
    BY <1>1
  <2>. QED
    BY <2>2, <2>3, <2>4, <2>5
<1>3. ASSUME NEW lines, NEW head, FrozenUpTo(lines, head, rows, k)
      PROVE  FrozenUpTo(lines, head, left, 0)
  <2>1. ASSUME NEW i \in 1 .. Len(lines), NEW r \in 0 + 1 .. Len(left) PROVE lines[i].id < left[r].id
    <3>1. r \in 1 .. Len(left) /\ k + r \in k + 1 .. Len(rows)
      BY <1>1
    <3>. QED
      BY <1>3, <3>1, Zenon DEF FrozenUpTo
  <2>2. k < Len(rows) => 0 < Len(left) /\ left[0 + 1].id = rows[k + 1].id
    <3>1. k < Len(rows) => 0 < Len(left) /\ 1 \in 1 .. Len(left) /\ 0 + 1 = 1
      BY <1>1
    <3>. QED
      BY <3>1
  <2>. QED
    BY <1>3, <2>1, <2>2 DEF FrozenUpTo
<1>. QED
  BY <1>2, <1>3 DEF RowsInOrder

\* Rows below others, all of newer lines.
LEMMA RowsBelowOthers ==
    ASSUME NEW n \in Nat, NEW a \in RowsBelow(n), NEW b \in RowsBelow(n),
           RowsInOrder(a), RowsInOrder(b),
           \A q \in 1 .. Len(a), r \in 1 .. Len(b) : a[q].id < b[r].id
    PROVE  /\ a \o b \in RowsBelow(n) /\ RowsInOrder(a \o b)
           /\ Len(a \o b) = Len(a) + Len(b)
           /\ \A r \in 1 .. Len(a) : (a \o b)[r] = a[r]
           /\ \A r \in 1 .. Len(b) : (a \o b)[Len(a) + r] = b[r]
<1>. DEFINE ab == a \o b
            m == Len(a)
<1>1. m \in Nat /\ Len(b) \in Nat
  BY DEF RowsBelow
<1>2. /\ ab \in RowsBelow(n) /\ Len(ab) = m + Len(b)
      /\ \A r \in 1 .. m + Len(b) : ab[r] = IF r <= m THEN a[r] ELSE b[r - m]
  BY ConcatProperties DEF RowsBelow
<1>. HIDE DEF ab
<1>3. \A r \in 1 .. m : ab[r] = a[r]
  BY <1>1, <1>2
<1>4. ASSUME NEW r \in 1 .. Len(b) PROVE ab[m + r] = b[r]
  <2>1. m + r \in 1 .. m + Len(b) /\ ~(m + r <= m) /\ (m + r) - m = r
    BY <1>1
  <2>. QED
    BY <1>2, <2>1
<1>5. /\ \A r \in 1 .. m : a[r].id \in Nat
      /\ \A r \in 1 .. Len(b) : b[r].id \in Nat
  BY RowIds
<1>. HIDE DEF m
<1>6. ASSUME NEW r \in 1 .. m
      PROVE  /\ \A q \in 1 .. r : ab[q].id <= ab[r].id
             /\ ab[r].wrapped <=> (r < m + Len(b) /\ ab[r + 1].id = ab[r].id)
  <2>1. /\ \A q \in 1 .. r : a[q].id <= a[r].id
        /\ a[r].wrapped <=> (r < m /\ a[r + 1].id = a[r].id)
    BY DEF RowsInOrder, m
  <2>2. \A q \in 1 .. r : ab[q].id <= ab[r].id
    BY <1>1, <1>3, <2>1
  <2>3. CASE r < m
    <3>1. r + 1 \in 1 .. m /\ r < m + Len(b)
      BY <1>1, <2>3
    <3>. QED
      BY <1>3, <2>1, <2>2, <2>3, <3>1
  <2>4. CASE ~(r < m)
    <3>1. r = m /\ (r < m + Len(b) <=> 1 \in 1 .. Len(b))
      BY <1>1, <2>4
    <3>2. 1 \in 1 .. Len(b) => ab[m + 1] = b[1] /\ a[m].id < b[1].id
      BY <1>4, <3>1 DEF m
    <3>3. 1 \in 1 .. Len(b) => b[1].id # a[m].id
      BY <1>5, <3>1, <3>2
    <3>. QED
      BY <1>3, <2>1, <2>2, <2>4, <3>1, <3>2, <3>3
  <2>. QED
    BY <2>3, <2>4
<1>7. ASSUME NEW r \in 1 .. Len(b)
      PROVE  /\ \A q \in 1 .. m + r : ab[q].id <= ab[m + r].id
             /\ ab[m + r].wrapped <=> (m + r < m + Len(b) /\ ab[(m + r) + 1].id = ab[m + r].id)
  <2>1. /\ \A q \in 1 .. r : b[q].id <= b[r].id
        /\ b[r].wrapped <=> (r < Len(b) /\ b[r + 1].id = b[r].id)
    BY DEF RowsInOrder
  <2>2. ASSUME NEW q \in 1 .. m + r PROVE ab[q].id <= ab[m + r].id
    <3>1. CASE q <= m
      <4>1. q \in 1 .. m /\ a[q].id < b[r].id
        BY <1>1, <3>1 DEF m
      <4>. QED
        BY <1>3, <1>4, <1>5, <4>1
    <3>2. CASE ~(q <= m)
      <4>1. q - m \in 1 .. r /\ q - m \in 1 .. Len(b) /\ m + (q - m) = q
        BY <1>1, <3>2
      <4>. QED
        BY <1>4, <2>1, <4>1
    <3>. QED
      BY <3>1, <3>2
  <2>3. r < Len(b) => ab[(m + r) + 1] = b[r + 1]
    <3>1. r < Len(b) => r + 1 \in 1 .. Len(b) /\ m + (r + 1) = (m + r) + 1
      BY <1>1
    <3>. QED
      BY <1>4, <3>1
  <2>4. m + r < m + Len(b) <=> r < Len(b)
    BY <1>1
  <2>. QED
    BY <1>4, <2>1, <2>2, <2>3, <2>4
<1>8. RowsInOrder(ab)
  <2>1. ASSUME NEW r \in 1 .. Len(ab)
        PROVE  /\ \A q \in 1 .. r : ab[q].id <= ab[r].id
               /\ ab[r].wrapped <=> (r < Len(ab) /\ ab[r + 1].id = ab[r].id)
    <3>1. CASE r <= m
      <4>1. r \in 1 .. m
        BY <1>1, <1>2, <3>1
      <4>. QED
        BY <1>2, <1>6, <4>1, Zenon DEF m
    <3>2. CASE ~(r <= m)
      <4>1. PICK p \in 1 .. Len(b) : r = m + p
        <5>1. r - m \in 1 .. Len(b) /\ r = m + (r - m)
          BY <1>1, <1>2, <3>2 DEF m
        <5>. QED
          BY <5>1
      <4>. QED
        BY <1>2, <1>7, <4>1, Zenon DEF m
    <3>. QED
      BY <3>1, <3>2
  <2>. QED
    BY <2>1, Zenon DEF RowsInOrder
<1>. QED
  BY <1>2, <1>3, <1>4, <1>8 DEF ab, m
=============================================================================
