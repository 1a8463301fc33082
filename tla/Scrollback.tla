----------------------------- MODULE Scrollback -----------------------------
(***************************************************************************)
(* The bounded store of frozen logical lines above the screen              *)
(* (scrollback.rs): a cap on lines and a cap on bytes, whole oldest lines  *)
(* evicted after every push.                                               *)
(***************************************************************************)
EXTENDS LogicalLine

CONSTANTS MaxLines,   \* max_lines, a hard cap
          MaxBytes    \* max_bytes, which always leaves the newest line

EmptyStore == [lines |-> <<>>, total_bytes |-> 0]

\* The store after `n` calls of pop_oldest.
PopOldest(sb, n) ==
    [lines |-> SubSeq(sb.lines, n + 1, Len(sb.lines)),
     total_bytes |-> sb.total_bytes -
        FoldLeft(LAMBDA sum, line : sum + ByteLen(line.text), 0, SubSeq(sb.lines, 1, n))]

\* Neither loop of evict has work left.
WithinCaps(sb) ==
    /\ Len(sb.lines) <= MaxLines
    /\ sb.total_bytes <= MaxBytes \/ Len(sb.lines) <= 1

\* Mutant: the second loop stops one byte late.
Evicted_AtCap(sb) ==
    PopOldest(sb, CHOOSE n \in 0 .. Len(sb.lines) :
                    LET left(k) == PopOldest(sb, k)
                        done(k) == /\ Len(left(k).lines) <= MaxLines
                                   /\ left(k).total_bytes < MaxBytes \/ Len(left(k).lines) <= 1
                    IN  done(n) /\ \A m \in 0 .. n - 1 : ~done(m))

Evicted(sb) ==
    PopOldest(sb, CHOOSE n \in 0 .. Len(sb.lines) :
                    /\ WithinCaps(PopOldest(sb, n))
                    /\ \A m \in 0 .. n - 1 : ~WithinCaps(PopOldest(sb, m)))

Pushed(sb, line) ==
    Evicted([lines |-> Append(sb.lines, line), total_bytes |-> sb.total_bytes + ByteLen(line.text)])

\* The id of the oldest line left; -1 when there is none.
OldestId(lines) == IF lines = <<>> THEN -1 ELSE Head(lines).id

\* A binary search for `id` comes upon it, whichever line it looks at next.
Gotten(lines, id) ==
    LET found[span \in (1 .. Len(lines) + 1) \X (0 .. Len(lines))] ==
            /\ span[1] <= span[2]
            /\ \A mid \in span[1] .. span[2] :
                 \/ lines[mid].id = id
                 \/ lines[mid].id < id /\ found[<<mid + 1, span[2]>>]
                 \/ lines[mid].id > id /\ found[<<span[1], mid - 1>>]
    IN  found[<<1, Len(lines)>>]

-----------------------------------------------------------------------------
(* What a store `sb` has to be between two pushes. *)

\* Both caps hold, whatever is pushed; the cap on bytes gives way to one line
\* alone (scrollback.rs evict).
Capped(sb) ==
    /\ Len(sb.lines) <= MaxLines
    /\ sb.total_bytes > MaxBytes => Len(sb.lines) = 1

\* The count that drives eviction is the bytes really kept.
BytesCounted(sb) ==
    sb.total_bytes = FoldLeft(LAMBDA n, line : n + ByteLen(line.text), 0, sb.lines)
=============================================================================
