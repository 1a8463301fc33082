------------------------------ MODULE VtParser ------------------------------
(***************************************************************************)
(* The streaming VT parser (parsers/vt.rs): the pty hands over the shell's *)
(* output in chunks that end anywhere, the parser turns it into commands   *)
(* and keeps what is not finished for the next chunk.                      *)
(*                                                                         *)
(* A byte is one of those that the grammar tells apart: letters (text and  *)
(* final bytes), digits and the other parameter bytes, " " (text, an       *)
(* intermediate), "[", "]", "\\", the controls that do something, and      *)
(* "E2" "82" "82", the one character of three bytes.  A run of text is its *)
(* characters one by one, so that runs cut in two compare as one.          *)
(***************************************************************************)
EXTENDS CsiParams

CONSTANTS Alphabets,  \* sets of bytes; a shell writes with one of them
          MaxBytes,   \* bound: bytes the shell writes
          MaxChunk    \* bound: bytes of one chunk

ParamBytes == {"0", "1", "2", "3", "4", "5", "6", "7", "8", "9", ";", "?", "=", ">"}
FinalBytes ==
    {"@", "A", "B", "C", "D", "E", "G", "H", "J", "K", "L", "M", "P", "S", "T", "X", "[", "\\", "]", "grave",
     "c", "d", "f", "h", "l", "m", "n", "r", "s", "u"}
Controls == {"ESC", "BEL", "BS", "TAB", "LF", "CR"}
Bytes == ParamBytes \cup FinalBytes \cup Controls \cup {" ", "E2", "82"}

ASSUME VtParserAssumption ==
    Alphabets \subseteq SUBSET Bytes /\ MaxBytes \in Nat /\ MaxChunk \in Nat

VARIABLES alphabet, \* what this shell writes with
          sent,     \* all it has written
          buf,      \* the bytes not consumed yet
          out       \* the commands so far

parserVars == <<alphabet, sent, buf, out>>

IsInter(b) == b = " "
IsParam(b) == b \in ParamBytes
IsCsiFinal(b) == b \in FinalBytes
IsEscFinal(b) == IsCsiFinal(b) \/ IsParam(b)

\* The outcomes of a parse: so many bytes consumed, and the commands, none for
\* Ignored.  Incomplete consumes nothing; an error resyncs past one byte.
Ok(used, cmds) == [used |-> used, cmds |-> cmds]
Incomplete == Ok(0, <<>>)
Malformed == Ok(1, <<>>)

\* How many bytes from `i` on satisfy `Test`.
Span(input, i, Test(_)) ==
    LET ends == {j \in i .. Len(input) : ~Test(input[j])}
    IN  (IF ends = {} THEN Len(input) + 1 ELSE CHOOSE j \in ends : \A k \in ends : j <= k) - i

-----------------------------------------------------------------------------
(* Text.                                                                    *)

Minimum(m, n) == IF m < n THEN m ELSE n

\* The character, or the part of one, that starts at `i`.
Unit(run, i) ==
    LET more == Minimum(2, Span(run, i + 1, LAMBDA b : b = "82"))
    IN  CASE run[i] = "E2" -> [len |-> 1 + more, ok |-> more = 2, open |-> more < 2 /\ i + more = Len(run)]
          [] run[i] = "82" -> [len |-> 1, ok |-> FALSE, open |-> FALSE]
          [] OTHER         -> [len |-> 1, ok |-> TRUE, open |-> FALSE]

PrintChar(c) == <<"print", c>>

\* from_utf8_lossy: one replacement for each maximal part of a character.
Lossy(run) ==
    LET from[i \in 1 .. Len(run) + 1] ==
            IF i > Len(run) THEN <<>>
            ELSE << PrintChar(IF Unit(run, i).ok THEN run[i] ELSE "FFFD") >> \o from[i + Unit(run, i).len]
    IN  from[1]

\* How many bytes are whole characters.
ValidUpTo(run) ==
    LET from[i \in 1 .. Len(run) + 1] ==
            IF i > Len(run) \/ ~Unit(run, i).ok THEN 0
            ELSE Unit(run, i).len + from[i + Unit(run, i).len]
    IN  from[1]

\* Mutant: a character cut by the end of the chunk is decoded as it stands.
ParsePrint_Lossy(input) ==
    LET n == Span(input, 1, LAMBDA b : b \notin Controls)
    IN  Ok(n, Lossy(SubSeq(input, 1, n)))

ParsePrint(input) ==
    LET n     == Span(input, 1, LAMBDA b : b \notin Controls)
        run   == SubSeq(input, 1, n)
        valid == ValidUpTo(run)
    IN  CASE n < Len(input)                                     -> Ok(n, Lossy(run))
          [] n = Len(input) /\ valid > 0                        -> Ok(valid, Lossy(SubSeq(run, 1, valid)))
          [] n = Len(input) /\ valid = 0 /\ Unit(run, 1).open   -> Incomplete
          [] n = Len(input) /\ valid = 0 /\ ~Unit(run, 1).open  -> Ok(1, <<PrintChar("FFFD")>>)

ParseC0(input) == Ok(1, <<<<"control", input[1]>>>>)

-----------------------------------------------------------------------------
(* Escape sequences; `input` begins with ESC.                               *)

\* Any sequence not acted on: intermediates, then a final byte.
ParseEscOther(input) ==
    LET last == 2 + Span(input, 2, IsInter)
    IN  CASE last > Len(input)                                -> Incomplete
          [] last <= Len(input) /\ IsEscFinal(input[last])    -> Ok(last, <<>>)
          [] last <= Len(input) /\ ~IsEscFinal(input[last])   -> Malformed

\* Intermediates are not looked at.
ParseCsi(input) ==
    LET inter == 3 + Span(input, 3, IsParam)
        last  == inter + Span(input, inter, IsInter)
    IN  CASE last > Len(input)                              -> Incomplete
          [] last <= Len(input) /\ IsCsiFinal(input[last])  ->
                Ok(last, DispatchCsi(SubSeq(input, 3, inter - 1), input[last]))
          [] last <= Len(input) /\ ~IsCsiFinal(input[last]) -> Malformed

\* Title commands only, 0 and 2; controls are stripped, a body without ";" is ignored.
OscCommand(body) ==
    IF Len(body) >= 2 /\ body[1] \in {"0", "2"} /\ body[2] = ";"
    THEN << <<"title", SelectSeq(Lossy(SubSeq(body, 3, Len(body))), LAMBDA c : c[2] \notin Controls)>> >>
    ELSE <<>>

BelAt(input, i) == input[i] = "BEL"
StAt(input, i) == input[i] = "ESC" /\ i < Len(input) /\ input[i + 1] = "\\"

\* Mutant: ST is not a terminator.
ParseOsc_BelOnly(input) ==
    LET n == Span(input, 3, LAMBDA b : b # "BEL")
    IN  IF 3 + n > Len(input) THEN Incomplete ELSE Ok(3 + n, OscCommand(SubSeq(input, 3, 2 + n)))

\* Up to the first BEL or ST.
ParseOsc(input) ==
    LET ends == {i \in 3 .. Len(input) : BelAt(input, i) \/ StAt(input, i)}
        end  == CHOOSE i \in ends : \A j \in ends : i <= j
    IN  IF ends = {} THEN Incomplete
        ELSE Ok(IF BelAt(input, end) THEN end ELSE end + 1, OscCommand(SubSeq(input, 3, end - 1)))

\* The escapes of one byte.
EscCommand(b) ==
    CASE b = "D" -> <<"index">>
      [] b = "E" -> <<"next_line">>
      [] b = "M" -> <<"reverse_index">>
      [] b = "7" -> <<"save_cursor">>
      [] b = "8" -> <<"restore_cursor">>
      [] b = "c" -> <<"reset">>
      [] b = "=" -> KeypadMode(TRUE)
      [] b = ">" -> KeypadMode(FALSE)

ParseEsc(input) ==
    IF Len(input) = 1 THEN Incomplete
    ELSE CASE input[2] = "["               -> ParseCsi(input)
           [] input[2] = "]"               -> ParseOsc(input)
           [] input[2] \in {"D", "E", "M", "7", "8", "c", "=", ">"} -> Ok(2, <<EscCommand(input[2])>>)
           [] OTHER                        -> ParseEscOther(input)

ParseCommand(input) ==
    CASE input[1] = "ESC"                  -> ParseEsc(input)
      [] input[1] \in Controls \ {"ESC"}   -> ParseC0(input)
      [] input[1] \notin Controls          -> ParsePrint(input)

-----------------------------------------------------------------------------

\* The loop of feed over what is buffered: the commands, and the rest.
Decoded(bytes) ==
    LET from[pos \in 0 .. Len(bytes)] ==
            LET input == SubSeq(bytes, pos + 1, Len(bytes))
                cmd   == ParseCommand(input)
            IN  IF input = <<>> \/ cmd.used = 0 THEN [rest |-> input, cmds |-> <<>>]
                ELSE [from[pos + cmd.used] EXCEPT !.cmds = cmd.cmds \o @]
    IN  from[0]

ParserInit == alphabet \in Alphabets /\ sent = <<>> /\ buf = <<>> /\ out = <<>>

\* VtParser::feed of one chunk.
Feed(chunk) ==
    /\ sent' = sent \o chunk
    /\ buf' = Decoded(buf \o chunk).rest
    /\ out' = out \o Decoded(buf \o chunk).cmds
    /\ UNCHANGED alphabet

ParserNext == \E n \in 1 .. Minimum(MaxChunk, MaxBytes - Len(sent)) : \E chunk \in [1 .. n -> alphabet] : Feed(chunk)

ParserSpec == ParserInit /\ [][ParserNext]_parserVars
-----------------------------------------------------------------------------

\* UTF-8, whole so far but for its last character.
WellFormed(bytes) ==
    LET from[i \in 1 .. Len(bytes) + 1] ==
            \/ i > Len(bytes)
            \/ Unit(bytes, i).open
            \/ Unit(bytes, i).ok /\ from[i + Unit(bytes, i).len]
    IN  from[1]

\* Wherever the chunks end, in a character or a sequence, the screen gets the
\* commands it would have got from the whole stream at once, and gets them no
\* later (docs/PRD.md, "The parser must be stateful across reads").
ChunksDoNotMatter ==
    WellFormed(sent) => Decoded(sent) = [rest |-> buf, cmds |-> out]

\* The beginnings of sequences that one more byte, or some more, may finish.
UnfinishedEsc(b) == \A i \in 2 .. Len(b) : IsInter(b[i])
UnfinishedCsi(b) ==
    /\ Len(b) >= 2 /\ b[2] = "["
    /\ \E i \in 2 .. Len(b) : /\ \A j \in 3 .. i : IsParam(b[j])
                              /\ \A j \in i + 1 .. Len(b) : IsInter(b[j])
UnfinishedOsc(b) ==
    /\ Len(b) >= 2 /\ b[2] = "]"
    /\ \A i \in 3 .. Len(b) : ~BelAt(b, i) /\ ~StAt(b, i)

\* Nothing is held back but the beginning of one character or one sequence, in
\* streams that are not UTF-8 too: no finished text or command waits in the
\* buffer for output that may never come.
HeldBackUnfinished ==
    buf # <<>> =>
        \/ Unit(buf, 1).open /\ Unit(buf, 1).len = Len(buf)
        \/ buf[1] = "ESC" /\ (UnfinishedEsc(buf) \/ UnfinishedCsi(buf) \/ UnfinishedOsc(buf))
=============================================================================
