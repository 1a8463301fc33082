------------------------------ MODULE Dialogue ------------------------------
(***************************************************************************)
(* A program and the terminal: what the program asks for in escape         *)
(* sequences reaches the pen, the modes and the cursor through chunks that *)
(* end anywhere, its queries are answered in between, and the keys it then *)
(* reads are encoded against the modes.                                    *)
(*                                                                         *)
(* A program writes bytes at will, or sentences: a sentence has the bytes  *)
(* that go out and the words that it means by them (ECMA-48 and xterm's    *)
(* control sequences).  A word is one of                                   *)
(*   <<"on", attribute>>   <<"off", attribute>>   <<"plain">>              *)
(*   <<"fg", colour>>      <<"bg", colour>>       <<"mode", mode, on>>     *)
(*   <<"save">>            <<"restore">>          <<"power on">>           *)
(*   <<"step", rows, cols>> by one place, <<"at", row, col>> from 1 with 0  *)
(*   for where it is, <<"type">> a character, <<"feed">> a line,            *)
(*   <<"tab">>             <<"margins", top, bottom>> <<"ask", what>>       *)
(*   <<"feed back">> a line                                                *)
(***************************************************************************)
EXTENDS VtParser, Settings, Keys, Replies

CONSTANTS Scripts,  \* what programs say: sequences of sentences
          Presses   \* the keys a user may press

VARIABLES asked,    \* what this program says, <<>> for one that writes at will
          engine,   \* the cursor and the queue of replies
          answers   \* what each chunk was answered: [queries, replies]

programVars == <<parserVars, asked, engine, answers>>

Encoded(script) == FlattenSeq([i \in DOMAIN script |-> script[i].bytes])
Words(script) == FlattenSeq([i \in DOMAIN script |-> script[i].words])

ProgramInit ==
    /\ ParserInit
    /\ asked \in Scripts \cup {<<>>}
    /\ asked # <<>> => alphabet = CHOOSE a \in Alphabets : TRUE
    /\ engine = EngineStart /\ answers = <<>>

IsQuery(cmd) ==
    cmd[1] = "device_attributes" \/ (cmd[1] = "device_status_report" /\ cmd[2] \in {5, 6})

\* The next bytes of what the program says are read, fed and answered.
GoOn ==
    /\ asked # <<>>
    /\ \E n \in 1 .. Len(Encoded(asked)) - Len(sent) : Feed(SubSeq(Encoded(asked), Len(sent) + 1, Len(sent) + n))
    /\ LET cmds     == SubSeq(out', Len(out) + 1, Len(out'))
           advanced == Advanced(engine, cmds)
       IN  /\ engine' = advanced.engine
           /\ answers' = IF advanced.replies = <<>> THEN answers
                         ELSE Append(answers, [queries |-> Len(SelectSeq(cmds, IsQuery)), replies |-> advanced.replies])
    /\ UNCHANGED asked

ProgramNext == GoOn \/ (asked = <<>> /\ ParserNext /\ UNCHANGED <<asked, engine, answers>>)

ProgramSpec == ProgramInit /\ [][ProgramNext]_programVars

Said == asked # <<>> /\ sent = Encoded(asked)
-----------------------------------------------------------------------------

\* The words the pen goes by: RESTORE takes back all that was said since SAVE.
PenWords(words) ==
    FoldLeft(LAMBDA pen, word :
                CASE word[1] = "save"     -> [pen EXCEPT !.kept = pen.now]
                  [] word[1] = "restore"  -> [pen EXCEPT !.now = pen.kept]
                  [] word[1] = "power on" -> [now |-> <<>>, kept |-> <<>>]
                  [] OTHER                -> [pen EXCEPT !.now = Append(@, word)],
             [now |-> <<>>, kept |-> <<>>], words).now

\* The last word on a matter, or `otherwise`.
LastWord(words, On(_), otherwise) ==
    LET i == SelectLastInSeq(words, On) IN IF i = 0 THEN otherwise ELSE words[i]

AskedAttrs(words) ==
    {a \in Attrs : LastWord(words, LAMBDA w : w[1] = "plain" \/ (w[1] \in {"on", "off"} /\ w[2] = a), <<"plain">>)[1] = "on"}

AskedColor(words, layer) ==
    LET word == LastWord(words, LAMBDA w : w[1] \in {"plain", layer}, <<"plain">>)
    IN  IF word[1] = "plain" THEN Default ELSE word[2]

AskedModes(words) ==
    {m \in DefaultModes \cup ToSet([i \in DOMAIN words |-> IF words[i][1] = "mode" THEN words[i][2] ELSE "AutoWrap"]) :
        LET word == LastWord(words, LAMBDA w : w[1] = "power on" \/ (w[1] = "mode" /\ w[2] = m), <<"power on">>)
        IN  IF word[1] = "power on" THEN m \in DefaultModes ELSE word[3]}

\* Once a program has been heard, in whatever chunks, the pen and the modes are
\* what its last word on each attribute, colour and mode says: parameters left
\* out, colours of several parameters and sequences not known shift nothing.
SettingsAsAsked ==
    Said => LET settings == SettingsAfter(out)
                pen      == PenWords(Words(asked))
            IN  /\ settings.pen = [fg |-> AskedColor(pen, "fg"), bg |-> AskedColor(pen, "bg"), attrs |-> AskedAttrs(pen)]
                /\ settings.modes = AskedModes(Words(asked))

\* What a terminal tells a program of a press, in the modes it has asked for:
\* nothing, a key with its modifiers, or a character that Alt may precede.
CursorKeys == {"UpArrow", "DownArrow", "LeftArrow", "RightArrow", "Home", "End"}
KeypadSign == "KeypadEnter" :> "^M" @@ "KeypadPlus" :> "+" @@ "KeypadMinus" :> "-" @@ "KeypadMultiply" :> "*" @@
              "KeypadDivide" :> "/" @@ "KeypadDecimal" :> "." @@ "KeypadEquals" :> "="

Told(press, option_is_meta, modes) ==
    LET alt  == "option" \in press.flags
        ctrl == "control" \in press.flags
        key(flags) == <<"key", press.key, press.number, flags>>
        char(c) == <<"char", alt, c>>
        keypad(c) == IF "ApplicationKeypad" \in modes THEN key(press.flags \cap {"option"}) ELSE char(c)
    IN  CASE "command" \in press.flags -> <<"nothing">>
          [] OTHER ->
             CASE press.key = "Return"              -> char("^M")
               [] press.key = "Escape"              -> char("^[")
               [] press.key = "Delete"              -> char(IF ctrl THEN "^H" ELSE "^?")
               [] press.key = "Tab"                 -> IF "shift" \in press.flags THEN key({"shift"}) ELSE char("^I")
               [] press.key \in DOMAIN KeypadSign   -> keypad(KeypadSign[press.key])
               [] press.key = "Keypad"              -> keypad(ToString(press.number))
               [] press.key \in CursorKeys \cup {"ForwardDelete", "PageUp", "PageDown", "F"} -> key(press.flags)
               [] press.key = "Char" /\ (ctrl \/ (alt /\ option_is_meta)) ->
                    char(IF ctrl /\ press.char \in DOMAIN ControlByte THEN ControlByte[press.char] ELSE press.char)
               [] OTHER -> <<"char", FALSE, press.typed>>

\* The shell reads the same bytes of two presses exactly when they tell it the
\* same, and reads a cursor key without modifiers in the form it asked for.
KeysTold ==
    Said => \A option_is_meta \in BOOLEAN :
        LET modes == SettingsAfter(out).modes
            wants == AskedModes(Words(asked))
            pairs == { <<KeyDown(p, option_is_meta, modes), Told(p, option_is_meta, wants)>> : p \in Presses }
        IN  /\ \A side \in {1, 2} : Cardinality({ pair[side] : pair \in pairs }) = Cardinality(pairs)
            /\ \A p \in Presses : p.key \in CursorKeys /\ p.flags = {} =>
                    (KeyDown(p, option_is_meta, modes)[2] = "O" <=> "ApplicationCursorKeys" \in wants)

-----------------------------------------------------------------------------

\* Where the words leave the cursor, rows and columns from 1; one column past the
\* last is where a character that filled the row leaves it.
Inside(n, last) == CASE n < 1 -> 1 [] n \in 1 .. last -> n [] n > last -> last

Origins == [row |-> 1, col |-> 1, bottom |-> Rows, kept |-> <<1, 1>>, wraps |-> TRUE, under |-> <<>>]

Heard(at, word) ==
    LET nowhere == at.row = Rows /\ at.row # at.bottom    \* below the margins, on the last row
        full    == at.col > Cols
        down    == IF at.row = at.bottom THEN at.row ELSE at.row + 1
    IN  CASE word[1] = "step"    -> [at EXCEPT !.row = Inside(@ + word[2], Rows),
                                               !.col = Inside(Inside(@, Cols) + word[3], Cols)]
          [] word[1] = "at"      -> [at EXCEPT !.row = IF word[2] = 0 THEN @ ELSE Inside(word[2], Rows),
                                               !.col = Inside(IF word[3] = 0 THEN @ ELSE word[3], Cols)]
          [] word[1] = "feed" /\ ~nowhere         -> [at EXCEPT !.row = down, !.col = Inside(@, Cols)]
          [] word[1] = "feed back"          -> [at EXCEPT !.row = Inside(@ - 1, Rows), !.col = Inside(@, Cols)]
          [] word[1] = "type" /\ ~at.wraps        -> [at EXCEPT !.col = Inside(@ + 1, Cols)]
          [] word[1] = "type" /\ at.wraps /\ ~full -> [at EXCEPT !.col = @ + 1]
          [] word[1] = "type" /\ at.wraps /\ full /\ ~nowhere -> [at EXCEPT !.row = down, !.col = 2]
          [] word[1] = "tab"     -> [at EXCEPT !.col = Inside(CHOOSE s \in @ + 1 .. @ + 8 : s % 8 = 1, Cols)]
          [] word[1] = "margins" -> [at EXCEPT !.row = 1, !.col = 1, !.bottom = word[3]]
          [] word[1] = "save"    -> [at EXCEPT !.kept = <<at.row, at.col>>]
          [] word[1] = "restore" -> [at EXCEPT !.row = at.kept[1], !.col = at.kept[2]]
          [] word[1] = "power on" -> Origins
          [] word[1] = "mode" /\ word[2] = "AutoWrap" -> [at EXCEPT !.wraps = word[3]]
          [] word[1] = "mode" /\ word[2] = "AlternateScreen" /\ word[3] /\ at.under = <<>> ->
                [Origins EXCEPT !.kept = at.kept, !.wraps = at.wraps, !.under = <<at>>]
          [] word[1] = "mode" /\ word[2] = "AlternateScreen" /\ ~word[3] /\ at.under # <<>> ->
                [at.under[1] EXCEPT !.kept = at.kept, !.wraps = at.wraps]
          [] OTHER -> at

Where(words) == FoldLeft(Heard, Origins, words)

\* The answers to all that was asked, in the order it was asked in.
Owed(words) ==
    LET asks == SelectSeq([i \in DOMAIN words |-> i], LAMBDA i : words[i][1] = "ask")
        answer(i) == LET at == Where(SubSeq(words, 1, i))
                     IN  IF words[i][2] = "position" THEN <<"at", at.row, Inside(at.col, Cols)>>
                         ELSE <<words[i][2]>>
    IN  [k \in DOMAIN asks |-> answer(asks[k])]

\* The replies are some of the answers, in their order.
Among(replies, owed) ==
    \E kept \in SUBSET DOMAIN owed :
        replies = [k \in 1 .. Cardinality(kept) |->
                      owed[CHOOSE i \in kept : Cardinality({j \in kept : j <= i}) = k]]

\* A program is answered every query in the chunk it finished in, in order, with
\* the place its words so far put the cursor.  Only answers that the queue has no
\* room for are left out, and left out whole.
AnswersInOrder ==
    Said => LET owed  == Owed(Words(asked))
                before(k) == FoldLeft(LAMBDA sum, a : sum + a.queries, 0, SubSeq(answers, 1, k - 1))
                part(k)   == SubSeq(owed, before(k) + 1, before(k) + answers[k].queries)
            IN  /\ before(Len(answers) + 1) = Len(owed)
                /\ \A k \in DOMAIN answers :
                      /\ Among(answers[k].replies, part(k))
                      /\ ReplyBytes(answers[k].replies) <= MaxPendingReplyBytes
                      /\ ReplyBytes(part(k)) <= MaxPendingReplyBytes => answers[k].replies = part(k)
=============================================================================
