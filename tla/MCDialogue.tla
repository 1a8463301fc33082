----------------------------- MODULE MCDialogue -----------------------------
(* Programs that write at will: text, CSI and OSC sequences.  Programs that *)
(* speak: one SGR sequence of up to three parameters, three changes of the  *)
(* modes, four of the pen with saves and restores.                          *)
EXTENDS Dialogue

MCAlphabets ==
    {{"M", "LF", "ESC", "E2", "82"},
     {"M", "2", " ", "[", "ESC"},
     {"2", ";", "]", "ESC", "\\", "BEL"}}

Part(field, words) == [field |-> field, words |-> words]

SgrParts ==
    {Part(<<>>, << <<"plain">> >>),
     Part(<<"1">>, << <<"on", "Bold">> >>),
     Part(<<"5">>, <<>>),                          \* blinking, which is not known
     Part(<<"2", "2">>, << <<"off", "Bold">>, <<"off", "Dim">> >>),
     Part(<<"9", "7">>, << <<"fg", Indexed(15)>> >>),
     Part(<<"3", "9">>, << <<"fg", Default>> >>),
     Part(<<"3", "8", ";", "5", ";", "2">>, << <<"fg", Indexed(2)>> >>),
     Part(<<"4", "8", ";", "2", ";", "1", ";", "2", "2", ";", "7">>, << <<"bg", Rgb(1, 22, 7)>> >>)}

Sentence(bytes, words) == [bytes |-> bytes, words |-> words]

\* The sequence of these parts.
Csi(prefix, parts, final) ==
    Sentence(<<"ESC", "[">> \o prefix
                \o FlattenSeq([i \in DOMAIN parts |-> (IF i = 1 THEN <<>> ELSE <<";">>) \o parts[i].field])
                \o <<final>>,
             FlattenSeq([i \in DOMAIN parts |-> parts[i].words]))

Sgr(parts) == Csi(<<>>, parts, "m")
Esc(byte, words) == Sentence(<<"ESC", byte>>, words)

Ckm(on) == Part(<<"1">>, << <<"mode", "ApplicationCursorKeys", on>> >>)
Awm(on) == Part(<<"7">>, << <<"mode", "AutoWrap", on>> >>)
Unknown == Part(<<"1", "2">>, <<>>)
PowerOff == Esc("c", << <<"power on">> >>)

ModeSentences ==
    {Csi(<<"?">>, <<Ckm(TRUE)>>, "h"), Csi(<<"?">>, <<Unknown, Ckm(FALSE), Awm(FALSE)>>, "l"),
     Csi(<<"?">>, <<Awm(TRUE), Ckm(TRUE)>>, "h"), Csi(<<">">>, <<Unknown>>, "l"), Csi(<<>>, <<Unknown>>, "h"),
     Esc("=", << <<"mode", "ApplicationKeypad", TRUE>> >>), Esc(">", << <<"mode", "ApplicationKeypad", FALSE>> >>),
     PowerOff}

PenSentences ==
    {Sgr(<<Part(<<"1">>, << <<"on", "Bold">> >>)>>), Sgr(<<Part(<<"0">>, << <<"plain">> >>), Part(<<"4", "3">>, << <<"bg", Indexed(3)>> >>)>>),
     Esc("7", << <<"save">> >>), Esc("8", << <<"restore">> >>), PowerOff}

\* Cursor addressing on a screen of 3 rows and 10 columns.
Steps(n, rows, cols) == [i \in 1 .. n |-> <<"step", rows, cols>>]
Move(field, words, final) == Csi(<<>>, <<Part(field, words)>>, final)

Ask(what) ==
    CASE what = "position" -> Move(<<"6">>, << <<"ask", what>> >>, "n")
      [] what = "ok"       -> Move(<<"5">>, << <<"ask", what>> >>, "n")
      [] what = "vt102"    -> Move(<<>>, << <<"ask", what>> >>, "c")

MoveSentences ==
    {Move(<<"2">>, Steps(2, -1, 0), "A"), Move(<<>>, Steps(1, 1, 0), "B"), Move(<<"9">>, Steps(9, 0, 1), "C"),
     Move(<<"0">>, Steps(1, 0, -1), "D"), Move(<<"2", ";", "4">>, << <<"at", 2, 4>> >>, "H"),
     Move(<<"9", ";">>, << <<"at", 9, 1>> >>, "f"), Move(<<"7">>, << <<"at", 0, 7>> >>, "G"),
     Move(<<"2">>, << <<"at", 2, 0>> >>, "d"), Move(<<"1", ";", "2">>, << <<"margins", 1, 2>> >>, "r"),
     Move(<<"2", ";", "2">>, <<>>, "r"), Move(<<>>, << <<"save">> >>, "s"), Move(<<>>, << <<"restore">> >>, "u"),
     Move(<<"9">>, <<>>, "n"), Esc("E", << <<"feed">>, <<"at", 0, 1>> >>), Esc("D", << <<"feed">> >>),
     Sentence(<<"BS">>, Steps(1, 0, -1)), Sentence(<<"CR">>, << <<"at", 0, 1>> >>),
     Sentence(<<"M", "M">>, << <<"type">>, <<"type">> >>), Esc("M", << <<"feed back">> >>), Ask("position"), PowerOff}

\* What it takes three sentences to see.
Right == Move(<<"9">>, Steps(9, 0, 1), "C")
Middle == Move(<<"2", ";", "4">>, << <<"at", 2, 4>> >>, "H")
Typed == Sentence(<<"M", "M">>, << <<"type">>, <<"type">> >>)
Margins == Move(<<"1", ";", "2">>, << <<"margins", 1, 2>> >>, "r")
Feed2 == Sentence(<<"LF", "LF">>, << <<"feed">>, <<"feed">> >>)
Other(on) == Part(IF on THEN <<"1", "0", "4", "9">> ELSE <<"4", "7">>, << <<"mode", "AlternateScreen", on>> >>)
Enter == Csi(<<"?">>, <<Other(TRUE)>>, "h")
Leave == Csi(<<"?">>, <<Other(FALSE)>>, "l")

LongMoves ==
    {<<Right, Typed, Esc("7", << <<"save">> >>), Middle, Esc("8", << <<"restore">> >>), Typed>>,
     <<Margins, Middle, Feed2, Typed>>,
     <<Margins, Move(<<"3", ";", "9">>, << <<"at", 3, 9>> >>, "H"), Typed, Feed2, Typed>>,
     <<Csi(<<"?">>, <<Awm(FALSE)>>, "l"), Right, Typed, Csi(<<"?">>, <<Awm(TRUE)>>, "h"), Typed>>,
     <<Middle, Enter, Typed, Enter, Leave>>,
     <<Margins, Middle, Enter, Feed2, Feed2>>}

QuerySentences == {Ask("position"), Ask("ok"), Ask("vt102"), Sentence(<<"TAB">>, << <<"tab">> >>)}

MCScripts ==
    {<<Sgr(parts)>> : parts \in BoundedSeq(SgrParts, 3)}
        \cup BoundedSeq(ModeSentences, 3) \cup BoundedSeq(PenSentences, 4)
        \cup {moves \o <<Ask("position")>> : moves \in BoundedSeq(MoveSentences, 2) \cup LongMoves}
        \cup BoundedSeq(QuerySentences, 4)

-----------------------------------------------------------------------------
(* Keys of every family.                                                    *)

MCKeys ==
    {[key |-> k, number |-> 0] : k \in DOMAIN SpecialKey \ {"F", "Keypad"}}
        \cup {[key |-> "F", number |-> n] : n \in {1, 3, 4, 5, 12}}
        \cup {[key |-> "Keypad", number |-> n] : n \in {0, 7, 9}}

\* The layout: what a key gives with Shift and what Option makes of it.
Letters == {<<"c", "C", "c-cedilla">>, <<"i", "I", "circumflex">>, <<"1", "!", "inverted mark">>, <<"[", "{", "quote">>}

FlagSets == SUBSET {"shift", "option", "control"} \cup {{"command", "control"}}

MCPresses ==
    {[key |-> k.key, number |-> k.number, flags |-> flags, char |-> "", typed |-> ""] : k \in MCKeys, flags \in FlagSets}
        \cup {LET char == letter[IF "shift" \in flags THEN 2 ELSE 1]
              IN  [key |-> "Char", number |-> 0, flags |-> flags, char |-> char,
                   typed |-> IF "option" \in flags THEN letter[3] \o (IF "shift" \in flags THEN " shifted" ELSE "") ELSE char] :
                letter \in Letters, flags \in FlagSets}
=============================================================================
