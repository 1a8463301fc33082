----------------------------- MODULE CsiParams -----------------------------
(***************************************************************************)
(* What a CSI sequence says (parsers/vt.rs): its parameters as numbers,    *)
(* the attributes and colours of SGR, the private modes.  A byte is a      *)
(* string of one character.                                                *)
(***************************************************************************)
EXTENDS Integers, Sequences, SequencesExt

Digit == "0" :> 0 @@ "1" :> 1 @@ "2" :> 2 @@ "3" :> 3 @@ "4" :> 4 @@
         "5" :> 5 @@ "6" :> 6 @@ "7" :> 7 @@ "8" :> 8 @@ "9" :> 9

None == -1          \* a parameter left out, or not a number
MaxParam == 65535   \* u16::MAX, where a parameter saturates

\* The bytes between the separators.
Fields(bytes) ==
    FoldLeft(LAMBDA fields, b : IF b = ";" THEN Append(fields, <<>>)
                                ELSE [fields EXCEPT ![Len(fields)] = Append(@, b)],
             << <<>> >>, bytes)

Number(field) ==
    IF field = <<>> \/ \E i \in DOMAIN field : field[i] \notin DOMAIN Digit THEN None
    ELSE FoldLeft(LAMBDA n, d : IF 10 * n + Digit[d] > MaxParam THEN MaxParam ELSE 10 * n + Digit[d], 0, field)

ParseParams(bytes) ==
    LET fields == Fields(bytes)
    IN  IF bytes = <<>> THEN <<>> ELSE [i \in DOMAIN fields |-> Number(fields[i])]

Param(params, i, default) == IF i \in DOMAIN params /\ params[i] # None THEN params[i] ELSE default

Nonzero(n) == IF n = 0 THEN 1 ELSE n

-----------------------------------------------------------------------------
(* Select Graphic Rendition.                                                *)

Default == <<"Default">>
Indexed(n) == <<"Indexed", n>>
Rgb(r, g, b) == <<"Rgb", r, g, b>>

\* The codes that stand for themselves.
SgrCodes ==
    0 :> "Reset" @@ 1 :> "Bold" @@ 2 :> "Dim" @@ 3 :> "Italic" @@ 4 :> "Underline" @@ 7 :> "Reverse" @@
    8 :> "Hidden" @@ 9 :> "Strikethrough" @@ 22 :> "NoBoldDim" @@ 23 :> "NoItalic" @@ 24 :> "NoUnderline" @@
    27 :> "NoReverse" @@ 28 :> "NoHidden" @@ 29 :> "NoStrikethrough" @@ 39 :> "DefaultFg" @@ 49 :> "DefaultBg"

\* Mutant: the parameter that tells the kind of colour is not counted.
ParseExtColor_KindNotCounted(params, start) ==
    LET p(i) == Param(params, start + i, None)
    IN  CASE p(0) = 5 /\ p(1) # None                    -> << [color |-> Indexed(p(1) % 256), advance |-> 1] >>
          [] p(0) = 2 /\ None \notin {p(1), p(2), p(3)} ->
                << [color |-> Rgb(p(1) % 256, p(2) % 256, p(3) % 256), advance |-> 3] >>
          [] OTHER                                      -> <<>>

\* The colour behind a 38 or a 48 and how many parameters it takes, if it is
\* whole; a component keeps its low eight bits.
ParseExtColor(params, start) ==
    LET p(i) == Param(params, start + i, None)
    IN  CASE p(0) = 5 /\ p(1) # None                    -> << [color |-> Indexed(p(1) % 256), advance |-> 2] >>
          [] p(0) = 2 /\ None \notin {p(1), p(2), p(3)} ->
                << [color |-> Rgb(p(1) % 256, p(2) % 256, p(3) % 256), advance |-> 4] >>
          [] OTHER                                      -> <<>>

ParseSgr(params) ==
    LET extended(layer, i) ==
            LET ext == ParseExtColor(params, i + 1)
            IN  IF ext = <<>> THEN [sgr |-> <<>>, advance |-> 0]
                ELSE [sgr |-> << <<layer, ext[1].color>> >>, advance |-> ext[1].advance]
        plain(sgr) == [sgr |-> <<sgr>>, advance |-> 0]
        one(i) ==
            LET code == Param(params, i, 0)
            IN  CASE code \in DOMAIN SgrCodes -> plain(<<SgrCodes[code]>>)
                  [] code \in 30 .. 37        -> plain(<<"Fg", Indexed(code - 30)>>)
                  [] code \in 40 .. 47        -> plain(<<"Bg", Indexed(code - 40)>>)
                  [] code \in 90 .. 97        -> plain(<<"Fg", Indexed(code - 90 + 8)>>)
                  [] code \in 100 .. 107      -> plain(<<"Bg", Indexed(code - 100 + 8)>>)
                  [] code = 38                -> extended("Fg", i)
                  [] code = 48                -> extended("Bg", i)
                  [] OTHER                    -> [sgr |-> <<>>, advance |-> 0]
        from[i \in 1 .. Len(params) + 1] ==
            IF i > Len(params) THEN <<>> ELSE one(i).sgr \o from[i + 1 + one(i).advance]
    IN  IF params = <<>> THEN << <<"Reset">> >> ELSE from[1]

-----------------------------------------------------------------------------
(* Modes, and the dispatch on the final byte.  A command that is not acted  *)
(* on is no command.                                                        *)

PrivateMode ==
    1 :> "ApplicationCursorKeys" @@ 7 :> "AutoWrap" @@ 25 :> "CursorVisible" @@ 47 :> "AlternateScreen" @@
    1047 :> "AlternateScreen" @@ 1049 :> "AlternateScreen" @@ 2004 :> "BracketedPaste"

DispatchCsiPrivate(prefix, params_bytes, final) ==
    LET known == SelectSeq(ParseParams(params_bytes), LAMBDA n : n \in DOMAIN PrivateMode)
    IN  IF prefix # "?" \/ final \notin {"h", "l"} \/ known = <<>> THEN <<>>
        ELSE << <<"set_modes", [i \in DOMAIN known |-> PrivateMode[known[i]]], final = "h">> >>

KeypadMode(enabled) == <<"set_modes", <<"ApplicationKeypad">>, enabled>>

\* Parameters with 0 for 1, counted from 0.
Place(params, i) == Nonzero(Param(params, i, 1)) - 1

\* The last row, when it is left out or 0.
Bottom(params) == IF Param(params, 2, 0) = 0 THEN None ELSE params[2] - 1

EraseMode(n) == CASE n = 1 -> "ToStart" [] n \in {2, 3} -> "All" [] OTHER -> "ToEnd"

\* The commands that say how often.
CountCommand ==
    "A" :> "cursor_up" @@ "B" :> "cursor_down" @@ "C" :> "cursor_forward" @@ "D" :> "cursor_back" @@
    "S" :> "scroll_up" @@ "T" :> "scroll_down" @@ "L" :> "insert_lines" @@ "M" :> "delete_lines" @@
    "@" :> "insert_chars" @@ "P" :> "delete_chars" @@ "X" :> "erase_chars"

StandardCsi(params, final) ==
    CASE final \in DOMAIN CountCommand -> << <<CountCommand[final], Nonzero(Param(params, 1, 1))>> >>
      [] final \in {"H", "f"} -> << <<"cursor_position", Place(params, 1), Place(params, 2)>> >>
      [] final \in {"G", "grave"} -> << <<"cursor_column", Place(params, 1)>> >>
      [] final = "d" -> << <<"cursor_line", Place(params, 1)>> >>
      [] final = "r" -> << <<"set_scroll_region", Place(params, 1), Bottom(params)>> >>
      [] final = "s" -> << <<"save_cursor">> >>
      [] final = "u" -> << <<"restore_cursor">> >>
      [] final = "J" -> << <<"erase_in_display", EraseMode(Param(params, 1, 0))>> >>
      [] final = "K" -> << <<"erase_in_line", EraseMode(Param(params, 1, 0))>> >>
      [] final = "m" -> << <<"sgr", ParseSgr(params)>> >>
      [] final = "n" -> << <<"device_status_report", Param(params, 1, 0)>> >>
      [] final = "c" -> << <<"device_attributes">> >>
      [] OTHER       -> <<>>

DispatchCsi(params_bytes, final) ==
    IF params_bytes # <<>> /\ params_bytes[1] \in {"?", ">", "=", "<"}
    THEN DispatchCsiPrivate(params_bytes[1], Tail(params_bytes), final)
    ELSE StandardCsi(ParseParams(params_bytes), final)
=============================================================================
