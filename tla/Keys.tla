-------------------------------- MODULE Keys --------------------------------
(***************************************************************************)
(* From a key press to the bytes the shell reads: the frontend decides     *)
(* what the press is (KeyMap.cpp), the engine encodes it against the modes *)
(* (keys.rs).  A press is AppKit's event: the physical key and its number, *)
(* the flags, the character without the modifiers, and what the input      *)
(* system would make of it.  Control bytes are written as "^M"; a number   *)
(* inside a sequence is one token.                                         *)
(***************************************************************************)
EXTENDS Integers, Sequences, SequencesExt

Bits(modifiers) ==
    LET bit(m, n) == IF m \in modifiers THEN n ELSE 0 IN bit("SHIFT", 1) + bit("ALT", 2) + bit("CTRL", 4)

ESC == "^["

\* Nothing when no modifier is held.
XtermParam(mods) == IF mods = {} THEN <<>> ELSE <<";", ToString(1 + Bits(mods))>>

WithAlt(mods, bytes) == IF "ALT" \in mods THEN <<ESC>> \o bytes ELSE bytes

\* One letter of either case and the characters with a control byte of their
\* own stand for the rest.
ControlByte == "c" :> "^C" @@ "C" :> "^C" @@ "i" :> "^I" @@ "I" :> "^I" @@ " " :> "^@" @@ "@" :> "^@" @@
               "[" :> "^[" @@ "\\" :> "^\\" @@ "]" :> "^]" @@ "^" :> "^^" @@ "_" :> "^_" @@ "?" :> "^?"

EncodeChar(c, mods) ==
    WithAlt(mods, << IF "CTRL" \in mods /\ c \in DOMAIN ControlByte THEN ControlByte[c] ELSE c >>)

\* Mutant: application mode is looked at before the modifiers.
CursorKey_ModeFirst(final, mods, modes) ==
    IF "ApplicationCursorKeys" \in modes THEN <<ESC, "O", final>>
    ELSE <<ESC, "[">> \o (IF mods = {} THEN <<>> ELSE <<"1">> \o XtermParam(mods)) \o <<final>>

\* A held modifier takes the CSI form, in application mode too.
CursorKey(final, mods, modes) ==
    CASE mods # {}                                                  -> <<ESC, "[", "1">> \o XtermParam(mods) \o <<final>>
      [] mods = {} /\ "ApplicationCursorKeys" \in modes             -> <<ESC, "O", final>>
      [] mods = {} /\ "ApplicationCursorKeys" \notin modes          -> <<ESC, "[", final>>

TildeKey(code, mods) == <<ESC, "[", ToString(code)>> \o XtermParam(mods) \o <<"~">>

CursorFinal == "Up" :> "A" @@ "Down" :> "B" @@ "Right" :> "C" @@ "Left" :> "D" @@ "Home" :> "H" @@ "End" :> "F"
TildeCode == "Insert" :> 2 @@ "Delete" :> 3 @@ "PageUp" :> 5 @@ "PageDown" :> 6

FunctionKey(n, mods) ==
    CASE n \in 1 .. 4  -> LET final == <<"P", "Q", "R", "S">>[n]
                          IN  IF mods = {} THEN <<ESC, "O", final>>
                              ELSE <<ESC, "[", "1">> \o XtermParam(mods) \o <<final>>
      [] n \in 5 .. 12 -> TildeKey(<<15, 17, 18, 19, 20, 21, 23, 24>>[n - 4], mods)
      [] OTHER         -> <<>>

KeypadChar == "Plus" :> "+" @@ "Minus" :> "-" @@ "Multiply" :> "*" @@ "Divide" :> "/" @@ "Decimal" :> "." @@ "Equals" :> "="
KeypadFinal == "Enter" :> "M" @@ "Plus" :> "k" @@ "Minus" :> "m" @@ "Multiply" :> "j" @@ "Divide" :> "o" @@
               "Decimal" :> "n" @@ "Equals" :> "X"

EncodeKeypad(name, n, mods, modes) ==
    IF "ApplicationKeypad" \notin modes
    THEN CASE name = "Digit" -> EncodeChar(ToString(n), mods)
           [] name = "Enter" -> WithAlt(mods, <<"^M">>)
           [] OTHER          -> EncodeChar(KeypadChar[name], mods)
    ELSE WithAlt(mods, <<ESC, "O", IF name = "Digit" THEN <<"p", "q", "r", "s", "t", "u", "v", "w", "x", "y">>[n + 1]
                                   ELSE KeypadFinal[name]>>)

EncodeKey(key, mods, modes) ==
    CASE key[1] = "Char"                -> EncodeChar(key[2], mods)
      [] key[1] = "Enter"               -> WithAlt(mods, <<"^M">>)
      [] key[1] = "Tab"                 -> IF "SHIFT" \in mods THEN <<ESC, "[", "Z">> ELSE WithAlt(mods, <<"^I">>)
      [] key[1] = "Backspace"           -> WithAlt(mods, << IF "CTRL" \in mods THEN "^H" ELSE "^?" >>)
      [] key[1] = "Escape"              -> WithAlt(mods, <<ESC>>)
      [] key[1] \in DOMAIN CursorFinal  -> CursorKey(CursorFinal[key[1]], mods, modes)
      [] key[1] \in DOMAIN TildeCode    -> TildeKey(TildeCode[key[1]], mods)
      [] key[1] = "F"                   -> FunctionKey(key[2], mods)
      [] key[1] = "Keypad"              -> EncodeKeypad(key[2], key[3], mods, modes)

-----------------------------------------------------------------------------
(* The frontend, and the event that crosses the C interface.                *)

\* The keys with meaning of their own, by the name on the keyboard.
SpecialKey ==
    "Return" :> "Enter" @@ "Tab" :> "Tab" @@ "Delete" :> "Backspace" @@ "Escape" :> "Escape" @@
    "ForwardDelete" :> "Delete" @@ "Home" :> "Home" @@ "End" :> "End" @@ "PageUp" :> "PageUp" @@
    "PageDown" :> "PageDown" @@ "UpArrow" :> "Up" @@ "DownArrow" :> "Down" @@ "LeftArrow" :> "Left" @@
    "RightArrow" :> "Right" @@ "F" :> "F" @@ "KeypadEnter" :> "KeypadEnter" @@ "KeypadPlus" :> "KeypadPlus" @@
    "KeypadMinus" :> "KeypadMinus" @@ "KeypadMultiply" :> "KeypadMultiply" @@ "KeypadDivide" :> "KeypadDivide" @@
    "KeypadDecimal" :> "KeypadDecimal" @@ "KeypadEquals" :> "KeypadEquals" @@ "Keypad" :> "KeypadDigit"

ModifiersFromFlags(flags) ==
    {m \in {"SHIFT", "ALT", "CTRL"} : ("SHIFT" :> "shift" @@ "ALT" :> "option" @@ "CTRL" :> "control")[m] \in flags}

\* A command never reaches the engine, a special key and a character that the
\* layout has no byte for do as events, the rest is the input system's.
MapKey(press, option_is_meta) ==
    LET event(code) == [action |-> "SendKey", code |-> code, number |-> press.number, codepoint |-> press.char,
                        modifiers |-> ModifiersFromFlags(press.flags)]
        encoded == "control" \in press.flags \/ (option_is_meta /\ "option" \in press.flags)
    IN  CASE "command" \in press.flags -> [action |-> "Ignore"]
          [] "command" \notin press.flags /\ press.key \in DOMAIN SpecialKey -> event(SpecialKey[press.key])
          [] "command" \notin press.flags /\ press.key \notin DOMAIN SpecialKey ->
                IF encoded /\ press.char # "" THEN event("Char") ELSE [action |-> "SendAsText"]

KeypadKeys == {"Enter", "Plus", "Minus", "Multiply", "Divide", "Decimal", "Equals", "Digit"}

KeyOf(event) ==
    CASE event.code = "Char" -> <<"Char", event.codepoint>>
      [] event.code = "F"    -> <<"F", event.number>>
      [] \E k \in KeypadKeys : event.code = "Keypad" \o k ->
            <<"Keypad", CHOOSE k \in KeypadKeys : event.code = "Keypad" \o k, event.number>>
      [] OTHER               -> <<event.code>>

\* What the shell reads of a press while its session is up.
KeyDown(press, option_is_meta, modes) ==
    LET decision == MapKey(press, option_is_meta)
    IN  CASE decision.action = "SendKey"    -> EncodeKey(KeyOf(decision), decision.modifiers, modes)
          [] decision.action = "SendAsText" -> <<press.typed>>
          [] decision.action = "Ignore"     -> <<>>
=============================================================================
