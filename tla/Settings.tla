------------------------------ MODULE Settings ------------------------------
(***************************************************************************)
(* What a program has set (screen.rs): the pen that styles what it prints  *)
(* and the modes that change what a key sends, as the commands leave them. *)
(***************************************************************************)
EXTENDS CsiParams

Attrs == {"Bold", "Dim", "Italic", "Underline", "Reverse", "Hidden", "Strikethrough"}
DefaultPen == [fg |-> Default, bg |-> Default, attrs |-> {}]
DefaultModes == {"AutoWrap", "CursorVisible"}

\* saved is the pen of DECSC; the alternate screen counts as a mode.
PowerOn == [pen |-> DefaultPen, saved |-> DefaultPen, modes |-> DefaultModes]

Removed(sgr) ==
    CASE sgr = "NoBoldDim"       -> {"Bold", "Dim"}
      [] sgr = "NoItalic"        -> {"Italic"}
      [] sgr = "NoUnderline"     -> {"Underline"}
      [] sgr = "NoReverse"       -> {"Reverse"}
      [] sgr = "NoHidden"        -> {"Hidden"}
      [] sgr = "NoStrikethrough" -> {"Strikethrough"}

ApplySgr(pen, sgr) ==
    CASE sgr[1] = "Reset"     -> DefaultPen
      [] sgr[1] = "Fg"        -> [pen EXCEPT !.fg = sgr[2]]
      [] sgr[1] = "Bg"        -> [pen EXCEPT !.bg = sgr[2]]
      [] sgr[1] = "DefaultFg" -> [pen EXCEPT !.fg = Default]
      [] sgr[1] = "DefaultBg" -> [pen EXCEPT !.bg = Default]
      [] sgr[1] \in Attrs     -> [pen EXCEPT !.attrs = @ \cup {sgr[1]}]
      [] OTHER                -> [pen EXCEPT !.attrs = @ \ Removed(sgr[1])]

SetMode(modes, mode, enabled) == IF enabled THEN modes \cup {mode} ELSE modes \ {mode}

\* Screen::apply, as far as it is about settings.
Apply(settings, cmd) ==
    CASE cmd[1] = "sgr"       -> [settings EXCEPT !.pen = FoldLeft(ApplySgr, @, cmd[2])]
      [] cmd[1] = "set_modes" ->
            [settings EXCEPT !.modes = FoldLeft(LAMBDA modes, mode : SetMode(modes, mode, cmd[3]), @, cmd[2])]
      [] cmd[1] = "save_cursor"    -> [settings EXCEPT !.saved = settings.pen]
      [] cmd[1] = "restore_cursor" -> [settings EXCEPT !.pen = settings.saved]
      [] cmd[1] = "reset"          -> PowerOn
      [] OTHER                     -> settings

SettingsAfter(cmds) == FoldLeft(Apply, PowerOn, cmds)
=============================================================================
