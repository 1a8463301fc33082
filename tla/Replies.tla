------------------------------ MODULE Replies ------------------------------
(***************************************************************************)
(* What the engine owes the program (screen.rs): the answers to its        *)
(* queries, queued while a chunk is applied and taken when it is done, and *)
(* the cursor they report.  The engine here is the cursor, the margins and *)
(* the queue of a screen of a fixed size; what the commands do to the      *)
(* cells is in Screen.  Every character is one column wide.                *)
(***************************************************************************)
EXTENDS CsiParams

CONSTANTS Rows, Cols,
          MaxPendingReplyBytes  \* the cap of the queue

ASSUME RepliesAssumption ==
    Rows \in Nat \ {0} /\ Cols \in Nat \ {0} /\ MaxPendingReplyBytes \in Nat

Origin == [row |-> 0, col |-> 0, wrap |-> FALSE]

\* aside is the primary screen while the alternate one shows, kept is DECSC's.
EngineStart ==
    [cursor |-> Origin, top |-> 0, bottom |-> Rows - 1, aside |-> <<>>, kept |-> <<>>,
     autowrap |-> TRUE, replies |-> <<>>]

Clamp(n, last) == CASE n < 0 -> 0 [] n \in 0 .. last -> n [] n > last -> last

MoveTo(e, row, col) ==
    [e EXCEPT !.cursor = [row |-> Clamp(row, Rows - 1), col |-> Clamp(col, Cols - 1), wrap |-> FALSE]]

MoveBy(e, rows, cols) == MoveTo(e, e.cursor.row + rows, e.cursor.col + cols)

\* At the margin the text moves, not the cursor; past it, on the last row, neither.
LineFeed(e) ==
    CASE e.cursor.row = e.bottom                              -> MoveBy(e, 0, 0)
      [] e.cursor.row # e.bottom /\ e.cursor.row + 1 < Rows   -> MoveBy(e, 1, 0)
      [] OTHER                                                -> e

ReverseIndex(e) ==
    CASE e.cursor.row = e.top                     -> MoveBy(e, 0, 0)
      [] e.cursor.row # e.top /\ e.cursor.row > 0 -> MoveBy(e, -1, 0)
      [] OTHER                                    -> e

CarriageReturn(e) == MoveTo(e, e.cursor.row, 0)

\* Past the region on the last row there is nowhere to wrap to.
Wrapped(e) ==
    IF e.cursor.row = e.bottom \/ e.cursor.row + 1 < Rows THEN CarriageReturn(LineFeed(e)) ELSE e

\* One column; the last one defers the wrap to the next character.
PrintOne(e) ==
    LET room == IF e.cursor.wrap /\ e.autowrap THEN Wrapped(e) ELSE e
    IN  [MoveBy(room, 0, 1) EXCEPT !.cursor.wrap = e.autowrap /\ room.cursor.col + 1 >= Cols]

\* A region that is empty or reversed is ignored, one that is taken homes.
SetScrollRegion(e, top, bottom) ==
    LET last == IF bottom = None THEN Rows - 1 ELSE Clamp(bottom, Rows - 1)
    IN  IF top >= last THEN e ELSE [MoveTo(e, 0, 0) EXCEPT !.top = top, !.bottom = last]

RestoreCursor(e) ==
    LET kept == IF e.kept = <<>> THEN Origin ELSE e.kept[1] IN [e EXCEPT !.cursor = kept]

\* insert_lines and delete_lines, in the region.
EditLines(e) == IF e.cursor.row \in e.top .. e.bottom THEN CarriageReturn(e) ELSE e

SwapBuffer(e, shown, aside) ==
    [e EXCEPT !.cursor = shown.cursor, !.top = shown.top, !.bottom = shown.bottom, !.aside = aside]

SwitchMode(e, mode, enabled) ==
    CASE mode = "AutoWrap" -> [e EXCEPT !.autowrap = enabled]
      [] mode = "AlternateScreen" /\ enabled /\ e.aside = <<>> ->
            SwapBuffer(e, EngineStart, << [cursor |-> e.cursor, top |-> e.top, bottom |-> e.bottom] >>)
      [] mode = "AlternateScreen" /\ ~enabled /\ e.aside # <<>> -> SwapBuffer(e, e.aside[1], <<>>)
      [] OTHER -> e

-----------------------------------------------------------------------------

\* A reply is what it says: <<"ok">>, <<"vt102">>, or <<"at", row, col>>.
ReplyLen(reply) ==
    CASE reply[1] = "ok"    -> 4
      [] reply[1] = "vt102" -> 5
      [] reply[1] = "at"    -> 4 + Len(ToString(reply[2])) + Len(ToString(reply[3]))

ReplyBytes(replies) == FoldLeft(LAMBDA sum, reply : sum + ReplyLen(reply), 0, replies)

\* Mutant: off by one at the cap.
Reply_BelowCap(e, reply) ==
    [e EXCEPT !.replies =
        IF ReplyBytes(@) + ReplyLen(reply) < MaxPendingReplyBytes THEN Append(@, reply) ELSE @]

\* Dropped whole when it does not fit.
Reply(e, reply) ==
    [e EXCEPT !.replies =
        IF ReplyBytes(@) + ReplyLen(reply) <= MaxPendingReplyBytes THEN Append(@, reply) ELSE @]

DeviceStatusReport(e, kind) ==
    CASE kind = 5 -> Reply(e, <<"ok">>)
      [] kind = 6 -> Reply(e, <<"at", e.cursor.row + 1, e.cursor.col + 1>>)
      [] OTHER    -> e

\* The controls that move: BS, TAB (a stop every 8 columns), LF, CR.
Control(e, byte) ==
    CASE byte = "BS"  -> MoveBy(e, 0, -1)
      [] byte = "TAB" -> MoveTo(e, e.cursor.row, (e.cursor.col \div 8 + 1) * 8)
      [] byte = "LF"  -> LineFeed(e)
      [] byte = "CR"  -> CarriageReturn(e)
      [] OTHER        -> e

\* Screen::apply, as far as it moves the cursor or answers.
Obey(e, cmd) ==
    CASE cmd[1] = "print"             -> PrintOne(e)
      [] cmd[1] = "control"           -> Control(e, cmd[2])
      [] cmd[1] = "cursor_up"         -> MoveBy(e, -cmd[2], 0)
      [] cmd[1] = "cursor_down"       -> MoveBy(e, cmd[2], 0)
      [] cmd[1] = "cursor_forward"    -> MoveBy(e, 0, cmd[2])
      [] cmd[1] = "cursor_back"       -> MoveBy(e, 0, -cmd[2])
      [] cmd[1] = "cursor_position"   -> MoveTo(e, cmd[2], cmd[3])
      [] cmd[1] = "cursor_column"     -> MoveTo(e, e.cursor.row, cmd[2])
      [] cmd[1] = "cursor_line"       -> MoveTo(e, cmd[2], e.cursor.col)
      [] cmd[1] = "index"             -> LineFeed(e)
      [] cmd[1] = "reverse_index"     -> ReverseIndex(e)
      [] cmd[1] = "next_line"         -> CarriageReturn(LineFeed(e))
      [] cmd[1] = "set_scroll_region" -> SetScrollRegion(e, cmd[2], cmd[3])
      [] cmd[1] \in {"insert_lines", "delete_lines"} -> EditLines(e)
      [] cmd[1] = "save_cursor"       -> [e EXCEPT !.kept = <<e.cursor>>]
      [] cmd[1] = "restore_cursor"    -> RestoreCursor(e)
      [] cmd[1] = "set_modes"         -> FoldLeft(LAMBDA f, mode : SwitchMode(f, mode, cmd[3]), e, cmd[2])
      [] cmd[1] = "reset"             -> [EngineStart EXCEPT !.replies = e.replies]
      [] cmd[1] = "device_status_report" -> DeviceStatusReport(e, cmd[2])
      [] cmd[1] = "device_attributes" -> Reply(e, <<"vt102">>)
      [] OTHER                        -> e

\* Screen::advance of one chunk's commands: the engine after it, and what it is
\* handed back to be written to the program.
Advanced(e, cmds) ==
    LET after == FoldLeft(Obey, e, cmds)
    IN  [engine |-> [after EXCEPT !.replies = <<>>], replies |-> after.replies]
=============================================================================
