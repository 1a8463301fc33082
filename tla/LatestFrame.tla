---------------------------- MODULE LatestFrame ----------------------------
(***************************************************************************)
(* What a session promises its frontend, with nothing said of how: the     *)
(* screen changes, the frontend shows it, and while the session is live a  *)
(* screen that differs from the one shown is eventually shown.  A burst of *)
(* changes may be shown as one, and nothing is promised once the session   *)
(* has been shut down.                                                     *)
(***************************************************************************)
EXTENDS Naturals

VARIABLES latest,   \* how many changes the screen has been through
          shown,    \* how many of them are in the last frame taken
          live      \* the session has not been shut down

vars == <<latest, shown, live>>

Init == latest = 0 /\ shown = 0 /\ live = TRUE

Change == latest' = latest + 1 /\ UNCHANGED <<shown, live>>

\* A frame is always the screen as it is, never an older one.
Show == shown # latest /\ shown' = latest /\ UNCHANGED <<latest, live>>

ShutDown == live /\ live' = FALSE /\ UNCHANGED <<latest, shown>>

Next == Change \/ Show \/ ShutDown

Safety == Init /\ [][Next]_vars
Spec == Safety /\ WF_vars(live /\ Show)
=============================================================================
