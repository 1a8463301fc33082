----------------------------- MODULE MCTerminal -----------------------------
(* Model values for the Terminal runs.                                      *)
EXTENDS Terminal
=============================================================================
