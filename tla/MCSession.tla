----------------------------- MODULE MCSession -----------------------------
(* The two threads of the Session run.  They run the same code, but a run   *)
(* with temporal properties may not use the symmetry.                       *)
EXTENDS Session

CONSTANTS reader, resizer

MCThreads == {reader, resizer}
=============================================================================
