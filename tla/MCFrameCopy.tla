---------------------------- MODULE MCFrameCopy ----------------------------
(* Two grids.                                                               *)
EXTENDS FrameCopy

MCGrids == {"A", "B"}
=============================================================================
