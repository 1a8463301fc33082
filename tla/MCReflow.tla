------------------------------ MODULE MCReflow ------------------------------
(* Every line of up to four graphemes that does not end in a blank.         *)
EXTENDS Reflow

MCCells == {Blank, Cell(" ", "ink"), Cell(" ", "ground"), Cell("a", "plain"), Cell("a", "ground"),
           Cell("W", "ink")}
MCTexts == {t \in BoundedSeq(MCCells, 4) : t = <<>> \/ ~IsBlank(Last(t))}
MCWidths == 1 .. 4
=============================================================================
