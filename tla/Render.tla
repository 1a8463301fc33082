------------------------------- MODULE Render -------------------------------
(***************************************************************************)
(* The read path (render.rs): a row of cells as the runs that cross to the *)
(* frontend, and where drawRun: puts their glyphs.  A run is consecutive   *)
(* columns of one style; `text` is its clusters, which the frontend counts *)
(* to find the column of each.                                             *)
(***************************************************************************)
EXTENDS LogicalLine

Run(col, cols, style, text) == [col |-> col, cols |-> cols, style |-> style, text |-> text]

\* Mutant: the two columns of a wide cluster are not told apart.
IsWideBase_Never(cells, col) == FALSE

\* Content of its own, and a spacer behind it.
IsWideBase(cells, col) == cells[col].c # "" /\ col < Len(cells) /\ cells[col + 1].c = ""

\* A cell that draws nothing may join any run that would draw nothing on it,
\* one that draws joins its like.
Joins(run, cell) == IF IsBlank(cell) THEN run.style # "ground" ELSE run.style = cell.s

\* A run of blanks so far takes the style of the first cell that draws, unless
\* that style would show on the blanks.
Adopts(run, all_blank, cell) == ~IsBlank(cell) /\ all_blank /\ cell.s # "ground"

\* The runs of one row, up to its last visible cell; `open` is the run being
\* built, if there is one.
BuildRow(cells) ==
    LET grown(run, cell) == [run EXCEPT !.cols = @ + 1, !.text = IF HoldsText(cell) THEN Append(@, cell.c) ELSE @]
        with(acc, runs, run, cell, fresh) ==
            [runs |-> runs, open |-> <<grown(run, cell)>>,
             all_blank |-> (fresh \/ acc.all_blank) /\ IsBlank(cell)]
        step(acc, col) ==
            LET cell == cells[col]
                some == acc.open # <<>>
            IN  CASE col > 1 /\ IsWideBase(cells, col - 1) -> acc
                  [] (col = 1 \/ ~IsWideBase(cells, col - 1)) /\ IsWideBase(cells, col) ->
                        [runs |-> acc.runs \o acc.open \o <<Run(col, 2, cell.s, <<cell.c>>)>>,
                         open |-> <<>>, all_blank |-> TRUE]
                  [] OTHER ->
                        IF some /\ Joins(acc.open[1], cell)
                        THEN with(acc, acc.runs, acc.open[1], cell, FALSE)
                        ELSE IF some /\ Adopts(acc.open[1], acc.all_blank, cell)
                        THEN with(acc, acc.runs, [acc.open[1] EXCEPT !.style = cell.s], cell, FALSE)
                        ELSE with(acc, acc.runs \o acc.open, Run(col, 0, cell.s, <<>>), cell, TRUE)
        last == SelectLastInSeq(cells, LAMBDA cell : ~IsBlank(cell))
        done == FoldLeftDomain(step, [runs |-> <<>>, open |-> <<>>, all_blank |-> TRUE],
                               SubSeq(cells, 1, last))
    IN  done.runs \o done.open

\* drawRun: the n-th cluster of a run goes to the n-th column from its first.
Glyphs(runs) ==
    UNION { { <<run.col + n - 1, run.text[n], run.style>> : n \in DOMAIN run.text } : run \in ToSet(runs) }

\* The columns drawRect: paints the background of.
Ground(runs) == UNION { run.col .. run.col + run.cols - 1 : run \in {r \in ToSet(runs) : r.style = "ground"} }

-----------------------------------------------------------------------------
\* The glyphs and the background come out in the columns and the style of the
\* cells they stand for (render.rs, "Coalescing rules").
ShownInPlace(cells) ==
    LET runs == BuildRow(cells)
    IN  /\ { g \in Glyphs(runs) : g[2] # " " } =
              { <<c, cells[c].c, cells[c].s>> : c \in {d \in DOMAIN cells : cells[d].c \notin {"", " "}} }
        /\ Ground(runs) = { c \in DOMAIN cells : cells[c].s = "ground" }
=============================================================================
