------------------------------ MODULE MCScreen ------------------------------
(* The programs of the Screen runs.                                         *)
EXTENDS Screen

Size(r, c) == [rows |-> r, cols |-> c]

Program(sizes, commands, prints, pens, counts, ids, graphemes) ==
    [sizes |-> sizes, commands |-> commands, prints |-> prints, pens |-> pens,
     counts |-> counts, ids |-> ids, graphemes |-> graphemes]

\* Writes forward: goes back in a row, never up.
Forward ==
    Program({Size(2, 2), Size(1, 3)}, {"Print", "CR", "LF", "CUB", "EL"},
            {"a", "W"}, {"plain"}, {1}, 4, 3)

\* The same while the window is resized: a line is laid out over three rows.
ForwardResized ==
    Program({Size(3, 1), Size(1, 3)}, {"Print", "CR", "LF", "Resize"},
            {"a", "W"}, {"plain"}, {1}, 4, 4)

\* Writes anywhere, in margins too, and covers it with the alternate screen.
Covered ==
    Program({Size(2, 2), Size(1, 3)},
            {"Print", "LF", "CUP", "DECSTBM", "RI", "IL", "Alternate", "Resize"},
            {"a"}, {"plain"}, {1}, 4, 2)

\* Moves and prints anywhere while the window is resized, also to nothing.
Resized ==
    Program({Size(2, 2), Size(1, 3), Size(3, 1), Size(0, 2)},
            {"Print", "LF", "CR", "CUP", "Resize"}, {"a"}, {"plain"}, {1}, 4, 3)

\* Moves whole rows between margins, on the alternate screen as it likes.
MovesRows ==
    Program({Size(3, 1)},
            {"Print", "NEL", "RI", "CUU", "CUD", "DECSTBM", "SU", "SD", "IL", "DL", "Alternate"},
            {"a"}, {"plain"}, {1, 2}, 5, 2)

\* Edits within a row, with a pen, marks and wide glyphs.
EditsCells ==
    Program({Size(1, 1), Size(2, 2)},
            {"Print", "CUF", "CUB", "HT", "ICH", "DCH", "ECH", "ED", "EL", "SGR", "DECAWM"},
            {"a", "W", "+"}, {"ground"}, {1, 2}, 2, 3)

\* Enters the alternate screen, scrolls it, is resized, reset and leaves.
Alternates ==
    Program({Size(2, 2), Size(1, 3)},
            {"Print", "LF", "Alternate", "DECSTBM", "DECSC", "DECRC", "RIS", "Resize"},
            {"a"}, {"plain"}, {1}, 5, 2)

Everything ==
    {Forward, ForwardResized, Covered, Resized, MovesRows, EditsCells, Alternates}

\* Opens a line between the two parts of another, the second with a wide glyph.
Splits ==
    {Program({Size(3, 2)}, {"Print", "CUP", "IL"}, {"a", "W"}, {"plain"}, {1}, 8, 3)}

\* Opens a row above one that goes on with a frozen head, and is resized.
Strands ==
    {Program({Size(2, 1), Size(2, 2)}, {"Print", "CUU", "RI", "Resize"}, {"a"}, {"plain"}, {1}, 8, 4)}
=============================================================================
