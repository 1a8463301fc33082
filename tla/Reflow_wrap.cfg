\* Lines of up to four graphemes, widths one to four, changed without end.
SPECIFICATION Spec
CONSTANTS
    Texts <- MCTexts
    Widths <- MCWidths
INVARIANTS
    TextKept
    WrapsGreedily
    FrameShowsRows
