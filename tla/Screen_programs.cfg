\* Seven programs that between them send every command, over a small scrollback.
SPECIFICATION OrderedSpec
CONSTANTS
    Programs <- Everything
    MaxLines = 2
    MaxBytes = 6
INVARIANTS
    ScreenTypeOK
    IdsNeverReused
    LinesContinue
    HistoryFound
    AnchorOnGrapheme
PROPERTIES
    PrimaryUntouched
    ResizeKeepsText
    ScrollKeepsText
    HistorySlides
CHECK_DEADLOCK FALSE
