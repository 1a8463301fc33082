\* Every stream of up to six bytes and every script, cut everywhere.
SPECIFICATION ProgramSpec
CONSTANTS
    Alphabets <- MCAlphabets
    Scripts <- MCScripts
    Presses <- MCPresses
    MaxBytes = 6
    MaxChunk = 6
    Rows = 3
    Cols = 10
    MaxPendingReplyBytes = 16
INVARIANTS
    ChunksDoNotMatter
    HeldBackUnfinished
    SettingsAsAsked
    KeysTold
    AnswersInOrder
CHECK_DEADLOCK FALSE
