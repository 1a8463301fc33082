\* A shell that always comes back to its input: two writes, and one of a key, a
\* resize and a redraw of AppKit's own; the window may close at any moment.
SPECIFICATION FairSpec
CONSTANTS
    Reader = Reader
    Resizer = Resizer
    UI = UI
    NoThread = NoThread
    MaxWrites = 2
    MaxEvents = 1
    InCap = 1
    OutCap = 1
    Patient = TRUE
INVARIANTS
    TypeOK
    NoOrphan
    OnlyCleanExitCloses
    OutputFitsEngine
PROPERTIES
    NothingAfterClose
    ShellGoneReported
    ShutDownCompletes
