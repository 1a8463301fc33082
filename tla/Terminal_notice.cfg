\* One write, then the shell ends.
SPECIFICATION FairSpec
CONSTANTS
    Reader = Reader
    Resizer = Resizer
    UI = UI
    NoThread = NoThread
    MaxWrites = 1
    MaxEvents = 0
    InCap = 1
    OutCap = 1
    Patient = TRUE
PROPERTIES
    HangUpNoticed
