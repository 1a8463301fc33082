\* A shell that writes without reading: two queries more than the queues hold.
SPECIFICATION EagerSpec
CONSTANTS
    Reader = Reader
    Resizer = Resizer
    UI = UI
    NoThread = NoThread
    MaxWrites = 4
    MaxEvents = 0
    InCap = 1
    OutCap = 1
    Patient = FALSE
PROPERTIES
    ShutDownCompletes
