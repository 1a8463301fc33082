\* Two threads, four changes, two redraws of AppKit's own, one panic.
SPECIFICATION FairSpec
CONSTANTS
    reader = reader
    resizer = resizer
    Threads <- MCThreads
    UI = UI
    NoThread = NoThread
    MaxChanges = 4
    MaxExposes = 2
    MaxPanics = 1
INVARIANTS
    LockDiscipline
    NoTornFrame
    NoLostChange
    WakeUpOwed
    QueueBounded
PROPERTIES
    PromiseKept
