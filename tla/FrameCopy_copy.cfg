\* Output between the two calls, and the window resized between redraws.
SPECIFICATION CopySpec
CONSTANTS
    Grids <- MCGrids
    MaxNeed = 2
    MaxOutputs = 3
    MaxResizes = 1
INVARIANTS
    CopyTypeOK
    BuffersWhole
    FailureIsRetried
PROPERTIES
    Settles
CHECK_DEADLOCK FALSE
