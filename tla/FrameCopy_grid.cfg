\* The window's grid changed and changed back before a redraw.
SPECIFICATION CopySpec
CONSTANTS
    Grids <- MCGrids
    MaxNeed = 1
    MaxOutputs = 1
    MaxResizes = 3
PROPERTIES
    GridFollowsWindow
CHECK_DEADLOCK FALSE
