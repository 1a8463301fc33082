\* A row opened between a frozen head and its line.
SPECIFICATION Spec
CONSTANTS
    Programs <- Strands
    MaxLines = 20
    MaxBytes = 100
PROPERTIES
    HeadFoldedBackIn
CHECK_DEADLOCK FALSE
