\* A line split by an insertion.
SPECIFICATION Spec
CONSTANTS
    Programs <- Splits
    MaxLines = 20
    MaxBytes = 100
INVARIANTS
    AnchorOnGrapheme
CHECK_DEADLOCK FALSE
