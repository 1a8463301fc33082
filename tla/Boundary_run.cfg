SPECIFICATION Spec
CONSTANTS
    Configs <- MCConfigs
    MaxTitles = 2
    MaxLen = 2
    MaxPanics = 2
INVARIANTS
    TypeOK
    EndIsShown
    OwnedOnce
    StartTold
    PlaceNotStale
PROPERTY TitleSettles
CHECK_DEADLOCK FALSE
