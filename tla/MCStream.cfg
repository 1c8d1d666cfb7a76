SPECIFICATION FairSpec
CONSTANTS
    Backlog = 1
    Window = 1
    MaxPictures = 2
    MaxConfigs = 1
    MaxErrors = 1
    MaxDrops = 1
INVARIANTS
    NoGaps
PROPERTIES
    StillIsSharp
CHECK_DEADLOCK FALSE
