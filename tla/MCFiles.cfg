SPECIFICATION Spec
CONSTANTS
    Batches = {"b1", "b2"}
    Manifests <- Selections
    Parts <- PartsOf
    Clean <- CleanComponent
    Refused = {"..."}
    MaxHistory = 2
    MaxBreaks = 1
    MaxFaults = 1
INVARIANTS
    SentIsSaved
    ReportedIsWhole
    CancelSticks
CHECK_DEADLOCK FALSE
