SPECIFICATION Spec
CONSTANTS
    Viewers = {v1}
    Macs = {m1}
    None = None
    Areas <- MCMoreAreas
    Settings <- MCSettings
    MaxOpens = 2
    MaxTroubles = 1
    MaxEvents = 2
INVARIANTS
    NewestIsShown
CHECK_DEADLOCK FALSE
