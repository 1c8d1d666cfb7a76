SPECIFICATION FairSpec
CONSTANTS
    Viewers = {v1}
    Macs = {m1, m2}
    None = None
    Areas <- MCAreas
    Settings <- MCSettings
    MaxOpens = 2
    MaxTroubles = 1
    MaxEvents = 1
INVARIANTS
    ViewedIsHosted
    HostedIsViewed
    SeenAsTold
PROPERTIES
    ComesToRest
CHECK_DEADLOCK FALSE
