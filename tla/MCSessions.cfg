SPECIFICATION FairSpec
CONSTANTS
    Dialer = d
    Acceptor = a
    None = none
    Conns = {c1, c2}
    Loops = {l1, l2}
    Screens = {s1, s2}
    MaxPairings = 1
    MaxUpdates = 1
    MaxFailures = 2
INVARIANTS
    OneConnection
    ScreensArrive
    DialerToldRight
PROPERTY
    EventuallyInTouch
CHECK_DEADLOCK FALSE
