SPECIFICATION Spec
CONSTANTS
    Dialer = d
    Acceptor = a
    None = none
    Conns = {c1, c2}
    Loops = {l1, l2}
    Screens = {s1}
    MaxPairings = 1
    MaxUpdates = 0
    MaxFailures = 1
INVARIANT
    ForgottenIsDropped
CHECK_DEADLOCK FALSE
