SPECIFICATION FairSpec
CONSTANTS
    a = a
    b = b
    Machines = {a, b}
    Anyone = Anyone
    Screens <- MCScreens
    FirstScreens <- MCFirstScreens
    FirstPlaces <- MCFirstPlaces
    Drops <- MCDrops
    Windows <- MCWindows
    ExtraSizes <- MCExtraSizes
    Contents = {1, 2}
    Nothing = Nothing
    Clocks = {0, 2}
    MaxEvents = 2
INVARIANTS
    NewestChoiceRules
    CopiesGetRound
    EdgesAreShared
PROPERTIES
    ComesToRest
CHECK_DEADLOCK FALSE
