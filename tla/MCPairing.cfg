SPECIFICATION Spec
CONSTANTS
    Machines = {a, b}
    MaxAttempts = 2
    MaxTroubles = 1
INVARIANTS
    PairedByBoth
    BothOrNeither
    AllowedIsPaired
SYMMETRY SymmetryOfMachines
CHECK_DEADLOCK FALSE
