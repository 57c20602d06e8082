SPECIFICATION Spec
CONSTANTS
    w1 = w1
    w2 = w2
    w3 = w3
    n1 = n1
    n2 = n2
    n3 = n3
    None = None
    Writers = {w1, w2, w3}
    Names = {n1, n2, n3}
    Attempts = 2
    MaxCrashes = 2
SYMMETRY Symmetry
INVARIANTS
    RosterIsWhole
    SuccessLasts
    NoLitter
CHECK_DEADLOCK FALSE
