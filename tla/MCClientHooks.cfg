CONSTANTS
    Socks = {k1, k2, k3}
    CloseMayBlock = TRUE
SYMMETRY MCSymmetry
SPECIFICATION Spec
CHECK_DEADLOCK FALSE
INVARIANT ResourcesMatchState
