SPECIFICATION Spec
CONSTANTS
    Node = {n1, n2, n3}
    Nil = Nil
    MaxInstance = 2
    Timely = TRUE
    MaxDown = 1
    MaxCrashed = 0
SYMMETRY Symmetry
INVARIANT OnlyLeaderSends
CHECK_DEADLOCK FALSE
