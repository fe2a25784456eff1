SPECIFICATION Spec
CONSTANTS
    N = 3
    Seqs = {0}
    Value = {v1, v2}
    Goroutine = {g1, g2}
    Nil = Nil
    MaxCounter = 2
    Lossy = TRUE
    MaxLate = 0
    MaxKilled = 1
    v1 = v1
    v2 = v2
    g1 = g1
    g2 = g2
INVARIANTS
    TypeOK
    Agreement
    BallotsDistinct
    RetryBeatsWinner
PROPERTY ConsensusSpec
SYMMETRY Symmetry
CHECK_DEADLOCK FALSE
