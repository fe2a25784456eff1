SPECIFICATION FairSpec
CONSTANTS
    N = 3
    Seqs = {0, 1}
    Value = {v1}
    Goroutine = {g1, g2}
    Nil = Nil
    MaxCounter = 3
    Lossy = FALSE
    MaxLate = 0
    MaxKilled = 1
    v1 = v1
    g1 = g1
    g2 = g2
INVARIANT IInv
PROPERTY AloneFinishes
CHECK_DEADLOCK FALSE
