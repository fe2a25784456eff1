SPECIFICATION Spec
CONSTANTS
    N = 3
    Sizes = {5}
    NoShard = NoShard
    Fragile = {1}
    MaxFaults = 1
    Me = 0
    MaxRounds = 2
    MaxEpochs = 2
    Unit = 60
    NaN = NaN
INVARIANT ConvergedBeforeTraining
CHECK_DEADLOCK FALSE
