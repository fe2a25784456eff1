SPECIFICATION FairSpec
CONSTANTS
    N = 3
    Sizes = {0, 5}
    NoShard = NoShard
    Fragile = {1}
    MaxFaults = 1
    Me = 0
    MaxRounds = 2
    MaxEpochs = 2
    Unit = 60
    NaN = NaN
INVARIANTS
    TypeOK
    IInv
    FullRound
PROPERTIES
    DescentSpec
    RoundEnds
    GoroutinesEnd
    EvaluationEnds
    StoresStart
CHECK_DEADLOCK FALSE
