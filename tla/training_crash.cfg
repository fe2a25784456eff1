SPECIFICATION Spec
CONSTANTS
    N = 4
    Leftover = {0, 3}
    NoNode = NoNode
    NoFile = NoFile
    Leader = {0}
    MaxEpochs = 4
    CheckpointInterval = 2
    Patience = 2
    MaxServersDown = 3
    MaxWorkersDown = 1
    MaxLeadersDown = 1
    MaxLost = 0
INVARIANTS
    TypeOK
    AloneSafe
    CompletedKept
    CheckpointFresh
    OldNeverTrained
PROPERTY ModelSpec
CHECK_DEADLOCK FALSE
