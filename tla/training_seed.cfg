SPECIFICATION Spec
CONSTANTS
    N = 4
    Leftover = {}
    NoNode = NoNode
    NoFile = NoFile
    Leader = {0}
    MaxEpochs = 3
    CheckpointInterval = 2
    Patience = 2
    MaxServersDown = 1
    MaxWorkersDown = 0
    MaxLeadersDown = 0
    MaxLost = 1
INVARIANT CompletedKept
CHECK_DEADLOCK FALSE
