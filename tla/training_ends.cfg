SPECIFICATION FairSpec
CONSTANTS
    N = 4
    Leftover = {0, 3}
    NoNode = NoNode
    NoFile = NoFile
    Leader = {0}
    MaxEpochs = 3
    CheckpointInterval = 2
    Patience = 2
    MaxServersDown = 1
    MaxWorkersDown = 0
    MaxLeadersDown = 1
    MaxLost = 1
INVARIANT UpdatesOrdered
PROPERTY TrainingEnds
CHECK_DEADLOCK FALSE
