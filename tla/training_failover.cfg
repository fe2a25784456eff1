SPECIFICATION Spec
CONSTANTS
    N = 4
    Leftover = {}
    NoNode = NoNode
    NoFile = NoFile
    Leader = {0, 1}
    MaxEpochs = 3
    CheckpointInterval = 2
    Patience = 2
    MaxServersDown = 0
    MaxWorkersDown = 0
    MaxLeadersDown = 1
    MaxLost = 0
PROPERTY RestartsFromCheckpoint
CHECK_DEADLOCK FALSE
