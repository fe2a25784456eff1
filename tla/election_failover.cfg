SPECIFICATION FairSpec
CONSTANTS
    Node = {n1, n2, n3}
    Nil = Nil
    MaxInstance = 2
    Timely = TRUE
    MaxDown = 1
    MaxCrashed = 1
INVARIANTS
    TypeOK
    IInv
    TimelyInv
    OneLeaderPerElection
    FollowersAgree
    OneEpochLoop
    OneThreadPerElection
PROPERTIES
    NoStaleResult
    LeaderEmerges
    LeaderReturns
CHECK_DEADLOCK FALSE
