SPECIFICATION SimulatorSpec
CONSTANTS
    Partitions = 2
    Followers = 1
    Item <- BoardItem
    MaxLog = 3
    MinDelay = 1
    MaxDelay = 2
    SlowNode = 0
    SlowFactor = 1
    MaxNow = 4
    Session = {alice, bob}
    User = {alice, bob}
    UserOf <- OwnUser
    Router = "Leader"
    Partitioner = "ByPost"
    Shard <- FNV32a
    SameThreadReplies = FALSE
    Limit = 2
    MaxIDs = 3
    MaxEvents = 8
INVARIANTS
    RepliesFollowParents
CHECK_DEADLOCK FALSE
