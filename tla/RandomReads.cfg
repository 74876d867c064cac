SPECIFICATION SimulatorSpec
CONSTANTS
    Partitions = 2
    Followers = 1
    Item <- BoardItem
    MaxLog = 4
    MinDelay = 1
    MaxDelay = 2
    SlowNode = 0
    SlowFactor = 1
    MaxNow = 4
    Session = {alice}
    User = {alice}
    UserOf <- OwnUser
    Router = "Random"
    Partitioner = "ByThread"
    Shard <- FNV32a
    SameThreadReplies = TRUE
    Limit = 2
    MaxIDs = 4
    MaxEvents = 10
INVARIANTS
    ConsistentPrefix
    CheckerIsExact
CHECK_DEADLOCK FALSE
