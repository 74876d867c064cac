SPECIFICATION SimulatorSpec
CONSTANTS
    Partitions = 1
    Followers = 1
    Item <- BoardItem
    MaxLog = 3
    MinDelay = 1
    MaxDelay = 2
    SlowNode = 0
    SlowFactor = 1
    MaxNow = 4
    Session = {alice, bob}
    User = {alice, bob}
    UserOf <- OwnUser
    Router = "ReadYourWrites"
    Partitioner = "Single"
    Shard <- FNV32a
    SameThreadReplies = FALSE
    Limit = 2
    MaxIDs = 3
    MaxEvents = 10
INVARIANTS
    MonotonicReads
CHECK_DEADLOCK FALSE
