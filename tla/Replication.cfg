SPECIFICATION ReplicationSpec
CONSTANTS
    Partitions = 1
    Followers = 2
    Item = {x}
    MaxLog = 3
    MinDelay = 0
    MaxDelay = 2
    SlowNode = 2
    SlowFactor = 2
    MaxNow = 7
INVARIANTS
    ReplicationTypeOK
    NoLossNoDuplicate
    PendingIsBlocked
    CarriesLeadersRecord
    BoundedStaleness
PROPERTIES
    Converges
    ImplementsReplicatedLog
CHECK_DEADLOCK FALSE
