SPECIFICATION ServerSpec
CONSTANTS
    Replicas = 1
    MaxRestarts = 1
    MaxStarts = 2
    Client = {alice}
    MaxID = 1
    MaxRequests = 2
INVARIANTS
    ServerTypeOK
    AnswersTellTheTruth
    PoolsOutliveRequests
PROPERTIES
    StopsAfterSignal
CHECK_DEADLOCK FALSE
