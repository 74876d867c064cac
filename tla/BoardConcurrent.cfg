SPECIFICATION BoardSpec
CONSTANTS
    Replicas = 1
    MaxRestarts = 0
    Client = {alice, bob}
    MaxID = 1
    MaxRequests = 3
SYMMETRY ClientSymmetry
INVARIANTS
    PositionCoversWrites
    ReadYourWrites
CHECK_DEADLOCK FALSE
