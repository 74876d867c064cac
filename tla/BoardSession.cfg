SPECIFICATION BoardSpec
CONSTANTS
    Replicas = 2
    MaxRestarts = 1
    Client = {alice}
    MaxID = 2
    MaxRequests = 2
INVARIANTS
    BoardTypeOK
    ReadYourWrites
    AnswersTellTheTruth
    ViewIsOneMoment
PROPERTIES
    RequestsEnd
CHECK_DEADLOCK FALSE
