SPECIFICATION LabSpec
CONSTANTS
    MaxWal = 3
    MaxSignals = 2
INVARIANTS
    LabTypeOK
    PauseUndone
    OthersPauseStays
    NoFalseAlarm
    PassMeansRecovered
PROPERTIES
    TestEnds
CHECK_DEADLOCK FALSE
