SPECIFICATION EnvironmentSpec
CONSTANTS
    Runner = {init, first, second}
    InitRunner = init
    Replica = {replica1}
    MaxStops = 2
INVARIANTS
    EnvironmentTypeOK
    MigratedOnce
    ServesOnlyWhole
    RefusalIsExplained
PROPERTIES
    StartsEnd
CHECK_DEADLOCK FALSE
