SPECIFICATION LoopSpec
CONSTANTS
    Partitions = 1
    Followers = 1
    Item = {x, y}
    MaxLog = 4
INVARIANTS
    FollowerIsPrefix
    DrainedWhenIdle
PROPERTIES
    NothingForgotten
    ImplementsApply
    BatchEnds
