SPECIFICATION StatsSpec
CONSTANTS
    Tx = {call, quiet}
    Emits = {call}
    History = 2
    MaxHeight = 3
    ChunkSize = 3
    NodeLimit = 2
    Depth = 2
    MaxReorgs = 1
    MaxLags = 2
    MaxStops = 1
\* With nothing new, the explorer only sleeps and polls.
CHECK_DEADLOCK FALSE
CONSTRAINT HealthBound
INVARIANTS
    SettledIsIndexed
    BlockRowSettled
    NotAskedTooEarly
    RowsBounded
    SurvivesReorgs
    CursorIsBacked
    ActionsCounted
