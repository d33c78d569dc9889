SPECIFICATION FairSpec
CONSTANTS
    Tx = {call, quiet}
    Emits = {call}
    History = 1
    MaxHeight = 2
    ChunkSize = 3
    NodeLimit = 2
    Depth = 2
    MaxReorgs = 1
    MaxLags = 0
    MaxStops = 0
CHECK_DEADLOCK FALSE
PROPERTY ReorgSafe
