SPECIFICATION Spec
CONSTANTS
    call = call
    broken = broken
    late = late
    inner = inner
    beyond = beyond
    Tx <- MCTx
    BlockOf <- MCBlockOf
    Emits <- MCEmits
    Decodes <- MCDecodes
    MaxHead = 3
    MaxRelease = 2
    PartitionEnd = 3
    MaxFaults = 1
    MaxStops = 1
    BackfillFrom = 0
    ChunkSize = 2
    MaxRetry = 2
    BatchLimit = 1
\* Caught up and idle, the explorer only sleeps and polls.
CHECK_DEADLOCK FALSE
INVARIANTS
    TypeOK
    NoGap
    ChunkCovered
    ActionsHaveBlock
    ResolvedIsRecorded
    RetriesBounded
    DuplicatesBounded
    LeaksBounded
PROPERTIES
    FinalStatuses
    CursorMovesForward
    ImplementsIndexLog
