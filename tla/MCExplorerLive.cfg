SPECIFICATION FairSpec
CONSTANTS
    call = call
    broken = broken
    late = late
    inner = inner
    beyond = beyond
    Tx <- MCLiveTx
    BlockOf <- MCLiveBlockOf
    Emits <- MCLiveTx
    Decodes <- MCLiveDecodes
    MaxHead = 2
    MaxRelease = 2
    PartitionEnd = 100
    MaxFaults = 1
    MaxStops = 1
    BackfillFrom = 0
    ChunkSize = 2
    MaxRetry = 2
    BatchLimit = 1
\* Caught up and idle, the explorer only sleeps and polls.
CHECK_DEADLOCK FALSE
PROPERTIES
    CatchesUp
    Recovers
