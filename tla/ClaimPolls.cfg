SPECIFICATION FairSpec
CONSTANTS
    call = call
    broken = broken
    late = late
    inner = inner
    beyond = beyond
    Tx <- MCRetryTx
    BlockOf <- MCRetryBlockOf
    Emits <- MCRetryTx
    Decodes <- MCRetryDecodes
    MaxHead = 1
    MaxRelease = 2
    PartitionEnd = 100
    MaxFaults = 1
    MaxStops = 0
    BackfillFrom = 0
    ChunkSize = 2
    MaxRetry = 2
    BatchLimit = 1
\* Caught up and idle, the explorer only sleeps and polls.
CHECK_DEADLOCK FALSE
PROPERTIES
    KeepsPolling
