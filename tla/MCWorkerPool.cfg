SPECIFICATION FairSpec
CONSTANTS
    w1 = w1
    w2 = w2
    Workers <- MCWorkers
    Wanted <- MCWanted
\* The pool stops once Backfill has its answer.
CHECK_DEADLOCK FALSE
PROPERTIES
    FetchesChunk
    PoolReturns
