SPECIFICATION FairSpec
CONSTANTS
    From = 3
    To = 9
    NodeLimit = 2
    Refusal = "status"
    MaxRetry = 2
    MaxFaults = 3
\* GetLogs stops once it has returned.
CHECK_DEADLOCK FALSE
INVARIANTS
    TypeOK
    LogsComplete
    SplitSucceeds
PROPERTIES
    GetLogsReturns
