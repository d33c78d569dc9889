SPECIFICATION Spec
CONSTANTS
    From = 3
    To = 12
    NodeLimit = 2
    Refusal = "code"
    MaxRetry = 2
    MaxFaults = 0
\* GetLogs stops once it has returned.
CHECK_DEADLOCK FALSE
INVARIANTS
    SplitSucceeds
