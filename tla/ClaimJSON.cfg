SPECIFICATION Spec
CONSTANTS
    Width = 2
    MaxText = 5
    MaxTxs = 2
    MaxBlock = 5
\* Every input is used once.
CHECK_DEADLOCK FALSE
INVARIANT JSONFixed
