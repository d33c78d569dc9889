SPECIFICATION Spec
CONSTANTS
    first = first
    second = second
    third = third
    Tx <- MCTx
    BlockOf <- MCBlockOf
    Limit = 1
    MaxId = 4
\* The client has its last page and the ids are used up.
CHECK_DEADLOCK FALSE
SYMMETRY MCSymmetry
INVARIANTS
    NoRowTwice
    OldRowsServed
PROPERTIES
    LinksStable
