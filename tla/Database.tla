------------------------------ MODULE Database ------------------------------
(***************************************************************************)
(* The Postgres tables the explorer writes and the statements that write   *)
(* them.  Every operator below is one statement, or one SQL transaction,   *)
(* of package database: it is applied entirely or not at all, which is all *)
(* that Postgres promises and all that the code relies on.                 *)
(*                                                                         *)
(* Several processes and goroutines share these tables and hold no lock    *)
(* across two statements: the advisory locks of InsertTransaction and      *)
(* UpdateEventsForTransaction are transaction-level locks taken in a       *)
(* statement of their own, so they are released before the INSERT runs.    *)
(*                                                                         *)
(* In the rows only what some property tells apart is kept.  A row of      *)
(* actions is [method, events]: whether the columns of the decoded call    *)
(* are set, and how many times the logs of the transaction were appended   *)
(* to its events array.  A row of failed_txs is its retry_count and its    *)
(* status, with status "none" for a transaction that has no row.           *)
(***************************************************************************)
EXTENDS Chain, FiniteSets

CONSTANT
    PartitionEnd  \* actions has partitions for the blocks below this one

ASSUME DatabaseAssumption == PartitionEnd \in Nat

VARIABLES
    blocks,       \* table blocks: the numbers it has a row for
    actions,      \* table actions, by transaction
    failedTxs,    \* table failed_txs, by transaction
    lastIndexed   \* indexing_state.last_indexed, 0 when there is no row

dbVars == <<blocks, actions, failedTxs, lastIndexed>>

Statuses == {"none", "pending", "resolved", "abandoned"}

Action == [method : BOOLEAN, events : Nat]
FailedTx == [retries : Nat, status : Statuses]

NoAction == [method |-> FALSE, events |-> 0]
NoFailure == [retries |-> 0, status |-> "none"]

\* A SELECT finds a row of actions for t.
HasAction(t) == actions[t].method \/ actions[t].events > 0

DatabaseTypeOK ==
    /\ blocks \subseteq Blocks
    /\ actions \in [Tx -> Action]
    /\ failedTxs \in [Tx -> FailedTx]
    /\ lastIndexed \in Blocks

DatabaseInit ==
    /\ blocks = {}
    /\ actions = [t \in Tx |-> NoAction]
    /\ failedTxs = [t \in Tx |-> NoFailure]
    /\ lastIndexed = 0

(***************************************************************************)
(* The tables blocks and indexing_state.                                   *)
(***************************************************************************)
\* INSERT ... ON CONFLICT (num) DO NOTHING.
InsertBlock(b) ==
    /\ blocks' = blocks \cup {b}
    /\ UNCHANGED <<actions, failedTxs, lastIndexed>>

\* The row is overwritten: GREATEST is applied to head_seen only.
SetLastIndexedBlock(n) ==
    /\ lastIndexed' = n
    /\ UNCHANGED <<blocks, actions, failedTxs>>

(***************************************************************************)
(* The table actions.  Rows of a block beyond the last partition cannot be *)
(* inserted: "no partition of relation actions found for row".             *)
(***************************************************************************)
HasPartition(b) == b < PartitionEnd

\* One SQL transaction for the decoded transactions of a block; the upsert
\* sets the columns of the call and leaves the events of the row alone.
InsertTransactionBatch(T) ==
    /\ \A t \in T : HasPartition(BlockOf[t])
    /\ actions' = [t \in Tx |-> IF t \in T
                                THEN [actions[t] EXCEPT !.method = TRUE]
                                ELSE actions[t]]
    /\ UNCHANGED <<blocks, failedTxs, lastIndexed>>

\* The same upsert for a single transaction, used by the retry loop.
InsertTransaction(t) ==
    /\ HasPartition(BlockOf[t])
    /\ actions' = [actions EXCEPT ![t].method = TRUE]
    /\ UNCHANGED <<blocks, failedTxs, lastIndexed>>

\* events = COALESCE(actions.events, '[]') || EXCLUDED.events: the upsert of
\* one transaction of UpdateEventsBatch appends, it does not replace.
AppendEvents(t) ==
    /\ HasPartition(BlockOf[t])
    /\ actions' = [actions EXCEPT ![t].events = @ + 1]
    /\ UNCHANGED <<blocks, failedTxs, lastIndexed>>

(***************************************************************************)
(* The table failed_txs.                                                   *)
(***************************************************************************)
\* Mutant: ON CONFLICT (tx_hash) DO UPDATE SET status = 'pending'.
InsertFailedTxReopens(t) ==
    /\ failedTxs' = [failedTxs EXCEPT ![t] = [@ EXCEPT !.status = "pending"]]
    /\ UNCHANGED <<blocks, actions, lastIndexed>>

\* One row of InsertFailedTxBatch: ON CONFLICT (tx_hash) DO NOTHING.
InsertFailedTx(t) ==
    /\ failedTxs' = [failedTxs EXCEPT ![t] =
                        IF @.status = "none"
                        THEN [retries |-> 0, status |-> "pending"]
                        ELSE @]
    /\ UNCHANGED <<blocks, actions, lastIndexed>>

MarkFailedTxResolved(t) ==
    /\ failedTxs' = [failedTxs EXCEPT ![t].status = "resolved"]
    /\ UNCHANGED <<blocks, actions, lastIndexed>>

MarkFailedTxAbandoned(t) ==
    /\ failedTxs' = [failedTxs EXCEPT ![t].status = "abandoned"]
    /\ UNCHANGED <<blocks, actions, lastIndexed>>

IncrementRetryCount(t) ==
    /\ failedTxs' = [failedTxs EXCEPT ![t].retries = @ + 1]
    /\ UNCHANGED <<blocks, actions, lastIndexed>>

\* Mutant: retry_count <= $1.
RetriableOnceMore(maxRetries) ==
    {t \in Tx : failedTxs[t].status = "pending" /\ failedTxs[t].retries <= maxRetries}

\* The rows ListPendingFailedTxs may return: those still pending with retries
\* left, the oldest blocks first, at most limit of them (ties are broken by
\* the database).
Retriable(maxRetries) ==
    {t \in Tx : failedTxs[t].status = "pending" /\ failedTxs[t].retries < maxRetries}

PendingLists(maxRetries, limit) ==
    LET rows == Retriable(maxRetries)
    IN  {S \in SUBSET rows :
            /\ Cardinality(S) <= limit
            /\ S # rows => Cardinality(S) = limit
            /\ \A t \in S, u \in rows \ S : BlockOf[t] <= BlockOf[u]}
=============================================================================
