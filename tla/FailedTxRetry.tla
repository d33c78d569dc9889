---------------------------- MODULE FailedTxRetry ---------------------------
(***************************************************************************)
(* The goroutine of main.go that retries the undecodable transactions      *)
(* every 30 minutes: RetryFailedTxs over the rows of failed_txs.  It runs  *)
(* beside the indexer on the same tables and uses context.Background(), so *)
(* a shutdown does not cancel its calls.                                   *)
(*                                                                         *)
(* rpc is its program counter, the call it is about to make: "idle" waits  *)
(* for the ticker, "fetch" is GetTransactionByHash for the next record,    *)
(* and "insert", "resolve", "bump" and "abandon" are the statements for    *)
(* the record cur.  Errors of the last three are logged and swallowed.     *)
(***************************************************************************)
EXTENDS Process

CONSTANTS
    MaxRetry,    \* bfCfg.MaxRetry: attempts per failed transaction
    BatchLimit   \* defaultBatchSize: rows per run

ASSUME RetryAssumption == MaxRetry \in Nat \ {0} /\ BatchLimit \in Nat \ {0}

VARIABLES
    rpc,      \* program counter, "off" when the goroutine does not run
    pending,  \* the records of the run's list not taken up yet
    cur       \* the record being retried, as a set of at most one

retryVars == <<rpc, pending, cur>>

RetryTypeOK ==
    /\ rpc \in {"off", "idle", "fetch", "insert", "resolve", "bump", "abandon"}
    /\ pending \in SUBSET Tx
    /\ cur \in SUBSET Tx

RetryInit ==
    /\ rpc = "off"
    /\ pending = {}
    /\ cur = {}

\* The ticker fires and the pending rows are listed.  An empty list, and an
\* error of the query, end the run at once: the goroutine stays idle.
ListPending ==
    /\ rpc = "idle"
    /\ \E S \in PendingLists(MaxRetry, BatchLimit) :
          /\ S # {}
          /\ pending' = S
    /\ rpc' = "fetch"
    /\ UNCHANGED <<dbVars, faults, cur>>

\* The next record, in the order of the list, is fetched and decoded.  A null
\* answer of eth_getTransactionByHash unmarshals into a transaction without
\* input, which does not decode for lack of a selector.
FetchAndDecode(t) ==
    /\ rpc = "fetch"
    /\ t \in pending
    /\ \A u \in pending : BlockOf[t] <= BlockOf[u]
    /\ cur' = {t}
    /\ pending' = pending \ {t}
    /\ \/ /\ NoFault
          /\ rpc' = CASE Decodes[t][release] = "ok"        -> "insert"
                      [] Decodes[t][release] = "malformed" -> "bump"
                      [] Decodes[t][release] = "unknown"   -> "abandon"
       \/ Fault /\ rpc' \in {"bump", "abandon"}
    /\ UNCHANGED dbVars

\* Mutant: the loop over the records never ends.
NextRecordEndless == /\ rpc' = "fetch"
                     /\ cur' = {}
                     /\ UNCHANGED pending

\* The record is done with, whatever became of its last statement.
NextRecord == /\ rpc' = IF pending = {} THEN "idle" ELSE "fetch"
              /\ cur' = {}
              /\ UNCHANGED pending

Continue(label) == rpc' = label /\ UNCHANGED <<pending, cur>>

\* Mutant: no "continue" after a failed InsertTransaction.
InsertRecoveredNoContinue(t) ==
    /\ rpc = "insert"
    /\ t \in cur
    /\ Execute(InsertTransaction(t), Continue("resolve"), Continue("resolve"))

InsertRecovered(t) ==
    /\ rpc = "insert"
    /\ t \in cur
    /\ \/ Execute(InsertTransaction(t), Continue("resolve"), Continue("bump"))
       \/ ~HasPartition(BlockOf[t]) /\ Continue("bump") /\ UNCHANGED <<dbVars, faults>>

Resolve(t) ==
    /\ rpc = "resolve"
    /\ t \in cur
    /\ Execute(MarkFailedTxResolved(t), NextRecord, NextRecord)

Bump(t) ==
    /\ rpc = "bump"
    /\ t \in cur
    /\ Execute(IncrementRetryCount(t), NextRecord, NextRecord)

Abandon(t) ==
    /\ rpc = "abandon"
    /\ t \in cur
    /\ Execute(MarkFailedTxAbandoned(t), NextRecord, NextRecord)

RetryStep ==
    \/ ListPending
    \/ \E t \in Tx : FetchAndDecode(t) \/ InsertRecovered(t) \/ Resolve(t)
                     \/ Bump(t) \/ Abandon(t)
=============================================================================
