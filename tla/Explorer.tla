------------------------------ MODULE Explorer ------------------------------
(***************************************************************************)
(* The data explorer: the indexer and the retry goroutines of one process  *)
(* over the database, the chain they read, and the life of the process     *)
(* (start, SIGTERM, exit, crash, restart by the container runtime).        *)
(***************************************************************************)
EXTENDS Indexer, FailedTxRetry

vars == <<head, dbVars, procVars, idxVars, retryVars>>

TypeOK ==
    /\ head \in Blocks
    /\ DatabaseTypeOK
    /\ ProcessTypeOK
    /\ IndexerTypeOK
    /\ RetryTypeOK

Init ==
    /\ ChainInit
    /\ DatabaseInit
    /\ ProcessInit
    /\ IndexerInit
    /\ RetryInit

(***************************************************************************)
(* The life of the process.                                                *)
(***************************************************************************)
\* Mutant: BACKFILL_FROM takes precedence over the cursor.
StartFromScratch ==
    /\ proc = "down"
    /\ proc' = "running"
    /\ release' \in {r \in Releases : r >= release}
    /\ NoFault
    /\ start' = BackfillFrom
    /\ ipc' = "backfill"
    /\ mode' = "backfill"
    /\ rpc' = "idle"
    /\ UNCHANGED <<head, dbVars, stops, to, batch, partial, leaked, skipped,
                   pending, cur>>

\* main: connect, read the cursor and start the goroutines.  An error of the
\* read is taken like an empty table, and the indexer starts over.  The image
\* may be that of a later release.
Start ==
    /\ proc = "down"
    /\ proc' = "running"
    /\ release' \in {r \in Releases : r >= release}
    /\ \/ /\ NoFault
          /\ start' = IF lastIndexed > 0 THEN lastIndexed + 1 ELSE BackfillFrom
       \/ Fault /\ start' = BackfillFrom
    /\ ipc' = "backfill"
    /\ mode' = "backfill"
    /\ rpc' = "idle"
    /\ UNCHANGED <<head, dbVars, stops, to, batch, partial, leaked, skipped,
                   pending, cur>>

\* All that the process holds in memory is gone.
Dies ==
    /\ proc' = "down"
    /\ Goto("off")
    /\ DropBatch
    /\ mode' = "backfill" /\ start' = 0 /\ to' = 0 /\ leaked' = 0
    /\ rpc' = "off" /\ pending' = {} /\ cur' = {}
    /\ UNCHANGED <<head, dbVars, release, faults, skipped>>

\* The process is killed, or log.Fatalf ends it, between any two calls.
Crash ==
    /\ proc = "running"
    /\ stops < MaxStops
    /\ stops' = stops + 1
    /\ Dies

\* SIGTERM: idxCancel(), then srv.Shutdown.  The cancellation also makes
\* database/sql roll back, and so give back, the leaked SQL transactions.
Shutdown ==
    /\ proc = "running"
    /\ stops < MaxStops
    /\ stops' = stops + 1
    /\ proc' = "stopping"
    /\ leaked' = 0
    /\ UNCHANGED <<head, dbVars, release, faults, ipc, mode, start, to, batch,
                   partial, skipped, retryVars>>

\* main returns without waiting for the goroutines.
Exit ==
    /\ proc = "stopping"
    /\ Dies
    /\ UNCHANGED stops

\* The retry goroutine sees idxCtx.Done(), between two runs.
RetryStops ==
    /\ proc = "stopping"
    /\ rpc = "idle"
    /\ rpc' = "off"
    /\ UNCHANGED <<head, dbVars, procVars, idxVars, pending, cur>>

(***************************************************************************)
(* The specification.                                                      *)
(***************************************************************************)
Indexing == IndexerStep /\ UNCHANGED <<head, proc, release, stops, retryVars>>

Retrying == RetryStep /\ UNCHANGED <<head, proc, release, stops, idxVars>>

ChainGrows == Extend /\ UNCHANGED <<dbVars, procVars, idxVars, retryVars>>

Next ==
    \/ ChainGrows
    \/ Start \/ Crash \/ Shutdown \/ Exit \/ RetryStops
    \/ Indexing
    \/ Retrying

Spec == Init /\ [][Next]_vars

\* The Go scheduler runs both goroutines and main, the ticker keeps firing,
\* and the container is restarted whenever it is down (docker-compose.yml:
\* restart: unless-stopped).  The chain owes no further block.
Fairness ==
    /\ WF_vars(Indexing)
    /\ WF_vars(Retrying)
    /\ WF_vars(Start)
    /\ WF_vars(Exit)

FairSpec == Spec /\ Fairness

(***************************************************************************)
(* Safety.                                                                 *)
(***************************************************************************)
\* The call of t left a trace under the release that indexed its block: a
\* decoded call has its columns, an undecodable one has a row of failed_txs.
CallAccounted(t) ==
    \E r \in 1..release :
        \/ Decodes[t][r] = "ok" /\ actions[t].method
        \/ Decodes[t][r] = "malformed" /\ failedTxs[t].status # "none"
        \/ Decodes[t][r] = "unknown"

\* Everything a block with logs owes the database is there, except events
\* skipped with a message in the log.
Indexed(b) ==
    HasLogs(b) =>
        /\ b \in blocks
        /\ \A t \in TxsIn({b}) :
              /\ CallAccounted(t)
              /\ t \in Emits => actions[t].events > 0 \/ t \in skipped

\* The cursor never passes a block that was not indexed: whatever fails,
\* crashes or is cancelled between the statements of DBHandler and whatever
\* part of the blocks its workers fetched, a restart at the cursor
\* (main.go:59-61) leaves no hole behind it.
NoGap == \A b \in Blocks : BackfillFrom <= b /\ b <= lastIndexed => Indexed(b)

\* Every action has its block: the API's LEFT JOIN of actions and blocks
\* (actions.go:137-138) never invents a block time with COALESCE(..., now()),
\* although the two rows are written by different statements, and the row of
\* a recovered call by another goroutine, possibly of another process.
ActionsHaveBlock == \A t \in Tx : HasAction(t) => BlockOf[t] \in blocks

\* A resolved failure has its decoded call in actions (failed_txs.go:83-84).
ResolvedIsRecorded ==
    \A t \in Tx : failedTxs[t].status = "resolved" => actions[t].method

\* No transaction is retried more often than configured, crashes and lost
\* answers included (failed_txs.go:50-51).
RetriesBounded == \A t \in Tx : failedTxs[t].retries <= MaxRetry

\* The connections the missing rollback leaks are at most two per process
\* life, because the second error ends the indexer: the pool of 25 that the
\* API shares is never exhausted by them.
LeaksBounded == leaked <= 2

\* Each stop and each failed call makes at most one more copy of the events
\* of a transaction; without any, events are stored at most once.
DuplicatesBounded == \A t \in Tx : actions[t].events <= 1 + stops + faults

(***************************************************************************)
(* Action properties.                                                      *)
(***************************************************************************)
\* "resolved" and "abandoned" are final (schema.sql:84): neither the indexer
\* that meets the transaction again after a restart nor a later retry run
\* reopens them.
FinalStatuses ==
    [][\A t \in Tx : failedTxs[t].status \in {"resolved", "abandoned"}
                        => failedTxs'[t].status = failedTxs[t].status]_vars

\* As long as no call failed the cursor only moves forward, over crashes,
\* shutdowns and the handover from backfill to live indexing.
CursorMovesForward == [][faults = 0 => lastIndexed' >= lastIndexed]_vars

(***************************************************************************)
(* What the explorer implements.  The height it read before a chunk is in  *)
(* to, the height now is head; what the chunk still owes is in batch, and  *)
(* none of it is seen by a reader of the log.                              *)
(***************************************************************************)
IL == INSTANCE IndexLog WITH
          From      <- BackfillFrom,
          Wanted    <- {b \in Blocks : HasLogs(b)},
          indexed   <- {b \in Blocks : HasLogs(b) /\ Indexed(b)},
          cursor    <- lastIndexed,
          disturbed <- faults > 0

\* The tables, read by anyone at any time, are an IndexLog.  A block that was
\* complete stays complete through everything the two goroutines of any number
\* of lives write to the same rows (db_handler.go:15-80, failed_backfill.go).
\* The cursor passes only complete blocks, and never the height the node had
\* announced (backfill.go:46, 240): a range taken beyond it would be answered
\* without any log and be passed for good, as nothing goes back to it.
ImplementsIndexLog == IL!Spec

(***************************************************************************)
(* Liveness, under FairSpec.                                               *)
(***************************************************************************)
\* Every block on the chain is eventually passed by the cursor, over crashes,
\* shutdowns and both phases, unless some call fails.
CatchesUp == \A b \in Blocks : head >= b ~> lastIndexed >= b \/ faults > 0

\* Once calls no longer fail, a pending transaction with attempts left that
\* the last release decodes is eventually resolved, unless the attempt under
\* way has already decided otherwise.
Recovers ==
    \A t \in Tx :
        (/\ failedTxs[t].status = "pending" /\ failedTxs[t].retries < MaxRetry
         /\ Decodes[t][MaxRelease] = "ok" /\ release = MaxRelease
         /\ faults = MaxFaults /\ t \notin cur)
            ~> failedTxs[t].status = "resolved"
=============================================================================
