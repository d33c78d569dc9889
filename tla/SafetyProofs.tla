---------------------------- MODULE SafetyProofs ----------------------------
(***************************************************************************)
(* The remaining safety properties of the explorer.  The retry loop beside *)
(* the indexer: no transaction is retried more often than configured, what *)
(* is resolved is in actions, and what is resolved or abandoned stays so.  *)
(* All three rest on RInv: only the record in hand is written, it was      *)
(* pending when it was listed, and since then nobody has touched its row.  *)
(* The indexer: blocks come before everything else, connections leak twice *)
(* at most, the cursor moves forward unless a call fails, and events are   *)
(* copied once more for each stop and each failed call.                    *)
(***************************************************************************)
EXTENDS ExplorerProofs

(***************************************************************************)
(* What a step writes, whatever becomes of its call.                       *)
(***************************************************************************)
IndexerWrites ==
    \/ \E b \in Blocks : InsertBlock(b) /\ b \in batch.blocks
    \/ \E T \in SUBSET batch.txs : InsertTransactionBatch(T) /\ batch.blocks = {}
    \/ \E t \in batch.failed : InsertFailedTx(t) /\ batch.blocks = {}
    \/ \E t \in batch.events : AppendEvents(t) /\ InStage4
    \/ SetLastIndexedBlock(ChunkEnd)

LEMMA IndexerStatement ==
    ASSUME IndexerStep
    PROVE  Quiet \/ (IndexerWrites /\ Running /\ ipc = "handle")
<1>1. CASE BackfillBegin \/ ChunkLoop \/ FetchChunk \/ Handover \/ FetchAddresses \/ Poll
  BY <1>1 DEF BackfillBegin, ChunkLoop, FetchChunk, Handover, FetchAddresses, Poll, Quiet
<1>2. ASSUME NEW b \in Blocks, HandleBlock(b)
      PROVE  Quiet \/ (IndexerWrites /\ Running /\ ipc = "handle")
  BY <1>2 DEF HandleBlock, ExecuteCtx, Execute, Quiet, IndexerWrites, Running
<1>3. ASSUME NEW b \in Blocks, HandleTransactions(b)
      PROVE  Quiet \/ (IndexerWrites /\ Running /\ ipc = "handle")
  <2> DEFINE T == batch.txs \cap TxsIn({b})
  <2>1. Quiet \/ (/\ InsertTransactionBatch(T) /\ batch.blocks = {}
                  /\ Running /\ ipc = "handle")
    BY <1>3 DEF HandleTransactions, ExecuteCtx, Execute, Quiet, Running
  <2> QED
    BY <2>1 DEF IndexerWrites
<1>4. ASSUME NEW t \in Tx, HandleFailed(t)
      PROVE  Quiet \/ (IndexerWrites /\ Running /\ ipc = "handle")
  BY <1>4 DEF HandleFailed, ExecuteCtx, Execute, Quiet, IndexerWrites, Running
<1>5. ASSUME NEW t \in Tx, HandleEvents(t)
      PROVE  Quiet \/ (IndexerWrites /\ Running /\ ipc = "handle")
  BY <1>5 DEF HandleEvents, ExecuteCtx, Execute, Quiet, IndexerWrites, Running, InStage4
<1>6. CASE AdvanceCursor
  BY <1>6 DEF AdvanceCursor, ExecuteCtx, Execute, Quiet, IndexerWrites, Running, InStage4
<1>7. ASSUME NEW t \in Tx, SkipEvents(t) PROVE Quiet
  BY <1>7 DEF SkipEvents, Quiet
<1> QED
  BY <1>1, <1>2, <1>3, <1>4, <1>5, <1>6, <1>7 DEF IndexerStep

\* No step of the indexer is taken while the process is down.
LEMMA IndexerOn == IndexerStep => ipc # "off"
BY DEF IndexerStep, BackfillBegin, ChunkLoop, FetchChunk, HandleBlock, HandleTransactions,
       HandleFailed, HandleEvents, SkipEvents, InStage4, AdvanceCursor, Handover,
       FetchAddresses, Poll

\* The indexer adds rows to failed_txs, and changes none.
FailuresKept ==
    \A t \in Tx : \/ failedTxs'[t] = failedTxs[t]
                  \/ /\ failedTxs[t].status = "none"
                     /\ failedTxs'[t] = [retries |-> 0, status |-> "pending"]

LEMMA IndexerKeepsFailures ==
    ASSUME TypeOK, Indexing
    PROVE  FailuresKept
<1>1. failedTxs \in [Tx -> FailedTx] /\ batch \in Batch
  BY DEF TypeOK, DatabaseTypeOK, IndexerTypeOK
<1>2. Quiet \/ IndexerWrites
  BY IndexerStatement DEF Indexing
<1>3. CASE failedTxs' = failedTxs
  BY <1>3 DEF FailuresKept
<1>4. ASSUME NEW t \in batch.failed, InsertFailedTx(t) PROVE FailuresKept
  BY <1>1, <1>4 DEF InsertFailedTx, FailuresKept, Batch
<1> QED
  BY <1>2, <1>3, <1>4
  DEF Quiet, dbVars, IndexerWrites, InsertBlock, InsertTransactionBatch, AppendEvents,
      SetLastIndexedBlock

\* A step of the retry goroutine writes the record in hand, if any.
LEMMA RetryStatement ==
    ASSUME RetryStep
    PROVE  \/ Quiet
           \/ \E t \in cur :
                 \/ rpc = "insert" /\ InsertTransaction(t)
                 \/ rpc = "resolve" /\ MarkFailedTxResolved(t)
                 \/ rpc = "bump" /\ IncrementRetryCount(t)
                 \/ rpc = "abandon" /\ MarkFailedTxAbandoned(t)
BY DEF RetryStep, ListPending, FetchAndDecode, InsertRecovered, Resolve, Bump, Abandon,
       Execute, Quiet

(***************************************************************************)
(* RInv, by kind of step.                                                  *)
(***************************************************************************)
\* The tables only grow and the rows of failed_txs that exist stay as they are.
LEMMA RetryAtRest ==
    ASSUME TypeOK, RInv, Grows, FailuresKept, UNCHANGED <<pending, cur>>,
           rpc' = rpc \/ (rpc = "idle" /\ rpc' = "off"), DownIsOff'
    PROVE  RInv'
<1>0. failedTxs \in [Tx -> FailedTx] /\ pending \subseteq Tx /\ cur \subseteq Tx
  BY DEF TypeOK, DatabaseTypeOK, RetryTypeOK
<1>1. OneInHand'
  BY DEF RInv, OneInHand
<1>2. ListedArePending'
  BY <1>0 DEF RInv, ListedArePending, FailuresKept
<1>3. ResolvingIsRecorded'
  BY <1>0 DEF RInv, ResolvingIsRecorded, Grows
<1>4. RetriesBounded'
  BY <1>0, RetryAssumption DEF RInv, RetriesBounded, FailuresKept
<1>5. ResolvedIsRecorded'
  BY <1>0 DEF RInv, ResolvedIsRecorded, FailuresKept, Grows
<1> QED
  BY <1>1, <1>2, <1>3, <1>4, <1>5 DEF RInv

LEMMA QuietKeeps == TypeOK /\ Quiet => Grows /\ FailuresKept
BY DEF Quiet, dbVars, Grows, FailuresKept

LEMMA IndexingKeepsRInv == TypeOK /\ RInv /\ Indexing => RInv'
<1> SUFFICES ASSUME TypeOK, RInv, Indexing PROVE RInv'
  OBVIOUS
<1>1. Grows /\ FailuresKept
  BY IndexerType, IndexerKeepsFailures
<1>2. DownIsOff'
  BY IndexerOn DEF RInv, DownIsOff, Indexing, retryVars
<1> QED
  BY <1>1, <1>2, RetryAtRest DEF Indexing, retryVars

LEMMA LifecycleKeepsRInv == TypeOK /\ RInv /\ Lifecycle => RInv'
<1> SUFFICES ASSUME TypeOK, RInv, Lifecycle PROVE RInv'
  OBVIOUS
<1>0. Grows /\ FailuresKept /\ failedTxs' = failedTxs /\ actions' = actions
  BY LifecycleType, QuietKeeps DEF Quiet, dbVars
<1>k. RetriesBounded' /\ ResolvedIsRecorded'
  BY <1>0 DEF RInv, RetriesBounded, ResolvedIsRecorded
<1>1. CASE Start
  <2>1. cur = {} /\ pending = pending'
    BY <1>1 DEF RInv, OneInHand, DownIsOff, Start
  <2>2. DownIsOff' /\ OneInHand' /\ ResolvingIsRecorded'
    BY <1>1, <2>1 DEF Start, DownIsOff, OneInHand, ResolvingIsRecorded
  <2>3. ListedArePending'
    BY <1>0, <1>1 DEF Start, RInv, ListedArePending
  <2> QED
    BY <1>k, <2>2, <2>3 DEF RInv
<1>2. CASE Crash \/ Exit
  <2>1. DownIsOff' /\ OneInHand' /\ ResolvingIsRecorded' /\ ListedArePending'
    BY <1>2
    DEF Crash, Exit, Dies, Goto, DownIsOff, OneInHand, ResolvingIsRecorded, ListedArePending
  <2> QED
    BY <1>k, <2>1 DEF RInv
<1>3. CASE Shutdown \/ RetryStops \/ ChainGrows
  <2>1. DownIsOff'
    BY <1>3
    DEF RInv, DownIsOff, Shutdown, RetryStops, ChainGrows, procVars, idxVars, retryVars
  <2> QED
    BY <1>0, <1>3, <2>1, RetryAtRest DEF Shutdown, RetryStops, ChainGrows, retryVars
<1> QED
  BY <1>1, <1>2, <1>3 DEF Lifecycle

\* The record in hand is done with: nothing of it is left to be kept.
LEMMA RecordDone ==
    ASSUME TypeOK, RInv, Grows, NextRecord, DownIsOff', NEW t \in cur,
           \A u \in Tx \ {t} : failedTxs'[u] = failedTxs[u],
           failedTxs'[t].retries <= MaxRetry,
           failedTxs'[t].status = "resolved" => actions'[t].method
    PROVE  RInv'
<1>0. cur \subseteq Tx /\ pending \subseteq Tx /\ cur' = {} /\ pending' = pending
  BY DEF TypeOK, RetryTypeOK, NextRecord
<1>1. OneInHand' /\ ResolvingIsRecorded'
  BY <1>0 DEF OneInHand, ResolvingIsRecorded
<1>2. ListedArePending'
  BY <1>0 DEF RInv, ListedArePending, OneInHand
<1>3. RetriesBounded'
  BY <1>0 DEF RInv, RetriesBounded
<1>4. ResolvedIsRecorded'
  BY <1>0 DEF RInv, ResolvedIsRecorded, Grows
<1> QED
  BY <1>1, <1>2, <1>3, <1>4 DEF RInv

LEMMA RetryingKeepsRInv == TypeOK /\ RInv /\ Retrying => RInv'
<1> SUFFICES ASSUME TypeOK, RInv, Retrying PROVE RInv'
  OBVIOUS
<1>0. /\ failedTxs \in [Tx -> FailedTx] /\ actions \in [Tx -> Action]
      /\ cur \subseteq Tx /\ pending \subseteq Tx
      /\ MaxRetry \in Nat /\ Grows
  BY RetryType, RetryAssumption DEF TypeOK, DatabaseTypeOK, RetryTypeOK
<1>1. DownIsOff'
  BY DEF RInv, DownIsOff, Retrying, RetryStep, ListPending, FetchAndDecode,
         InsertRecovered, Resolve, Bump, Abandon, idxVars
<1>2. CASE ListPending
  <2>1. PICK S \in SUBSET Retriable(MaxRetry) : pending' = S
    BY <1>2 DEF ListPending, PendingLists
  <2>2. /\ failedTxs' = failedTxs /\ actions' = actions
        /\ cur = {} /\ cur' = {} /\ rpc' = "fetch"
    BY <1>2 DEF ListPending, dbVars, RInv, OneInHand
  <2>3. OneInHand' /\ ResolvingIsRecorded'
    BY <2>2 DEF OneInHand, ResolvingIsRecorded
  <2>4. ListedArePending'
    BY <2>1, <2>2 DEF ListedArePending, Retriable
  <2> QED
    BY <1>1, <2>2, <2>3, <2>4 DEF RInv, RetriesBounded, ResolvedIsRecorded
<1>3. ASSUME NEW t \in Tx, FetchAndDecode(t) PROVE RInv'
  <2>1. /\ failedTxs' = failedTxs /\ actions' = actions
        /\ t \in pending /\ cur' = {t} /\ pending' = pending \ {t}
    BY <1>3 DEF FetchAndDecode, dbVars
  <2>2. rpc' \in {"insert", "bump", "abandon"}
    <3>1. Decodes[t][release] \in Outcomes
      BY ChainAssumption DEF TypeOK, ProcessTypeOK
    <3> QED
      BY <1>3, <3>1 DEF FetchAndDecode, Outcomes
  <2>3. OneInHand' /\ ResolvingIsRecorded'
    BY <2>1, <2>2 DEF OneInHand, ResolvingIsRecorded
  <2>4. ListedArePending'
    BY <2>1 DEF RInv, ListedArePending
  <2> QED
    BY <1>1, <2>1, <2>3, <2>4 DEF RInv, RetriesBounded, ResolvedIsRecorded
<1>4. ASSUME NEW t \in Tx, InsertRecovered(t) PROVE RInv'
  <2>1. /\ rpc' = "resolve" => actions'[t].method
        /\ rpc' \in {"resolve", "bump"}
        /\ cur' = cur /\ pending' = pending /\ failedTxs' = failedTxs
    BY <1>0, <1>4 DEF InsertRecovered, Execute, Continue, InsertTransaction, Action, dbVars
  <2>2. OneInHand'
    BY <1>4, <2>1 DEF RInv, OneInHand, InsertRecovered
  <2>3. ListedArePending'
    BY <2>1 DEF RInv, ListedArePending
  <2>4. ResolvingIsRecorded'
    BY <1>4, <2>1 DEF RInv, OneInHand, InsertRecovered, ResolvingIsRecorded
  <2>5. RetriesBounded' /\ ResolvedIsRecorded'
    BY <1>0, <2>1 DEF RInv, RetriesBounded, ResolvedIsRecorded, Grows
  <2> QED
    BY <1>1, <2>2, <2>3, <2>4, <2>5 DEF RInv
<1>5. ASSUME NEW t \in Tx, Resolve(t) PROVE RInv'
  <2>1. t \in cur /\ NextRecord /\ actions[t].method
    BY <1>5 DEF Resolve, Execute, RInv, ResolvingIsRecorded
  <2>2. MarkFailedTxResolved(t) \/ Quiet
    BY <1>5 DEF Resolve, Execute, Quiet
  <2>3. /\ \A u \in Tx \ {t} : failedTxs'[u] = failedTxs[u]
        /\ failedTxs'[t].retries = failedTxs[t].retries
    BY <1>0, <2>2 DEF MarkFailedTxResolved, Quiet, dbVars, FailedTx
  <2> QED
    BY <1>0, <1>1, <2>1, <2>3, RecordDone DEF RInv, RetriesBounded, Grows
<1>6. ASSUME NEW t \in Tx, Bump(t) PROVE RInv'
  <2>1. t \in cur /\ NextRecord
    BY <1>6 DEF Bump, Execute
  <2>2. IncrementRetryCount(t) \/ Quiet
    BY <1>6 DEF Bump, Execute, Quiet
  <2>3. failedTxs[t].retries < MaxRetry /\ failedTxs[t].status = "pending"
    BY <2>1 DEF RInv, ListedArePending
  <2>4. /\ \A u \in Tx \ {t} : failedTxs'[u] = failedTxs[u]
        /\ \/ failedTxs'[t].retries = failedTxs[t].retries
           \/ failedTxs'[t].retries = failedTxs[t].retries + 1
        /\ failedTxs'[t].status = "pending"
    BY <1>0, <2>2, <2>3 DEF IncrementRetryCount, Quiet, dbVars, FailedTx
  <2>5. failedTxs[t].retries \in Nat
    BY <1>0 DEF FailedTx
  <2>6. failedTxs'[t].retries <= MaxRetry
    BY <1>0, <2>3, <2>4, <2>5
  <2> QED
    BY <1>0, <1>1, <2>1, <2>4, <2>6, RecordDone
<1>7. ASSUME NEW t \in Tx, Abandon(t) PROVE RInv'
  <2>1. t \in cur /\ NextRecord
    BY <1>7 DEF Abandon, Execute
  <2>2. MarkFailedTxAbandoned(t) \/ Quiet
    BY <1>7 DEF Abandon, Execute, Quiet
  <2>3. failedTxs[t].status = "pending"
    BY <2>1 DEF RInv, ListedArePending
  <2>4. /\ \A u \in Tx \ {t} : failedTxs'[u] = failedTxs[u]
        /\ failedTxs'[t].retries = failedTxs[t].retries
        /\ failedTxs'[t].status # "resolved"
    BY <1>0, <2>2, <2>3 DEF MarkFailedTxAbandoned, Quiet, dbVars, FailedTx
  <2> QED
    BY <1>0, <1>1, <2>1, <2>4, RecordDone DEF RInv, RetriesBounded
<1> QED
  BY <1>2, <1>3, <1>4, <1>5, <1>6, <1>7 DEF Retrying, RetryStep

LEMMA InitRInv == Init => RInv
BY RetryAssumption
DEF Init, DatabaseInit, RetryInit, ProcessInit, IndexerInit, NoFailure, RInv, DownIsOff,
    OneInHand, ListedArePending, ResolvingIsRecorded, RetriesBounded, ResolvedIsRecorded

LEMMA NextRInv == TypeOK /\ RInv /\ [Next]_vars => RInv'
<1> SUFFICES ASSUME TypeOK, RInv, UNCHANGED vars PROVE RInv'
  BY IndexingKeepsRInv, RetryingKeepsRInv, LifecycleKeepsRInv DEF Next, Lifecycle
<1> QED
  BY DEF vars, dbVars, procVars, idxVars, retryVars, RInv, DownIsOff, OneInHand,
         ListedArePending, ResolvingIsRecorded, RetriesBounded, ResolvedIsRecorded

(***************************************************************************)
(* The theorems.                                                           *)
(***************************************************************************)
\* What the retry goroutine has in hand or on its list is still pending, with
\* attempts left, although the list was read before (failed_backfill.go:28).
THEOREM RetryInductive == Spec => []RInv
<1> QED
  BY InitRInv, NextRInv, TypeCorrect, PTL DEF Spec

\* No transaction is retried more often than configured (failed_txs.go:50-51),
\* whatever calls fail and wherever the process is stopped.
THEOREM RetriesBoundedHolds == Spec => []RetriesBounded
<1>1. RInv => RetriesBounded
  BY DEF RInv
<1> QED
  BY <1>1, RetryInductive, PTL

\* A resolved failure has its decoded call in actions (failed_backfill.go:87-99).
THEOREM ResolvedIsRecordedHolds == Spec => []ResolvedIsRecorded
<1>1. RInv => ResolvedIsRecorded
  BY DEF RInv
<1> QED
  BY <1>1, RetryInductive, PTL

\* What is resolved or abandoned stays so (schema.sql:84): the indexer that
\* meets the transaction again adds nothing (ON CONFLICT DO NOTHING), and the
\* retry goroutine only writes rows that are pending.
THEOREM FinalStatusesHolds == Spec => FinalStatuses
<1> DEFINE Final == \A t \in Tx : failedTxs[t].status \in {"resolved", "abandoned"}
                                     => failedTxs'[t].status = failedTxs[t].status
<1>1. ASSUME TypeOK, RInv, [Next]_vars PROVE [Final]_vars
  <2>0. failedTxs \in [Tx -> FailedTx] /\ cur \subseteq Tx
    BY <1>1 DEF TypeOK, DatabaseTypeOK, RetryTypeOK
  <2>1. CASE Indexing
    BY <1>1, <2>1, IndexerKeepsFailures DEF FailuresKept
  <2>2. CASE Lifecycle
    BY <1>1, <2>2, LifecycleType DEF Quiet, dbVars
  <2>3. CASE Retrying
    <3>1. \A t \in cur : failedTxs[t].status = "pending"
      BY <1>1 DEF RInv, ListedArePending
    <3>2. \/ failedTxs' = failedTxs
          \/ \E t \in cur : \/ MarkFailedTxResolved(t)
                            \/ IncrementRetryCount(t)
                            \/ MarkFailedTxAbandoned(t)
      BY <2>3, RetryStatement DEF Retrying, Quiet, dbVars, InsertTransaction
    <3>3. ASSUME NEW t \in cur,
                 \/ MarkFailedTxResolved(t)
                 \/ IncrementRetryCount(t)
                 \/ MarkFailedTxAbandoned(t)
          PROVE  \A u \in Tx \ {t} : failedTxs'[u] = failedTxs[u]
      BY <2>0, <3>3 DEF MarkFailedTxResolved, IncrementRetryCount, MarkFailedTxAbandoned
    <3> QED
      BY <3>1, <3>2, <3>3
  <2> QED
    BY <1>1, <2>1, <2>2, <2>3 DEF Next, Lifecycle
<1> QED
  BY <1>1, TypeCorrect, RetryInductive, PTL DEF Spec, FinalStatuses


(***************************************************************************)
(* What a step makes of batch.                                             *)
(***************************************************************************)
\* Stages take away what they have done with.
HandledStep ==
    \E field \in {"blocks", "txs", "failed", "events"}, S \in SUBSET (Blocks \cup Tx) :
        /\ Handled(field, S)
        /\ field = "blocks" => \E b \in Blocks : S = {b} /\ InsertBlock(b)

LEMMA BatchStep ==
    ASSUME IndexerStep, ipc' = "handle"
    PROVE  FetchChunk \/ (ipc = "handle" /\ HandledStep)
<1>1. CASE BackfillBegin \/ ChunkLoop \/ Handover \/ FetchAddresses \/ Poll \/ AdvanceCursor
  BY <1>1 DEF BackfillBegin, ChunkLoop, Handover, FetchAddresses, Poll, AdvanceCursor,
              ExecuteCtx, Execute, BackfillFails, BackfillCancelled, Goto, AfterError
<1>2. ASSUME NEW b \in Blocks, HandleBlock(b) PROVE ipc = "handle" /\ HandledStep
  BY <1>2 DEF HandleBlock, ExecuteCtx, Execute, BackfillFails, BackfillCancelled, Goto,
              AfterError, HandledStep
<1>3. ASSUME NEW b \in Blocks, HandleTransactions(b) PROVE ipc = "handle" /\ HandledStep
  <2> DEFINE T == batch.txs \cap TxsIn({b})
  <2>1. ipc = "handle" /\ Handled("txs", T)
    BY <1>3 DEF HandleTransactions, ExecuteCtx, Execute, BackfillFails, BackfillCancelled,
                Goto, AfterError
  <2>2. T \in SUBSET (Blocks \cup Tx)
    BY DEF TxsIn
  <2> QED
    BY <2>1, <2>2 DEF HandledStep
<1>4. ASSUME NEW t \in Tx, HandleFailed(t) PROVE ipc = "handle" /\ HandledStep
  BY <1>4 DEF HandleFailed, ExecuteCtx, Execute, BackfillFails, BackfillCancelled, Goto,
              AfterError, HandledStep
<1>5. ASSUME NEW t \in Tx, HandleEvents(t) PROVE ipc = "handle" /\ HandledStep
  BY <1>5 DEF HandleEvents, ExecuteCtx, Execute, BackfillFails, BackfillCancelled, Goto,
              AfterError, HandledStep, InStage4
<1>6. ASSUME NEW t \in Tx, SkipEvents(t) PROVE ipc = "handle" /\ HandledStep
  BY <1>6 DEF SkipEvents, HandledStep, InStage4
<1> QED
  BY <1>1, <1>2, <1>3, <1>4, <1>5, <1>6 DEF IndexerStep

\* What a stage leaves of batch.
LEMMA HandledShrinks ==
    ASSUME TypeOK, HandledStep
    PROVE  /\ batch'.txs \subseteq batch.txs /\ batch'.failed \subseteq batch.failed
           /\ batch'.events \subseteq batch.events /\ batch'.blocks \subseteq batch.blocks
           /\ batch.blocks \ batch'.blocks \subseteq blocks'
           /\ UNCHANGED <<ipc, mode, start, to, partial>>
<1>0. batch \in Batch
  BY DEF TypeOK, IndexerTypeOK
<1>1. PICK field \in {"blocks", "txs", "failed", "events"}, S \in SUBSET (Blocks \cup Tx) :
          /\ Handled(field, S)
          /\ field = "blocks" => \E b \in Blocks : S = {b} /\ InsertBlock(b)
  BY DEF HandledStep
<1>2. batch' = [batch EXCEPT ![field] = @ \ S] /\ UNCHANGED <<ipc, mode, start, to, partial>>
  BY <1>1 DEF Handled
<1>3. field = "blocks" => S \subseteq blocks'
  BY <1>1 DEF InsertBlock
<1> QED
  BY <1>0, <1>2, <1>3 DEF Batch

(***************************************************************************)
(* Blocks before everything else.                                          *)
(***************************************************************************)
LEMMA BatchKeepsBlocks ==
    ASSUME IInv, BInv, Indexing
    PROVE  BatchHasBlocks'
<1> SUFFICES ASSUME ipc' = "handle" PROVE BatchHasBlocks'
  BY DEF BatchHasBlocks
<1>0. TypeOK /\ Grows /\ IndexerStep
  BY IndexerType DEF IInv, Indexing
<1>1. CASE FetchChunk
  <2> DEFINE logs == LogsBetween(start, ChunkEnd)
             B == {BlockOf[t] : t \in logs}
  <2>1. PICK some \in SUBSET B : batch' = Fetched(some, logs) /\ (~partial' => some = B)
    BY <1>1 DEF FetchChunk, BackfillFails, BackfillCancelled, Goto, AfterError
  <2>2. \A t \in batch'.txs \cup batch'.failed : BlockOf[t] \in batch'.blocks
    BY <2>1 DEF Fetched, TxsIn
  <2>3. ~partial' => \A t \in batch'.events : BlockOf[t] \in batch'.blocks
    BY <2>1 DEF Fetched
  <2> QED
    BY <2>2, <2>3 DEF BatchHasBlocks, HasOrGetsBlock
<1>2. CASE ipc = "handle" /\ HandledStep
  BY <1>0, <1>2, HandledShrinks DEF BInv, BatchHasBlocks, HasOrGetsBlock, Grows
<1> QED
  BY <1>0, <1>1, <1>2, BatchStep

\* The rows of the tables, by kind of step.
LEMMA IndexerKeepsBlocks ==
    ASSUME IInv, BInv, Indexing
    PROVE  FailuresHaveBlock' /\ ActionsHaveBlock'
<1>0. /\ TypeOK /\ Grows
      /\ batch \in Batch
      /\ actions \in [Tx -> Action] /\ failedTxs \in [Tx -> FailedTx]
  BY IndexerType DEF IInv, TypeOK, DatabaseTypeOK, IndexerTypeOK
<1>1. CASE Quiet
  BY <1>1 DEF Quiet, dbVars, BInv, FailuresHaveBlock, ActionsHaveBlock, HasAction
<1>2. ASSUME IndexerWrites, Running, ipc = "handle"
      PROVE  FailuresHaveBlock' /\ ActionsHaveBlock'
  <2>0. /\ ~partial
        /\ batch.blocks = {} =>
              \A t \in batch.txs \cup batch.failed \cup batch.events : BlockOf[t] \in blocks
    BY <1>2 DEF IInv, PartialIsCancelled, Running, Stopping, BInv, BatchHasBlocks,
                HasOrGetsBlock
  <2>1. ASSUME NEW b \in Blocks, InsertBlock(b)
        PROVE  FailuresHaveBlock' /\ ActionsHaveBlock'
    BY <2>1 DEF InsertBlock, BInv, FailuresHaveBlock, ActionsHaveBlock, HasAction
  <2>2. ASSUME NEW T \in SUBSET batch.txs, InsertTransactionBatch(T), batch.blocks = {}
        PROVE  FailuresHaveBlock' /\ ActionsHaveBlock'
    <3>1. \A t \in Tx : t \notin T => actions'[t] = actions[t]
      BY <2>2 DEF InsertTransactionBatch
    <3> QED
      BY <2>0, <2>2, <3>1
      DEF InsertTransactionBatch, BInv, FailuresHaveBlock, ActionsHaveBlock, HasAction
  <2>3. ASSUME NEW t \in batch.failed, InsertFailedTx(t), batch.blocks = {}
        PROVE  FailuresHaveBlock' /\ ActionsHaveBlock'
    <3>1. \A u \in Tx : u # t => failedTxs'[u] = failedTxs[u]
      BY <1>0, <2>3 DEF InsertFailedTx
    <3> QED
      BY <2>0, <2>3, <3>1
      DEF InsertFailedTx, BInv, FailuresHaveBlock, ActionsHaveBlock, HasAction
  <2>4. ASSUME NEW t \in batch.events, AppendEvents(t), InStage4
        PROVE  FailuresHaveBlock' /\ ActionsHaveBlock'
    <3>1. \A u \in Tx : u # t => actions'[u] = actions[u]
      BY <1>0, <2>4 DEF AppendEvents
    <3> QED
      BY <2>0, <2>4, <3>1
      DEF AppendEvents, InStage4, BInv, FailuresHaveBlock, ActionsHaveBlock, HasAction
  <2>5. CASE SetLastIndexedBlock(ChunkEnd)
    BY <2>5 DEF SetLastIndexedBlock, BInv, FailuresHaveBlock, ActionsHaveBlock, HasAction
  <2> QED
    BY <1>2, <2>1, <2>2, <2>3, <2>4, <2>5 DEF IndexerWrites
<1> QED
  BY <1>1, <1>2, IndexerStatement DEF Indexing

LEMMA RetryKeepsBlocks ==
    ASSUME IInv, RInv, BInv, Retrying
    PROVE  BInv'
<1>0. /\ Grows /\ cur \subseteq Tx
      /\ actions \in [Tx -> Action] /\ failedTxs \in [Tx -> FailedTx]
  BY RetryType DEF IInv, TypeOK, DatabaseTypeOK, RetryTypeOK
<1>1. BatchHasBlocks'
  BY <1>0 DEF BInv, BatchHasBlocks, HasOrGetsBlock, Grows, Retrying, idxVars
<1>2. \A t \in cur : BlockOf[t] \in blocks
  BY <1>0 DEF RInv, ListedArePending, BInv, FailuresHaveBlock
<1>3. ASSUME NEW t \in cur,
             \/ InsertTransaction(t) \/ MarkFailedTxResolved(t)
             \/ IncrementRetryCount(t) \/ MarkFailedTxAbandoned(t)
      PROVE  \A u \in Tx : u # t => actions'[u] = actions[u] /\ failedTxs'[u] = failedTxs[u]
  BY <1>0, <1>3 DEF InsertTransaction, MarkFailedTxResolved, IncrementRetryCount,
                    MarkFailedTxAbandoned
<1>4. FailuresHaveBlock' /\ ActionsHaveBlock'
  <2>1. CASE Quiet
    BY <2>1 DEF Quiet, dbVars, BInv, FailuresHaveBlock, ActionsHaveBlock, HasAction
  <2>2. ASSUME NEW t \in cur,
               \A u \in Tx : u # t => actions'[u] = actions[u] /\ failedTxs'[u] = failedTxs[u]
        PROVE  FailuresHaveBlock' /\ ActionsHaveBlock'
    BY <1>0, <1>2, <2>2 DEF BInv, FailuresHaveBlock, ActionsHaveBlock, HasAction, Grows
  <2> QED
    BY <1>3, <2>1, <2>2, RetryStatement DEF Retrying
<1> QED
  BY <1>1, <1>4 DEF BInv

LEMMA NextBInv == IInv /\ RInv /\ BInv /\ [Next]_vars => BInv'
<1> SUFFICES ASSUME IInv, RInv, BInv, [Next]_vars PROVE BInv'
  OBVIOUS
<1>1. CASE Indexing
  BY <1>1, BatchKeepsBlocks, IndexerKeepsBlocks DEF BInv
<1>2. CASE Retrying
  BY <1>2, RetryKeepsBlocks
<1>3. CASE Lifecycle \/ UNCHANGED vars
  <2>1. UNCHANGED dbVars
    BY <1>3, LifecycleType DEF IInv, Quiet, vars
  <2>2. ipc' # "handle" \/ UNCHANGED <<ipc, batch, partial>>
    BY <1>3 DEF Lifecycle, Start, Crash, Exit, Shutdown, RetryStops, ChainGrows, Dies, Goto,
                vars, idxVars
  <2> QED
    BY <2>1, <2>2 DEF dbVars, BInv, FailuresHaveBlock, BatchHasBlocks, HasOrGetsBlock,
                      ActionsHaveBlock, HasAction
<1> QED
  BY <1>1, <1>2, <1>3 DEF Next, Lifecycle

LEMMA InitBInv == Init => BInv
BY DEF Init, DatabaseInit, IndexerInit, NoAction, NoFailure, BInv, FailuresHaveBlock,
       BatchHasBlocks, ActionsHaveBlock, HasAction

\* Every action has its block, so the API's COALESCE(..., now())
\* (actions.go:137-138) never invents a block time: stages 2 to 4 of DBHandler
\* come after its first, and a recovered call comes after its failure.
THEOREM ActionsHaveBlockHolds == Spec => []ActionsHaveBlock
<1>1. BInv => ActionsHaveBlock
  BY DEF BInv
<1> QED
  BY <1>1, InitBInv, NextBInv, Inductive, RetryInductive, PTL DEF Spec

(***************************************************************************)
(* The leaked connections.                                                 *)
(***************************************************************************)
LEMMA NextLInv == TypeOK /\ DownIsOff /\ LInv /\ [Next]_vars => LInv'
<1> SUFFICES ASSUME TypeOK, DownIsOff, LInv, [Next]_vars PROVE LInv'
  OBVIOUS
<1>0. leaked \in Nat /\ mode \in {"backfill", "live"}
  BY DEF TypeOK, IndexerTypeOK
<1>1. CASE Indexing
  <2>0. IndexerStep /\ proc' = proc /\ proc # "down"
    BY <1>1, IndexerOn DEF Indexing, DownIsOff
  <2>1. CASE BackfillBegin \/ ChunkLoop \/ FetchChunk \/ AdvanceCursor \/ Handover
             \/ FetchAddresses \/ Poll
    BY <1>0, <2>0, <2>1
    DEF LInv, BackfillBegin, ChunkLoop, FetchChunk, AdvanceCursor, InStage4, Handover,
        FetchAddresses, Poll, ExecuteCtx, Execute, BackfillFails, BackfillCancelled, Goto,
        AfterError
  <2>2. ASSUME NEW b \in Blocks, HandleBlock(b) PROVE LInv'
    BY <1>0, <2>0, <2>2
    DEF LInv, HandleBlock, ExecuteCtx, Execute, Handled, BackfillFails, BackfillCancelled,
        Goto, AfterError
  <2>3. ASSUME NEW b \in Blocks, HandleTransactions(b) PROVE LInv'
    BY <1>0, <2>0, <2>3
    DEF LInv, HandleTransactions, ExecuteCtx, Execute, Handled, BackfillFails,
        BackfillCancelled, Goto, AfterError
  <2>4. ASSUME NEW t \in Tx, HandleFailed(t) \/ HandleEvents(t) \/ SkipEvents(t) PROVE LInv'
    BY <1>0, <2>0, <2>4
    DEF LInv, HandleFailed, HandleEvents, SkipEvents, InStage4, ExecuteCtx, Execute,
        Handled, BackfillFails, BackfillCancelled, Goto, AfterError
  <2> QED
    BY <2>0, <2>1, <2>2, <2>3, <2>4 DEF IndexerStep
<1>2. CASE Retrying \/ UNCHANGED vars
  BY <1>2 DEF LInv, Retrying, idxVars, procVars, vars
<1>3. CASE Lifecycle
  BY <1>0, <1>3
  DEF LInv, DownIsOff, Lifecycle, Start, Crash, Exit, Shutdown, RetryStops, ChainGrows,
      Dies, Goto, idxVars, procVars
<1> QED
  BY <1>1, <1>2, <1>3 DEF Next, Lifecycle

\* The connections that InsertTransactionBatch never gives back
\* (db.go:193-200) are at most two: the first error ends the backfill, the
\* second ends the goroutine.  The pool of 25 never runs dry of them.
THEOREM LeaksBoundedHolds == Spec => []LeaksBounded
<1>1. Init => LInv
  BY DEF Init, IndexerInit, LInv
<1>2. RInv => DownIsOff
  BY DEF RInv
<1>3. LInv => LeaksBounded
  BY DEF LInv, LeaksBounded
<1> QED
  BY <1>1, <1>2, <1>3, NextLInv, TypeCorrect, RetryInductive, PTL DEF Spec

(***************************************************************************)
(* The progress of the cursor.                                             *)
(***************************************************************************)
LEMMA ChunkBounds ==
    ASSUME TypeOK, start <= to
    PROVE  start <= ChunkEnd /\ ChunkEnd <= to
BY ChainAssumption, IndexerAssumption DEF TypeOK, IndexerTypeOK, Blocks, ChunkEnd

\* What becomes of start, to and the cursor in a step of the indexer.
LEMMA Progress ==
    ASSUME TypeOK, Indexing
    PROVE  \/ /\ UNCHANGED <<start, lastIndexed>>
              /\ ipc' \in {"fetch", "handle"} =>
                    \/ ipc \in {"fetch", "handle"} /\ to' = to
                    \/ ipc = "chunk" /\ start <= to /\ to' = to
           \/ /\ InStage4 /\ ipc' \notin {"fetch", "handle"}
              /\ \/ start' = ChunkEnd + 1
                 \/ start' = start /\ faults' = faults + 1
              /\ \/ Running /\ lastIndexed' = ChunkEnd
                 \/ ChunkEnd = 0 /\ lastIndexed' = lastIndexed
           \/ /\ Handover /\ ipc' \notin {"fetch", "handle"} /\ lastIndexed' = lastIndexed
              /\ \/ start' = lastIndexed + 1
                 \/ faults' = faults + 1
                 \/ Stopping
<1>0. IndexerStep
  BY DEF Indexing
<1>1. CASE BackfillBegin \/ ChunkLoop \/ FetchChunk \/ FetchAddresses \/ Poll
  BY <1>1 DEF BackfillBegin, ChunkLoop, FetchChunk, FetchAddresses, Poll, BackfillFails,
              BackfillCancelled, Goto, AfterError, dbVars
<1>2. CASE Handover
  BY <1>2 DEF Handover, Goto, Fault, dbVars
<1>3. CASE AdvanceCursor
  <2>1. ChunkEnd \in Nat
    BY ChunkEndType DEF Blocks
  <2> QED
    BY <1>3, <2>1 DEF AdvanceCursor, ExecuteCtx, Execute, SetLastIndexedBlock, Fault, Running,
                BackfillFails, BackfillCancelled, Goto, AfterError, dbVars
<1>4. ASSUME NEW b \in Blocks, HandleBlock(b) \/ HandleTransactions(b)
      PROVE  UNCHANGED <<start, lastIndexed, to>> /\ ipc = "handle"
  BY <1>4 DEF HandleBlock, HandleTransactions, ExecuteCtx, Execute, InsertBlock,
              InsertTransactionBatch, Handled, BackfillFails, BackfillCancelled, dbVars
<1>5. ASSUME NEW t \in Tx, HandleFailed(t) \/ HandleEvents(t) \/ SkipEvents(t)
      PROVE  UNCHANGED <<start, lastIndexed, to>> /\ ipc = "handle"
  BY <1>5 DEF HandleFailed, HandleEvents, SkipEvents, InStage4, ExecuteCtx, Execute,
              InsertFailedTx, AppendEvents, Handled, BackfillFails, BackfillCancelled, dbVars
<1> QED
  BY <1>0, <1>1, <1>2, <1>3, <1>4, <1>5 DEF IndexerStep

LEMMA NextCInv == TypeOK /\ DownIsOff /\ CInv /\ [Next]_vars => CInv'
<1> SUFFICES ASSUME TypeOK, DownIsOff, CInv, [Next]_vars PROVE CInv'
  OBVIOUS
<1>0. /\ start \in Nat /\ lastIndexed \in Nat /\ faults \in Nat /\ to \in Nat
      /\ ChunkEnd \in Nat
  BY ChainAssumption, ProcessAssumption, ChunkEndType
  DEF TypeOK, IndexerTypeOK, DatabaseTypeOK, ProcessTypeOK, Blocks
<1>1. CASE Indexing
  <2>1. ChunkNotEmpty'
    BY <1>1, Progress DEF CInv, ChunkNotEmpty
  <2>2. NotBehind'
    <3> SUFFICES ASSUME faults' = 0, proc' = "running" PROVE start' >= lastIndexed'
      BY DEF NotBehind
    <3>1. faults = 0 /\ proc = "running" /\ faults' # faults + 1
      <4>1. Fault \/ NoFault \/ faults' = faults
        BY <1>1 DEF Indexing, IndexerStep, BackfillBegin, ChunkLoop, FetchChunk, HandleBlock,
                    HandleTransactions, HandleFailed, HandleEvents, SkipEvents, AdvanceCursor,
                    Handover, FetchAddresses, Poll, ExecuteCtx, Execute
      <4> QED
        BY <1>0, <1>1, <4>1 DEF Indexing, Fault, NoFault
    <3>2. start >= lastIndexed /\ ~Stopping
      BY <3>1 DEF CInv, NotBehind, Stopping
    <3>3. InStage4 => start <= ChunkEnd
      BY ChunkBounds DEF CInv, ChunkNotEmpty, InStage4
    <3>4. \/ start' = start /\ lastIndexed' = lastIndexed
          \/ /\ InStage4 /\ start' = ChunkEnd + 1
             /\ \/ lastIndexed' = ChunkEnd
                \/ ChunkEnd = 0 /\ lastIndexed' = lastIndexed
          \/ start' = lastIndexed + 1 /\ lastIndexed' = lastIndexed
      BY <1>1, <3>1, <3>2, Progress
    <3> QED
      BY <1>0, <3>2, <3>3, <3>4
  <2> QED
    BY <2>1, <2>2 DEF CInv
<1>2. CASE Retrying
  <2>1. faults' = 0 => faults = 0
    BY <1>0, <1>2, RetryType
    DEF Retrying, RetryStep, ListPending, FetchAndDecode, InsertRecovered, Resolve, Bump,
        Abandon, Execute, Fault, NoFault
  <2> QED
    BY <1>2, <2>1, RetryType DEF CInv, ChunkNotEmpty, NotBehind, Retrying, idxVars
<1>3. CASE Lifecycle
  <2>1. lastIndexed' = lastIndexed
    BY <1>3, LifecycleType DEF Quiet, dbVars
  <2>2. CASE Start
    <3>1. faults' = 0 => start' >= lastIndexed
      BY <1>0, <2>2, IndexerAssumption DEF Start, Fault, Blocks
    <3> QED
      BY <2>1, <2>2, <3>1 DEF Start, CInv, ChunkNotEmpty, NotBehind
  <2>3. CASE ~Start
    BY <1>3, <2>1, <2>3
    DEF Lifecycle, Crash, Exit, Shutdown, RetryStops, ChainGrows, Dies, Goto, CInv,
        ChunkNotEmpty, NotBehind, idxVars, procVars
  <2> QED
    BY <2>2, <2>3
<1>4. CASE UNCHANGED vars
  BY <1>4 DEF CInv, ChunkNotEmpty, NotBehind, vars, dbVars, procVars, idxVars
<1> QED
  BY <1>1, <1>2, <1>3, <1>4 DEF Next, Lifecycle

\* The goroutine is never behind the cursor and chunks are not empty.
THEOREM CursorInductive == Spec => []CInv
<1>1. Init => CInv
  BY DEF Init, DatabaseInit, IndexerInit, CInv, ChunkNotEmpty, NotBehind
<1>2. RInv => DownIsOff
  BY DEF RInv
<1> QED
  BY <1>1, <1>2, NextCInv, TypeCorrect, RetryInductive, PTL DEF Spec

\* As long as no call failed the cursor only moves forward, although its row
\* is overwritten (GREATEST guards head_seen only, db.go:356-364): over
\* crashes, shutdowns and the handover from backfill to live indexing.
THEOREM CursorMovesForwardHolds == Spec => CursorMovesForward
<1> DEFINE Forward == faults = 0 => lastIndexed' >= lastIndexed
<1>1. ASSUME TypeOK, CInv, [Next]_vars PROVE [Forward]_vars
  <2>0. lastIndexed \in Nat /\ start \in Nat /\ ChunkEnd \in Nat
    BY <1>1, ChainAssumption, ChunkEndType DEF TypeOK, DatabaseTypeOK, IndexerTypeOK, Blocks
  <2>1. CASE Indexing
    <3>1. ASSUME InStage4, Running, faults = 0 PROVE lastIndexed <= ChunkEnd
      BY <1>1, <2>0, <3>1, ChunkBounds
      DEF CInv, ChunkNotEmpty, NotBehind, InStage4, Running
    <3>2. \/ lastIndexed' = lastIndexed
          \/ InStage4 /\ Running /\ lastIndexed' = ChunkEnd
      BY <1>1, <2>1, Progress
    <3> QED
      BY <2>0, <3>1, <3>2
  <2>2. CASE Retrying \/ Lifecycle
    <3>1. lastIndexed' = lastIndexed
      BY <1>1, <2>2, RetryType, LifecycleType DEF Quiet, dbVars
    <3> QED
      BY <2>0, <3>1
  <2> QED
    BY <1>1, <2>1, <2>2 DEF Next, Lifecycle
<1> QED
  BY <1>1, TypeCorrect, CursorInductive, PTL DEF Spec, CursorMovesForward

(***************************************************************************)
(* The copies of the events.                                               *)
(***************************************************************************)
EventsKept == \A t \in Tx : actions'[t].events = actions[t].events

\* More stops and failed calls pay for at least as many copies.
LEMMA MorePaid ==
    ASSUME NEW e \in Nat, NEW s \in Nat, NEW f \in Nat, NEW s1 \in Nat, NEW f1 \in Nat,
           e <= 1 + s + f, f1 >= f, s1 >= s
    PROVE  /\ e <= 1 + s1 + f1
           /\ e <= s + f => e <= s1 + f1
           /\ f1 + s1 > f + s => e <= s1 + f1
OBVIOUS

\* A step that only counts a stop or a failed call, or that changes nothing.
LEMMA PaidStep ==
    ASSUME TypeOK, CopiesPaid, EventsKept, faults' \in Nat, stops' \in Nat,
           faults' >= faults, stops' >= stops,
           \/ faults' + stops' > faults + stops
           \/ \A t \in Tx : Done(t) => Done(t)'
    PROVE  CopiesPaid'
<1>0. /\ faults \in Nat /\ stops \in Nat /\ actions \in [Tx -> Action]
  BY ProcessAssumption DEF TypeOK, ProcessTypeOK, DatabaseTypeOK
<1> SUFFICES ASSUME NEW t \in Tx
             PROVE  /\ actions'[t].events <= 1 + stops' + faults'
                    /\ actions'[t].events <= stops' + faults' \/ Done(t)'
  BY DEF CopiesPaid
<1>1. /\ actions'[t].events \in Nat
      /\ actions'[t].events <= 1 + stops + faults
      /\ actions'[t].events <= stops + faults \/ Done(t)
  BY <1>0 DEF EventsKept, CopiesPaid, Action
<1>2. /\ actions'[t].events <= 1 + stops' + faults'
      /\ actions'[t].events <= stops + faults => actions'[t].events <= stops' + faults'
      /\ faults' + stops' > faults + stops => actions'[t].events <= stops' + faults'
  BY <1>0, <1>1, MorePaid
<1> QED
  BY <1>1, <1>2

LEMMA EventsOfChunkStays ==
    ASSUME TypeOK, ipc = "handle" => EventsOfChunk, Indexing
    PROVE  ipc' = "handle" => EventsOfChunk'
<1> SUFFICES ASSUME ipc' = "handle" PROVE EventsOfChunk'
  OBVIOUS
<1>1. CASE FetchChunk
  <2>1. /\ UNCHANGED <<start, to>>
        /\ \E B : batch' = Fetched(B, LogsBetween(start, ChunkEnd))
    BY <1>1 DEF FetchChunk, BackfillFails, BackfillCancelled, Goto, AfterError
  <2> QED
    BY <2>1 DEF Fetched, EventsOfChunk, ChunkEnd
<1>2. CASE ipc = "handle" /\ HandledStep
  BY <1>2, HandledShrinks DEF EventsOfChunk, ChunkEnd
<1> QED
  BY <1>1, <1>2, BatchStep DEF Indexing

\* The events of t, which are in batch, have not been paid for yet.
LEMMA NotDoneYet ==
    ASSUME TypeOK, EventsOfChunk, NEW t \in batch.events
    PROVE  ~Done(t) /\ t \in Tx /\ BlockOf[t] \in start..ChunkEnd
<1>1. t \in Tx /\ BlockOf[t] \in start..ChunkEnd
  BY ChainAssumption DEF EventsOfChunk, LogsBetween
<1>2. start \in Nat /\ ChunkEnd \in Nat /\ BlockOf[t] \in Nat
  BY <1>1, ChainAssumption, ChunkEndType DEF TypeOK, IndexerTypeOK, Blocks
<1> QED
  BY <1>1, <1>2 DEF Done

LEMMA AppendPaid ==
    ASSUME TypeOK, DInv, Indexing, NEW t \in Tx, HandleEvents(t)
    PROVE  CopiesPaid'
<1>0. /\ t \in batch.events /\ ipc = "handle" /\ EventsOfChunk /\ InStage4
      /\ UNCHANGED <<proc, stops>>
  BY DEF HandleEvents, InStage4, DInv, Indexing
<1>1. /\ ~Done(t) /\ BlockOf[t] \in start..ChunkEnd
  BY <1>0, NotDoneYet
<1>2. /\ faults \in Nat /\ stops \in Nat /\ actions \in [Tx -> Action] /\ batch \in Batch
  BY ProcessAssumption DEF TypeOK, ProcessTypeOK, DatabaseTypeOK, IndexerTypeOK
<1>3. CASE Running /\ AppendEvents(t)
  <2>1. /\ actions'[t].events = actions[t].events + 1
        /\ \A u \in Tx : u # t => actions'[u] = actions[u]
        /\ UNCHANGED lastIndexed
    BY <1>2, <1>3 DEF AppendEvents, Action
  <2>2. actions[t].events \in Nat /\ actions[t].events <= stops + faults
    BY <1>1, <1>2 DEF DInv, CopiesPaid, Action
  <2>3. CASE NoFault /\ Handled("events", {t})
    <3>1. /\ batch' = [batch EXCEPT !.events = @ \ {t}]
          /\ UNCHANGED <<ipc, start, to, faults>>
      BY <2>3 DEF Handled, NoFault
    <3>2. InStage4' /\ Running' /\ ChunkEnd' = ChunkEnd
      BY <1>0, <1>2, <1>3, <3>1 DEF InStage4, Batch, Running, ChunkEnd
    <3>3. /\ batch'.events = batch.events \ {t}
      BY <1>2, <3>1 DEF Batch
    <3>4. \A u \in Tx : Done(u) => Done(u)'
      BY <1>0, <2>1, <3>1, <3>2, <3>3 DEF Done
    <3>5. Done(t)'
      BY <1>1, <3>1, <3>2, <3>3 DEF Done
    <3>6. actions'[t].events <= 1 + stops + faults
      BY <1>2, <2>1, <2>2
    <3>7. \A u \in Tx : u # t => /\ actions[u].events <= 1 + stops + faults
                                 /\ actions[u].events <= stops + faults \/ Done(u)
      BY DEF DInv, CopiesPaid
    <3> QED
      BY <1>0, <2>1, <3>1, <3>4, <3>5, <3>6, <3>7 DEF CopiesPaid
  <2>4. CASE Fault
    <3>1. faults' = faults + 1
      BY <2>4 DEF Fault
    <3>4. actions' \in [Tx -> Action]
      BY <1>2, <1>3 DEF AppendEvents, Action
    <3> SUFFICES ASSUME NEW u \in Tx
                 PROVE  actions'[u].events <= stops' + faults'
      <4>1. \A n \in Nat : n <= stops' + faults' => n <= 1 + stops' + faults'
        BY <1>0, <1>2, <3>1
      <4>2. \A u \in Tx : actions'[u].events \in Nat
        BY <3>4 DEF Action
      <4> QED
        BY <4>1, <4>2 DEF CopiesPaid
    <3>2. CASE u = t
      BY <1>0, <1>2, <2>1, <2>2, <3>1, <3>2
    <3>3. CASE u # t
      <4>1. actions'[u].events \in Nat /\ actions'[u].events <= 1 + stops + faults
        BY <1>2, <2>1, <3>3 DEF DInv, CopiesPaid, Action
      <4> QED
        BY <1>0, <1>2, <3>1, <4>1
    <3> QED
      BY <3>2, <3>3
  <2> QED
    BY <1>3, <2>3, <2>4
    DEF HandleEvents, ExecuteCtx, Execute, Running
<1>4. CASE UNCHANGED dbVars /\ (Fault \/ (NoFault /\ ~Running))
  <2>1. EventsKept /\ stops' = stops /\ proc' = proc
    BY <1>0, <1>4 DEF EventsKept, dbVars
  <2>2. CASE Fault
    BY <1>2, <2>1, <2>2, PaidStep DEF DInv, Fault
  <2>3. CASE NoFault /\ ~Running
    BY <1>2, <2>1, <2>3, PaidStep DEF DInv, NoFault, Done
  <2> QED
    BY <1>4, <2>2, <2>3
<1> QED
  BY <1>3, <1>4 DEF HandleEvents, ExecuteCtx, Execute, Running

LEMMA OthersKeepEvents ==
    ASSUME TypeOK, Indexing, ~\E t \in Tx : HandleEvents(t)
    PROVE  EventsKept /\ (Fault \/ NoFault)
<1>0. actions \in [Tx -> Action] /\ IndexerStep
  BY DEF TypeOK, DatabaseTypeOK, Indexing
<1>1. CASE BackfillBegin \/ ChunkLoop \/ FetchChunk \/ Handover \/ FetchAddresses \/ Poll
           \/ \E t \in Tx : SkipEvents(t)
  BY <1>1 DEF BackfillBegin, ChunkLoop, FetchChunk, Handover, FetchAddresses, Poll, SkipEvents,
              dbVars, EventsKept, NoFault
<1>2. CASE AdvanceCursor
  BY <1>2 DEF AdvanceCursor, ExecuteCtx, Execute, SetLastIndexedBlock, dbVars, EventsKept
<1>3. ASSUME NEW b \in Blocks, HandleBlock(b) PROVE EventsKept /\ (Fault \/ NoFault)
  BY <1>3 DEF HandleBlock, ExecuteCtx, Execute, InsertBlock, dbVars, EventsKept
<1>4. ASSUME NEW b \in Blocks, HandleTransactions(b) PROVE EventsKept /\ (Fault \/ NoFault)
  <2>1. ASSUME NEW T, InsertTransactionBatch(T) PROVE EventsKept
    BY <1>0, <2>1 DEF InsertTransactionBatch, Action, EventsKept
  <2>2. UNCHANGED dbVars => EventsKept
    BY DEF dbVars, EventsKept
  <2> QED
    BY <1>4, <2>1, <2>2 DEF HandleTransactions, ExecuteCtx, Execute
<1>5. ASSUME NEW t \in Tx, HandleFailed(t) PROVE EventsKept /\ (Fault \/ NoFault)
  BY <1>5 DEF HandleFailed, ExecuteCtx, Execute, InsertFailedTx, dbVars, EventsKept
<1> QED
  BY <1>0, <1>1, <1>2, <1>3, <1>4, <1>5 DEF IndexerStep

LEMMA DoneStays ==
    ASSUME TypeOK, CInv, Indexing, Running, NoFault,
           ~\E t \in Tx : HandleEvents(t), NEW t \in Tx, Done(t)
    PROVE  Done(t)'
<1>0. /\ start \in Nat /\ lastIndexed \in Nat /\ ChunkEnd \in Nat /\ faults \in Nat
      /\ BlockOf[t] \in Nat /\ BlockOf[t] > 0 /\ batch \in Batch
      /\ IndexerStep /\ proc' = proc /\ faults' # faults + 1
  BY ChainAssumption, ProcessAssumption, ChunkEndType
  DEF TypeOK, IndexerTypeOK, DatabaseTypeOK, ProcessTypeOK, Blocks, Indexing, NoFault
<1>1. CASE InStage4
  <2>1. start <= ChunkEnd
    BY <1>1, ChunkBounds DEF CInv, ChunkNotEmpty, InStage4
  <2>2. CASE AdvanceCursor
    <3>0. ~Fault /\ ~Stopping
      BY <1>0 DEF Fault, Running, Stopping
    <3>1. /\ start' = ChunkEnd + 1
          /\ lastIndexed' = ChunkEnd \/ (ChunkEnd = 0 /\ lastIndexed' = lastIndexed)
      <4>1. CASE ChunkEnd > 0
        BY <2>2, <3>0, <4>1
        DEF AdvanceCursor, ExecuteCtx, Execute, SetLastIndexedBlock, Stopping
      <4>2. CASE ~(ChunkEnd > 0)
        <5>1. ChunkEnd = 0
          BY <1>0, <4>2
        <5> QED
          BY <2>2, <4>2, <5>1 DEF AdvanceCursor, dbVars
      <4> QED
        BY <4>1, <4>2
    <3>2. BlockOf[t] <= ChunkEnd
      BY <1>0, <2>1 DEF Done
    <3> QED
      BY <1>0, <3>1, <3>2 DEF Done, Running
  <2>3. ASSUME NEW u \in Tx, SkipEvents(u) PROVE Done(t)'
    <3>1. /\ batch' = [batch EXCEPT !.events = @ \ {u}]
          /\ UNCHANGED <<ipc, start, to, proc, lastIndexed>>
      BY <1>0, <2>3 DEF SkipEvents, Handled, dbVars
    <3>2. InStage4' /\ Running' /\ ChunkEnd' = ChunkEnd
      BY <1>0, <1>1, <3>1 DEF InStage4, Batch, Running, ChunkEnd
    <3>3. batch'.events = batch.events \ {u}
      BY <1>0, <3>1 DEF Batch
    <3> QED
      BY <3>1, <3>2, <3>3 DEF Done
  <2> QED
    BY <1>0, <1>1, <2>2, <2>3
    DEF IndexerStep, InStage4, BackfillBegin, ChunkLoop, FetchChunk, HandleBlock,
        HandleTransactions, HandleFailed, Handover, FetchAddresses, Poll
<1>2. CASE ~InStage4
  <2>1. BlockOf[t] <= lastIndexed /\ BlockOf[t] < start
    BY <1>2 DEF Done
  <2>2. /\ lastIndexed' = lastIndexed
        /\ start' = start \/ start' = lastIndexed + 1
    BY <1>0, <1>2, Progress DEF Running, Stopping
  <2> QED
    BY <1>0, <2>1, <2>2 DEF Done, Running
<1> QED
  BY <1>1, <1>2

LEMMA NextDInv == TypeOK /\ CInv /\ DInv /\ [Next]_vars => DInv'
<1> SUFFICES ASSUME TypeOK, CInv, DInv, [Next]_vars PROVE DInv'
  OBVIOUS
<1>0. /\ faults \in Nat /\ stops \in Nat /\ CopiesPaid
      /\ faults >= faults /\ stops >= stops
      /\ faults + 1 \in Nat /\ faults + 1 >= faults /\ faults + 1 + stops > faults + stops
  BY ProcessAssumption DEF TypeOK, ProcessTypeOK, DInv
<1>1. CASE Indexing
  <2>1. ASSUME NEW t \in Tx, HandleEvents(t) PROVE CopiesPaid'
    BY <1>1, <2>1, AppendPaid
  <2>2. ASSUME ~\E t \in Tx : HandleEvents(t) PROVE CopiesPaid'
    <3>1. EventsKept /\ (Fault \/ NoFault) /\ stops' = stops /\ proc' = proc
      BY <1>1, <2>2, OthersKeepEvents DEF Indexing
    <3>2. CASE Fault
      BY <1>0, <3>1, <3>2, PaidStep DEF Fault
    <3>3. CASE NoFault
      <4>1. \A t \in Tx : Done(t) => Done(t)'
        <5>1. CASE Running
          BY <1>1, <2>2, <3>3, <5>1, DoneStays
        <5>2. CASE ~Running
          BY <5>2 DEF Done
        <5> QED
          BY <5>1, <5>2
      <4> QED
        BY <1>0, <3>1, <3>3, <4>1, PaidStep DEF NoFault
    <3> QED
      BY <3>1, <3>2, <3>3
  <2> QED
    BY <1>1, <2>1, <2>2, EventsOfChunkStays DEF DInv
<1>2. CASE Retrying
  <2>1. /\ UNCHANGED <<proc, stops, ipc, start, to, batch, lastIndexed>>
        /\ Fault \/ NoFault
    BY <1>2, RetryType
    DEF Retrying, idxVars, RetryStep, ListPending, FetchAndDecode, InsertRecovered, Resolve,
        Bump, Abandon, Execute, NoFault
  <2>2. EventsKept
    <3>1. actions \in [Tx -> Action] /\ cur \subseteq Tx
      BY DEF TypeOK, DatabaseTypeOK, RetryTypeOK
    <3> QED
      BY <1>2, <3>1, RetryStatement
      DEF Retrying, EventsKept, Quiet, dbVars, InsertTransaction, MarkFailedTxResolved,
          IncrementRetryCount, MarkFailedTxAbandoned, Action
  <2>3. \A t \in Tx : Done(t) => Done(t)'
    BY <2>1 DEF Done, Running, InStage4, ChunkEnd
  <2> QED
    BY <1>0, <2>1, <2>2, <2>3, PaidStep DEF DInv, EventsOfChunk, ChunkEnd, Fault, NoFault
<1>3. CASE Lifecycle \/ UNCHANGED vars
  <2>1. EventsKept /\ lastIndexed' = lastIndexed
    BY <1>3, LifecycleType DEF EventsKept, Quiet, vars, dbVars
  <2>2. ipc' # "handle" \/ UNCHANGED <<ipc, start, to, batch>>
    BY <1>3 DEF Lifecycle, Start, Crash, Exit, Shutdown, RetryStops, ChainGrows, Dies, Goto,
                vars, idxVars
  <2>3. /\ faults' \in Nat /\ stops' \in Nat /\ faults' >= faults /\ stops' >= stops
        /\ \/ faults' + stops' > faults + stops
           \/ UNCHANGED <<proc, ipc, start, to, batch>>
           \/ ~Running
    BY <1>0, <1>3
    DEF Lifecycle, Start, Crash, Exit, Shutdown, RetryStops, ChainGrows, Dies, Fault, NoFault,
        Running, vars, idxVars, procVars
  <2>4. \/ faults' + stops' > faults + stops
        \/ \A t \in Tx : Done(t) => Done(t)'
    BY <2>1, <2>3 DEF Done, Running, InStage4, ChunkEnd
  <2>5. CopiesPaid'
    BY <1>0, <2>1, <2>3, <2>4, PaidStep
  <2> QED
    BY <2>2, <2>5 DEF DInv, EventsOfChunk, ChunkEnd
<1> QED
  BY <1>1, <1>2, <1>3 DEF Next, Lifecycle

LEMMA InitDInv == Init => DInv
BY DEF Init, DatabaseInit, ProcessInit, IndexerInit, NoAction, DInv, CopiesPaid

\* The upsert appends (db.go:324), so a chunk handled again stores its events
\* again; but each stop and each failed call pays for one more copy at most,
\* and without any an event is stored once, over both phases.
THEOREM DuplicatesBoundedHolds == Spec => []DuplicatesBounded
<1>1. DInv => DuplicatesBounded
  BY DEF DInv, CopiesPaid, DuplicatesBounded
<1> QED
  BY <1>1, InitDInv, NextDInv, TypeCorrect, CursorInductive, PTL DEF Spec

(***************************************************************************)
(* The explorer is an IndexLog.  First HInv: nothing is ahead of the       *)
(* chain.                                                                  *)
(***************************************************************************)
\* The end of the running range is a height that the node has announced.
LEMMA RangeStep == IndexerStep => to' = to \/ to' = head
<1>1. CASE BackfillBegin \/ ChunkLoop \/ FetchChunk \/ Handover \/ FetchAddresses \/ Poll
  BY <1>1 DEF BackfillBegin, ChunkLoop, FetchChunk, Handover, FetchAddresses, Poll,
              BackfillFails, BackfillCancelled
<1>2. CASE AdvanceCursor
  BY <1>2 DEF AdvanceCursor, ExecuteCtx, Execute, BackfillFails, BackfillCancelled
<1>3. ASSUME NEW b \in Blocks, HandleBlock(b) \/ HandleTransactions(b) PROVE to' = to
  BY <1>3 DEF HandleBlock, HandleTransactions, ExecuteCtx, Execute, Handled, BackfillFails,
              BackfillCancelled
<1>4. ASSUME NEW t \in Tx, HandleFailed(t) \/ HandleEvents(t) \/ SkipEvents(t)
      PROVE  to' = to
  BY <1>4 DEF HandleFailed, HandleEvents, SkipEvents, ExecuteCtx, Execute, Handled,
              BackfillFails, BackfillCancelled
<1> QED
  BY <1>1, <1>2, <1>3, <1>4 DEF IndexerStep

\* The cursor is written by the last stage alone, which writes nothing else.
LEMMA CursorWrite ==
    ASSUME TypeOK, Indexing, lastIndexed' # lastIndexed
    PROVE  /\ InStage4 /\ Running /\ ChunkEnd > 0
           /\ SetLastIndexedBlock(ChunkEnd)
           /\ UNCHANGED <<skipped, release>>
<1>0. IndexerStep /\ release' = release
  BY DEF Indexing
<1>1. ~(BackfillBegin \/ ChunkLoop \/ FetchChunk \/ FetchAddresses \/ Poll \/ Handover)
  BY DEF BackfillBegin, ChunkLoop, FetchChunk, FetchAddresses, Poll, Handover, dbVars
<1>2. ASSUME NEW b \in Blocks, HandleBlock(b) \/ HandleTransactions(b) PROVE FALSE
  BY <1>2 DEF HandleBlock, HandleTransactions, ExecuteCtx, Execute, InsertBlock,
              InsertTransactionBatch, dbVars
<1>3. ASSUME NEW t \in Tx, HandleFailed(t) \/ HandleEvents(t) \/ SkipEvents(t) PROVE FALSE
  BY <1>3 DEF HandleFailed, HandleEvents, SkipEvents, ExecuteCtx, Execute, InsertFailedTx,
              AppendEvents, dbVars
<1>4. AdvanceCursor /\ skipped' = skipped
  BY <1>0, <1>1, <1>2, <1>3 DEF IndexerStep
<1>5. InStage4 /\ ChunkEnd > 0
  BY <1>4 DEF AdvanceCursor, dbVars
<1>6. Running /\ SetLastIndexedBlock(ChunkEnd)
  BY <1>4 DEF AdvanceCursor, ExecuteCtx, Execute, Running, dbVars
<1> QED
  BY <1>0, <1>4, <1>5, <1>6

LEMMA NextHInv == TypeOK /\ HInv /\ [Next]_vars => HInv'
<1> SUFFICES ASSUME TypeOK, HInv, [Next]_vars PROVE HInv'
  OBVIOUS
<1>0. head \in Nat /\ to \in Nat /\ lastIndexed \in Nat /\ start \in Nat /\ ChunkEnd \in Nat
  BY ChainAssumption, ChunkEndType DEF TypeOK, IndexerTypeOK, DatabaseTypeOK, Blocks
<1>1. ChunkEnd <= to
  BY <1>0, IndexerAssumption DEF ChunkEnd
<1>2. CASE Indexing
  <2>0. head' = head /\ IndexerStep
    BY <1>2 DEF Indexing
  <2>1. to' <= head
    BY <1>0, <2>0, RangeStep DEF HInv
  <2>2. lastIndexed' <= head
    BY <1>0, <1>1, <1>2, CursorWrite DEF HInv, SetLastIndexedBlock
  <2>3. blocks' \subseteq 0..head
    <3>1. Quiet \/ (IndexerWrites /\ ipc = "handle")
      BY <2>0, IndexerStatement
    <3>2. blocks' \subseteq blocks \cup batch.blocks /\ (ipc = "handle" \/ blocks' = blocks)
      BY <3>1 DEF Quiet, dbVars, IndexerWrites, InsertBlock, InsertTransactionBatch,
                  InsertFailedTx, AppendEvents, SetLastIndexedBlock
    <3> QED
      BY <3>2 DEF HInv
  <2>4. ASSUME ipc' = "handle" PROVE batch'.blocks \subseteq 0..head
    <3>1. CASE FetchChunk
      <4> DEFINE logs == LogsBetween(start, ChunkEnd)
                 B == {BlockOf[t] : t \in logs}
      <4>1. PICK some \in SUBSET B : batch' = Fetched(some, logs)
        BY <2>4, <3>1 DEF FetchChunk, BackfillFails, BackfillCancelled, Goto, AfterError
      <4>2. batch'.blocks = some
        BY <4>1 DEF Fetched
      <4>3. B \subseteq start..ChunkEnd
        BY DEF LogsBetween
      <4> QED
        BY <1>0, <1>1, <4>2, <4>3 DEF HInv
    <3>2. CASE ipc = "handle" /\ HandledStep
      BY <3>2, HandledShrinks DEF HInv
    <3> QED
      BY <2>0, <2>4, <3>1, <3>2, BatchStep
  <2> QED
    BY <2>0, <2>1, <2>2, <2>3, <2>4 DEF HInv
<1>3. CASE Retrying
  <2>1. blocks' = blocks /\ lastIndexed' = lastIndexed
    BY <1>3, RetryStatement
    DEF Retrying, Quiet, dbVars, InsertTransaction, MarkFailedTxResolved,
        IncrementRetryCount, MarkFailedTxAbandoned
  <2> QED
    BY <1>3, <2>1 DEF Retrying, idxVars, HInv
<1>4. CASE Lifecycle
  <2>1. UNCHANGED dbVars /\ head' \in Nat /\ head <= head'
    BY <1>0, <1>4, LifecycleType
    DEF Quiet, Lifecycle, Start, Crash, Shutdown, Exit, RetryStops, ChainGrows, Dies, Extend
  <2>2. to' \in {0, to} /\ (ipc' = "handle" => ipc = "handle" /\ batch' = batch)
    BY <1>4 DEF Lifecycle, Start, Crash, Shutdown, Exit, RetryStops, ChainGrows, Dies, Goto,
                idxVars
  <2>3. 0..head \subseteq 0..head'
    BY <1>0, <2>1
  <2>4. to' <= head'
    BY <1>0, <2>1, <2>2 DEF HInv
  <2>5. lastIndexed' <= head'
    BY <1>0, <2>1 DEF HInv, dbVars
  <2>6. blocks' \subseteq 0..head'
    BY <2>1, <2>3 DEF HInv, dbVars
  <2>7. ipc' = "handle" => batch'.blocks \subseteq 0..head'
    BY <2>2, <2>3 DEF HInv
  <2> QED
    BY <2>4, <2>5, <2>6, <2>7 DEF HInv
<1>5. CASE UNCHANGED vars
  BY <1>5 DEF HInv, vars, dbVars, idxVars
<1> QED
  BY <1>2, <1>3, <1>4, <1>5 DEF Next, Lifecycle

\* Nothing is ahead of the chain.
THEOREM HeadInductive == Spec => []HInv
<1>1. Init => HInv
  BY ChainAssumption
  DEF Init, ChainInit, DatabaseInit, IndexerInit, HInv, Blocks
<1> QED
  BY <1>1, NextHInv, TypeCorrect, PTL DEF Spec

(***************************************************************************)
(* The steps of the explorer as steps of the log.                          *)
(***************************************************************************)
Complete == {b \in Blocks : HasLogs(b) /\ Indexed(b)}

\* The invariant the mapping needs, of the state before and after a step.
LogInv == IInv /\ CInv /\ HInv

LEMMA FaultsGrow == TypeOK /\ [Next]_vars => faults \in Nat /\ faults' \in {faults, faults + 1}
<1> SUFFICES ASSUME TypeOK, [Next]_vars PROVE faults \in Nat /\ faults' \in {faults, faults + 1}
  OBVIOUS
<1>0. faults \in Nat
  BY ProcessAssumption DEF TypeOK, ProcessTypeOK
<1>1. Indexing => Fault \/ NoFault \/ faults' = faults
  BY DEF Indexing, IndexerStep, BackfillBegin, ChunkLoop, FetchChunk, HandleBlock,
         HandleTransactions, HandleFailed, HandleEvents, SkipEvents, AdvanceCursor, Handover,
         FetchAddresses, Poll, ExecuteCtx, Execute
<1>2. Retrying => Fault \/ NoFault \/ faults' = faults
  BY DEF Retrying, RetryStep, ListPending, FetchAndDecode, InsertRecovered, Resolve, Bump,
         Abandon, Execute
<1>3. Lifecycle => Fault \/ NoFault \/ faults' = faults
  BY DEF Lifecycle, Start, Crash, Shutdown, Exit, RetryStops, ChainGrows, Dies, procVars
<1>4. UNCHANGED vars => faults' = faults
  BY DEF vars, procVars
<1> QED
  BY <1>0, <1>1, <1>2, <1>3, <1>4 DEF Next, Lifecycle, Fault, NoFault

\* A step that leaves head and the cursor alone completes some blocks.
LEMMA CompletesBlocks ==
    ASSUME LogInv, LogInv', [Next]_vars, Accretes, UNCHANGED <<head, lastIndexed>>
    PROVE  IL!Call
<1>0. TypeOK /\ HInv /\ HInv'
  BY DEF LogInv, IInv
<1>1. Complete \subseteq Complete'
  BY <1>0, IndexedStays DEF Complete, HasLogs
<1>2. Complete' \in SUBSET {b \in {b \in Blocks : HasLogs(b)} : b <= head}
  <2> SUFFICES ASSUME NEW b \in Complete' PROVE b \in Blocks /\ HasLogs(b) /\ b <= head
    OBVIOUS
  <2>1. b \in Blocks /\ HasLogs(b) /\ b \in blocks'
    BY DEF Complete, Indexed, HasLogs, Blocks
  <2>2. blocks' \subseteq 0..head
    <3>1. blocks' \subseteq 0..head' /\ head' = head
      BY <1>0 DEF HInv
    <3> QED
      BY <3>1
  <2>3. b \in 0..head
    BY <2>1, <2>2
  <2> QED
    BY <2>1, <2>3
<1>3. Complete' = Complete \cup Complete'
  BY <1>1
<1>4. IL!Persist
  BY <1>2, <1>3 DEF IL!Persist, Complete
<1>5. (faults > 0)' = TRUE \/ (faults > 0)' = (faults > 0)
  <2>1. CASE faults = 0 /\ faults' = 0
    BY <2>1
  <2>2. CASE faults' > 0
    BY <2>2
  <2> QED
    BY <1>0, <2>1, <2>2, FaultsGrow
<1> QED
  BY <1>4, <1>5 DEF IL!Call

\* The last stage of a chunk moves the cursor over complete blocks.
LEMMA MovesCursor ==
    ASSUME LogInv, LogInv', [Next]_vars, Indexing, lastIndexed' # lastIndexed
    PROVE  IL!Call
<1>0. TypeOK /\ CInv /\ HInv' /\ NoGap' /\ head' = head
  BY DEF LogInv, IInv, Indexing
<1>1. /\ InStage4 /\ Running /\ ChunkEnd > 0
      /\ SetLastIndexedBlock(ChunkEnd)
      /\ UNCHANGED <<skipped, release>>
  BY <1>0, CursorWrite
<1>2. /\ head \in Nat /\ lastIndexed \in Nat /\ start \in Nat /\ ChunkEnd \in Nat
      /\ faults \in Nat
  BY <1>0, ChainAssumption, ProcessAssumption, ChunkEndType
  DEF TypeOK, IndexerTypeOK, DatabaseTypeOK, ProcessTypeOK, Blocks
<1>3. lastIndexed' = ChunkEnd /\ UNCHANGED <<blocks, actions, failedTxs>>
  BY <1>1 DEF SetLastIndexedBlock
<1>4. Complete' = Complete
  BY <1>1, <1>3 DEF Complete, HasLogs, Indexed, CallAccounted, TxsIn
<1>5. ChunkEnd \in 1..head
  BY <1>0, <1>1, <1>2, <1>3 DEF HInv
<1>6. IL!NoHoleUpTo(ChunkEnd)
  <2> SUFFICES ASSUME NEW b \in Blocks, HasLogs(b), BackfillFrom <= b, b <= ChunkEnd
               PROVE  b \in Complete
    BY DEF IL!NoHoleUpTo, Complete
  <2>1. Indexed(b)'
    BY <1>0, <1>3 DEF NoGap, Blocks
  <2> QED
    BY <1>4, <2>1 DEF Complete, HasLogs
<1>7. ChunkEnd >= lastIndexed \/ faults > 0
  <2>1. CASE faults = 0
    BY <1>0, <1>1, <1>2, <2>1, ChunkBounds DEF CInv, ChunkNotEmpty, NotBehind, InStage4, Running
  <2> QED
    BY <1>2, <2>1
<1>8. IL!Advance
  BY <1>3, <1>4, <1>5, <1>6, <1>7 DEF IL!Advance, Complete
<1>9. (faults > 0)' = TRUE \/ (faults > 0)' = (faults > 0)
  <2>1. CASE faults = 0 /\ faults' = 0
    BY <2>1
  <2>2. CASE faults' > 0
    BY <2>2
  <2> QED
    BY <1>0, <2>1, <2>2, FaultsGrow
<1> QED
  BY <1>0, <1>8, <1>9 DEF IL!Call

\* A block is added to the chain, and nothing else happens.
LEMMA GrowsChain == ChainGrows => IL!Grow
BY DEF ChainGrows, Extend, IL!Grow, dbVars, procVars, idxVars, HasLogs, Indexed,
       CallAccounted, TxsIn

\* Every step of the explorer is one of the log, or none.
LEMMA LogStep ==
    ASSUME LogInv, LogInv', [Next]_vars
    PROVE  [IL!Next]_(IL!vars)
<1>0. TypeOK
  BY DEF LogInv, IInv
<1>1. CASE Indexing
  <2>1. Accretes /\ head' = head
    BY <1>0, <1>1, StepAccretes DEF Indexing
  <2> QED
    BY <1>1, <2>1, CompletesBlocks, MovesCursor DEF IL!Next
<1>2. CASE Retrying
  <2>1. Accretes /\ head' = head /\ lastIndexed' = lastIndexed
    BY <1>0, <1>2, StepAccretes, RetryType DEF Retrying
  <2> QED
    BY <2>1, CompletesBlocks DEF IL!Next
<1>3. CASE ChainGrows
  BY <1>3, GrowsChain DEF IL!Next
<1>4. CASE Lifecycle /\ ~ChainGrows
  <2>1. Accretes /\ lastIndexed' = lastIndexed
    BY <1>0, <1>4, StepAccretes, LifecycleType DEF Quiet, dbVars
  <2>2. head' = head
    BY <1>4 DEF Lifecycle, Start, Crash, Shutdown, Exit, RetryStops, Dies
  <2> QED
    BY <2>1, <2>2, CompletesBlocks DEF IL!Next
<1>5. CASE UNCHANGED vars
  BY <1>5 DEF vars, dbVars, procVars, idxVars, IL!vars, HasLogs, Indexed, CallAccounted, TxsIn
<1> QED
  BY <1>1, <1>2, <1>3, <1>4, <1>5 DEF Next, Lifecycle

LEMMA LogInit == Init => IL!Init
<1> SUFFICES ASSUME Init PROVE IL!Init
  OBVIOUS
<1>1. ~(faults > 0) /\ lastIndexed = 0 /\ blocks = {} /\ head \in 0..MaxHead
  BY DEF Init, ChainInit, ProcessInit, DatabaseInit, Blocks
<1>2. {b \in Blocks : HasLogs(b) /\ Indexed(b)} = {}
  BY <1>1 DEF Indexed
<1> QED
  BY <1>1, <1>2 DEF IL!Init

\* The explorer implements IndexLog: through every interleaving of the two
\* goroutines, failed call, crash, restart and change of release, what a
\* reader sees of the tables behaves like a set of complete blocks that only
\* grows and a cursor that passes complete blocks only, goes back only after
\* a failed call, and never runs ahead of the chain (backfill.go:46, 240).
THEOREM IndexLogImplemented == Spec => ImplementsIndexLog
<1>1. Spec => []LogInv
  BY Inductive, CursorInductive, HeadInductive, PTL DEF LogInv
<1>2. LogInv /\ LogInv' /\ [Next]_vars => [IL!Next]_(IL!vars)
  BY LogStep
<1> QED
  BY <1>1, <1>2, LogInit, PTL DEF Spec, ImplementsIndexLog, IL!Spec

\* What every implementation of IndexLog owes its readers, by induction over
\* the steps of the log alone.
THEOREM LogHasNoHole == ImplementsIndexLog => []IL!NoHole
<1> DEFINE LInd == head \in Nat /\ lastIndexed \in 0..head /\ IL!NoHoleUpTo(lastIndexed)
<1>1. IL!Init => LInd
  <2> SUFFICES ASSUME IL!Init PROVE LInd
    OBVIOUS
  <2>1. head \in Nat /\ lastIndexed = 0
    BY ChainAssumption DEF IL!Init
  <2>2. ASSUME NEW b \in Blocks, HasLogs(b) PROVE ~(b <= 0)
    BY <2>2, ChainAssumption DEF HasLogs, Blocks
  <2>3. IL!NoHoleUpTo(0)
    BY <2>2 DEF IL!NoHoleUpTo
  <2> QED
    BY <2>1, <2>3
<1>2. LInd /\ [IL!Next]_(IL!vars) => LInd'
  <2> SUFFICES ASSUME LInd, [IL!Next]_(IL!vars) PROVE LInd'
    OBVIOUS
  <2>1. CASE IL!Grow
    BY <2>1 DEF IL!Grow, IL!NoHoleUpTo
  <2>2. CASE IL!Call /\ IL!Persist
    BY <2>2 DEF IL!Call, IL!Persist, IL!NoHoleUpTo, HasLogs
  <2>3. CASE IL!Call /\ IL!Advance
    BY <2>3 DEF IL!Call, IL!Advance, IL!NoHoleUpTo, HasLogs
  <2>4. CASE UNCHANGED IL!vars
    BY <2>4 DEF IL!vars, IL!NoHoleUpTo, HasLogs
  <2> QED
    BY <2>1, <2>2, <2>3, <2>4 DEF IL!Next, IL!Call
<1>3. LInd => IL!NoHole
  BY DEF IL!NoHole
<1> HIDE DEF LInd
<1> QED
  BY <1>1, <1>2, <1>3, PTL DEF ImplementsIndexLog, IL!Spec
=============================================================================
