--------------------------- MODULE ExplorerProofs ---------------------------
(***************************************************************************)
(* Theorems about the explorer, for every chain, every set of transactions *)
(* and every value of the other constants.                                 *)
(***************************************************************************)
EXTENDS ExplorerInvariant, TLAPS

(***************************************************************************)
(* One step of either goroutine is at most one statement.                  *)
(***************************************************************************)
Statement ==
    \/ \E b \in Blocks : InsertBlock(b)
    \/ \E T \in SUBSET Tx : InsertTransactionBatch(T)
    \/ \E t \in Tx : \/ InsertTransaction(t) \/ AppendEvents(t)
                     \/ InsertFailedTx(t) \/ IncrementRetryCount(t)
                     \/ MarkFailedTxResolved(t) \/ MarkFailedTxAbandoned(t)

\* What no statement takes back.
Grows ==
    /\ blocks \subseteq blocks'
    /\ \A t \in Tx :
          /\ actions[t].method => actions'[t].method
          /\ actions[t].events > 0 => actions'[t].events > 0
          /\ failedTxs[t].status # "none" => failedTxs'[t].status # "none"

LEMMA StatementStep ==
    ASSUME DatabaseTypeOK, Statement
    PROVE  DatabaseTypeOK' /\ Grows /\ lastIndexed' = lastIndexed
<1> USE DatabaseTypeOK DEF DatabaseTypeOK, Action, FailedTx, Statuses, Grows
<1>1. ASSUME NEW b \in Blocks, InsertBlock(b)
      PROVE  DatabaseTypeOK' /\ Grows /\ lastIndexed' = lastIndexed
  BY <1>1 DEF InsertBlock
<1>2. ASSUME NEW T \in SUBSET Tx, InsertTransactionBatch(T)
      PROVE  DatabaseTypeOK' /\ Grows /\ lastIndexed' = lastIndexed
  BY <1>2 DEF InsertTransactionBatch
<1>3. ASSUME NEW t \in Tx, InsertTransaction(t)
      PROVE  DatabaseTypeOK' /\ Grows /\ lastIndexed' = lastIndexed
  BY <1>3 DEF InsertTransaction
<1>4. ASSUME NEW t \in Tx, AppendEvents(t)
      PROVE  DatabaseTypeOK' /\ Grows /\ lastIndexed' = lastIndexed
  BY <1>4 DEF AppendEvents
<1>5. ASSUME NEW t \in Tx, InsertFailedTx(t)
      PROVE  DatabaseTypeOK' /\ Grows /\ lastIndexed' = lastIndexed
  BY <1>5 DEF InsertFailedTx
<1>6. ASSUME NEW t \in Tx, IncrementRetryCount(t)
      PROVE  DatabaseTypeOK' /\ Grows /\ lastIndexed' = lastIndexed
  BY <1>6 DEF IncrementRetryCount
<1>7. ASSUME NEW t \in Tx, MarkFailedTxResolved(t)
      PROVE  DatabaseTypeOK' /\ Grows /\ lastIndexed' = lastIndexed
  BY <1>7 DEF MarkFailedTxResolved
<1>8. ASSUME NEW t \in Tx, MarkFailedTxAbandoned(t)
      PROVE  DatabaseTypeOK' /\ Grows /\ lastIndexed' = lastIndexed
  BY <1>8 DEF MarkFailedTxAbandoned
<1> QED
  BY <1>1, <1>2, <1>3, <1>4, <1>5, <1>6, <1>7, <1>8 DEF Statement

LEMMA CursorStep ==
    ASSUME DatabaseTypeOK, NEW n \in Blocks,
           SetLastIndexedBlock(n) \/ UNCHANGED dbVars
    PROVE  DatabaseTypeOK' /\ Grows
BY DEF DatabaseTypeOK, SetLastIndexedBlock, dbVars, Grows

(***************************************************************************)
(* Type correctness.                                                       *)
(***************************************************************************)
LEMMA ChunkEndType ==
    ASSUME TypeOK
    PROVE  ChunkEnd \in Blocks /\ ChunkEnd + 1 \in 0..(MaxHead + 1)
BY ChainAssumption, IndexerAssumption DEF TypeOK, IndexerTypeOK, ChunkEnd, Blocks

LEMMA FaultType ==
    ASSUME TypeOK, Fault \/ NoFault
    PROVE  faults' \in 0..MaxFaults
BY ProcessAssumption DEF TypeOK, ProcessTypeOK, Fault, NoFault

\* A step that executes no statement, or one the server refused.
Quiet == UNCHANGED dbVars

LEMMA IndexerType == TypeOK /\ Indexing => TypeOK' /\ Grows
<1> SUFFICES ASSUME TypeOK, Indexing
             PROVE  TypeOK' /\ Grows
  OBVIOUS
<1> DEFINE Outcome == /\ DatabaseTypeOK' /\ Grows
                      /\ IndexerTypeOK'
                      /\ faults' \in 0..MaxFaults
<1>0. /\ head \in Blocks /\ head' = head
      /\ DatabaseTypeOK /\ IndexerTypeOK /\ ProcessTypeOK /\ RetryTypeOK
      /\ UNCHANGED <<proc, release, stops, retryVars>>
      /\ IndexerStep
  BY DEF TypeOK, Indexing
<1>q. Quiet => DatabaseTypeOK' /\ Grows
  BY <1>0, CursorStep DEF Quiet, dbVars, DatabaseTypeOK, Grows
<1>f. Fault \/ NoFault => faults' \in 0..MaxFaults
  BY FaultType
<1>t. /\ start \in 0..(MaxHead + 1) /\ to \in Blocks /\ batch \in Batch
      /\ leaked \in Nat /\ skipped \in SUBSET Tx /\ partial \in BOOLEAN
      /\ mode \in {"backfill", "live"}
  BY <1>0 DEF IndexerTypeOK
<1>e. Empty \in Batch
  BY DEF Empty, Batch
<1>b. ASSUME BackfillFails \/ BackfillCancelled, leaked' \in Nat, UNCHANGED skipped
      PROVE  IndexerTypeOK'
  BY <1>b, <1>t, <1>e
  DEF BackfillFails, BackfillCancelled, DropBatch, Goto, AfterError, IndexerTypeOK
<1>h. ASSUME NEW field \in {"blocks", "txs", "failed", "events"}, NEW S,
             Handled(field, S), leaked' \in Nat, UNCHANGED skipped
      PROVE  IndexerTypeOK'
  <2>1. batch' \in Batch
    BY <1>h, <1>t DEF Handled, Batch
  <2> QED
    BY <1>h, <1>0, <2>1 DEF Handled, IndexerTypeOK
<1>1. ASSUME BackfillBegin, UNCHANGED skipped PROVE Outcome
  <2>1. IndexerTypeOK'
    BY <1>1, <1>0, <1>t, <1>e
    DEF BackfillBegin, BackfillFails, BackfillCancelled, DropBatch, Goto, AfterError,
        IndexerTypeOK, Blocks
  <2> QED
    BY <1>1, <1>q, <1>f, <2>1 DEF BackfillBegin, Quiet
<1>2. ASSUME ChunkLoop, UNCHANGED skipped PROVE Outcome
  <2>1. IndexerTypeOK'
    BY <1>2, <1>t DEF ChunkLoop, Goto, IndexerTypeOK
  <2> QED
    BY <1>2, <1>q, <1>f, <2>1 DEF ChunkLoop, Quiet, NoFault
<1>3. ASSUME FetchChunk, UNCHANGED skipped PROVE Outcome
  <2>1. ASSUME NEW B \in SUBSET Blocks
        PROVE  Fetched(B, LogsBetween(start, ChunkEnd)) \in Batch
    BY <2>1, ChainAssumption DEF Fetched, Batch, TxsIn, LogsBetween
  <2>2. {BlockOf[t] : t \in LogsBetween(start, ChunkEnd)} \in SUBSET Blocks
    BY ChainAssumption DEF LogsBetween, Blocks
  <2>3. IndexerTypeOK'
    BY <1>3, <1>t, <1>e, <2>1, <2>2
    DEF FetchChunk, BackfillFails, BackfillCancelled, DropBatch, Goto, AfterError,
        IndexerTypeOK
  <2> QED
    BY <1>3, <1>q, <1>f, <2>3 DEF FetchChunk, Quiet
<1>4. ASSUME NEW b \in Blocks, HandleBlock(b), UNCHANGED skipped
      PROVE  Outcome
  <2>1. IndexerTypeOK'
    BY <1>4, <1>t, <1>b, <1>h DEF HandleBlock, ExecuteCtx, Execute
  <2>2. Statement \/ Quiet
    BY <1>4 DEF HandleBlock, ExecuteCtx, Execute, Statement, Quiet
  <2> QED
    BY <1>4, <1>0, <1>q, <1>f, <2>1, <2>2, StatementStep DEF HandleBlock, ExecuteCtx, Execute
<1>5. ASSUME NEW b \in Blocks, HandleTransactions(b), UNCHANGED skipped
      PROVE  Outcome
  <2>1. batch.txs \cap TxsIn({b}) \in SUBSET Tx
    BY DEF TxsIn
  <2>2. IndexerTypeOK'
    BY <1>5, <1>t, <1>b, <1>h DEF HandleTransactions, ExecuteCtx, Execute
  <2>3. Statement \/ Quiet
    BY <1>5, <2>1 DEF HandleTransactions, ExecuteCtx, Execute, Statement, Quiet
  <2> QED
    BY <1>5, <1>0, <1>q, <1>f, <2>2, <2>3, StatementStep
    DEF HandleTransactions, ExecuteCtx, Execute
<1>6. ASSUME NEW t \in Tx, HandleFailed(t), UNCHANGED skipped
      PROVE  Outcome
  <2>1. IndexerTypeOK'
    BY <1>6, <1>t, <1>b, <1>h DEF HandleFailed, ExecuteCtx, Execute
  <2>2. Statement \/ Quiet
    BY <1>6 DEF HandleFailed, ExecuteCtx, Execute, Statement, Quiet
  <2> QED
    BY <1>6, <1>0, <1>q, <1>f, <2>1, <2>2, StatementStep DEF HandleFailed, ExecuteCtx, Execute
<1>7. ASSUME NEW t \in Tx, HandleEvents(t), UNCHANGED skipped
      PROVE  Outcome
  <2>1. IndexerTypeOK'
    BY <1>7, <1>t, <1>b, <1>h DEF HandleEvents, ExecuteCtx, Execute
  <2>2. Statement \/ Quiet
    BY <1>7 DEF HandleEvents, ExecuteCtx, Execute, Statement, Quiet
  <2> QED
    BY <1>7, <1>0, <1>q, <1>f, <2>1, <2>2, StatementStep DEF HandleEvents, ExecuteCtx, Execute
<1>8. ASSUME NEW t \in Tx, SkipEvents(t)
      PROVE  Outcome
  <2>1. IndexerTypeOK'
    BY <1>8, <1>t DEF SkipEvents, Handled, IndexerTypeOK, Batch, InStage4
  <2> QED
    BY <1>8, <1>q, <1>f, <2>1 DEF SkipEvents, Quiet
<1>9. ASSUME AdvanceCursor, UNCHANGED skipped PROVE Outcome
  <2>1. IndexerTypeOK'
    BY <1>9, <1>t, <1>e, ChunkEndType
    DEF AdvanceCursor, ExecuteCtx, Execute, BackfillFails, BackfillCancelled,
        DropBatch, Goto, AfterError, IndexerTypeOK
  <2>2. SetLastIndexedBlock(ChunkEnd) \/ UNCHANGED dbVars
    BY <1>9 DEF AdvanceCursor, ExecuteCtx, Execute
  <2>3. DatabaseTypeOK' /\ Grows
    BY <1>0, <2>2, ChunkEndType, CursorStep
  <2> QED
    BY <1>9, <1>f, <2>1, <2>3 DEF AdvanceCursor, ExecuteCtx, Execute
<1>10. ASSUME Handover, UNCHANGED skipped PROVE Outcome
  <2>1. lastIndexed \in 0..MaxHead /\ MaxHead \in Nat
    BY <1>0, ChainAssumption DEF DatabaseTypeOK, Blocks
  <2>2. start' \in 0..(MaxHead + 1)
    BY <1>10, <2>1 DEF Handover
  <2>3. IndexerTypeOK'
    BY <1>10, <1>t, <2>2 DEF Handover, Goto, IndexerTypeOK
  <2> QED
    BY <1>10, <1>q, <1>f, <2>3 DEF Handover, Quiet
<1>11. ASSUME FetchAddresses, UNCHANGED skipped PROVE Outcome
  <2>1. IndexerTypeOK'
    BY <1>11, <1>t DEF FetchAddresses, Goto, IndexerTypeOK
  <2> QED
    BY <1>11, <1>q, <1>f, <2>1 DEF FetchAddresses, Quiet
<1>12. ASSUME Poll, UNCHANGED skipped PROVE Outcome
  <2>1. IndexerTypeOK'
    BY <1>12, <1>0, <1>t DEF Poll, Goto, IndexerTypeOK
  <2> QED
    BY <1>12, <1>q, <1>f, <2>1 DEF Poll, Quiet
<1>13. Outcome
  BY <1>0, <1>1, <1>2, <1>3, <1>4, <1>5, <1>6, <1>7, <1>8, <1>9, <1>10, <1>11, <1>12
  DEF IndexerStep
<1> QED
  BY <1>0, <1>13 DEF TypeOK, ProcessTypeOK, RetryTypeOK, retryVars

LEMMA RetryType == TypeOK /\ Retrying => /\ TypeOK' /\ Grows
                                        /\ lastIndexed' = lastIndexed
<1> SUFFICES ASSUME TypeOK, Retrying
             PROVE  TypeOK' /\ Grows /\ lastIndexed' = lastIndexed
  OBVIOUS
<1>0. /\ head \in Blocks /\ head' = head
      /\ DatabaseTypeOK /\ IndexerTypeOK /\ ProcessTypeOK /\ RetryTypeOK
      /\ UNCHANGED <<proc, release, stops, idxVars>>
      /\ RetryStep
  BY DEF TypeOK, Retrying
<1>q. Quiet => DatabaseTypeOK' /\ Grows /\ lastIndexed' = lastIndexed
  BY <1>0 DEF Quiet, dbVars, DatabaseTypeOK, Grows
<1>n. NextRecord \/ (\E label \in {"resolve", "bump"} : Continue(label)) => RetryTypeOK'
  BY <1>0 DEF NextRecord, Continue, RetryTypeOK
<1> DEFINE Outcome == /\ Statement \/ Quiet
                      /\ Fault \/ NoFault
                      /\ RetryTypeOK'
<1>1. ASSUME ListPending PROVE Outcome
  <2>1. ASSUME NEW S \in PendingLists(MaxRetry, BatchLimit)
        PROVE  S \in SUBSET Tx
    BY DEF PendingLists, Retriable
  <2> QED
    BY <1>0, <1>1, <2>1 DEF ListPending, RetryTypeOK, Quiet, NoFault
<1>2. ASSUME NEW t \in Tx, FetchAndDecode(t) PROVE Outcome
  <2>1. Decodes[t][release] \in Outcomes
    BY <1>0, ChainAssumption DEF ProcessTypeOK
  <2>2. rpc' \in {"insert", "bump", "abandon"}
    BY <1>2, <2>1 DEF FetchAndDecode, Outcomes
  <2> QED
    BY <1>0, <1>2, <2>2 DEF FetchAndDecode, RetryTypeOK, Quiet
<1>3. ASSUME NEW t \in Tx, InsertRecovered(t) PROVE Outcome
  BY <1>3, <1>n DEF InsertRecovered, Execute, Statement, Quiet, NoFault
<1>4. ASSUME NEW t \in Tx, Resolve(t) PROVE Outcome
  BY <1>4, <1>n DEF Resolve, Execute, Statement, Quiet
<1>5. ASSUME NEW t \in Tx, Bump(t) PROVE Outcome
  BY <1>5, <1>n DEF Bump, Execute, Statement, Quiet
<1>6. ASSUME NEW t \in Tx, Abandon(t) PROVE Outcome
  BY <1>6, <1>n DEF Abandon, Execute, Statement, Quiet
<1>7. Outcome
  BY <1>0, <1>1, <1>2, <1>3, <1>4, <1>5, <1>6 DEF RetryStep
<1>8. DatabaseTypeOK' /\ Grows /\ lastIndexed' = lastIndexed
  BY <1>0, <1>7, <1>q, StatementStep
<1> QED
  BY <1>0, <1>7, <1>8, FaultType DEF TypeOK, ProcessTypeOK, IndexerTypeOK, idxVars

\* The steps of main and of the chain touch no table.
Lifecycle == Start \/ Crash \/ Shutdown \/ Exit \/ RetryStops \/ ChainGrows

LEMMA LifecycleType == TypeOK /\ Lifecycle => TypeOK' /\ Quiet
<1> SUFFICES ASSUME TypeOK, Lifecycle
             PROVE  TypeOK' /\ Quiet
  OBVIOUS
<1>0. /\ head \in Blocks /\ MaxHead \in Nat
      /\ DatabaseTypeOK /\ IndexerTypeOK /\ ProcessTypeOK /\ RetryTypeOK
  BY ChainAssumption DEF TypeOK
<1>q. Quiet => DatabaseTypeOK'
  BY <1>0 DEF Quiet, dbVars, DatabaseTypeOK
<1>e. Empty \in Batch
  BY DEF Empty, Batch
<1>d. ASSUME Dies, stops' \in 0..MaxStops
      PROVE  TypeOK' /\ Quiet
  <2>0. start' \in 0..(MaxHead + 1) /\ to' \in Blocks /\ leaked' \in Nat
    BY <1>d, <1>0 DEF Dies, Blocks
  <2>1. IndexerTypeOK' /\ RetryTypeOK'
    BY <1>d, <1>0, <1>e, <2>0 DEF Dies, Goto, DropBatch, IndexerTypeOK, RetryTypeOK
  <2>2. ProcessTypeOK'
    BY <1>d, <1>0 DEF Dies, ProcessTypeOK
  <2> QED
    BY <1>d, <1>0, <1>q, <2>1, <2>2 DEF Dies, TypeOK, Quiet
<1>s. stops < MaxStops /\ stops' = stops + 1 => stops' \in 0..MaxStops
  BY <1>0, ProcessAssumption DEF ProcessTypeOK
<1>1. CASE Start
  <2>1. start' \in 0..(MaxHead + 1)
    BY <1>1, <1>0, IndexerAssumption DEF Start, DatabaseTypeOK, Blocks
  <2>2. IndexerTypeOK' /\ RetryTypeOK'
    BY <1>1, <1>0, <2>1 DEF Start, IndexerTypeOK, RetryTypeOK
  <2>3. ProcessTypeOK'
    BY <1>1, <1>0, FaultType DEF Start, ProcessTypeOK
  <2> QED
    BY <1>1, <1>0, <1>q, <2>2, <2>3 DEF Start, TypeOK, Quiet
<1>2. CASE Crash
  BY <1>2, <1>d, <1>s DEF Crash
<1>3. CASE Shutdown
  <2>1. IndexerTypeOK' /\ RetryTypeOK' /\ ProcessTypeOK'
    BY <1>3, <1>0, <1>s
    DEF Shutdown, IndexerTypeOK, RetryTypeOK, ProcessTypeOK, retryVars
  <2> QED
    BY <1>3, <1>0, <1>q, <2>1 DEF Shutdown, TypeOK, Quiet
<1>4. CASE Exit
  BY <1>4, <1>0, <1>d DEF Exit, ProcessTypeOK
<1>5. CASE RetryStops
  <2>1. IndexerTypeOK' /\ RetryTypeOK' /\ ProcessTypeOK'
    BY <1>5, <1>0
    DEF RetryStops, IndexerTypeOK, RetryTypeOK, ProcessTypeOK, idxVars, procVars
  <2> QED
    BY <1>5, <1>0, <1>q, <2>1 DEF RetryStops, TypeOK, Quiet
<1>6. CASE ChainGrows
  <2>1. IndexerTypeOK' /\ RetryTypeOK' /\ ProcessTypeOK'
    BY <1>6, <1>0
    DEF ChainGrows, IndexerTypeOK, RetryTypeOK, ProcessTypeOK, idxVars, procVars,
        retryVars
  <2>2. head' \in Blocks
    BY <1>6, <1>0 DEF ChainGrows, Extend, Blocks
  <2> QED
    BY <1>6, <1>0, <1>q, <2>1, <2>2 DEF ChainGrows, TypeOK, Quiet
<1> QED
  BY <1>1, <1>2, <1>3, <1>4, <1>5, <1>6 DEF Lifecycle

LEMMA StutterType == TypeOK /\ UNCHANGED vars => TypeOK'
BY DEF TypeOK, vars, dbVars, procVars, idxVars, retryVars, DatabaseTypeOK,
       ProcessTypeOK, IndexerTypeOK, RetryTypeOK

LEMMA InitType == Init => TypeOK
<1> SUFFICES ASSUME Init PROVE TypeOK
  OBVIOUS
<1>1. DatabaseTypeOK
  BY ChainAssumption
  DEF Init, DatabaseInit, DatabaseTypeOK, NoAction, NoFailure, Action, FailedTx,
      Statuses, Blocks
<1>2. IndexerTypeOK
  <2>1. 0 \in 0..(MaxHead + 1) /\ 0 \in Blocks /\ 0 \in Nat
    BY ChainAssumption DEF Blocks
  <2>2. Empty \in Batch
    BY DEF Empty, Batch
  <2> QED
    BY <2>1, <2>2 DEF Init, IndexerInit, IndexerTypeOK
<1>3. ProcessTypeOK
  BY ChainAssumption, ProcessAssumption DEF Init, ProcessInit, ProcessTypeOK, Releases
<1>4. RetryTypeOK
  BY DEF Init, RetryInit, RetryTypeOK
<1> QED
  BY <1>1, <1>2, <1>3, <1>4 DEF Init, ChainInit, TypeOK

\* The variables keep their types: in particular the cursor and the progress
\* of the goroutine never leave the chain, for every chunk size.
THEOREM TypeCorrect == Spec => []TypeOK
<1>1. Init => TypeOK
  BY InitType
<1>2. TypeOK /\ [Next]_vars => TypeOK'
  BY IndexerType, RetryType, LifecycleType, StutterType DEF Next, Lifecycle
<1> QED
  BY <1>1, <1>2, PTL DEF Spec
(***************************************************************************)
(* No hole behind the cursor.  First, what is recorded of a block is never *)
(* taken back, by any step of any actor.                                   *)
(***************************************************************************)
\* What a step adds to: the tables, the log, the release.
Accretes ==
    /\ Grows
    /\ skipped \subseteq skipped'
    /\ release' \in Releases /\ release <= release'

LEMMA StepAccretes ==
    ASSUME TypeOK, Indexing \/ Retrying \/ Lifecycle
    PROVE  Accretes
<1>0. release \in Nat /\ release \in Releases
  BY ChainAssumption DEF TypeOK, ProcessTypeOK, Releases
<1>q. Quiet => Grows
  BY DEF Quiet, dbVars, Grows
<1>1. CASE Indexing
  <2>1. skipped \subseteq skipped'
    BY <1>1 DEF Indexing, IndexerStep, SkipEvents
  <2> QED
    BY <1>0, <1>1, <2>1, IndexerType DEF Accretes, Indexing
<1>2. CASE Retrying
  BY <1>0, <1>2, RetryType DEF Accretes, Retrying, idxVars
<1>3. CASE Lifecycle
  <2>1. skipped \subseteq skipped' /\ release' \in Releases /\ release <= release'
    BY <1>0, <1>3
    DEF Lifecycle, Start, Crash, Shutdown, Exit, RetryStops, ChainGrows, Dies,
        idxVars, procVars
  <2> QED
    BY <1>3, <1>q, <2>1, LifecycleType DEF Accretes
<1> QED
  BY <1>1, <1>2, <1>3

LEMMA AccountedStays ==
    ASSUME TypeOK, Accretes, NEW t \in Tx, CallAccounted(t)
    PROVE  CallAccounted(t)'
<1>1. PICK r \in 1..release :
          \/ Decodes[t][r] = "ok" /\ actions[t].method
          \/ Decodes[t][r] = "malformed" /\ failedTxs[t].status # "none"
          \/ Decodes[t][r] = "unknown"
  BY DEF CallAccounted
<1>2. r \in 1..release'
  BY ChainAssumption DEF Accretes, TypeOK, ProcessTypeOK, Releases
<1> QED
  BY <1>1, <1>2 DEF CallAccounted, Accretes, Grows

LEMMA IndexedStays ==
    ASSUME TypeOK, Accretes, NEW b \in Blocks, Indexed(b)
    PROVE  Indexed(b)'
BY AccountedStays DEF Indexed, TxsIn, HasLogs, Accretes, Grows

LEMMA CoveredStays ==
    ASSUME TypeOK, Accretes, batch' = batch, NEW b, Covered(b)
    PROVE  Covered(b)'
BY AccountedStays DEF Covered, TxsIn, HasLogs, Accretes, Grows

\* A chunk with nothing left to persist is indexed.
LEMMA CoveredIsIndexed ==
    ASSUME NEW b, Covered(b), batch.blocks = {}, batch.txs = {},
           batch.failed = {}, batch.events = {}
    PROVE  Indexed(b)
BY DEF Covered, Indexed

\* The genesis block owes nothing.
LEMMA GenesisIndexed == Indexed(0)
BY ChainAssumption DEF Indexed, HasLogs

(***************************************************************************)
(* The parts of the invariant that a step disturbs, by kind of step.       *)
(***************************************************************************)
Rest == NoGap /\ HandledBefore /\ PartialIsCancelled /\ ChunkCovered

LEMMA NoGapStays ==
    ASSUME TypeOK, Accretes, NoGap, lastIndexed' = lastIndexed
    PROVE  NoGap'
BY IndexedStays DEF NoGap

LEMMA HandledStays ==
    ASSUME TypeOK, Accretes, HandledBefore, start' = start
    PROVE  HandledBefore'
BY IndexedStays DEF HandledBefore

\* A step of another actor.
LEMMA IndexerAtRest ==
    ASSUME TypeOK, Accretes, Rest, lastIndexed' = lastIndexed,
           UNCHANGED <<ipc, start, to, batch, partial, release>>,
           proc' = proc \/ (proc = "running" /\ proc' = "stopping")
    PROVE  Rest'
<1>1. PartialIsCancelled'
  BY DEF Rest, PartialIsCancelled, Stopping
<1>2. ChunkCovered'
  BY CoveredStays DEF Rest, ChunkCovered, ChunkEnd
<1> QED
  BY <1>1, <1>2, NoGapStays, HandledStays DEF Rest

\* The indexer is outside DBHandler after the step.
LEMMA OutsideHandler ==
    ASSUME TypeOK, Accretes, Rest, lastIndexed' = lastIndexed,
           ipc' # "handle", partial' = FALSE, HandledBefore'
    PROVE  Rest'
BY NoGapStays DEF Rest, PartialIsCancelled, ChunkCovered

LEMMA LifecycleRest == IInv /\ Lifecycle => Rest'
<1> SUFFICES ASSUME IInv, Lifecycle PROVE Rest'
  OBVIOUS
<1>0. TypeOK /\ Rest /\ Accretes /\ lastIndexed' = lastIndexed
  BY StepAccretes, LifecycleType DEF IInv, Rest, Quiet, dbVars
<1>d. Dies => Rest'
  <2> SUFFICES ASSUME Dies PROVE Rest'
    OBVIOUS
  <2>1. HandledBefore'
    BY ChainAssumption DEF Dies, HandledBefore, Blocks
  <2> QED
    BY <1>0, <2>1, OutsideHandler DEF Dies, Goto, DropBatch
<1>1. CASE Start
  <2>1. HandledBefore'
    <3>1. CASE start' = BackfillFrom
      BY <3>1, IndexerAssumption DEF HandledBefore, Blocks
    <3>2. CASE start' = lastIndexed + 1
      BY <3>2, <1>0, IndexedStays
      DEF Rest, NoGap, HandledBefore, TypeOK, DatabaseTypeOK, Blocks
    <3> QED
      BY <1>1, <3>1, <3>2 DEF Start
  <2>2. partial' = FALSE
    BY <1>0, <1>1 DEF Rest, PartialIsCancelled, Start, Stopping, TypeOK, IndexerTypeOK
  <2> QED
    BY <1>0, <1>1, <2>1, <2>2, OutsideHandler DEF Start
<1>2. CASE Crash \/ Exit
  BY <1>2, <1>d DEF Crash, Exit
<1>3. CASE Shutdown
  BY <1>0, <1>3, IndexerAtRest DEF Shutdown
<1>4. CASE RetryStops \/ ChainGrows
  BY <1>0, <1>4, IndexerAtRest DEF RetryStops, ChainGrows, procVars, idxVars
<1> QED
  BY <1>1, <1>2, <1>3, <1>4 DEF Lifecycle

LEMMA RetryRest == IInv /\ Retrying => Rest'
<1> SUFFICES ASSUME IInv, Retrying PROVE Rest'
  OBVIOUS
<1>0. TypeOK /\ Rest /\ Accretes /\ lastIndexed' = lastIndexed
  BY StepAccretes, RetryType DEF IInv, Rest
<1> QED
  BY <1>0, IndexerAtRest DEF Retrying, idxVars
(***************************************************************************)
(* The steps of DBHandler.                                                 *)
(***************************************************************************)
\* A failing or cancelled step leaves DBHandler, and the chunk undone.
LEMMA FailedStep ==
    ASSUME IInv, Indexing, BackfillFails \/ BackfillCancelled,
           lastIndexed' = lastIndexed
    PROVE  Rest'
<1>1. TypeOK /\ Rest /\ Accretes
  BY StepAccretes DEF IInv, Rest
<1>2. ipc' # "handle" /\ partial' = FALSE /\ start' = start
  BY DEF BackfillFails, BackfillCancelled, Goto, AfterError, DropBatch
<1> QED
  BY <1>1, <1>2, HandledStays, OutsideHandler DEF Rest

\* A step of a stage takes something off batch that it has just persisted.
LEMMA HandlerStep ==
    ASSUME IInv, Indexing, ipc = "handle", lastIndexed' = lastIndexed,
           NEW field \in {"blocks", "txs", "failed", "events"},
           NEW S \in SUBSET (Blocks \cup Tx), Handled(field, S),
           field = "blocks" => S \subseteq blocks',
           field = "txs" => \A t \in S \cap Tx : actions'[t].method,
           field = "failed" => \A t \in S \cap Tx : failedTxs'[t].status # "none",
           field = "events" => \A t \in S \cap Tx :
                                  actions'[t].events > 0 \/ t \in skipped'
    PROVE  Rest'
<1>0. TypeOK /\ Rest /\ Accretes
  BY StepAccretes DEF IInv, Rest
<1>1. /\ UNCHANGED <<ipc, start, to, partial, proc, release>>
      /\ batch' = [batch EXCEPT ![field] = @ \ S]
      /\ batch \in Batch
  BY <1>0 DEF Handled, Indexing, TypeOK, IndexerTypeOK
<1>2. /\ batch'.blocks \subseteq batch.blocks /\ batch'.txs \subseteq batch.txs
      /\ batch'.failed \subseteq batch.failed /\ batch'.events \subseteq batch.events
  BY <1>1 DEF Batch
<1>3. /\ batch.blocks \ batch'.blocks \subseteq blocks'
      /\ \A t \in batch.txs : t \in batch'.txs \/ actions'[t].method
      /\ \A t \in batch.failed : t \in batch'.failed \/ failedTxs'[t].status # "none"
      /\ \A t \in batch.events : \/ t \in batch'.events
                                 \/ actions'[t].events > 0
                                 \/ t \in skipped'
  BY <1>1 DEF Batch
<1>4. ASSUME NEW b, ~partial, b \in start..ChunkEnd
      PROVE  Covered(b)'
  <2>1. Covered(b)
    BY <1>0, <1>4 DEF Rest, ChunkCovered
  <2>2. ASSUME HasLogs(b) PROVE b \in blocks' \/ b \in batch'.blocks
    BY <2>1, <2>2, <1>0, <1>3 DEF Covered, Accretes, Grows
  <2>3. ASSUME HasLogs(b), NEW t \in TxsIn({b})
        PROVE  \/ CallAccounted(t)' \/ t \in batch'.txs \/ t \in batch'.failed
    <3>1. t \in Tx
      BY DEF TxsIn
    <3>2. release \in 1..release'
      BY <1>0, <1>1, ChainAssumption DEF TypeOK, ProcessTypeOK, Releases
    <3>3. CASE CallAccounted(t)
      BY <1>0, <3>1, <3>3, AccountedStays
    <3>4. CASE t \in batch.txs
      <4>1. Decodes[t][release] = "ok"
        BY <1>0, <3>4 DEF Rest, ChunkCovered
      <4> QED
        BY <1>3, <3>2, <3>4, <4>1 DEF CallAccounted
    <3>5. CASE t \in batch.failed
      <4>1. Decodes[t][release] = "malformed"
        BY <1>0, <3>5 DEF Rest, ChunkCovered
      <4> QED
        BY <1>3, <3>2, <3>5, <4>1 DEF CallAccounted
    <3> QED
      BY <2>1, <2>3, <3>3, <3>4, <3>5 DEF Covered
  <2>4. ASSUME HasLogs(b), NEW t \in TxsIn({b}), t \in Emits
        PROVE  actions'[t].events > 0 \/ t \in skipped' \/ t \in batch'.events
    BY <2>1, <2>4, <1>0, <1>3 DEF Covered, Accretes, Grows, TxsIn
  <2> QED
    BY <2>2, <2>3, <2>4 DEF Covered, HasLogs, TxsIn
<1>5. ChunkCovered'
  BY <1>0, <1>1, <1>2, <1>4 DEF Rest, ChunkCovered, ChunkEnd
<1>6. PartialIsCancelled'
  BY <1>0, <1>1 DEF Rest, PartialIsCancelled, Stopping
<1> QED
  BY <1>0, <1>1, <1>5, <1>6, NoGapStays, HandledStays DEF Rest

LEMMA StageRest ==
    ASSUME IInv, Indexing,
           \/ \E b \in Blocks : HandleBlock(b) \/ HandleTransactions(b)
           \/ \E t \in Tx : HandleFailed(t) \/ HandleEvents(t) \/ SkipEvents(t)
    PROVE  Rest'
<1>0. TypeOK /\ DatabaseTypeOK
  BY DEF IInv, TypeOK
<1>1. ASSUME NEW b \in Blocks, HandleBlock(b) PROVE Rest'
  <2>1. \/ InsertBlock(b) /\ Handled("blocks", {b})
        \/ /\ BackfillFails \/ BackfillCancelled
           /\ InsertBlock(b) \/ UNCHANGED dbVars
    BY <1>1 DEF HandleBlock, ExecuteCtx, Execute
  <2>2. lastIndexed' = lastIndexed
    BY <2>1 DEF InsertBlock, dbVars
  <2>3. CASE InsertBlock(b) /\ Handled("blocks", {b})
    BY <1>1, <2>2, <2>3, HandlerStep DEF HandleBlock, InsertBlock
  <2> QED
    BY <2>1, <2>2, <2>3, FailedStep
<1>2. ASSUME NEW b \in Blocks, HandleTransactions(b) PROVE Rest'
  <2> DEFINE T == batch.txs \cap TxsIn({b})
  <2>0. T \in SUBSET Tx
    BY DEF TxsIn
  <2>1. \/ InsertTransactionBatch(T) /\ Handled("txs", T)
        \/ /\ BackfillFails \/ BackfillCancelled
           /\ InsertTransactionBatch(T) \/ UNCHANGED dbVars
    BY <1>2 DEF HandleTransactions, ExecuteCtx, Execute
  <2>2. lastIndexed' = lastIndexed
    BY <2>1 DEF InsertTransactionBatch, dbVars
  <2>3. CASE InsertTransactionBatch(T) /\ Handled("txs", T)
    <3>1. \A t \in T \cap Tx : actions'[t].method
      BY <1>0, <2>3, <2>0 DEF InsertTransactionBatch, DatabaseTypeOK, Action
    <3> QED
      BY <1>2, <2>0, <2>2, <2>3, <3>1, HandlerStep DEF HandleTransactions
  <2> QED
    BY <2>1, <2>2, <2>3, FailedStep
<1>3. ASSUME NEW t \in Tx, HandleFailed(t) PROVE Rest'
  <2>1. \/ InsertFailedTx(t) /\ Handled("failed", {t})
        \/ /\ BackfillFails \/ BackfillCancelled
           /\ InsertFailedTx(t) \/ UNCHANGED dbVars
    BY <1>3 DEF HandleFailed, ExecuteCtx, Execute
  <2>2. lastIndexed' = lastIndexed
    BY <2>1 DEF InsertFailedTx, dbVars
  <2>3. CASE InsertFailedTx(t) /\ Handled("failed", {t})
    <3>1. failedTxs'[t].status # "none"
      BY <1>0, <2>3 DEF InsertFailedTx, DatabaseTypeOK, FailedTx
    <3> QED
      BY <1>3, <2>2, <2>3, <3>1, HandlerStep DEF HandleFailed
  <2> QED
    BY <2>1, <2>2, <2>3, FailedStep
<1>4. ASSUME NEW t \in Tx, HandleEvents(t) PROVE Rest'
  <2>1. \/ AppendEvents(t) /\ Handled("events", {t})
        \/ /\ BackfillFails \/ BackfillCancelled
           /\ AppendEvents(t) \/ UNCHANGED dbVars
    BY <1>4 DEF HandleEvents, ExecuteCtx, Execute
  <2>2. lastIndexed' = lastIndexed
    BY <2>1 DEF AppendEvents, dbVars
  <2>3. CASE AppendEvents(t) /\ Handled("events", {t})
    <3>1. actions'[t].events > 0
      BY <1>0, <2>3 DEF AppendEvents, DatabaseTypeOK, Action
    <3> QED
      BY <1>4, <2>2, <2>3, <3>1, HandlerStep DEF HandleEvents, InStage4
  <2> QED
    BY <2>1, <2>2, <2>3, FailedStep
<1>5. ASSUME NEW t \in Tx, SkipEvents(t) PROVE Rest'
  BY <1>5, HandlerStep DEF SkipEvents, InStage4, dbVars
<1> QED
  BY <1>1, <1>2, <1>3, <1>4, <1>5

\* The cursor and the next chunk move past a chunk that was fetched in full
\* and persisted, or past the genesis block alone.
LEMMA CursorRest ==
    ASSUME IInv, Indexing, AdvanceCursor
    PROVE  Rest'
<1>0. TypeOK /\ Rest /\ Accretes
  BY StepAccretes DEF IInv, Rest
<1>1. /\ start \in 0..(MaxHead + 1) /\ ChunkEnd \in Blocks
      /\ lastIndexed \in Blocks /\ MaxHead \in Nat /\ BackfillFrom \in Blocks
  BY <1>0, ChunkEndType, ChainAssumption, IndexerAssumption
  DEF TypeOK, IndexerTypeOK, DatabaseTypeOK
<1> DEFINE NextChunk == Goto("chunk") /\ start' = ChunkEnd + 1 /\ DropBatch
<1>2. \/ /\ NextChunk
         /\ ChunkEnd = 0 /\ lastIndexed' = lastIndexed
      \/ /\ NextChunk
         /\ Running /\ SetLastIndexedBlock(ChunkEnd)
      \/ /\ BackfillFails \/ BackfillCancelled
         /\ lastIndexed' = lastIndexed
      \/ /\ BackfillFails
         /\ Running /\ SetLastIndexedBlock(ChunkEnd)
  <2>1. CASE ChunkEnd > 0
    BY <2>1 DEF AdvanceCursor, ExecuteCtx, Execute, dbVars, Running, Stopping
  <2>2. CASE ~(ChunkEnd > 0)
    <3>1. ChunkEnd = 0
      BY <1>1, <2>2 DEF Blocks
    <3> QED
      BY <2>2, <3>1 DEF AdvanceCursor, dbVars
  <2> QED
    BY <2>1, <2>2
<1>n. NextChunk => ipc' = "chunk" /\ partial' = FALSE
  BY DEF Goto, DropBatch
<1>3. ASSUME Running, NEW b \in Blocks, BackfillFrom <= b, b <= ChunkEnd
      PROVE  Indexed(b)
  <2>1. CASE b < start
    BY <1>0, <1>3, <2>1 DEF Rest, HandledBefore
  <2>2. CASE b >= start
    <3>1. ipc = "handle" /\ ~partial
      BY <1>0, <1>3
      DEF AdvanceCursor, InStage4, Rest, PartialIsCancelled, Running, Stopping
    <3>2. Covered(b)
      BY <1>0, <1>1, <1>3, <2>2, <3>1 DEF Rest, ChunkCovered, Blocks
    <3> QED
      BY <3>2, CoveredIsIndexed DEF AdvanceCursor, InStage4
  <2> QED
    BY <1>1, <2>1, <2>2 DEF Blocks
<1>4. ASSUME Running, SetLastIndexedBlock(ChunkEnd)
      PROVE  NoGap'
  BY <1>0, <1>3, <1>4, IndexedStays DEF NoGap, SetLastIndexedBlock
<1>5. CASE NextChunk /\ ChunkEnd = 0 /\ lastIndexed' = lastIndexed
  <2>1. HandledBefore'
    <3> SUFFICES ASSUME NEW b \in Blocks, BackfillFrom <= b, b < start'
                 PROVE  Indexed(b)'
      BY DEF HandledBefore
    <3>1. b = 0
      BY <1>5 DEF Blocks
    <3> QED
      BY <1>0, <3>1, GenesisIndexed, IndexedStays
  <2> QED
    BY <1>0, <1>5, <1>n, <2>1, OutsideHandler
<1>6. CASE NextChunk /\ Running /\ SetLastIndexedBlock(ChunkEnd)
  <2>1. HandledBefore'
    <3> SUFFICES ASSUME NEW b \in Blocks, BackfillFrom <= b, b < start'
                 PROVE  Indexed(b)'
      BY DEF HandledBefore
    <3>1. b <= ChunkEnd
      BY <1>1, <1>6 DEF Blocks
    <3> QED
      BY <1>0, <1>3, <1>6, <3>1, IndexedStays
  <2> QED
    BY <1>4, <1>6, <1>n, <2>1 DEF Rest, PartialIsCancelled, ChunkCovered
<1>7. CASE BackfillFails /\ Running /\ SetLastIndexedBlock(ChunkEnd)
  <2>1. HandledBefore'
    BY <1>0, <1>7, HandledStays DEF Rest, BackfillFails
  <2>2. ipc' # "handle" /\ partial' = FALSE
    BY <1>7 DEF BackfillFails, Goto, AfterError, DropBatch
  <2> QED
    BY <1>4, <1>7, <2>1, <2>2 DEF Rest, PartialIsCancelled, ChunkCovered
<1>8. CASE (BackfillFails \/ BackfillCancelled) /\ lastIndexed' = lastIndexed
  BY <1>8, FailedStep
<1> QED
  BY <1>2, <1>5, <1>6, <1>7, <1>8
(***************************************************************************)
(* The other steps of the indexer.                                         *)
(***************************************************************************)
\* A fetched chunk covers its blocks: each transaction of a block with logs
\* is to be inserted, is to be retried, or is skipped as foreign.
LEMMA FetchRest ==
    ASSUME IInv, Indexing, FetchChunk
    PROVE  Rest'
<1>0. /\ TypeOK /\ Rest /\ Accretes
      /\ lastIndexed' = lastIndexed /\ UNCHANGED <<proc, release, to>>
  BY StepAccretes
  DEF IInv, Rest, FetchChunk, Indexing, dbVars, BackfillFails, BackfillCancelled
<1> DEFINE logs == LogsBetween(start, ChunkEnd)
           B == {BlockOf[t] : t \in logs}
<1>1. ASSUME NEW some \in SUBSET B, batch' = Fetched(some, logs), ipc' = "handle",
             UNCHANGED start, partial' => Stopping, ~partial' => some = B
      PROVE  Rest'
  <2>1. /\ \A t \in batch'.txs : Decodes[t][release'] = "ok"
        /\ \A t \in batch'.failed : Decodes[t][release'] = "malformed"
    BY <1>0, <1>1 DEF Fetched
  <2>2. ASSUME ~partial', NEW b \in start..ChunkEnd
        PROVE  Covered(b)'
    <3>1. ASSUME HasLogs(b) PROVE b \in batch'.blocks
      BY <1>1, <2>2, <3>1 DEF HasLogs, LogsBetween, Fetched
    <3>2. ASSUME HasLogs(b), NEW t \in TxsIn({b})
          PROVE  CallAccounted(t)' \/ t \in batch'.txs \/ t \in batch'.failed
      <4>1. t \in TxsIn(some) /\ t \in Tx
        BY <1>1, <2>2, <3>2 DEF HasLogs, LogsBetween, TxsIn
      <4>2. release \in Releases /\ release \in 1..release'
        BY <1>0, ChainAssumption DEF TypeOK, ProcessTypeOK, Releases
      <4>3. Decodes[t][release] \in Outcomes
        BY <4>1, <4>2, ChainAssumption
      <4> QED
        BY <1>1, <4>1, <4>2, <4>3 DEF Fetched, Outcomes, CallAccounted
    <3>3. ASSUME NEW t \in TxsIn({b}), t \in Emits PROVE t \in batch'.events
      BY <1>1, <2>2, <3>3 DEF LogsBetween, TxsIn, Fetched
    <3> QED
      BY <3>1, <3>2, <3>3 DEF Covered, HasLogs, TxsIn
  <2>3. ChunkCovered'
    BY <1>0, <1>1, <2>1, <2>2 DEF ChunkCovered, ChunkEnd
  <2>4. PartialIsCancelled'
    BY <1>0, <1>1 DEF PartialIsCancelled, Stopping
  <2> QED
    BY <1>0, <1>1, <2>3, <2>4, NoGapStays, HandledStays DEF Rest
<1>2. CASE BackfillFails \/ BackfillCancelled
  BY <1>0, <1>2, FailedStep
<1>3. CASE /\ batch' = Fetched(B, logs)
           /\ ipc' = "handle" /\ UNCHANGED <<start, partial>>
  <2>1. ~partial'
    BY <1>0, <1>3 DEF FetchChunk, Rest, PartialIsCancelled
  <2> QED
    BY <1>1, <1>3, <2>1
<1>4. CASE /\ Stopping /\ \E some \in SUBSET B : batch' = Fetched(some, logs)
           /\ ipc' = "handle" /\ UNCHANGED start /\ partial' = TRUE
  BY <1>1, <1>4
<1> QED
  BY <1>2, <1>3, <1>4 DEF FetchChunk, Goto

LEMMA LoopRest ==
    ASSUME IInv, Indexing,
           BackfillBegin \/ ChunkLoop \/ Handover \/ FetchAddresses \/ Poll
    PROVE  Rest'
<1>0. TypeOK /\ Rest /\ Accretes /\ lastIndexed' = lastIndexed
  BY StepAccretes
  DEF IInv, Rest, BackfillBegin, ChunkLoop, Handover, FetchAddresses, Poll, dbVars
<1>1. partial = FALSE
  BY <1>0
  DEF Rest, PartialIsCancelled, TypeOK, IndexerTypeOK, BackfillBegin, ChunkLoop,
      Handover, FetchAddresses, Poll
<1>2. CASE BackfillBegin \/ ChunkLoop \/ FetchAddresses \/ Poll
  <2>1. CASE BackfillFails \/ BackfillCancelled
    BY <1>0, <2>1, FailedStep
  <2>2. CASE ipc' # "handle" /\ UNCHANGED <<start, partial>>
    BY <1>0, <1>1, <2>2, HandledStays, OutsideHandler DEF Rest
  <2> QED
    BY <1>2, <2>1, <2>2 DEF BackfillBegin, ChunkLoop, FetchAddresses, Poll, Goto
<1>3. CASE Handover
  <2>1. HandledBefore'
    <3> SUFFICES ASSUME NEW b \in Blocks, BackfillFrom <= b, b < start'
                 PROVE  Indexed(b)'
      BY DEF HandledBefore
    <3>1. CASE start' = lastIndexed + 1
      <4>1. b <= lastIndexed
        BY <1>0, <3>1 DEF TypeOK, DatabaseTypeOK, Blocks
      <4> QED
        BY <1>0, <4>1, IndexedStays DEF Rest, NoGap
    <3>2. CASE start' = 1
      <4>1. b = 0
        BY <3>2 DEF Blocks
      <4> QED
        BY <1>0, <4>1, GenesisIndexed, IndexedStays
    <3> QED
      BY <1>3, <3>1, <3>2 DEF Handover
  <2> QED
    BY <1>0, <1>1, <1>3, <2>1, OutsideHandler DEF Handover, Goto
<1> QED
  BY <1>2, <1>3

(***************************************************************************)
(* The theorem.                                                            *)
(***************************************************************************)
LEMMA InitIInv == Init => IInv
<1> SUFFICES ASSUME Init PROVE IInv
  OBVIOUS
<1>1. TypeOK
  BY InitType
<1>2. start = 0 /\ lastIndexed = 0 /\ ipc = "off" /\ partial = FALSE
  BY DEF Init, IndexerInit, DatabaseInit
<1>3. NoGap
  <2> SUFFICES ASSUME NEW b \in Blocks, BackfillFrom <= b, b <= lastIndexed
               PROVE  Indexed(b)
    BY DEF NoGap
  <2>1. b = 0
    BY <1>2 DEF Blocks
  <2> QED
    BY <2>1, GenesisIndexed
<1>4. HandledBefore
  BY <1>2 DEF HandledBefore, Blocks
<1>5. PartialIsCancelled /\ ChunkCovered
  BY <1>2 DEF PartialIsCancelled, ChunkCovered
<1> QED
  BY <1>1, <1>3, <1>4, <1>5 DEF IInv

LEMMA NextIInv == IInv /\ [Next]_vars => IInv'
<1> SUFFICES ASSUME IInv, [Next]_vars PROVE IInv'
  OBVIOUS
<1>1. CASE Lifecycle
  BY <1>1, LifecycleRest, LifecycleType DEF IInv, Rest
<1>2. CASE Retrying
  BY <1>2, RetryRest, RetryType DEF IInv, Rest
<1>3. CASE Indexing
  <2>1. Rest'
    BY <1>3, LoopRest, FetchRest, StageRest, CursorRest DEF Indexing, IndexerStep
  <2> QED
    BY <1>3, <2>1, IndexerType DEF IInv, Rest
<1>4. CASE UNCHANGED vars
  <2>1. TypeOK /\ Rest
    BY DEF IInv, Rest
  <2>2. Accretes
    BY <1>4, <2>1, ChainAssumption
    DEF vars, dbVars, procVars, idxVars, Accretes, Grows, TypeOK, ProcessTypeOK, Releases
  <2> QED
    BY <1>4, <2>1, <2>2, IndexerAtRest, StutterType
    DEF IInv, Rest, vars, dbVars, procVars, idxVars
<1> QED
  BY <1>1, <1>2, <1>3, <1>4 DEF Next, Lifecycle

\* The strengthening is an invariant of the explorer.
THEOREM Inductive == Spec => []IInv
<1> QED
  BY InitIInv, NextIInv, PTL DEF Spec

\* Inside DBHandler (db_handler.go:15-80) every block of a chunk fetched in
\* full is in the database or among what is still to be written.
THEOREM ChunkCoveredHolds == Spec => []ChunkCovered
<1>1. IInv => ChunkCovered
  BY DEF IInv
<1> QED
  BY <1>1, Inductive, PTL

\* No hole behind the cursor (main.go:59-61 relies on it at every restart):
\* whatever calls fail, wherever the process is stopped and whichever release
\* it is restarted with, a block with logs that the cursor has passed has its
\* row, its calls and, unless the log says they were skipped, its events.
THEOREM NoGapHolds == Spec => []NoGap
<1>1. IInv => NoGap
  BY DEF IInv
<1> QED
  BY <1>1, Inductive, PTL
=============================================================================
