------------------------------- MODULE Indexer ------------------------------
(***************************************************************************)
(* The indexer goroutine of main.go: Backfill over the history, then       *)
(* LiveIndexing, each chunk of blocks persisted by DBHandler.              *)
(*                                                                         *)
(* The goroutine's program counter ipc is the call it is about to make:    *)
(*   "off"        the process is down                                      *)
(*   "backfill"   Backfill asks for the latest block                       *)
(*   "chunk"      head of Backfill's chunk loop                            *)
(*   "fetch"      GetLogs and the worker pool of the chunk                 *)
(*   "handle"     inside DBHandler                                         *)
(*   "handover"   main reads the cursor between backfill and live          *)
(*   "addresses"  LiveIndexing fetches the contract addresses              *)
(*   "live"       LiveIndexing polls the latest block                      *)
(*   "dead"       the goroutine has returned; nothing restarts it          *)
(*                                                                         *)
(* The chunk's fetch is one action because the chain below head never      *)
(* changes, and only its outcomes matter here: how the split requests and  *)
(* the workers of a fetch interleave is the matter of GetLogs and          *)
(* WorkerPool.                                                             *)
(***************************************************************************)
EXTENDS Process

CONSTANTS
    BackfillFrom,  \* BACKFILL_FROM, where a first backfill starts
    ChunkSize      \* CHUNK_SIZE, blocks per eth_getLogs call

ASSUME IndexerAssumption == BackfillFrom \in Blocks /\ ChunkSize \in Nat \ {0}

VARIABLES
    ipc,     \* program counter
    mode,    \* the loop Backfill runs in: "backfill" or "live"
    start,   \* first block not handled yet; LiveIndexing's lastBlock + 1
    to,      \* last block of the running Backfill call
    batch,   \* what DBHandler still has to persist of the chunk
    partial, \* some workers of the chunk quit on a cancelled context
    leaked,  \* pool connections InsertTransactionBatch never gave back
    skipped  \* history: the transactions a "Skipping transaction" message
             \* in the log names

idxVars == <<ipc, mode, start, to, batch, partial, leaked, skipped>>

Batch == [blocks : SUBSET Blocks, txs : SUBSET Tx, failed : SUBSET Tx,
          events : SUBSET Tx]

Empty == [blocks |-> {}, txs |-> {}, failed |-> {}, events |-> {}]

IndexerTypeOK ==
    /\ ipc \in {"off", "backfill", "chunk", "fetch", "handle", "handover",
                "addresses", "live", "dead"}
    /\ mode \in {"backfill", "live"}
    /\ start \in 0..(MaxHead + 1)
    /\ to \in Blocks
    /\ batch \in Batch
    /\ partial \in BOOLEAN
    /\ leaked \in Nat
    /\ skipped \in SUBSET Tx

IndexerInit ==
    /\ ipc = "off"
    /\ mode = "backfill"
    /\ start = 0
    /\ to = 0
    /\ batch = Empty
    /\ partial = FALSE
    /\ leaked = 0
    /\ skipped = {}

Goto(label) == ipc' = label

\* A local variable of a Backfill call that has returned is reset.
DropBatch == batch' = Empty /\ partial' = FALSE

Running == proc = "running"
Stopping == proc = "stopping"

\* Mutant: the last chunk is not cut at toBlock.
ChunkEndUncut == start + ChunkSize - 1

\* Last block of the chunk that begins at start.
ChunkEnd == LET end == start + ChunkSize - 1 IN IF end > to THEN to ELSE end

(***************************************************************************)
(* Leaving Backfill.  On an error main goes on with live indexing, unless  *)
(* the error is context.Canceled; LiveIndexing gives up in both cases.  A  *)
(* call interrupted by the cancellation may report an error of the driver  *)
(* instead of context.Canceled.                                            *)
(***************************************************************************)
\* Mutant: live indexing survives the error of a Backfill call.
AfterErrorRetry == IF mode = "backfill" THEN "handover" ELSE "addresses"

AfterError == IF mode = "backfill" THEN "handover" ELSE "dead"

BackfillFails == /\ Goto(AfterError)
                 /\ DropBatch
                 /\ UNCHANGED <<mode, start, to>>

BackfillCancelled == /\ \E label \in {"dead", AfterError} : Goto(label)
                     /\ DropBatch
                     /\ UNCHANGED <<mode, start, to>>

(***************************************************************************)
(* Backfill.                                                               *)
(***************************************************************************)
\* Mutant: main ends the goroutine on "fromBlock > toBlock".
BackfillBeginFatal ==
    /\ ipc = "backfill"
    /\ IF start > head THEN Goto("dead") /\ UNCHANGED to
                       ELSE Goto("chunk") /\ to' = head
    /\ NoFault
    /\ UNCHANGED <<dbVars, leaked, mode, start, batch, partial>>

\* ToBlock = 0: Backfill resolves the latest block, and refuses a range that
\* would be empty, the case of a restart that has nothing to catch up with.
BackfillBegin ==
    /\ ipc = "backfill"
    /\ \/ /\ Running /\ NoFault
          /\ IF start > head THEN Goto("handover") /\ UNCHANGED to
                             ELSE Goto("chunk") /\ to' = head
          /\ UNCHANGED <<mode, start, batch, partial>>
       \/ Running /\ Fault /\ BackfillFails
       \/ Stopping /\ NoFault /\ BackfillCancelled
    /\ UNCHANGED <<dbVars, leaked>>

\* The chunk loop tests the context, then begins the next chunk or returns.
ChunkLoop ==
    /\ ipc = "chunk"
    /\ \/ start <= to /\ Running /\ Goto("fetch")
       \/ start <= to /\ Stopping /\ Goto("dead")
       \/ start > to /\ Goto(IF mode = "live" THEN "live" ELSE "handover")
    /\ UNCHANGED <<dbVars, faults, mode, start, to, batch, partial, leaked>>

\* Mutant: localFailed is not handed over.
FetchedDropsFailed(B, logs) ==
    [blocks |-> B,
     txs    |-> {t \in TxsIn(B) : Decodes[t][release] = "ok"},
     failed |-> {},
     events |-> logs]

\* What the workers hand over when they have fetched the blocks of B: the
\* decoded and the undecodable transactions of those blocks, besides the
\* events of the whole chunk.  A call with an unknown selector is skipped.
Fetched(B, logs) ==
    [blocks |-> B,
     txs    |-> {t \in TxsIn(B) : Decodes[t][release] = "ok"},
     failed |-> {t \in TxsIn(B) : Decodes[t][release] = "malformed"},
     events |-> logs]

\* GetLogs, then one block fetch per block with logs.  Any error cancels the
\* workers and is returned.  When idxCtx is cancelled the workers may quit
\* without recording an error: DBHandler is called with a part of the blocks.
FetchChunk ==
    /\ ipc = "fetch"
    /\ LET logs == LogsBetween(start, ChunkEnd)
           B == {BlockOf[t] : t \in logs}
       IN  \/ /\ NoFault
              /\ batch' = Fetched(B, logs)
              /\ Goto("handle")
              /\ UNCHANGED <<mode, start, to, partial>>
           \/ Running /\ Fault /\ BackfillFails
           \/ Stopping /\ NoFault /\ BackfillCancelled
           \/ /\ Stopping /\ NoFault
              /\ \E some \in SUBSET B :
                    /\ some # B
                    /\ batch' = Fetched(some, logs)
              /\ partial' = TRUE
              /\ Goto("handle")
              /\ UNCHANGED <<mode, start, to>>
    /\ UNCHANGED <<dbVars, leaked>>

(***************************************************************************)
(* DBHandler persists the chunk in stages, each to its end before the next *)
(* begins; within a stage the order is that of a Go map, i.e. any.         *)
(***************************************************************************)
Handled(field, S) == /\ batch' = [batch EXCEPT ![field] = @ \ S]
                     /\ UNCHANGED <<ipc, mode, start, to, partial>>

\* Stage 1, InsertBlock.
HandleBlock(b) ==
    /\ ipc = "handle"
    /\ b \in batch.blocks
    /\ ExecuteCtx(InsertBlock(b), Handled("blocks", {b}),
                  BackfillFails, BackfillCancelled)
    /\ UNCHANGED leaked

\* Mutant: stage 2 does not wait for the end of stage 1.
HandleTransactionsEarly(b) ==
    LET T == batch.txs \cap TxsIn({b})
    IN  /\ ipc = "handle"
        /\ T # {}
        /\ ExecuteCtx(InsertTransactionBatch(T), Handled("txs", T),
                      BackfillFails, BackfillCancelled)
        /\ UNCHANGED leaked

\* Stage 2, InsertTransactionBatch, one SQL transaction per block.  An error
\* inside the SQL transaction is returned without a rollback (the variable the
\* deferred function tests is shadowed), so its connection is not given back;
\* an error of Begin or Commit does not have this effect.
HandleTransactions(b) ==
    LET T == batch.txs \cap TxsIn({b})
    IN  /\ ipc = "handle"
        /\ batch.blocks = {}
        /\ T # {}
        /\ \/ /\ ExecuteCtx(InsertTransactionBatch(T), Handled("txs", T),
                            BackfillFails, BackfillCancelled)
              /\ UNCHANGED leaked
           \/ /\ Running
              /\ Fault \/ (~HasPartition(b) /\ NoFault)
              /\ BackfillFails
              /\ leaked' = leaked + 1
              /\ UNCHANGED dbVars

\* Stage 3, InsertFailedTxBatch, one statement per row and no transaction.
HandleFailed(t) ==
    /\ ipc = "handle"
    /\ batch.blocks = {} /\ batch.txs = {}
    /\ t \in batch.failed
    /\ ExecuteCtx(InsertFailedTx(t), Handled("failed", {t}),
                  BackfillFails, BackfillCancelled)
    /\ UNCHANGED leaked

InStage4 == /\ ipc = "handle"
            /\ batch.blocks = {} /\ batch.txs = {} /\ batch.failed = {}

\* Stage 4, UpdateEventsBatch, one SQL transaction per transaction.  An error
\* of Begin or Commit is returned ...
HandleEvents(t) ==
    /\ InStage4
    /\ t \in batch.events
    /\ ExecuteCtx(AppendEvents(t), Handled("events", {t}),
                  BackfillFails, BackfillCancelled)
    /\ UNCHANGED leaked

\* ... but an error of the INSERT is logged and the transaction skipped: its
\* events are never written unless the chunk is indexed again.
SkipEvents(t) ==
    /\ InStage4
    /\ t \in batch.events
    /\ \/ Fault
       \/ (Stopping \/ ~HasPartition(BlockOf[t])) /\ NoFault
    /\ Handled("events", {t})
    /\ skipped' = skipped \cup {t}
    /\ UNCHANGED <<dbVars, leaked>>

\* Stage 5, SetLastIndexedBlock; Backfill goes on with the next chunk.
AdvanceCursor ==
    /\ InStage4
    /\ batch.events = {}
    /\ LET NextChunk == /\ Goto("chunk")
                        /\ start' = ChunkEnd + 1
                        /\ DropBatch
                        /\ UNCHANGED <<mode, to>>
       IN  IF ChunkEnd > 0
           THEN ExecuteCtx(SetLastIndexedBlock(ChunkEnd), NextChunk,
                           BackfillFails, BackfillCancelled)
           ELSE NoFault /\ NextChunk /\ UNCHANGED dbVars
    /\ UNCHANGED leaked

(***************************************************************************)
(* main between the two phases, and LiveIndexing.                          *)
(***************************************************************************)
\* Mutant: live indexing starts from bfCfg.ToBlock + 1 whatever the cursor.
HandoverFromScratch ==
    /\ ipc = "handover"
    /\ start' = 1
    /\ mode' = "live"
    /\ Goto("addresses")
    /\ NoFault
    /\ UNCHANGED <<dbVars, to, batch, partial, leaked>>

\* GetLastIndexedBlock; on an error, and when there is no cursor yet, live
\* indexing starts from bfCfg.ToBlock + 1, and bfCfg.ToBlock is 0 throughout.
Handover ==
    /\ ipc = "handover"
    /\ \/ Running /\ NoFault /\ start' = lastIndexed + 1
       \/ Running /\ Fault /\ start' = 1
       \/ Stopping /\ NoFault /\ start' = 1
    /\ mode' = "live"
    /\ Goto("addresses")
    /\ UNCHANGED <<dbVars, to, batch, partial, leaked>>

\* LiveIndexing fetches the contract addresses, without a context.
FetchAddresses ==
    /\ ipc = "addresses"
    /\ \/ NoFault /\ Goto("live")
       \/ Fault /\ Goto("dead")
    /\ UNCHANGED <<dbVars, mode, start, to, batch, partial, leaked>>

\* Mutant: one block too many is polled for.
PollPastHead ==
    /\ ipc = "live"
    /\ Running /\ start <= head + 1 /\ head < MaxHead
    /\ to' = head + 1 /\ Goto("chunk") /\ NoFault
    /\ UNCHANGED <<dbVars, mode, start, batch, partial, leaked>>

\* One turn of the poll loop.  With nothing new, or when the latest block
\* cannot be read, it sleeps and polls again.
Poll ==
    /\ ipc = "live"
    /\ \/ Running /\ start <= head /\ to' = head /\ Goto("chunk") /\ NoFault
       \/ Running /\ Fault /\ UNCHANGED <<ipc, to>>
       \/ Stopping /\ Goto("dead") /\ UNCHANGED to /\ NoFault
    /\ UNCHANGED <<dbVars, mode, start, batch, partial, leaked>>

IndexerStep ==
    \/ /\ \/ BackfillBegin \/ ChunkLoop \/ FetchChunk
          \/ \E b \in Blocks : HandleBlock(b) \/ HandleTransactions(b)
          \/ \E t \in Tx : HandleFailed(t) \/ HandleEvents(t)
          \/ AdvanceCursor \/ Handover \/ FetchAddresses \/ Poll
       /\ UNCHANGED skipped
    \/ \E t \in Tx : SkipEvents(t)
=============================================================================
