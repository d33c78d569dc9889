-------------------------- MODULE ExplorerInvariant --------------------------
(***************************************************************************)
(* The inductive invariants of the explorer.                               *)
(*                                                                         *)
(* IInv is the one behind NoGap.  NoGap speaks of the cursor only, which   *)
(* the last stage of DBHandler writes; that the write is justified follows *)
(* from what the earlier stages have done of the chunk and what is left in *)
(* batch.  The others, for the other safety properties, are inductive on   *)
(* top of it.                                                              *)
(***************************************************************************)
EXTENDS Explorer

\* The blocks before start, the first one not handled yet, are indexed: the
\* goroutine's own idea of its progress is sound, not only the stored cursor.
HandledBefore ==
    \A b \in Blocks : BackfillFrom <= b /\ b < start => Indexed(b)

\* A chunk of which a part was fetched exists only while idxCtx is cancelled
\* and every statement of DBHandler is refused (backfill.go:140-142, 210).
PartialIsCancelled == partial => ipc = "handle" /\ Stopping

\* What a block of the chunk owes the database is there or is still to be
\* persisted.
Covered(b) ==
    HasLogs(b) =>
        /\ b \in blocks \/ b \in batch.blocks
        /\ \A t \in TxsIn({b}) :
              /\ CallAccounted(t) \/ t \in batch.txs \/ t \in batch.failed
              /\ t \in Emits => \/ actions[t].events > 0
                                \/ t \in skipped
                                \/ t \in batch.events

\* Inside DBHandler (db_handler.go:15-80) every block of a chunk fetched in
\* full is covered, whatever stages are done and whatever the retry goroutine
\* did to the same rows in between.
ChunkCovered ==
    ipc = "handle" =>
        /\ \A t \in batch.txs : Decodes[t][release] = "ok"
        /\ \A t \in batch.failed : Decodes[t][release] = "malformed"
        /\ ~partial => \A b \in start..ChunkEnd : Covered(b)

IInv ==
    /\ TypeOK
    /\ NoGap
    /\ HandledBefore
    /\ PartialIsCancelled
    /\ ChunkCovered

(***************************************************************************)
(* The retry loop, for RetriesBounded, ResolvedIsRecorded, FinalStatuses.  *)
(***************************************************************************)
\* Nothing runs while the process is down.
DownIsOff == proc = "down" => ipc = "off" /\ rpc = "off"

\* One record is in hand, at most, and it is no longer on the list.
OneInHand ==
    /\ rpc \in {"off", "idle", "fetch"} => cur = {}
    /\ \A t, u \in cur : t = u
    /\ \A t \in cur : t \notin pending

\* What is listed or in hand is still pending, with attempts left: the list
\* was read earlier (failed_backfill.go:28), but nobody else changes the row.
ListedArePending ==
    \A t \in pending \cup cur : /\ failedTxs[t].status = "pending"
                                /\ failedTxs[t].retries < MaxRetry

\* MarkFailedTxResolved comes after the INSERT (failed_backfill.go:87-99).
ResolvingIsRecorded == rpc = "resolve" => \A t \in cur : actions[t].method

RInv ==
    /\ DownIsOff
    /\ OneInHand
    /\ ListedArePending
    /\ ResolvingIsRecorded
    /\ RetriesBounded
    /\ ResolvedIsRecorded

(***************************************************************************)
(* Blocks before everything else, for ActionsHaveBlock.                    *)
(***************************************************************************)
\* A recorded failure has its block, so the call recovered later has it too.
FailuresHaveBlock ==
    \A t \in Tx : failedTxs[t].status # "none" => BlockOf[t] \in blocks

HasOrGetsBlock(t) == BlockOf[t] \in blocks \cup batch.blocks

\* What a chunk is about to write has its block or comes after it.  The events
\* of a chunk fetched in part need not: they are never written.
BatchHasBlocks ==
    ipc = "handle" =>
        /\ \A t \in batch.txs \cup batch.failed : HasOrGetsBlock(t)
        /\ ~partial => \A t \in batch.events : HasOrGetsBlock(t)

BInv == FailuresHaveBlock /\ BatchHasBlocks /\ ActionsHaveBlock

(***************************************************************************)
(* The leaked connections: none before an error of Backfill, one before an *)
(* error of live indexing, which is the end of the goroutine.              *)
(***************************************************************************)
LInv ==
    /\ leaked <= 2
    /\ proc = "down" => leaked = 0
    /\ ipc # "dead" => leaked <= 1
    /\ mode = "backfill" /\ ipc \notin {"handover", "dead"} => leaked = 0

(***************************************************************************)
(* Nothing is ahead of the chain, for ImplementsIndexLog: not the range of *)
(* the running Backfill call, hence not a chunk of it, hence not the rows  *)
(* of blocks or the cursor.                                                *)
(***************************************************************************)
HInv ==
    /\ to <= head
    /\ ipc = "handle" => batch.blocks \subseteq 0..head
    /\ blocks \subseteq 0..head
    /\ lastIndexed <= head

(***************************************************************************)
(* The progress of the cursor, for CursorMovesForward and                  *)
(* DuplicatesBounded.                                                      *)
(***************************************************************************)
\* A chunk is never empty.
ChunkNotEmpty == ipc \in {"fetch", "handle"} => start <= to

\* Unless a call has failed, the goroutine is never behind the cursor.
NotBehind == faults = 0 /\ proc = "running" => start >= lastIndexed

CInv == ChunkNotEmpty /\ NotBehind

\* The events of the chunk under way.
EventsOfChunk == batch.events \subseteq LogsBetween(start, ChunkEnd)

\* The events of t will not be appended again in this life of the process,
\* unless a call fails.
Done(t) ==
    /\ Running
    /\ \/ BlockOf[t] <= lastIndexed /\ BlockOf[t] < start
       \/ InStage4 /\ t \notin batch.events /\ BlockOf[t] \in start..ChunkEnd

\* The last copy allowed for t is there only if t is done with.
CopiesPaid ==
    \A t \in Tx : /\ actions[t].events <= 1 + stops + faults
                  /\ actions[t].events <= stops + faults \/ Done(t)

DInv == /\ ipc = "handle" => EventsOfChunk
        /\ CopiesPaid
=============================================================================
