----------------------------- MODULE WorkerPool -----------------------------
(***************************************************************************)
(* The goroutines with which Backfill fetches the blocks of one chunk      *)
(* (backfill.go:108-208): the dispatcher, which is Backfill's goroutine    *)
(* itself, hands the block numbers over the unbuffered channel numCh to a  *)
(* fixed number of workers.  A worker that meets an error records it as    *)
(* firstErr, unless there is one, and cancels chunkCtx.                    *)
(*                                                                         *)
(* The sections under mu are single steps: nothing they write is read      *)
(* outside them before wg.Wait() returns.  Decoding is part of the fetch,  *)
(* and the decoded transactions are appended with their block.             *)
(***************************************************************************)
EXTENDS Naturals

CONSTANTS
    Wanted,    \* the block numbers of the chunk: the keys of blockNums
    Workers    \* as many as cfg.MaxRPCCalls

\* The pool is used only for chunks with events (backfill.go:108).
ASSUME PoolAssumption == Workers # {} /\ Wanted # {}

VARIABLES
    ctxDone,    \* idxCtx, the parent of chunkCtx, is cancelled
    cancelled,  \* cancel() was called
    todo,       \* the numbers the dispatcher has not sent
    dpc,        \* the dispatcher: "send", "wait" or "returned"
    wpc,        \* each worker: "receive", "check", "fetch", "failed",
                \* "append" or "done"
    job,        \* the number each worker has received last
    err,        \* the error of each worker's fetch
    firstErr,
    fetched     \* how often each block is in the slice blocks

vars == <<ctxDone, cancelled, todo, dpc, wpc, job, err, firstErr, fetched>>

Errors == {"none", "rpc", "cancelled"}

TypeOK ==
    /\ ctxDone \in BOOLEAN
    /\ cancelled \in BOOLEAN
    /\ todo \in SUBSET Wanted
    /\ dpc \in {"send", "wait", "returned"}
    /\ wpc \in [Workers -> {"receive", "check", "fetch", "failed", "append", "done"}]
    /\ job \in [Workers -> Wanted]
    /\ err \in [Workers -> Errors]
    /\ firstErr \in Errors
    /\ fetched \in [Wanted -> 0..1]

Init ==
    /\ ctxDone = FALSE
    /\ cancelled = FALSE
    /\ todo = Wanted
    /\ dpc = "send"
    /\ wpc = [w \in Workers |-> "receive"]
    /\ job \in [Workers -> Wanted]
    /\ err = [w \in Workers |-> "none"]
    /\ firstErr = "none"
    /\ fetched = [n \in Wanted |-> 0]

\* chunkCtx.Done() is closed, chunkCtx.Err() is not nil.
ChunkDone == ctxDone \/ cancelled

\* SIGTERM, at any time.
Cancel ==
    /\ ctxDone' = TRUE
    /\ UNCHANGED <<cancelled, todo, dpc, wpc, job, err, firstErr, fetched>>

(***************************************************************************)
(* The dispatcher.                                                         *)
(***************************************************************************)
\* numCh <- num meets a worker's receive.  The select may choose this although
\* chunkCtx is done.
Send(w, n) ==
    /\ dpc = "send"
    /\ n \in todo
    /\ wpc[w] = "receive"
    /\ todo' = todo \ {n}
    /\ wpc' = [wpc EXCEPT ![w] = "check"]
    /\ job' = [job EXCEPT ![w] = n]
    /\ UNCHANGED <<ctxDone, cancelled, dpc, err, firstErr, fetched>>

\* All numbers are sent, or chunkCtx is done (break outer); close(numCh).
EndSending ==
    /\ dpc = "send"
    /\ todo = {} \/ ChunkDone
    /\ dpc' = "wait"
    /\ UNCHANGED <<ctxDone, cancelled, todo, wpc, job, err, firstErr, fetched>>

\* wg.Wait() returns, then Backfill looks at firstErr.
Return ==
    /\ dpc = "wait"
    /\ \A w \in Workers : wpc[w] = "done"
    /\ dpc' = "returned"
    /\ UNCHANGED <<ctxDone, cancelled, todo, wpc, job, err, firstErr, fetched>>

Dispatcher ==
    \/ \E w \in Workers, n \in Wanted : Send(w, n)
    \/ EndSending \/ Return

(***************************************************************************)
(* A worker.                                                               *)
(***************************************************************************)
\* numCh is closed: the range loop ends.
EndReceiving(w) ==
    /\ wpc[w] = "receive"
    /\ dpc \in {"wait", "returned"}
    /\ wpc' = [wpc EXCEPT ![w] = "done"]
    /\ UNCHANGED <<ctxDone, cancelled, todo, dpc, job, err, firstErr, fetched>>

\* With chunkCtx done the worker returns: its number is dropped, silently.
CheckContext(w) ==
    /\ wpc[w] = "check"
    /\ wpc' = [wpc EXCEPT ![w] = IF ChunkDone THEN "done" ELSE "fetch"]
    /\ UNCHANGED <<ctxDone, cancelled, todo, dpc, job, err, firstErr, fetched>>

\* Mutant: a worker whose call fails cancels before it takes the lock.
FetchCancelsFirst(w) ==
    /\ wpc[w] = "fetch"
    /\ \/ /\ wpc' = [wpc EXCEPT ![w] = "append"]
          /\ UNCHANGED <<err, cancelled>>
       \/ /\ wpc' = [wpc EXCEPT ![w] = "failed"]
          /\ \E e \in {"rpc"} \cup (IF ChunkDone THEN {"cancelled"} ELSE {}) :
                err' = [err EXCEPT ![w] = e]
          /\ cancelled' = TRUE
    /\ UNCHANGED <<ctxDone, todo, dpc, job, firstErr, fetched>>

\* GetBlockWithTransactions.  It may succeed, or fail for a reason of its own,
\* although chunkCtx is done by now.
Fetch(w) ==
    /\ wpc[w] = "fetch"
    /\ \/ /\ wpc' = [wpc EXCEPT ![w] = "append"]
          /\ UNCHANGED err
       \/ /\ wpc' = [wpc EXCEPT ![w] = "failed"]
          /\ \E e \in {"rpc"} \cup (IF ChunkDone THEN {"cancelled"} ELSE {}) :
                err' = [err EXCEPT ![w] = e]
    /\ UNCHANGED <<ctxDone, cancelled, todo, dpc, job, firstErr, fetched>>

\* Mutant: the worker records its error without cancelling the others.
RecordErrorOnly(w) ==
    /\ wpc[w] = "failed"
    /\ firstErr' = IF firstErr = "none" THEN err[w] ELSE firstErr
    /\ wpc' = [wpc EXCEPT ![w] = "done"]
    /\ UNCHANGED <<ctxDone, cancelled, todo, dpc, job, err, fetched>>

\* Under mu: the first error is kept, and cancels the chunk.
RecordError(w) ==
    /\ wpc[w] = "failed"
    /\ IF firstErr = "none"
       THEN firstErr' = err[w] /\ cancelled' = TRUE
       ELSE UNCHANGED <<firstErr, cancelled>>
    /\ wpc' = [wpc EXCEPT ![w] = "done"]
    /\ UNCHANGED <<ctxDone, todo, dpc, job, err, fetched>>

\* Under mu: the block and its transactions are appended.
AppendBlock(w) ==
    /\ wpc[w] = "append"
    /\ fetched' = [fetched EXCEPT ![job[w]] = @ + 1]
    /\ wpc' = [wpc EXCEPT ![w] = "receive"]
    /\ UNCHANGED <<ctxDone, cancelled, todo, dpc, job, err, firstErr>>

Worker(w) ==
    \/ EndReceiving(w) \/ CheckContext(w) \/ Fetch(w)
    \/ RecordError(w) \/ AppendBlock(w)

Next == Cancel \/ Dispatcher \/ (\E w \in Workers : Worker(w))

Spec == Init /\ [][Next]_vars

\* The Go scheduler runs every goroutine that can run, and every call of the
\* RPC client returns: the HTTP client has a timeout (rpc.go:21) and the
\* number of attempts is bounded.
Fairness ==
    /\ WF_vars(Dispatcher)
    /\ \A w \in Workers : WF_vars(Worker(w))

FairSpec == Spec /\ Fairness

(***************************************************************************)
(* Properties.                                                             *)
(***************************************************************************)
\* What Backfill gets: the slice blocks, or firstErr.
Result == IF dpc # "returned" THEN "running"
          ELSE CASE firstErr = "none"      -> "blocks"
                 [] firstErr = "rpc"       -> "error"
                 [] firstErr = "cancelled" -> "cancelled"

Returned == IF Result = "blocks" THEN fetched ELSE [n \in Wanted |-> 0]

CF == INSTANCE ChunkFetch WITH result <- Result, fetched <- Returned

\* The pool keeps the promise of ChunkFetch, which the indexer's FetchChunk
\* relies on: however the goroutines interleave, no block is lost without an
\* error or fetched twice, and the error of a failed call is not masked by the
\* cancellation it causes in the other workers, which main would take for a
\* shutdown (main.go:76-79).
FetchesChunk == CF!Spec

\* Backfill gets its answer: neither the dispatcher, when all the workers have
\* quit, nor a worker, when the dispatcher has, waits for ever.
PoolReturns == <>(dpc = "returned")
=============================================================================
