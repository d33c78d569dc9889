------------------------------- MODULE GetLogs ------------------------------
(***************************************************************************)
(* RpcUrl.GetLogs (rpc.go:89-158) over MakeRequest (rpc.go:27-87): the     *)
(* logs of a chunk of blocks, from a node that serves at most NodeLimit    *)
(* blocks per request.  A call whose range is refused runs two goroutines, *)
(* one GetLogs call for each half, and so on down.                         *)
(*                                                                         *)
(* A call is identified by its range <<start, end>>: the ranges of all the *)
(* calls below one call are different.  The logs are counted by the block  *)
(* they are in.  The goroutines write first without the lock; as they only *)
(* write errors there and only nil is told apart, either order of their    *)
(* writes, and a torn value too, mean that some half failed.               *)
(***************************************************************************)
EXTENDS Integers

CONSTANTS
    From, To,   \* the chunk
    NodeLimit,  \* blocks the node serves in one eth_getLogs request
    Refusal,    \* how it refuses more: an HTTP "status" other than 200, or
                \* the JSON-RPC error "code" -32005
    MaxRetry,   \* attempts per request
    MaxFaults   \* bound: requests that fail for another reason

ASSUME GetLogsAssumption ==
    /\ From \in Nat /\ To \in Nat /\ From <= To
    /\ NodeLimit \in Nat \ {0}
    /\ Refusal \in {"status", "code"}
    /\ MaxRetry \in Nat
    /\ MaxFaults \in Nat

VARIABLES
    call,     \* each call: "none", "asking" (in MakeRequest), "split" (in
              \* wg.Wait), "ok" or "error" (returned)
    attempt,  \* the loop variable of each call's MakeRequest
    out,      \* the logs each call has gathered, counted by block
    first,    \* the calls whose first is not nil
    joined,   \* the calls whose goroutine has ended, wg.Done()
    faults

vars == <<call, attempt, out, first, joined, faults>>

ChunkBlocks == From..To
Ranges == {r \in ChunkBlocks \X ChunkBlocks : r[1] <= r[2]}
Chunk == <<From, To>>

Size(r) == r[2] - r[1] + 1

\* What the node answers to eth_getLogs.
LogsIn(r) == [b \in ChunkBlocks |-> IF r[1] <= b /\ b <= r[2] THEN 1 ELSE 0]

NoLogs == [b \in ChunkBlocks |-> 0]

TypeOK ==
    /\ call \in [Ranges -> {"none", "asking", "split", "ok", "error"}]
    /\ attempt \in [Ranges -> 0..MaxRetry]
    /\ out \in [Ranges -> [ChunkBlocks -> Nat]]
    /\ first \in SUBSET Ranges
    /\ joined \in SUBSET Ranges
    /\ faults \in 0..MaxFaults

Init ==
    /\ call = [r \in Ranges |-> IF r = Chunk THEN "asking" ELSE "none"]
    /\ attempt = [r \in Ranges |-> 0]
    /\ out = [r \in Ranges |-> NoLogs]
    /\ first = {}
    /\ joined = {}
    /\ faults = 0

(***************************************************************************)
(* Splitting.                                                              *)
(***************************************************************************)
Mid(r) == (r[1] + r[2]) \div 2

Left(r) == <<r[1], Mid(r)>>
Right(r) == <<Mid(r) + 1, r[2]>>
Halves(r) == {Left(r), Right(r)}

\* Mutant: ranges of three blocks are not split either.
CannotSplitThree(r) == Size(r) <= 3

\* A range of two blocks is not split: mid is its first block.
CannotSplit(r) == Mid(r) = r[1] \/ Mid(r) = r[2]

\* MakeRequest returns errBlockRangeTooLarge.
TooLarge(r) ==
    call' = IF CannotSplit(r)
            THEN [call EXCEPT ![r] = "error"]
            ELSE [q \in Ranges |-> IF q = r THEN "split"
                                   ELSE IF q \in Halves(r) THEN "asking"
                                   ELSE call[q]]

(***************************************************************************)
(* One turn of MakeRequest's loop.                                         *)
(***************************************************************************)
Fault == faults < MaxFaults /\ faults' = faults + 1

\* The node serves the range.
Answered(r) ==
    /\ Size(r) <= NodeLimit
    /\ call' = [call EXCEPT ![r] = "ok"]
    /\ out' = [out EXCEPT ![r] = LogsIn(r)]
    /\ UNCHANGED <<attempt, faults>>

\* The node refuses the range with an HTTP status.
RefusedByStatus(r) ==
    /\ Size(r) > NodeLimit /\ Refusal = "status"
    /\ TooLarge(r)
    /\ UNCHANGED <<attempt, out, faults>>

\* The node refuses the range with the code -32005.  It is not below -33000,
\* so it is taken for a rate limit and the same request is made again.
RefusedByCode(r) ==
    /\ Size(r) > NodeLimit /\ Refusal = "code"
    /\ attempt' = [attempt EXCEPT ![r] = @ + 1]
    /\ UNCHANGED <<call, out, faults>>

\* A network error, a timeout, or a JSON-RPC error of a code from -33000 on.
Retried(r) ==
    /\ Fault
    /\ attempt' = [attempt EXCEPT ![r] = @ + 1]
    /\ UNCHANGED <<call, out>>

\* Any HTTP status but 200, e.g. 429 or 502, is taken for a refused range.
OtherStatus(r) ==
    /\ Fault
    /\ TooLarge(r)
    /\ UNCHANGED <<attempt, out>>

\* The context is cancelled, the answer is no JSON, or its code is below
\* -33000.
Broken(r) ==
    /\ Fault
    /\ call' = [call EXCEPT ![r] = "error"]
    /\ UNCHANGED <<attempt, out>>

\* Mutant: i <= max_retry.
RequestOnceMore(r) ==
    /\ call[r] = "asking"
    /\ attempt[r] <= MaxRetry
    /\ \/ Answered(r) \/ RefusedByStatus(r) \/ RefusedByCode(r)
       \/ Retried(r) \/ OtherStatus(r) \/ Broken(r)
    /\ UNCHANGED <<first, joined>>

Request(r) ==
    /\ call[r] = "asking"
    /\ attempt[r] < MaxRetry
    /\ \/ Answered(r) \/ RefusedByStatus(r) \/ RefusedByCode(r)
       \/ Retried(r) \/ OtherStatus(r) \/ Broken(r)
    /\ UNCHANGED <<first, joined>>

\* "max retries exceeded".
Exhausted(r) ==
    /\ call[r] = "asking"
    /\ attempt[r] = MaxRetry
    /\ call' = [call EXCEPT ![r] = "error"]
    /\ UNCHANGED <<attempt, out, first, joined, faults>>

(***************************************************************************)
(* The goroutines of a split call.                                         *)
(***************************************************************************)
\* Mutant: a half that fails leaves first alone.
JoinSilently(r, half) ==
    /\ call[r] = "split"
    /\ half \in Halves(r) \ joined
    /\ call[half] \in {"ok", "error"}
    /\ joined' = joined \cup {half}
    /\ out' = [out EXCEPT ![r] = [b \in ChunkBlocks |-> @[b] + out[half][b]]]
    /\ UNCHANGED <<call, attempt, first, faults>>

\* Mutant: the goroutine of a half that fails returns without wg.Done().
JoinWithoutDone(r, half) ==
    /\ call[r] = "split"
    /\ half \in Halves(r) \ joined
    /\ \/ /\ call[half] = "ok"
          /\ out' = [out EXCEPT ![r] = [b \in ChunkBlocks |-> @[b] + out[half][b]]]
          /\ joined' = joined \cup {half}
          /\ UNCHANGED first
       \/ /\ call[half] = "error"
          /\ first' = first \cup {r}
          /\ UNCHANGED <<out, joined>>
    /\ UNCHANGED <<call, attempt, faults>>

\* The goroutine of one half appends its logs to out, or sets first.
Join(r, half) ==
    /\ call[r] = "split"
    /\ half \in Halves(r) \ joined
    /\ joined' = joined \cup {half}
    /\ \/ /\ call[half] = "ok"
          /\ out' = [out EXCEPT ![r] = [b \in ChunkBlocks |-> @[b] + out[half][b]]]
          /\ UNCHANGED first
       \/ /\ call[half] = "error"
          /\ first' = first \cup {r}
          /\ UNCHANGED out
    /\ UNCHANGED <<call, attempt, faults>>

\* wg.Wait() returns.
Return(r) ==
    /\ call[r] = "split"
    /\ Halves(r) \subseteq joined
    /\ call' = [call EXCEPT ![r] = IF r \in first THEN "error" ELSE "ok"]
    /\ UNCHANGED <<attempt, out, first, joined, faults>>

Next ==
    \E r \in Ranges :
        \/ Request(r) \/ Exhausted(r) \/ Return(r)
        \/ \E half \in Ranges : Join(r, half)

Spec == Init /\ [][Next]_vars

\* Each goroutine runs on, and each request ends: http.Client has a timeout.
FairSpec == Spec /\ WF_vars(Next)

(***************************************************************************)
(* Properties.                                                             *)
(***************************************************************************)
\* What GetLogs returns without error are the logs of the whole chunk, each
\* once: no half is dropped or counted twice, whichever requests fail and in
\* whatever order the goroutines end.  The cursor advances over the chunk on
\* the strength of this (backfill.go:80-83, db_handler.go:75-80).
LogsComplete == call[Chunk] = "ok" => out[Chunk] = LogsIn(Chunk)

\* A chunk is not given up because of the node's limit alone, if the node
\* serves ranges of two blocks and no request fails for another reason:
\* rpc.go:24-25, "we will split the range and retry with smaller ranges until
\* we get a successful response".  It holds of a node that refuses by an HTTP
\* status, and not of one that refuses by the code -32005.
SplitSucceeds == faults = 0 /\ NodeLimit >= 2 => call[Chunk] # "error"

\* The call returns, however often the range is split.
GetLogsReturns == <>(call[Chunk] \in {"ok", "error"})
=============================================================================
