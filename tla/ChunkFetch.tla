----------------------------- MODULE ChunkFetch -----------------------------
(***************************************************************************)
(* What fetching the blocks of one chunk promises to Backfill, whatever    *)
(* goroutines do it: every wanted block exactly once, or the error of a    *)
(* call.  Only once the context is cancelled may the fetch also report the *)
(* cancellation, or return some of the blocks without any error.           *)
(***************************************************************************)
EXTENDS Naturals

CONSTANT Wanted      \* the numbers of the blocks with events

VARIABLES
    ctxDone,   \* idxCtx is cancelled
    result,    \* "running", "blocks", "error" or "cancelled"
    fetched    \* how often each block is in the slice returned

vars == <<ctxDone, result, fetched>>

None == [n \in Wanted |-> 0]
Each == [n \in Wanted |-> 1]

Init == ctxDone = FALSE /\ result = "running" /\ fetched = None

Cancel == ctxDone' = TRUE /\ UNCHANGED <<result, fetched>>

Return(outcome, blocks) ==
    /\ result = "running"
    /\ result' = outcome
    /\ fetched' = blocks
    /\ UNCHANGED ctxDone

Next ==
    \/ Cancel
    \/ Return("blocks", Each)
    \/ Return("error", None)
    \/ ctxDone /\ Return("cancelled", None)
    \/ ctxDone /\ \E some \in [Wanted -> 0..1] : Return("blocks", some)

Spec == Init /\ [][Next]_vars
=============================================================================
