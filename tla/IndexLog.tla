------------------------------ MODULE IndexLog ------------------------------
(***************************************************************************)
(* What the indexer promises to those who read the database, whatever      *)
(* stages, goroutines and lives of the process do the work: blocks are     *)
(* indexed, in any order and several at a time, and stay indexed; a cursor *)
(* says how far they are indexed without a hole, and moves only forward    *)
(* unless a call has failed; and neither the blocks nor the cursor are     *)
(* ever ahead of the chain.                                                *)
(***************************************************************************)
EXTENDS Naturals

CONSTANTS
    MaxHead,     \* bound: the last block the chain reaches
    From,        \* the first block that is to be indexed
    Wanted       \* the blocks with something to index

VARIABLES
    head,        \* the last block of the chain
    indexed,     \* the wanted blocks with everything they owe the database
    cursor,      \* the last block known to be passed, 0 for none
    disturbed    \* some call has failed

vars == <<head, indexed, cursor, disturbed>>

Init ==
    /\ head \in 0..MaxHead
    /\ indexed = {}
    /\ cursor = 0
    /\ disturbed = FALSE

Grow ==
    /\ head < MaxHead
    /\ head' = head + 1
    /\ UNCHANGED <<indexed, cursor, disturbed>>

\* One block becomes complete, or several: those of a chunk, by its last
\* statement, or those whose calls a new release no longer counts as lost.
Persist ==
    /\ \E some \in SUBSET {b \in Wanted : b <= head} : indexed' = indexed \cup some
    /\ UNCHANGED cursor

NoHoleUpTo(n) == {b \in Wanted : From <= b /\ b <= n} \subseteq indexed

\* The only step that may go back is that of an indexer which, after a failed
\* read of the cursor, has begun anew.
Advance ==
    /\ \E n \in 1..head :
          /\ NoHoleUpTo(n)
          /\ n >= cursor \/ disturbed
          /\ cursor' = n
    /\ UNCHANGED indexed

\* A call that fails may have its effect, or none (Persist of no block).
Call ==
    /\ Persist \/ Advance
    /\ disturbed' = TRUE \/ UNCHANGED disturbed
    /\ UNCHANGED head

Next == Grow \/ Call

Spec == Init /\ [][Next]_vars

\* What a reader may rely on.
NoHole == cursor <= head /\ NoHoleUpTo(cursor)
=============================================================================
