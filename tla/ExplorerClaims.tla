--------------------------- MODULE ExplorerClaims ---------------------------
(***************************************************************************)
(* What the repository's documents and comments say of the explorer and    *)
(* the code does not keep.  Each definition states one such sentence; TLC  *)
(* shows a behaviour of the code that contradicts it.                      *)
(***************************************************************************)
EXTENDS Explorer

\* backfill.go:222, "LiveIndexing continuously polls for new blocks": every
\* block of the chain is eventually indexed.  LiveIndexing returns at the
\* first error of a chunk (backfill.go:271) and nothing restarts it.
KeepsPolling == \A b \in Blocks : head >= b ~> lastIndexed >= b
=============================================================================
