------------------------------- MODULE MCReorg ------------------------------
(***************************************************************************)
(* The indexer on a changing chain, with a health request beside it.       *)
(***************************************************************************)
EXTENDS Stats

\* Bound: beside a health request there is one restart, or one answer of a replica
\* that is behind or on a branch left.  Without one, as many as the constants say.
HealthBound == query = "none" \/ stops + lags <= 1
=============================================================================
