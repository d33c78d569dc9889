-------------------------------- MODULE Stats -------------------------------
(***************************************************************************)
(* GET /health: Health (api/handlers/health.go) answers with the figures   *)
(* of GetStats (db.go:374-423), five queries without a transaction around  *)
(* them, while the indexer of Reorg writes the tables.  One request, at    *)
(* any time, stands for all of them: it writes nothing.  The block range   *)
(* of the actions, read second, is left out: no property relates it.       *)
(***************************************************************************)
EXTENDS Reorg

VARIABLES
    query,   \* the query GetStats is about to make: "actions", "state", "txs"
             \* or "blocks"; "none" before the request, "ok" when it is answered
    stats    \* the figures read so far

statVars == <<query, stats>>

Figures == {"total_actions", "last_indexed", "unique_transactions", "total_blocks"}

StatsInit == Init /\ query = "none" /\ stats = [f \in Figures |-> 0]

RowsAt(h) == {t \in Tx : actions[h][t] # NoRow}

TotalActions == Cardinality({r \in Heights \X Tx : r[2] \in RowsAt(r[1])})

UniqueTransactions == Cardinality(UNION {RowsAt(h) : h \in Heights})

TotalBlocks == Cardinality({h \in Heights : blocks[h] # None})

Read(q, f, value, after) ==
    /\ query = q
    /\ stats' = [stats EXCEPT ![f] = value]
    /\ query' = after

Request == query = "none" /\ query' = "actions" /\ UNCHANGED stats

\* Mutant: the cursor is read last.
GetStatsCursorLast ==
    \/ Read("actions", "total_actions", TotalActions, "state")
    \/ Read("state", "total_blocks", TotalBlocks, "txs")
    \/ Read("txs", "unique_transactions", UniqueTransactions, "blocks")
    \/ Read("blocks", "last_indexed", lastIndexed, "ok")

\* Mutant: the transactions are counted first.
GetStatsUniqueFirst ==
    \/ Read("actions", "unique_transactions", UniqueTransactions, "state")
    \/ Read("state", "last_indexed", lastIndexed, "txs")
    \/ Read("txs", "total_actions", TotalActions, "blocks")
    \/ Read("blocks", "total_blocks", TotalBlocks, "ok")

GetStats ==
    \/ Read("actions", "total_actions", TotalActions, "state")
    \/ Read("state", "last_indexed", lastIndexed, "txs")
    \/ Read("txs", "unique_transactions", UniqueTransactions, "blocks")
    \/ Read("blocks", "total_blocks", TotalBlocks, "ok")

\* A query fails: GetStats returns its error, and Health answers 500; the client
\* may ask again.
QueryFails == /\ query \notin {"none", "ok"}
              /\ query' = "none"
              /\ stats' = [f \in Figures |-> 0]

StatsStep == (Request \/ GetStats \/ QueryFails) /\ UNCHANGED vars

StatsNext == (Next /\ UNCHANGED statVars) \/ StatsStep

StatsSpec == StatsInit /\ [][StatsNext]_<<vars, statVars>>

(***************************************************************************)
(* The figures of one answer are read at different times.  They still      *)
(* agree in this much, because of the order of the queries.                *)
(***************************************************************************)
\* Every block with logs up to the last_indexed of an answer is counted in
\* its total_blocks: DBHandler writes the blocks before the cursor, GetStats
\* reads the cursor before the blocks.
CursorIsBacked ==
    query = "ok" =>
        Cardinality({h \in Heights : /\ h <= stats["last_indexed"]
                                     /\ HasLogs(asked[h])})
            <= stats["total_blocks"]

\* An answer counts a transaction several times among the actions only for
\* reorganisations: it never shows more actions than transactions otherwise.
ActionsCounted ==
    query = "ok" =>
        stats["total_actions"] <= (1 + reorgs) * stats["unique_transactions"]
=============================================================================
