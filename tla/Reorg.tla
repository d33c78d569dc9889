-------------------------------- MODULE Reorg -------------------------------
(***************************************************************************)
(* LiveIndexing against a chain whose last blocks may still be replaced,   *)
(* read through replicas of the node: one may be behind another, or on a   *)
(* branch that the others have left.                                       *)
(*                                                                         *)
(* Explorer assumes an append-only chain and details the statements and    *)
(* the failures; this module details what Explorer assumes.  The requests  *)
(* of a chunk (eth_blockNumber, the ranges of eth_getLogs, one             *)
(* eth_getBlockByNumber per block with logs) are separate steps and each   *)
(* may be answered from another chain; the stages of DBHandler are one     *)
(* step each and fail only with the process.  Every call decodes.          *)
(*                                                                         *)
(* A block is the record of its height, the reorganisation that brought it *)
(* and its transactions.  It stands for its hash wherever the code keeps a *)
(* hash; nothing in the program compares two hashes, and parent_hash is    *)
(* stored and never read.                                                  *)
(*                                                                         *)
(* Assumed of the chain, and nowhere checked by the code: the branch that  *)
(* wins is at least as long as the one it replaces, so that the height of  *)
(* the chain never falls.  NotAskedTooEarly and SurvivesReorgs rest on it. *)
(***************************************************************************)
EXTENDS Naturals, FiniteSets

CONSTANTS
    Tx,          \* the transactions
    Emits,       \* those with a decodable log of the contract
    History,     \* blocks on the chain when the explorer first starts
    MaxHeight,   \* bound: the last block the chain reaches
    ChunkSize,   \* blocks per chunk
    NodeLimit,   \* blocks the node serves in one eth_getLogs request
    Depth,       \* reorg_depth: blocks a reorganisation replaces at most
    MaxReorgs,   \* bound: reorganisations
    MaxLags,     \* bound: answers of a replica that is behind or on a branch left
    MaxStops     \* bound: restarts of the process

ASSUME ReorgAssumption ==
    /\ Emits \subseteq Tx
    /\ MaxHeight \in Nat /\ History \in 0..MaxHeight
    /\ ChunkSize \in Nat \ {0} /\ NodeLimit \in Nat \ {0}
    /\ Depth \in Nat /\ MaxReorgs \in Nat /\ MaxLags \in Nat /\ MaxStops \in Nat

VARIABLES
    head, chain,              \* chain[h]: the block at height h, 1..head
    left,                     \* the chains that reorganisations have ended
    reorgs, lags, stops,      \* how often each has happened
    blocks,                   \* table blocks: the block stored for a height
    actions,                  \* table actions, by height and transaction
    lastIndexed,              \* indexing_state.last_indexed
    pc,                       \* the indexer: "poll", "logs", "blocks", "calls",
                              \* "events", "cursor" or "dead"
    from, to,                 \* first block not handled, end of the range
    asking,                   \* the eth_getLogs requests not answered yet
    logs,                     \* the logs gathered: transaction and block
    got,                      \* the blocks fetched
    asked                     \* history: the block at each height in the last
                              \* answer of eth_getLogs, if it was there

nodeVars == <<head, chain, left, reorgs>>
tables == <<blocks, actions, lastIndexed>>
chunkVars == <<asking, logs, got>>
vars == <<nodeVars, lags, stops, tables, pc, from, to, chunkVars, asked>>

Heights == 1..MaxHeight

Block == [height : Heights, branch : 0..MaxReorgs, txs : SUBSET Tx]
None == [height |-> 0, branch |-> 0, txs |-> {}]

Log == [tx : Emits, block : Block]
Row == [hash : Block \cup {None}, call : BOOLEAN, events : SUBSET Block]
NoRow == [hash |-> None, call |-> FALSE, events |-> {}]

TypeOK ==
    /\ head \in 0..MaxHeight
    /\ chain \in [Heights -> Block \cup {None}]
    /\ left \subseteq [Heights -> Block \cup {None}]
    /\ reorgs \in 0..MaxReorgs /\ lags \in 0..MaxLags /\ stops \in 0..MaxStops
    /\ blocks \in [Heights -> Block \cup {None}]
    /\ actions \in [Heights -> [Tx -> Row]]
    /\ lastIndexed \in 0..MaxHeight
    /\ pc \in {"poll", "logs", "blocks", "calls", "events", "cursor", "dead"}
    /\ from \in 1..(MaxHeight + 1) /\ to \in 0..MaxHeight
    /\ asking \subseteq Heights \X Heights
    /\ logs \subseteq Log
    /\ got \subseteq Block
    /\ asked \in [Heights -> Block \cup {None}]

(***************************************************************************)
(* The chain.  A transaction is in one block of it at most.                *)
(***************************************************************************)
Mined(H) == UNION {chain[h].txs : h \in H}

NewBlock(h, n, T) == [height |-> h, branch |-> n, txs |-> T]

Disjoint(T) == \A g, h \in DOMAIN T : g # h => T[g] \cap T[h] = {}

Init ==
    /\ head = History
    /\ \E T \in [1..head -> SUBSET Tx] :
          /\ Disjoint(T)
          /\ chain = [h \in Heights |-> IF h <= head THEN NewBlock(h, 0, T[h]) ELSE None]
    /\ left = {}
    /\ reorgs = 0 /\ lags = 0 /\ stops = 0
    /\ blocks = [h \in Heights |-> None]
    /\ actions = [h \in Heights |-> [t \in Tx |-> NoRow]]
    /\ lastIndexed = 0
    /\ pc = "poll" /\ from = 1 /\ to = 0
    /\ asking = {} /\ logs = {} /\ got = {}
    /\ asked = [h \in Heights |-> None]

Grow ==
    /\ head < MaxHeight
    /\ head' = head + 1
    /\ \E T \in SUBSET (Tx \ Mined(1..head)) :
          chain' = [chain EXCEPT ![head + 1] = NewBlock(head + 1, reorgs, T)]
    /\ UNCHANGED <<left, reorgs, lags, stops, tables, pc, from, to, chunkVars, asked>>

\* Another branch wins: the blocks from fork on are replaced by as many others.
Reorganise(fork) ==
    /\ reorgs < MaxReorgs
    /\ fork \in 1..head /\ head - fork < Depth
    /\ reorgs' = reorgs + 1
    /\ left' = left \cup {chain}
    /\ \E new \in [fork..head -> SUBSET (Tx \ Mined(1..(fork - 1)))] :
          /\ Disjoint(new)
          /\ chain' = [h \in Heights |-> IF h \in fork..head
                                         THEN NewBlock(h, reorgs + 1, new[h])
                                         ELSE chain[h]]
    /\ UNCHANGED <<head, lags, stops, tables, pc, from, to, chunkVars, asked>>

\* The chain as a replica knows it that has its first n blocks.
View(c, n) == [h \in Heights |-> IF h <= n THEN c[h] ELSE None]

\* A request is answered by a replica that knows the whole chain, or by one that
\* has some of its blocks, or all or some of a chain that was left.
Answer(c, n) ==
    /\ c \in left \cup {chain}
    /\ n > 0 => c[n] # None
    /\ IF c = chain /\ n = head THEN UNCHANGED lags ELSE lags < MaxLags /\ lags' = lags + 1

(***************************************************************************)
(* LiveIndexing and the fetch of a chunk.                                  *)
(***************************************************************************)
\* The chunk that begins at first, in a range that ends at last.
Chunk(first, last) ==
    <<first, IF first + ChunkSize - 1 > last THEN last ELSE first + ChunkSize - 1>>

ChunkEnd == Chunk(from, to)[2]

\* Mutant: the last block handled is handled again.
RangeAgain(latest) == <<IF lastIndexed > 0 THEN lastIndexed ELSE from, latest>>

\* Mutant: the range goes one block beyond the latest.
RangeBeyond(latest) == <<from, latest + 1>>

\* The range of the Backfill call: lastBlock + 1 to latest.
BackfillRange(latest) == <<from, latest>>

\* GetBlockNumber, and Backfill's loop begins; with nothing new, it sleeps.
Poll ==
    /\ pc = "poll"
    /\ \E c \in left \cup {chain}, latest \in 0..head :
          /\ Answer(c, latest)
          /\ from <= latest
          /\ from' = BackfillRange(latest)[1]
          /\ to' = BackfillRange(latest)[2]
          /\ asking' = {Chunk(from', to')}
    /\ pc' = "logs"
    /\ UNCHANGED <<nodeVars, stops, tables, logs, got, asked>>

Size(r) == r[2] - r[1] + 1
Mid(r) == (r[1] + r[2]) \div 2

LogsIn(c, H) == UNION {[tx : c[h].txs \cap Emits, block : {c[h]}] : h \in H}

\* The node serves a range: blocks its replica does not have hold no logs.
AnswerLogs(r) ==
    /\ pc = "logs" /\ r \in asking
    /\ Size(r) <= NodeLimit
    /\ \E c \in left \cup {chain}, n \in 0..head :
          /\ Answer(c, n)
          /\ logs' = logs \cup LogsIn(View(c, n), r[1]..r[2])
          /\ asked' = [h \in Heights |-> IF h \in r[1]..r[2] THEN View(c, n)[h] ELSE asked[h]]
    /\ asking' = asking \ {r}
    /\ UNCHANGED <<nodeVars, stops, tables, pc, from, to, got>>

\* The node refuses it, and two goroutines ask for the halves; a range of two
\* blocks cannot be split, and the error ends LiveIndexing.
SplitLogs(r) ==
    /\ pc = "logs" /\ r \in asking
    /\ Size(r) > NodeLimit
    /\ IF Mid(r) = r[1] \/ Mid(r) = r[2]
       THEN pc' = "dead" /\ asking' = {}
       ELSE /\ asking' = (asking \ {r}) \cup {<<r[1], Mid(r)>>, <<Mid(r) + 1, r[2]>>}
            /\ UNCHANGED pc
    /\ UNCHANGED <<nodeVars, lags, stops, tables, from, to, logs, got, asked>>

\* Mutant: the number in the request is off by one.
BlockNumberNext(h) == h + 1

BlockNumber(h) == h

\* A worker's GetBlockWithTransactions.  A block of another branch than the logs
\* is taken: no hash is compared.  A null answer is "block not found", which is
\* not tried again: it ends the chunk and LiveIndexing with it.
FetchBlock(h) ==
    /\ pc = "logs" /\ asking = {}
    /\ h \in {l.block.height : l \in logs} \ {b.height : b \in got}
    /\ \E c \in left \cup {chain}, n \in 0..head :
          /\ Answer(c, n)
          /\ IF BlockNumber(h) <= n
             THEN got' = got \cup {c[BlockNumber(h)]} /\ UNCHANGED pc
             ELSE pc' = "dead" /\ UNCHANGED got
    /\ UNCHANGED <<nodeVars, stops, tables, from, to, asking, logs, asked>>

Fetched ==
    /\ pc = "logs" /\ asking = {}
    /\ {l.block.height : l \in logs} = {b.height : b \in got}
    /\ pc' = "blocks"
    /\ UNCHANGED <<nodeVars, lags, stops, tables, from, to, chunkVars, asked>>

(***************************************************************************)
(* DBHandler.                                                              *)
(***************************************************************************)
Stage(label) == /\ pc' = label
                /\ UNCHANGED <<nodeVars, lags, stops, from, to, chunkVars, asked>>

\* InsertBlock: ON CONFLICT (num) DO NOTHING, so the first block stays.
PersistBlocks ==
    /\ pc = "blocks"
    /\ blocks' = [h \in Heights |->
                     IF blocks[h] = None /\ \E b \in got : b.height = h
                     THEN CHOOSE b \in got : b.height = h
                     ELSE blocks[h]]
    /\ Stage("calls")
    /\ UNCHANGED <<actions, lastIndexed>>

\* The upserts leave block_hash as the first of them set it.
Upsert(row, b) == IF row.hash = None THEN [row EXCEPT !.hash = b] ELSE row

\* InsertTransactionBatch for every block fetched.
PersistCalls ==
    /\ pc = "calls"
    /\ actions' = [h \in Heights |-> [t \in Tx |->
                      IF \E b \in got : b.height = h /\ t \in b.txs
                      THEN [Upsert(actions[h][t], CHOOSE b \in got : b.height = h)
                               EXCEPT !.call = TRUE]
                      ELSE actions[h][t]]]
    /\ Stage("events")
    /\ UNCHANGED <<blocks, lastIndexed>>

LogsOf(t) == {l.block : l \in {k \in logs : k.tx = t}}

\* The first event of each group, in the order the answers were gathered.
Firsts == {f \in [{l.tx : l \in logs} -> {l.block : l \in logs}] :
              \A t \in DOMAIN f : f[t] \in LogsOf(t)}

\* Mutant: ON CONFLICT DO NOTHING.
AppendNew(row, t, b) ==
    IF row = NoRow THEN [Upsert(row, b) EXCEPT !.events = LogsOf(t)] ELSE row

Append(row, t, b) == [Upsert(row, b) EXCEPT !.events = @ \cup LogsOf(t)]

\* Mutant: the events of a chunk are stored under its last block.
RowOfChunk(b) == ChunkEnd

RowOf(b) == b.height

\* UpdateEventsBatch: the events of a transaction are grouped, and all of them
\* stored with the block of the first (db_handler.go:60).
PersistEvents ==
    /\ pc = "events"
    /\ \E first \in Firsts :
          actions' = [h \in Heights |-> [t \in Tx |->
                         IF t \in DOMAIN first /\ RowOf(first[t]) = h
                         THEN Append(actions[h][t], t, first[t])
                         ELSE actions[h][t]]]
    /\ Stage("cursor")
    /\ UNCHANGED <<blocks, lastIndexed>>

\* SetLastIndexedBlock; then the next chunk, or the next poll.
AdvanceCursor ==
    /\ pc = "cursor"
    /\ lastIndexed' = ChunkEnd
    /\ from' = ChunkEnd + 1
    /\ logs' = {} /\ got' = {}
    /\ IF ChunkEnd < to
       THEN /\ pc' = "logs"
            /\ asking' = {Chunk(from', to)}
       ELSE pc' = "poll" /\ asking' = {}
    /\ UNCHANGED <<nodeVars, lags, stops, blocks, actions, to, asked>>

\* The process is stopped and started again; main.go:59-61 reads the cursor.
Restart ==
    /\ stops < MaxStops
    /\ stops' = stops + 1
    /\ pc' = "poll"
    /\ from' = lastIndexed + 1 /\ to' = 0
    /\ asking' = {} /\ logs' = {} /\ got' = {}
    /\ UNCHANGED <<nodeVars, lags, tables, asked>>

IndexerStep ==
    \/ Poll \/ Fetched
    \/ \E r \in Heights \X Heights : AnswerLogs(r) \/ SplitLogs(r)
    \/ \E h \in Heights : FetchBlock(h)
    \/ PersistBlocks \/ PersistCalls \/ PersistEvents \/ AdvanceCursor

Next == Grow \/ (\E fork \in Heights : Reorganise(fork)) \/ IndexerStep \/ Restart

Spec == Init /\ [][Next]_vars

\* The goroutine runs; the chain owes neither a block nor a reorganisation.
FairSpec == Spec /\ WF_vars(IndexerStep)

(***************************************************************************)
(* Safety.                                                                 *)
(***************************************************************************)
\* What eth_getLogs answered for h has not been reorganised since.
Settled(h) == h <= head /\ asked[h] = chain[h]

HasLogs(b) == b.txs \cap Emits # {}

\* The events t emitted in block b are stored: with b itself, or with another
\* block whose events of t arrived in the same chunk.
Filed(t, b) ==
    \E h \in Heights : /\ b \in actions[h][t].events
                       /\ \E e \in actions[h][t].events : e.height = h

\* Whatever is reorganised between the requests of a chunk, and between a
\* chunk and its repetition after a restart: behind the cursor, a block that
\* is still the one eth_getLogs answered from has all its events.  If it has
\* any it has all its calls too, but for one case: a replica on a branch that
\* was left may have sent another block of that number, and its calls were
\* stored instead (backfill.go:80-187, db_handler.go:16-77, rpc.go:274-323).
SettledIsIndexed ==
    \A h \in Heights : h <= lastIndexed /\ Settled(h) =>
        \A t \in chain[h].txs :
            /\ t \in Emits => Filed(t, chain[h])
            /\ HasLogs(chain[h]) => actions[h][t].call \/ lags > 0

\* The row of such a block in table blocks is the block itself, unless such a
\* replica sent another one, or a restart made the indexer handle the chunk
\* twice: then the first version of it stays, because of ON CONFLICT (num) DO
\* NOTHING (db.go:80-84).
BlockRowSettled ==
    \A h \in Heights :
        h <= lastIndexed /\ Settled(h) /\ HasLogs(chain[h])
            => blocks[h] = chain[h] \/ stops > 0 \/ lags > 0

\* No block is taken for empty before it exists: what the cursor passed was
\* on the chain when its logs were asked for, unless a replica answered that
\* was behind (backfill.go:80, 241).
NotAskedTooEarly ==
    \A h \in Heights : h <= lastIndexed /\ asked[h] = None => lags > 0

\* The actions of a transaction are rows of at most one block more than there
\* were reorganisations: every row but one is of a block that was replaced.
RowsBounded ==
    \A t \in Tx :
        Cardinality({h \in Heights : actions[h][t] # NoRow}) <= 1 + reorgs

\* A reorganisation by itself never ends the goroutine: every block asked for
\* exists, in whatever version, so only a replica that is behind can answer
\* null (rpc.go:294-296, backfill.go:271-273).
SurvivesReorgs == pc = "dead" => lags > 0

(***************************************************************************)
(* README.md:51, "Tracks latest indexed block with reorg-safe windowing":  *)
(* an action of a block that a reorganisation of at most reorg_depth       *)
(* blocks removed does not stay.  The code stores blocks up to the latest  *)
(* one and never looks at a block again.                                   *)
(***************************************************************************)
ReorgSafe ==
    \A h \in Heights, t \in Tx :
        actions[h][t].call /\ t \notin chain[h].txs
            ~> ~actions[h][t].call \/ t \in chain[h].txs
=============================================================================
