----------------------------- MODULE ReorgProofs ----------------------------
(***************************************************************************)
(* What LiveIndexing promises against a chain that is reorganised, read    *)
(* through replicas that may be behind or on a branch that was left: for   *)
(* every chain, every number of reorganisations, such replicas and         *)
(* restarts.                                                               *)
(*                                                                         *)
(* A block that a reorganisation removes never comes back.  So if the      *)
(* block at a height is the one eth_getLogs answered from, nothing at this *)
(* height was replaced in between, and the block fetched after it is the   *)
(* same, unless it came from a replica on another branch; and a            *)
(* transaction is in one block of each branch, which bounds the rows it    *)
(* can leave.                                                              *)
(***************************************************************************)
EXTENDS Stats, FiniteSetTheorems, TLAPS

(***************************************************************************)
(* The invariant: what the tables hold behind the cursor, and what of the  *)
(* chunk at hand is already asked for, fetched and stored.                 *)
(***************************************************************************)
InChunk(h) == from <= h /\ h <= ChunkEnd

Covers(r, h) == r[1] <= h /\ h <= r[2]

\* The logs of h have been asked for in this round.
Answered(h) == InChunk(h) /\ \A r \in asking : ~Covers(r, h)

Working == pc \notin {"poll", "dead"}

\* Behind the cursor, or handed over by the stages that come before those of S.
Past(h, S) == h <= lastIndexed \/ (pc \in S /\ InChunk(h))

\* Blocks have the height at which they are found, and no branch to come.
Shape(c, top, last) ==
    \A h \in Heights : c[h] # None =>
        h <= top /\ c[h] \in Block /\ c[h].height = h /\ c[h].branch <= last

\* A chain has no hole.
Filled(c) == \A g \in Heights, h \in Heights : g <= h /\ c[h] # None => c[g] # None

Placed ==
    /\ \A h \in 1..head : chain[h] # None
    /\ \A c \in left \cup {chain} : Shape(c, head, reorgs) /\ Filled(c)
    /\ Shape(asked, head, reorgs)

ChunkShape ==
    /\ from = lastIndexed + 1
    /\ pc = "poll" => logs = {} /\ got = {}
    /\ pc # "poll" => from <= to
    /\ pc # "logs" => asking = {}
    /\ asking # {} => got = {}
    /\ \A r \in asking : from <= r[1] /\ r[1] <= r[2] /\ r[2] <= ChunkEnd

Gathering ==
    /\ \A l \in logs : InChunk(l.block.height) /\ l.block.height <= head
    /\ \A b \in got : InChunk(b.height) /\ \A c \in got : c.height = b.height => c = b
    /\ pc \in {"blocks", "calls", "events", "cursor"} =>
          \A l \in logs : \E b \in got : b.height = l.block.height

\* All logs of what was asked for are gathered.
LogsGathered ==
    Working => \A h \in Heights : Answered(h) =>
        \A t \in asked[h].txs \cap Emits : [tx |-> t, block |-> asked[h]] \in logs

\* A fetched block is the one its logs are from, unless that was replaced or
\* another replica sent it.
GotSettled == lags = 0 => \A b \in got : Settled(b.height) => b = chain[b.height]

BlockStored(h) ==
    /\ HasLogs(asked[h]) => blocks[h] # None
    /\ lags = 0 /\ stops = 0 /\ Settled(h) /\ HasLogs(chain[h]) => blocks[h] = chain[h]

CallsStored(h) ==
    lags = 0 /\ Settled(h) /\ HasLogs(chain[h]) => \A t \in chain[h].txs : actions[h][t].call

EventsStored(h) == \A t \in asked[h].txs \cap Emits : Filed(t, asked[h])

Stored ==
    \A h \in Heights :
        /\ Past(h, {"calls", "events", "cursor"}) => BlockStored(h)
        /\ Past(h, {"events", "cursor"}) => CallsStored(h)
        /\ Past(h, {"cursor"}) => EventsStored(h)

\* In its first life the explorer has stored no block that it has yet to handle.
NothingAhead ==
    stops = 0 => \A h \in Heights :
        blocks[h] # None => Past(h, {"calls", "events", "cursor"})

\* Without a replica that is behind, nothing is asked for that is not there.
InTime ==
    lags = 0 =>
        /\ to <= head
        /\ \A h \in Heights : h <= lastIndexed \/ (Working /\ Answered(h)) => asked[h] # None

(***************************************************************************)
(* A transaction is in one block of a branch, among all blocks it was ever *)
(* seen in.                                                                *)
(***************************************************************************)
Seen(b) ==
    \/ \E c \in left \cup {chain}, h \in Heights : b = c[h]
    \/ \E l \in logs : b = l.block
    \/ b \in got

Holds(b, t) ==
    /\ t \in b.txs
    /\ \/ Seen(b)
       \/ \E h \in Heights : actions[h][t] # NoRow /\ b = actions[h][t].hash

OneBlock ==
    \A t \in Tx, b \in Block : Holds(b, t) =>
        /\ b.branch <= reorgs
        /\ b.branch = reorgs => b.height <= head /\ chain[b.height] = b
        /\ \A c \in Block : Holds(c, t) /\ c.branch = b.branch => c = b

\* A row keeps the block that brought it, and a log is from a block that has
\* its transaction.
RowsPlaced ==
    /\ \A h \in Heights, t \in Tx : actions[h][t] # NoRow =>
          /\ actions[h][t].hash \in Block
          /\ actions[h][t].hash.height = h /\ t \in actions[h][t].hash.txs
    /\ \A l \in logs : l.tx \in l.block.txs

ReorgInv ==
    /\ TypeOK /\ Placed /\ ChunkShape /\ Gathering /\ LogsGathered /\ GotSettled
    /\ Stored /\ NothingAhead /\ InTime /\ OneBlock /\ RowsPlaced

(***************************************************************************)
(* Chunks, blocks and logs.                                                *)
(***************************************************************************)
LEMMA ChunkFacts ==
    ASSUME NEW a \in Nat, NEW b \in Nat, a <= b
    PROVE  /\ Chunk(a, b) = <<a, Chunk(a, b)[2]>>
           /\ Chunk(a, b)[2] \in Nat
           /\ a <= Chunk(a, b)[2] /\ Chunk(a, b)[2] <= b
BY ReorgAssumption DEF Chunk

LEMMA NoneHasNothing == None.height = 0 /\ None.txs = {} /\ None \notin Block
BY ReorgAssumption DEF None, Block, Heights

LEMMA LogsInFacts ==
    ASSUME NEW c \in [Heights -> Block \cup {None}], NEW H \in SUBSET Heights
    PROVE  /\ LogsIn(c, H) \subseteq Log
           /\ \A l \in LogsIn(c, H) :
                 \E h \in H : c[h] \in Block /\ l.block = c[h] /\ l.tx \in c[h].txs
           /\ \A h \in H : \A t \in c[h].txs \cap Emits :
                 [tx |-> t, block |-> c[h]] \in LogsIn(c, H)
<1>1. ASSUME NEW l \in LogsIn(c, H)
      PROVE  l \in Log /\ \E h \in H : c[h] \in Block /\ l.block = c[h] /\ l.tx \in c[h].txs
  <2>1. PICK h \in H : l \in [tx : c[h].txs \cap Emits, block : {c[h]}]
    BY DEF LogsIn
  <2>2. l.tx \in c[h].txs /\ l.tx \in Emits /\ l.block = c[h] /\ l = [tx |-> l.tx, block |-> l.block]
    BY <2>1
  <2>3. c[h] \in Block
    BY <2>2, NoneHasNothing
  <2> QED
    BY <2>2, <2>3 DEF Log
<1>2. \A h \in H : \A t \in c[h].txs \cap Emits :
          [tx |-> t, block |-> c[h]] \in LogsIn(c, H)
  BY DEF LogsIn
<1> QED
  BY <1>1, <1>2

\* Later, blocks are still where they belong.
LEMMA ShapeKept ==
    ASSUME NEW c, NEW top \in Nat, NEW last \in Nat, NEW top2 \in Nat, NEW last2 \in Nat,
           top <= top2, last <= last2, Shape(c, top, last)
    PROVE  Shape(c, top2, last2)
<1> SUFFICES ASSUME NEW h \in Heights, c[h] # None
             PROVE  h <= top2 /\ c[h] \in Block /\ c[h].height = h /\ c[h].branch <= last2
  BY DEF Shape
<1>1. h <= top /\ c[h] \in Block /\ c[h].height = h /\ c[h].branch <= last
  BY DEF Shape
<1>2. h \in Nat /\ c[h].branch \in Nat
  BY <1>1, ReorgAssumption DEF Heights, Block
<1> QED
  BY <1>1, <1>2

\* The logs and the chain have blocks of known height at heights of the chain.
LEMMA PlacedFacts ==
    ASSUME TypeOK, Placed
    PROVE  /\ head \in Nat /\ head <= MaxHeight /\ 1..head \subseteq Heights
           /\ reorgs \in Nat
           /\ \A h \in 1..head : chain[h] \in Block /\ chain[h] # None
           /\ \A h \in 1..head : chain[h].height = h /\ chain[h].branch <= reorgs
           /\ \A h \in Heights : chain[h] # None => h \in 1..head
           /\ \A h \in Heights : Settled(h) => asked[h] # None
<1>1. head \in Nat /\ head <= MaxHeight /\ 1..head \subseteq Heights /\ reorgs \in Nat
  BY ReorgAssumption DEF TypeOK, Heights
<1>2. Shape(chain, head, reorgs) /\ \A h \in 1..head : chain[h] # None
  BY DEF Placed
<1>3. \A h \in 1..head : /\ chain[h] \in Block /\ chain[h] # None
                         /\ chain[h].height = h /\ chain[h].branch <= reorgs
  BY <1>1, <1>2 DEF Shape
<1>4. \A h \in Heights : chain[h] # None => h \in 1..head
  BY <1>1, <1>2 DEF Shape, Heights
<1>5. \A h \in Heights : Settled(h) => asked[h] # None
  BY <1>1, <1>2 DEF Settled, Heights
<1> QED
  BY <1>1, <1>3, <1>4, <1>5

LEMMA NewBlockType ==
    ASSUME NEW h \in Heights, NEW n \in 0..MaxReorgs, NEW T \in SUBSET Tx
    PROVE  /\ NewBlock(h, n, T) \in Block
           /\ NewBlock(h, n, T).height = h /\ NewBlock(h, n, T).branch = n
           /\ NewBlock(h, n, T).txs = T
BY DEF NewBlock, Block

LEMMA RowType ==
    ASSUME NEW row \in Row, NEW b \in Block
    PROVE  /\ Upsert(row, b) \in Row
           /\ Upsert(row, b).events = row.events /\ Upsert(row, b).call = row.call
           /\ Upsert(row, b).hash = IF row.hash = None THEN b ELSE row.hash
           /\ [Upsert(row, b) EXCEPT !.call = TRUE] \in Row
BY DEF Upsert, Row

LEMMA AppendType ==
    ASSUME NEW row \in Row, NEW b \in Block, NEW t, LogsOf(t) \subseteq Block
    PROVE  /\ Append(row, t, b) \in Row
           /\ Append(row, t, b).events = row.events \cup LogsOf(t)
           /\ Append(row, t, b).call = row.call
           /\ Append(row, t, b).hash = Upsert(row, b).hash
<1> DEFINE up == Upsert(row, b)
<1>1. up \in Row /\ up.events = row.events /\ up.call = row.call
  BY RowType
<1>2. Append(row, t, b) = [up EXCEPT !.events = up.events \cup LogsOf(t)]
  BY DEF Append
<1> HIDE DEF up
<1> QED
  BY <1>1, <1>2 DEF Row, up

\* The first events of the groups.
LEMMA FirstFacts ==
    ASSUME TypeOK, NEW first \in Firsts, NEW t \in DOMAIN first
    PROVE  /\ first[t] \in LogsOf(t) /\ first[t] \in Block
           /\ [tx |-> t, block |-> first[t]] \in logs
           /\ t \in Emits /\ LogsOf(t) \subseteq Block
<1>1. first[t] \in LogsOf(t) /\ \E l \in logs : t = l.tx
  BY DEF Firsts
<1>2. \A b \in LogsOf(t) : \E l \in logs : l.tx = t /\ l.block = b
  BY DEF LogsOf
<1>3. \A l \in logs : l = [tx |-> l.tx, block |-> l.block] /\ l.tx \in Emits /\ l.block \in Block
  BY DEF TypeOK, Log
<1> QED
  BY <1>1, <1>2, <1>3

(***************************************************************************)
(* Type correctness.                                                       *)
(***************************************************************************)
LEMMA InitReorgType == Init => TypeOK
<1> SUFFICES ASSUME Init PROVE TypeOK
  OBVIOUS
<1>1. /\ MaxHeight \in Nat /\ History \in Nat /\ History <= MaxHeight /\ MaxReorgs \in Nat
      /\ MaxLags \in Nat /\ MaxStops \in Nat
  BY ReorgAssumption
<1>2. chain \in [Heights -> Block \cup {None}]
  <2>1. PICK T \in [1..head -> SUBSET Tx] :
            chain = [h \in Heights |-> IF h <= head THEN NewBlock(h, 0, T[h]) ELSE None]
    BY DEF Init
  <2>2. ASSUME NEW h \in Heights, h <= head PROVE NewBlock(h, 0, T[h]) \in Block
    <3>1. T[h] \in SUBSET Tx
      BY <1>1, <2>2 DEF Init, Heights
    <3> QED
      BY <1>1, <3>1, NewBlockType
  <2> QED
    BY <2>1, <2>2
<1>3. NoRow \in Row
  BY DEF NoRow, Row
<1> QED
  BY <1>1, <1>2, <1>3 DEF Init, TypeOK, Heights

\* The steps of the chain and the process, and the requests.
LEMMA ChainType ==
    ASSUME TypeOK, Placed, Grow \/ (\E fork \in Heights : Reorganise(fork)) PROVE TypeOK'
<1>1. /\ MaxHeight \in Nat /\ MaxReorgs \in Nat
  BY ReorgAssumption
<1>2. CASE Grow
  <2>1. head' = head + 1 /\ head' \in 0..MaxHeight /\ head + 1 \in Heights
    BY <1>1, <1>2 DEF Grow, TypeOK, Heights
  <2>2. PICK T \in SUBSET (Tx \ Mined(1..head)) :
            chain' = [chain EXCEPT ![head + 1] = NewBlock(head + 1, reorgs, T)]
    BY <1>2 DEF Grow
  <2>3. NewBlock(head + 1, reorgs, T) \in Block
    BY <2>1, NewBlockType DEF TypeOK
  <2>4. chain' \in [Heights -> Block \cup {None}]
    BY <2>1, <2>2, <2>3 DEF TypeOK
  <2> QED
    BY <1>2, <2>1, <2>4 DEF Grow, TypeOK, tables, chunkVars
<1>3. ASSUME NEW fork \in Heights, Reorganise(fork) PROVE TypeOK'
  <2>1. reorgs' = reorgs + 1 /\ reorgs' \in 0..MaxReorgs
    BY <1>1, <1>3 DEF Reorganise, TypeOK
  <2>2. PICK new \in [fork..head -> SUBSET (Tx \ Mined(1..(fork - 1)))] :
            chain' = [h \in Heights |-> IF h \in fork..head
                                        THEN NewBlock(h, reorgs + 1, new[h])
                                        ELSE chain[h]]
    BY <1>3 DEF Reorganise
  <2>3. ASSUME NEW h \in Heights, h \in fork..head PROVE NewBlock(h, reorgs + 1, new[h]) \in Block
    BY <2>1, <2>3, NewBlockType
  <2>4. chain' \in [Heights -> Block \cup {None}]
    BY <2>2, <2>3 DEF TypeOK
  <2> QED
    BY <1>3, <2>1, <2>4 DEF Reorganise, TypeOK, tables, chunkVars
<1> QED
  BY <1>2, <1>3

\* What any replica answers is part of a chain that is or was.
LEMMA AnswerFacts ==
    ASSUME TypeOK, Placed, NEW c \in left \cup {chain}, NEW n \in 0..head, Answer(c, n)
    PROVE  /\ lags \in Nat /\ lags' \in 0..MaxLags /\ lags <= lags'
           /\ lags' = 0 => c = chain /\ n = head
           /\ c \in [Heights -> Block \cup {None}]
           /\ View(c, n) \in [Heights -> Block \cup {None}]
           /\ \A h \in Heights : h <= n =>
                 c[h] \in Block /\ c[h] # None /\ c[h].height = h /\ c[h].branch <= reorgs
<1>1. lags \in Nat /\ MaxLags \in Nat /\ head \in Nat /\ head <= MaxHeight /\ MaxHeight \in Nat
  BY ReorgAssumption DEF TypeOK
<1>2. lags' \in 0..MaxLags /\ lags <= lags' /\ (lags' = 0 => c = chain /\ n = head)
  BY <1>1 DEF TypeOK, Answer
<1>3. c \in [Heights -> Block \cup {None}] /\ Shape(c, head, reorgs) /\ Filled(c)
  BY DEF TypeOK, Placed
<1>4. ASSUME NEW h \in Heights, h <= n
      PROVE  c[h] \in Block /\ c[h] # None /\ c[h].height = h /\ c[h].branch <= reorgs
  <2>1. n \in Heights /\ n > 0
    BY <1>1, <1>4 DEF Heights
  <2>2. c[n] # None
    BY <2>1 DEF Answer
  <2>3. c[h] # None
    BY <1>3, <1>4, <2>1, <2>2 DEF Filled
  <2> QED
    BY <1>3, <2>3 DEF Shape
<1>5. View(c, n) \in [Heights -> Block \cup {None}]
  BY <1>3 DEF View
<1> QED
  BY <1>1, <1>2, <1>3, <1>4, <1>5

LEMMA FetchType ==
    ASSUME TypeOK, Placed, ChunkShape, Gathering,
           \/ Poll \/ Fetched \/ (\E r \in Heights \X Heights : AnswerLogs(r) \/ SplitLogs(r))
           \/ (\E h \in Heights : FetchBlock(h))
    PROVE  TypeOK'
<1>1. /\ MaxHeight \in Nat /\ head \in Nat /\ head <= MaxHeight /\ from \in Nat /\ to \in Nat
      /\ 1..head \subseteq Heights /\ \A h \in 1..head : chain[h] \in Block
  BY ReorgAssumption, PlacedFacts DEF TypeOK
<1>2. CASE Poll
  <2>1. PICK c \in left \cup {chain}, latest \in 0..head :
            /\ Answer(c, latest) /\ from <= latest
            /\ from' = BackfillRange(latest)[1] /\ to' = BackfillRange(latest)[2]
            /\ asking' = {Chunk(from', to')}
    BY <1>2 DEF Poll
  <2>2. from' = from /\ to' = latest /\ latest \in Nat /\ latest <= MaxHeight
    BY <1>1, <2>1 DEF BackfillRange
  <2>3. Chunk(from, latest) \in Heights \X Heights
    <3>1. from <= latest /\ 1 <= from
      BY <2>1 DEF TypeOK
    <3>2. /\ Chunk(from, latest) = <<from, Chunk(from, latest)[2]>>
          /\ Chunk(from, latest)[2] \in Nat
          /\ from <= Chunk(from, latest)[2] /\ Chunk(from, latest)[2] <= latest
      BY <1>1, <2>2, <3>1, ChunkFacts
    <3>3. Chunk(from, latest)[2] \in Heights /\ from \in Heights
      BY <1>1, <2>2, <3>1, <3>2 DEF Heights
    <3> QED
      BY <3>2, <3>3
  <2> QED
    BY <1>1, <1>2, <2>1, <2>2, <2>3, AnswerFacts DEF Poll, TypeOK, nodeVars, tables
<1>3. ASSUME NEW r \in Heights \X Heights, AnswerLogs(r) PROVE TypeOK'
  <2>1. PICK c \in left \cup {chain}, n \in 0..head :
            /\ Answer(c, n)
            /\ logs' = logs \cup LogsIn(View(c, n), r[1]..r[2])
            /\ asked' = [h \in Heights |-> IF h \in r[1]..r[2] THEN View(c, n)[h] ELSE asked[h]]
    BY <1>3 DEF AnswerLogs
  <2>2. r[1]..r[2] \in SUBSET Heights /\ View(c, n) \in [Heights -> Block \cup {None}]
    BY <1>1, <2>1, AnswerFacts DEF Heights
  <2>3. logs' \subseteq Log
    BY <2>1, <2>2, LogsInFacts DEF TypeOK
  <2>4. asked' \in [Heights -> Block \cup {None}]
    BY <2>1, <2>2 DEF TypeOK
  <2> QED
    BY <1>3, <2>1, <2>3, <2>4, AnswerFacts DEF AnswerLogs, TypeOK, nodeVars, tables
<1>4. ASSUME NEW r \in Heights \X Heights, SplitLogs(r) PROVE TypeOK'
  <2>1. r[1] \in Nat /\ r[2] \in Nat /\ 1 <= r[1] /\ r[1] <= r[2] /\ r[2] <= MaxHeight
    BY <1>1, <1>4 DEF Heights, SplitLogs, ChunkShape
  <2>2. Mid(r) \in Nat /\ r[1] <= Mid(r) /\ Mid(r) <= r[2]
    BY <2>1 DEF Mid
  <2>3. Mid(r) # r[2] => <<r[1], Mid(r)>> \in Heights \X Heights /\ <<Mid(r) + 1, r[2]>> \in Heights \X Heights
    BY <1>1, <2>1, <2>2 DEF Heights
  <2> QED
    BY <1>4, <2>3 DEF SplitLogs, TypeOK, nodeVars, tables
<1>5. ASSUME NEW h \in Heights, FetchBlock(h) PROVE TypeOK'
  <2>1. PICK c \in left \cup {chain}, n \in 0..head :
            /\ Answer(c, n)
            /\ IF BlockNumber(h) <= n
               THEN got' = got \cup {c[BlockNumber(h)]} /\ UNCHANGED pc
               ELSE pc' = "dead" /\ UNCHANGED got
    BY <1>5 DEF FetchBlock
  <2>2. h <= n => c[h] \in Block
    BY <2>1, AnswerFacts
  <2> QED
    BY <1>5, <2>1, <2>2, AnswerFacts DEF FetchBlock, TypeOK, nodeVars, tables, BlockNumber
<1>6. CASE Fetched
  BY <1>6 DEF Fetched, TypeOK, nodeVars, tables, chunkVars
<1> QED
  BY <1>2, <1>3, <1>4, <1>5, <1>6

\* The stages of DBHandler.
LEMMA StageType ==
    ASSUME TypeOK, ChunkShape,
           PersistBlocks \/ PersistCalls \/ PersistEvents \/ AdvanceCursor \/ Restart
    PROVE  TypeOK'
<1> USE DEF Stage, nodeVars, tables, chunkVars
<1>1. CASE PersistBlocks
  <2>1. \A h \in Heights : (\E b \in got : b.height = h) => (CHOOSE b \in got : b.height = h) \in got
    OBVIOUS
  <2>2. blocks' \in [Heights -> Block \cup {None}]
    BY <1>1, <2>1 DEF PersistBlocks, TypeOK
  <2> QED
    BY <1>1, <2>2 DEF PersistBlocks, TypeOK
<1>2. CASE PersistCalls
  <2>1. ASSUME NEW h \in Heights, NEW t \in Tx, \E b \in got : b.height = h /\ t \in b.txs
        PROVE  [Upsert(actions[h][t], CHOOSE b \in got : b.height = h) EXCEPT !.call = TRUE] \in Row
    <3>1. (CHOOSE b \in got : b.height = h) \in Block /\ actions[h][t] \in Row
      BY <2>1 DEF TypeOK
    <3> QED
      BY <3>1, RowType
  <2>2. actions' \in [Heights -> [Tx -> Row]]
    BY <1>2, <2>1 DEF PersistCalls, TypeOK
  <2> QED
    BY <1>2, <2>2 DEF PersistCalls, TypeOK
<1>3. CASE PersistEvents
  <2>1. PICK first \in Firsts :
            actions' = [h \in Heights |-> [t \in Tx |->
                           IF t \in DOMAIN first /\ RowOf(first[t]) = h
                           THEN Append(actions[h][t], t, first[t])
                           ELSE actions[h][t]]]
    BY <1>3 DEF PersistEvents
  <2>2. ASSUME NEW h \in Heights, NEW t \in Tx, t \in DOMAIN first
        PROVE  Append(actions[h][t], t, first[t]) \in Row
    <3>1. first[t] \in Block /\ LogsOf(t) \subseteq Block /\ actions[h][t] \in Row
      BY <2>2, FirstFacts DEF TypeOK
    <3> QED
      BY <3>1, AppendType
  <2>3. actions' \in [Heights -> [Tx -> Row]]
    BY <2>1, <2>2 DEF TypeOK
  <2> QED
    BY <1>3, <2>3 DEF PersistEvents, TypeOK
<1>4. CASE AdvanceCursor
  <2>1. from \in Nat /\ to \in Nat /\ from <= to /\ to <= MaxHeight /\ MaxHeight \in Nat /\ 1 <= from
    BY <1>4, ReorgAssumption DEF AdvanceCursor, ChunkShape, TypeOK
  <2>2. ChunkEnd \in Nat /\ from <= ChunkEnd /\ ChunkEnd <= to
    BY <2>1, ChunkFacts DEF ChunkEnd
  <2>3. ASSUME ChunkEnd < to PROVE Chunk(ChunkEnd + 1, to) \in Heights \X Heights
    <3>1. ChunkEnd + 1 \in Nat /\ ChunkEnd + 1 <= to
      BY <2>1, <2>2, <2>3
    <3>2. /\ Chunk(ChunkEnd + 1, to) = <<ChunkEnd + 1, Chunk(ChunkEnd + 1, to)[2]>>
          /\ Chunk(ChunkEnd + 1, to)[2] \in Nat
          /\ ChunkEnd + 1 <= Chunk(ChunkEnd + 1, to)[2] /\ Chunk(ChunkEnd + 1, to)[2] <= to
      BY <2>1, <3>1, ChunkFacts
    <3>3. Chunk(ChunkEnd + 1, to)[2] \in Heights /\ ChunkEnd + 1 \in Heights
      BY <2>1, <2>2, <3>1, <3>2 DEF Heights
    <3> QED
      BY <3>2, <3>3
  <2>4. asking' \subseteq Heights \X Heights
    BY <1>4, <2>3 DEF AdvanceCursor
  <2> QED
    BY <1>4, <2>1, <2>2, <2>4 DEF AdvanceCursor, TypeOK
<1>5. CASE Restart
  BY <1>5, ReorgAssumption DEF Restart, TypeOK
<1> QED
  BY <1>1, <1>2, <1>3, <1>4, <1>5

(***************************************************************************)
(* The chain: nothing that was replaced is settled again.                  *)
(***************************************************************************)
Core ==
    /\ Placed /\ ChunkShape /\ Gathering /\ LogsGathered /\ GotSettled
    /\ Stored /\ NothingAhead /\ InTime

LEMMA SameChunk ==
    ASSUME UNCHANGED <<from, to>>
    PROVE  ChunkEnd' = ChunkEnd /\ \A h : InChunk(h)' <=> InChunk(h)
BY DEF ChunkEnd, Chunk, InChunk

LEMMA GrowSettled ==
    ASSUME TypeOK, Placed, Grow
    PROVE  /\ Placed' /\ head <= head'
           /\ \A h \in 1..head : h \in 1..head' /\ chain'[h] = chain[h]
           /\ \A h \in Heights : Settled(h)' => Settled(h) /\ chain'[h] = chain[h]
<1>1. /\ head \in Nat /\ MaxHeight \in Nat /\ head' = head + 1
      /\ head + 1 \in Heights /\ asked' = asked /\ reorgs' = reorgs
  BY ReorgAssumption DEF Grow, TypeOK, Heights
<1>2. PICK T \in SUBSET (Tx \ Mined(1..head)) :
          chain' = [chain EXCEPT ![head + 1] = NewBlock(head + 1, reorgs, T)]
  BY DEF Grow
<1>3. /\ chain'[head + 1] \in Block
      /\ chain'[head + 1].height = head + 1 /\ chain'[head + 1].branch = reorgs
  BY <1>1, <1>2, NewBlockType DEF TypeOK
<1>4. \A h \in Heights : h # head + 1 => chain'[h] = chain[h]
  BY <1>2 DEF TypeOK
<1>5. asked[head + 1] = None
  BY <1>1 DEF Placed, Shape
<1>6. \A h \in 1..head' : h \in Heights /\ (h = head + 1 \/ h \in 1..head)
  BY <1>1 DEF Heights
<1>7. reorgs \in Nat /\ head' \in Nat /\ left' = left
  BY <1>1, ReorgAssumption DEF TypeOK, Grow
<1>8. Placed'
  <2>1. \A h \in 1..head' : chain'[h] # None
    BY <1>3, <1>4, <1>6, NoneHasNothing DEF Placed
  <2>2. \A h \in Heights : chain'[h] # None <=> h <= head'
    BY <1>1, <1>3, <1>4, NoneHasNothing, PlacedFacts DEF Heights
  <2>3. Shape(chain', head', reorgs')
    <3>1. Shape(chain, head', reorgs)
      BY <1>1, <1>7, ShapeKept DEF Placed
    <3> QED
      BY <1>1, <1>3, <1>4, <1>7, <3>1 DEF Shape, Heights
  <2>4. Filled(chain')
    BY <1>1, <2>2 DEF Filled, Heights
  <2>5. \A c \in left : Shape(c, head', reorgs') /\ Filled(c)
    BY <1>1, <1>7, ShapeKept DEF Placed
  <2>6. Shape(asked', head', reorgs')
    BY <1>1, <1>7, ShapeKept DEF Placed
  <2> QED
    BY <1>7, <2>1, <2>3, <2>4, <2>5, <2>6 DEF Placed
<1> QED
  BY <1>1, <1>3, <1>4, <1>5, <1>8, NoneHasNothing DEF Settled, Heights

LEMMA ReorganiseSettled ==
    ASSUME TypeOK, Placed, NEW fork \in Heights, Reorganise(fork)
    PROVE  /\ Placed' /\ head' = head /\ reorgs' = reorgs + 1
           /\ \A h \in Heights : Settled(h)' => Settled(h) /\ chain'[h] = chain[h]
<1>1. /\ head \in Nat /\ MaxHeight \in Nat /\ head' = head /\ head <= MaxHeight /\ fork \in Nat
      /\ fork <= head /\ asked' = asked /\ reorgs' = reorgs + 1 /\ reorgs \in Nat
      /\ reorgs + 1 \in 0..MaxReorgs /\ left' = left \cup {chain}
  BY ReorgAssumption DEF Reorganise, TypeOK, Heights
<1>2. PICK new \in [fork..head -> SUBSET (Tx \ Mined(1..(fork - 1)))] :
          chain' = [h \in Heights |-> IF h \in fork..head
                                      THEN NewBlock(h, reorgs + 1, new[h])
                                      ELSE chain[h]]
  BY DEF Reorganise
<1>3. \A h \in Heights : h \in fork..head =>
          /\ chain'[h] \in Block
          /\ chain'[h].height = h /\ chain'[h].branch = reorgs + 1
  <2> SUFFICES ASSUME NEW h \in Heights, h \in fork..head
               PROVE  /\ chain'[h] \in Block
                      /\ chain'[h].height = h /\ chain'[h].branch = reorgs + 1
    OBVIOUS
  <2>1. chain'[h] = NewBlock(h, reorgs + 1, new[h]) /\ new[h] \in SUBSET Tx
    BY <1>2
  <2> QED
    BY <1>1, <2>1, NewBlockType
<1>4. \A h \in Heights : h \notin fork..head => chain'[h] = chain[h]
  BY <1>2
<1>5. Placed'
  <2>1. \A c \in left' : Shape(c, head', reorgs') /\ Filled(c)
    BY <1>1, ShapeKept DEF Placed
  <2>2. Shape(asked', head', reorgs')
    BY <1>1, ShapeKept DEF Placed
  <2>3. Shape(chain', head', reorgs')
    <3>1. Shape(chain, head', reorgs')
      BY <1>1, ShapeKept DEF Placed
    <3>2. \A h \in Heights : h \in fork..head => h <= head' /\ reorgs + 1 <= reorgs'
      BY <1>1
    <3> QED
      BY <1>1, <1>3, <1>4, <3>1, <3>2 DEF Shape
  <2>4. \A h \in Heights : chain'[h] # None <=> chain[h] # None
    <3>1. \A h \in Heights : h \in fork..head => chain[h] # None
      BY <1>1, PlacedFacts DEF Heights
    <3> QED
      BY <1>3, <1>4, <3>1, NoneHasNothing
  <2>5. Filled(chain')
    BY <2>4 DEF Placed, Filled
  <2>6. \A h \in 1..head' : chain'[h] # None
    BY <1>1, <2>4, PlacedFacts
  <2> QED
    BY <1>1, <2>1, <2>2, <2>3, <2>5, <2>6 DEF Placed
<1>6. \A h \in Heights : h \in fork..head => ~Settled(h)'
  <2> SUFFICES ASSUME NEW h \in Heights, h \in fork..head, asked[h] = chain'[h] PROVE FALSE
    BY <1>1 DEF Settled
  <2>1. asked[h] # None /\ asked[h].branch = reorgs + 1
    BY <1>3, NoneHasNothing
  <2> QED
    BY <1>1, <2>1 DEF Placed, Shape, TypeOK
<1> QED
  BY <1>1, <1>4, <1>5, <1>6 DEF Settled

LEMMA ChainCore ==
    ASSUME TypeOK, Core, Grow \/ (\E fork \in Heights : Reorganise(fork))
    PROVE  Core'
<1>1. /\ Placed' /\ head <= head' /\ head \in Nat /\ head' \in Nat
      /\ \A h \in Heights : Settled(h)' => Settled(h) /\ chain'[h] = chain[h]
  <2>1. head \in Nat /\ TypeOK /\ Placed
    BY ReorgAssumption DEF TypeOK, Core
  <2>2. CASE Grow
    <3>1. head' = head + 1
      BY <2>2 DEF Grow
    <3> QED
      BY <2>1, <2>2, <3>1, GrowSettled
  <2>3. ASSUME NEW fork \in Heights, Reorganise(fork)
        PROVE  /\ Placed' /\ head' = head
               /\ \A h \in Heights : Settled(h)' => Settled(h) /\ chain'[h] = chain[h]
    BY <2>1, <2>3, ReorganiseSettled
  <2> QED
    BY <2>1, <2>2, <2>3
<1>2. /\ UNCHANGED <<lags, stops, blocks, actions, lastIndexed, pc, from, to>>
      /\ UNCHANGED <<asking, logs, got, asked>>
  BY DEF Grow, Reorganise, tables, chunkVars
<1>3. ChunkEnd' = ChunkEnd /\ \A h : InChunk(h)' <=> InChunk(h)
  BY <1>2, SameChunk
<1>4. ChunkShape'
  BY <1>2, <1>3 DEF Core, ChunkShape
<1>5. Gathering'
  <2>1. \A l \in logs : l.block.height \in Nat
    BY DEF TypeOK, Log, Block, Heights
  <2> QED
    BY <1>1, <1>2, <1>3, <2>1 DEF Core, Gathering
<1>6. LogsGathered'
  BY <1>2, <1>3 DEF Core, LogsGathered, Answered, Working
<1>7. GotSettled'
  BY <1>1, <1>2 DEF Core, GotSettled, TypeOK, Block
<1>8. Stored'
  BY <1>1, <1>2, <1>3 DEF Core, Stored, Past, BlockStored, CallsStored, EventsStored, Filed
<1>9. NothingAhead'
  BY <1>2, <1>3 DEF Core, NothingAhead, Past
<1>10. InTime'
  <2>1. to \in Nat
    BY DEF TypeOK
  <2> QED
    BY <1>1, <1>2, <1>3, <2>1 DEF Core, InTime, Answered, Working
<1> QED
  BY <1>1, <1>4, <1>5, <1>6, <1>7, <1>8, <1>9, <1>10 DEF Core

(***************************************************************************)
(* The requests of a chunk.                                                *)
(***************************************************************************)
LEMMA Numbers ==
    ASSUME TypeOK
    PROVE  /\ MaxHeight \in Nat /\ head \in Nat /\ head <= MaxHeight /\ lags \in Nat /\ stops \in Nat
           /\ lastIndexed \in Nat /\ from \in Nat /\ to \in Nat /\ 1 <= from /\ to <= MaxHeight
BY ReorgAssumption DEF TypeOK

LEMMA WorkingChunk ==
    ASSUME TypeOK, ChunkShape, pc # "poll"
    PROVE  /\ ChunkEnd \in Nat /\ from <= ChunkEnd /\ ChunkEnd <= to
           /\ lastIndexed < from
<1>1. from <= to /\ from = lastIndexed + 1
  BY DEF ChunkShape
<1>2. from \in Nat /\ to \in Nat /\ lastIndexed \in Nat
  BY Numbers
<1>3. Chunk(from, to)[2] \in Nat /\ from <= Chunk(from, to)[2] /\ Chunk(from, to)[2] <= to
  BY <1>1, <1>2, ChunkFacts
<1> QED
  BY <1>1, <1>2, <1>3 DEF ChunkEnd

LEMMA PollCore == ASSUME TypeOK, Core, Poll PROVE Core'
<1>1. PICK c \in left \cup {chain}, latest \in 0..head :
          /\ Answer(c, latest) /\ from <= latest
          /\ from' = BackfillRange(latest)[1] /\ to' = BackfillRange(latest)[2]
          /\ asking' = {Chunk(from', to')}
  BY DEF Poll
<1>2. /\ from' = from /\ to' = latest /\ latest \in Nat
      /\ lags <= lags' /\ (lags' = 0 => latest = head)
  <2>1. latest \in Nat /\ from' = from /\ to' = latest
    BY <1>1, Numbers DEF BackfillRange
  <2> QED
    BY <1>1, <2>1, AnswerFacts DEF Core
<1>3. /\ UNCHANGED <<head, chain, left, reorgs, stops, blocks, actions, lastIndexed, logs, got, asked>>
      /\ pc = "poll" /\ pc' = "logs" /\ logs = {} /\ got = {}
  BY DEF Poll, nodeVars, tables, Core, ChunkShape
<1>4. /\ Chunk(from, latest) = <<from, ChunkEnd'>>
      /\ from <= ChunkEnd' /\ ChunkEnd' \in Nat
  BY <1>1, <1>2, Numbers, ChunkFacts DEF ChunkEnd
<1>5. Placed'
  BY <1>3 DEF Core, Placed
<1>6. ChunkShape'
  <2>1. \A r \in asking' : from' <= r[1] /\ r[1] <= r[2] /\ r[2] <= ChunkEnd'
    BY <1>1, <1>2, <1>4, Numbers
  <2> QED
    BY <1>1, <1>2, <1>3, <2>1 DEF Core, ChunkShape
<1>7. Gathering' /\ GotSettled'
  BY <1>3 DEF Gathering, GotSettled
<1>8. \A h \in Heights : ~Answered(h)'
  BY <1>1, <1>2, <1>4 DEF Answered, InChunk, Covers
<1>9. LogsGathered'
  BY <1>8 DEF LogsGathered
<1>10. Stored'
  <2>1. lags' = 0 => lags = 0
    BY <1>2, Numbers
  <2> QED
    BY <1>3, <2>1 DEF Core, Stored, Past, BlockStored, CallsStored, EventsStored, Filed, Settled
<1>11. NothingAhead'
  BY <1>3 DEF Core, NothingAhead, Past
<1>12. InTime'
  <2> SUFFICES ASSUME lags' = 0 PROVE /\ to' <= head'
                                      /\ \A h \in Heights : h <= lastIndexed' => asked'[h] # None
    BY <1>8 DEF InTime
  <2>1. lags \in Nat /\ lags = 0 /\ to' = head /\ head \in Nat
    BY <1>2, Numbers
  <2> QED
    BY <1>3, <2>1 DEF Core, InTime
<1> QED
  BY <1>5, <1>6, <1>7, <1>9, <1>10, <1>11, <1>12 DEF Core

LEMMA AnswerLogsCore ==
    ASSUME TypeOK, Core, NEW r \in Heights \X Heights, AnswerLogs(r)
    PROVE  Core'
<1>1. PICK c \in left \cup {chain}, n \in 0..head :
          /\ Answer(c, n)
          /\ logs' = logs \cup LogsIn(View(c, n), r[1]..r[2])
          /\ asked' = [h \in Heights |-> IF h \in r[1]..r[2] THEN View(c, n)[h] ELSE asked[h]]
  BY DEF AnswerLogs
<1>2. /\ UNCHANGED <<head, chain, left, reorgs, stops, blocks, actions, lastIndexed, pc, from, to, got>>
      /\ pc = "logs" /\ r \in asking /\ asking' = asking \ {r} /\ got = {}
  BY DEF AnswerLogs, nodeVars, tables, Core, ChunkShape
<1>3. /\ r[1] \in Nat /\ r[2] \in Nat /\ from <= r[1] /\ r[1] <= r[2] /\ r[2] <= ChunkEnd
      /\ ChunkEnd \in Nat /\ ChunkEnd <= to /\ lastIndexed < from
  BY <1>2, WorkingChunk DEF Core, ChunkShape, Heights
<1>4. ChunkEnd' = ChunkEnd /\ \A h : InChunk(h)' <=> InChunk(h)
  BY <1>2, SameChunk
<1>5. /\ lags \in Nat /\ lags' \in Nat /\ lags <= lags'
      /\ lags' = 0 => lags = 0 /\ c = chain /\ n = head
  BY <1>1, AnswerFacts, ReorgAssumption DEF Core
<1> DEFINE seen == View(c, n)
<1>6. /\ seen \in [Heights -> Block \cup {None}] /\ r[1]..r[2] \in SUBSET Heights
      /\ \A h \in Heights : seen[h] = IF h <= n THEN c[h] ELSE None
      /\ \A h \in Heights : seen[h] # None =>
            h <= head /\ seen[h] \in Block /\ seen[h].height = h /\ seen[h].branch <= reorgs
  <2>1. r[1]..r[2] \in SUBSET Heights
    BY <1>3, Numbers DEF Heights
  <2>2. \A h \in Heights : seen[h] = IF h <= n THEN c[h] ELSE None
    BY DEF View
  <2>3. seen \in [Heights -> Block \cup {None}]
    BY <1>1, AnswerFacts DEF Core
  <2>4. \A h \in Heights : h <= n =>
            h <= head /\ c[h] \in Block /\ c[h].height = h /\ c[h].branch <= reorgs
    BY <1>1, AnswerFacts, Numbers DEF Core, Heights
  <2> HIDE DEF seen
  <2> QED
    BY <2>1, <2>2, <2>3, <2>4
<1>7. /\ \A l \in LogsIn(seen, r[1]..r[2]) :
            \E h \in r[1]..r[2] : seen[h] \in Block /\ l.block = seen[h]
      /\ \A h \in r[1]..r[2] : \A t \in seen[h].txs \cap Emits :
            [tx |-> t, block |-> seen[h]] \in LogsIn(seen, r[1]..r[2])
  <2> HIDE DEF seen
  <2> QED
    BY <1>6, LogsInFacts
<1>8. \A h \in Heights : asked'[h] = IF Covers(r, h) THEN seen[h] ELSE asked[h]
  BY <1>1, <1>3 DEF Covers, Heights
<1>9. logs' = logs \cup LogsIn(seen, r[1]..r[2])
  BY <1>1
<1> HIDE DEF seen
<1>10. \A h \in Heights : Covers(r, h) <=> h \in r[1]..r[2]
  BY <1>3 DEF Covers, Heights
<1>11. \A h \in Heights : h <= lastIndexed => asked'[h] = asked[h]
  BY <1>3, <1>8, Numbers DEF Covers, Heights
<1>12. Placed'
  <2>1. Shape(asked', head, reorgs)
    BY <1>6, <1>8 DEF Core, Placed, Shape
  <2> QED
    BY <1>2, <2>1 DEF Core, Placed
<1>13. ChunkShape'
  BY <1>2, <1>4 DEF Core, ChunkShape
<1>14. Gathering'
  <2>1. ASSUME NEW l \in LogsIn(seen, r[1]..r[2])
        PROVE  InChunk(l.block.height) /\ l.block.height <= head
    <3>1. PICK h \in r[1]..r[2] : seen[h] \in Block /\ l.block = seen[h]
      BY <1>7
    <3>2. h \in Heights /\ h <= head /\ seen[h].height = h
      BY <1>6, <3>1, NoneHasNothing
    <3>3. InChunk(h)
      BY <1>3, Numbers DEF InChunk
    <3> QED
      BY <3>1, <3>2, <3>3
  <2>2. \A l \in logs' : InChunk(l.block.height) /\ l.block.height <= head
    BY <1>9, <2>1 DEF Core, Gathering
  <2> QED
    BY <1>2, <1>4, <2>2 DEF Gathering
<1>15. LogsGathered'
  <2> SUFFICES ASSUME NEW h \in Heights, Answered(h)', NEW t \in asked'[h].txs \cap Emits
               PROVE  [tx |-> t, block |-> asked'[h]] \in logs'
    BY DEF LogsGathered
  <2>1. CASE Covers(r, h)
    <3>1. asked'[h] = seen[h] /\ h \in r[1]..r[2]
      BY <1>8, <1>10, <2>1
    <3> QED
      BY <1>7, <1>9, <3>1
  <2>2. CASE ~Covers(r, h)
    <3>1. Answered(h)
      BY <1>2, <1>4, <2>2 DEF Answered
    <3> QED
      BY <1>2, <1>8, <1>9, <2>2, <3>1 DEF Core, LogsGathered, Working
  <2> QED
    BY <2>1, <2>2
<1>16. GotSettled'
  BY <1>2 DEF GotSettled
<1>17. Stored'
  BY <1>2, <1>5, <1>11 DEF Core, Stored, Past, BlockStored, CallsStored, EventsStored, Filed, Settled
<1>18. NothingAhead'
  BY <1>2 DEF Core, NothingAhead, Past
<1>19. InTime'
  <2> SUFFICES ASSUME lags' = 0
               PROVE  /\ to <= head
                      /\ \A h \in Heights : h <= lastIndexed \/ Answered(h)' => asked'[h] # None
    BY <1>2 DEF InTime
  <2>1. lags = 0 /\ c = chain /\ n = head /\ to <= head
    BY <1>5 DEF Core, InTime
  <2>2. ASSUME NEW h \in Heights, h <= lastIndexed PROVE asked'[h] # None
    BY <1>11, <2>1, <2>2 DEF Core, InTime
  <2>3. ASSUME NEW h \in Heights, Answered(h)' PROVE asked'[h] # None
    <3>1. CASE Covers(r, h)
      <4>1. h \in 1..head /\ h <= n
        BY <1>3, <2>1, <3>1, Numbers DEF Covers, Heights
      <4>2. chain[h] # None
        BY <4>1, PlacedFacts DEF Core
      <4> QED
        BY <1>6, <1>8, <2>1, <3>1, <4>1, <4>2
    <3>2. CASE ~Covers(r, h)
      <4>1. Answered(h)
        BY <1>2, <1>4, <2>3, <3>2 DEF Answered
      <4> QED
        BY <1>2, <1>8, <2>1, <3>2, <4>1 DEF Core, InTime, Working
    <3> QED
      BY <3>1, <3>2
  <2> QED
    BY <2>1, <2>2, <2>3
<1> QED
  BY <1>12, <1>13, <1>14, <1>15, <1>16, <1>17, <1>18, <1>19 DEF Core

LEMMA SplitLogsCore ==
    ASSUME TypeOK, Core, NEW r \in Heights \X Heights, SplitLogs(r)
    PROVE  Core'
<1>1. /\ UNCHANGED <<head, chain, left, reorgs, lags, stops, blocks, actions, lastIndexed>>
      /\ UNCHANGED <<from, to, logs, got, asked>>
      /\ pc = "logs" /\ r \in asking /\ got = {} /\ pc' \in {"logs", "dead"}
  BY DEF SplitLogs, nodeVars, tables, Core, ChunkShape
<1>2. /\ r[1] \in Nat /\ r[2] \in Nat /\ from <= r[1] /\ r[1] <= r[2] /\ r[2] <= ChunkEnd
      /\ ChunkEnd \in Nat
  BY <1>1, WorkingChunk DEF Core, ChunkShape, Heights
<1>3. Mid(r) \in Nat /\ r[1] <= Mid(r) /\ Mid(r) <= r[2]
  BY <1>2 DEF Mid
<1>4. ChunkEnd' = ChunkEnd /\ \A h : InChunk(h)' <=> InChunk(h)
  BY <1>1, SameChunk
<1>5. \/ pc' = "dead" /\ asking' = {}
      \/ /\ pc' = "logs" /\ Mid(r) # r[2]
         /\ asking' = (asking \ {r}) \cup {<<r[1], Mid(r)>>, <<Mid(r) + 1, r[2]>>}
  BY <1>1 DEF SplitLogs
<1>6. pc' = "logs" => \A h \in Heights : Answered(h)' => Answered(h)
  <2> SUFFICES ASSUME pc' = "logs", NEW h \in Heights, Answered(h)' PROVE Answered(h)
    OBVIOUS
  <2>1. ~Covers(r, h)
    <3>1. ~Covers(<<r[1], Mid(r)>>, h) /\ ~Covers(<<Mid(r) + 1, r[2]>>, h)
      BY <1>5 DEF Answered
    <3> QED
      BY <1>2, <1>3, <3>1 DEF Covers, Heights
  <2> QED
    BY <1>4, <1>5, <2>1 DEF Answered
<1>7. Placed'
  BY <1>1 DEF Core, Placed
<1>8. ChunkShape'
  <2>1. \A q \in asking' : from <= q[1] /\ q[1] <= q[2] /\ q[2] <= ChunkEnd
    BY <1>2, <1>3, <1>5, Numbers DEF Core, ChunkShape
  <2> QED
    BY <1>1, <1>4, <1>5, <2>1 DEF Core, ChunkShape
<1>9. Gathering'
  BY <1>1, <1>4 DEF Core, Gathering
<1>10. LogsGathered'
  BY <1>1, <1>6 DEF Core, LogsGathered, Working
<1>11. GotSettled'
  BY <1>1 DEF GotSettled
<1>12. Stored'
  BY <1>1 DEF Core, Stored, Past, BlockStored, CallsStored, EventsStored, Filed, Settled
<1>13. NothingAhead'
  BY <1>1 DEF Core, NothingAhead, Past
<1>14. InTime'
  BY <1>1, <1>6 DEF Core, InTime, Working
<1> QED
  BY <1>7, <1>8, <1>9, <1>10, <1>11, <1>12, <1>13, <1>14 DEF Core

LEMMA FetchBlockCore ==
    ASSUME TypeOK, Core, NEW h \in Heights, FetchBlock(h)
    PROVE  Core' /\ (pc' = "dead" => lags' > 0)
<1>1. PICK c \in left \cup {chain}, n \in 0..head :
          /\ Answer(c, n)
          /\ IF BlockNumber(h) <= n
             THEN got' = got \cup {c[BlockNumber(h)]} /\ UNCHANGED pc
             ELSE pc' = "dead" /\ UNCHANGED got
  BY DEF FetchBlock
<1>2. /\ UNCHANGED <<head, chain, left, reorgs, stops, blocks, actions, lastIndexed>>
      /\ UNCHANGED <<from, to, asking, logs, asked>>
      /\ pc = "logs" /\ asking = {} /\ pc' \in {"logs", "dead"}
  BY <1>1 DEF FetchBlock, nodeVars, tables
<1>3. PICK l \in logs : l.block.height = h
  BY DEF FetchBlock
<1>4. InChunk(h) /\ h <= head /\ h \in 1..head /\ \A b \in got : b.height # h
  BY <1>3, Numbers DEF FetchBlock, Core, Gathering, Heights
<1>5. /\ lags \in Nat /\ lags' \in Nat /\ lags <= lags'
      /\ lags' = 0 => lags = 0 /\ c = chain /\ n = head
  BY <1>1, AnswerFacts, ReorgAssumption DEF Core
<1>6. \/ h <= n /\ got' = got \cup {c[h]} /\ pc' = "logs"
      \/ got' = got /\ pc' = "dead" /\ lags' > 0
  BY <1>1, <1>2, <1>4, <1>5, Numbers DEF BlockNumber
<1>7. h <= n => c[h].height = h
  BY <1>1, AnswerFacts DEF Core
<1>8. ChunkEnd' = ChunkEnd /\ \A g : InChunk(g)' <=> InChunk(g)
  BY <1>2, SameChunk
<1>9. Placed'
  BY <1>2 DEF Core, Placed
<1>10. ChunkShape'
  BY <1>2, <1>8 DEF Core, ChunkShape
<1>11. Gathering'
  BY <1>2, <1>4, <1>6, <1>7, <1>8 DEF Core, Gathering
<1>12. LogsGathered'
  BY <1>2, <1>8 DEF Core, LogsGathered, Answered, Working
<1>13. GotSettled'
  BY <1>2, <1>5, <1>6, <1>7 DEF Core, GotSettled, Settled
<1>14. Stored'
  BY <1>2, <1>5 DEF Core, Stored, Past, BlockStored, CallsStored, EventsStored, Filed, Settled
<1>15. NothingAhead'
  BY <1>2 DEF Core, NothingAhead, Past
<1>16. InTime'
  BY <1>2, <1>5, <1>8 DEF Core, InTime, Answered, Working
<1> QED
  BY <1>6, <1>9, <1>10, <1>11, <1>12, <1>13, <1>14, <1>15, <1>16 DEF Core

LEMMA FetchedCore == ASSUME TypeOK, Core, Fetched PROVE Core'
<1>1. /\ UNCHANGED <<head, chain, left, reorgs, lags, stops, blocks, actions, lastIndexed>>
      /\ UNCHANGED <<from, to, asking, logs, got, asked>>
      /\ pc = "logs" /\ asking = {} /\ pc' = "blocks"
      /\ {l.block.height : l \in logs} = {b.height : b \in got}
  BY DEF Fetched, nodeVars, tables, chunkVars
<1>2. ChunkEnd' = ChunkEnd /\ \A n : InChunk(n)' <=> InChunk(n)
  BY <1>1, SameChunk
<1>3. Placed' /\ ChunkShape'
  BY <1>1, <1>2 DEF Core, Placed, ChunkShape
<1>4. Gathering'
  <2>1. \A l \in logs : \E b \in got : b.height = l.block.height
    BY <1>1
  <2> QED
    BY <1>1, <1>2, <2>1 DEF Core, Gathering
<1>5. LogsGathered' /\ GotSettled'
  BY <1>1, <1>2 DEF Core, LogsGathered, Answered, Working, GotSettled, Settled
<1>6. Stored' /\ NothingAhead'
  BY <1>1 DEF Core, Stored, NothingAhead, Past, BlockStored, CallsStored, EventsStored, Filed, Settled
<1>7. InTime'
  BY <1>1, <1>2 DEF Core, InTime, Answered, Working
<1> QED
  BY <1>3, <1>4, <1>5, <1>6, <1>7 DEF Core

(***************************************************************************)
(* The stages of DBHandler, the cursor and the restart.                    *)
(***************************************************************************)
\* What a stage leaves alone.
LEMMA StageCore ==
    ASSUME TypeOK, Core, pc \in {"blocks", "calls", "events"},
           pc' \in {"calls", "events", "cursor"},
           UNCHANGED <<nodeVars, lags, stops, lastIndexed, from, to, chunkVars, asked>>
    PROVE  /\ ChunkEnd' = ChunkEnd /\ (\A n : InChunk(n)' <=> InChunk(n))
           /\ Placed' /\ ChunkShape' /\ Gathering' /\ LogsGathered' /\ GotSettled' /\ InTime'
           /\ \A h \in Heights : Settled(h)' <=> Settled(h)
<1> USE DEF nodeVars, chunkVars
<1>1. ChunkEnd' = ChunkEnd /\ \A n : InChunk(n)' <=> InChunk(n)
  BY SameChunk
<1>2. Placed' /\ ChunkShape'
  BY <1>1 DEF Core, Placed, ChunkShape
<1>3. Gathering'
  BY <1>1 DEF Core, Gathering
<1>4. LogsGathered' /\ GotSettled'
  BY <1>1 DEF Core, LogsGathered, Answered, Working, GotSettled, Settled
<1>5. InTime'
  BY <1>1 DEF Core, InTime, Answered, Working
<1> QED
  BY <1>1, <1>2, <1>3, <1>4, <1>5 DEF Settled

\* In a stage, the whole chunk has been asked for and fetched.
LEMMA ChunkComplete ==
    ASSUME TypeOK, Core, pc \in {"blocks", "calls", "events", "cursor"},
           NEW h \in Heights, InChunk(h)
    PROVE  /\ \A t \in asked[h].txs \cap Emits : [tx |-> t, block |-> asked[h]] \in logs
           /\ HasLogs(asked[h]) => \E b \in got : b.height = h
<1>1. \A t \in asked[h].txs \cap Emits : [tx |-> t, block |-> asked[h]] \in logs
  BY DEF Core, ChunkShape, LogsGathered, Answered, Working
<1>2. ASSUME HasLogs(asked[h]) PROVE \E b \in got : b.height = h
  <2>1. PICK t \in asked[h].txs \cap Emits : TRUE
    BY <1>2 DEF HasLogs
  <2>2. asked[h].height = h
    BY <2>1, NoneHasNothing DEF Core, Placed, Shape
  <2>3. \E l \in logs : l.block = asked[h]
    BY <1>1, <2>1
  <2> QED
    BY <2>2, <2>3 DEF Core, Gathering
<1> QED
  BY <1>1, <1>2

LEMMA PersistBlocksCore == ASSUME TypeOK, Core, PersistBlocks PROVE Core'
<1>1. /\ UNCHANGED <<nodeVars, lags, stops, actions, lastIndexed, from, to, chunkVars, asked>>
      /\ pc = "blocks" /\ pc' = "calls"
  BY DEF PersistBlocks, Stage
<1>2. /\ ChunkEnd' = ChunkEnd /\ (\A n : InChunk(n)' <=> InChunk(n))
      /\ Placed' /\ ChunkShape' /\ Gathering' /\ LogsGathered' /\ GotSettled' /\ InTime'
      /\ \A h \in Heights : Settled(h)' <=> Settled(h)
  BY <1>1, StageCore
<1>3. \A h \in Heights :
          \/ blocks'[h] = blocks[h] /\ (blocks[h] = None => \A b \in got : b.height # h)
          \/ blocks[h] = None /\ \E b \in got : b.height = h /\ blocks'[h] = b
  BY DEF PersistBlocks
<1>4. \A b \in got : InChunk(b.height) /\ b # None
  BY NoneHasNothing DEF Core, Gathering, TypeOK
<1>5. \A h \in Heights : BlockStored(h) /\ h <= lastIndexed => BlockStored(h)'
  <2> SUFFICES ASSUME NEW h \in Heights, BlockStored(h), h <= lastIndexed PROVE BlockStored(h)'
    OBVIOUS
  <2>1. \A b \in got : b.height # h
    BY <1>1, <1>4, WorkingChunk, Numbers DEF Core, InChunk, Heights
  <2>2. blocks'[h] = blocks[h]
    BY <1>3, <2>1
  <2> QED
    BY <1>1, <1>2, <2>2 DEF BlockStored, nodeVars
<1>6. ASSUME NEW h \in Heights, InChunk(h) PROVE BlockStored(h)'
  <2>1. ASSUME HasLogs(asked[h]) PROVE blocks'[h] # None
    BY <1>1, <1>3, <1>4, <1>6, <2>1, ChunkComplete
  <2>2. ASSUME lags = 0, stops = 0, Settled(h), HasLogs(chain[h]) PROVE blocks'[h] = chain[h]
    <3>1. HasLogs(asked[h])
      BY <2>2 DEF Settled
    <3>2. \E b \in got : b.height = h
      BY <1>1, <1>6, <3>1, ChunkComplete
    <3>3. blocks[h] = None
      BY <1>1, <1>6, <2>2, WorkingChunk, Numbers DEF Core, NothingAhead, Past, InChunk, Heights
    <3>4. PICK b \in got : b.height = h /\ blocks'[h] = b
      BY <1>3, <3>2, <3>3
    <3> QED
      BY <2>2, <3>4 DEF Core, GotSettled
  <2> QED
    BY <1>1, <1>2, <2>1, <2>2 DEF BlockStored, nodeVars
<1>7. Stored'
  <2>1. \A h \in Heights : h <= lastIndexed => BlockStored(h) /\ CallsStored(h) /\ EventsStored(h)
    BY DEF Core, Stored, Past
  <2>2. \A h \in Heights : h <= lastIndexed => CallsStored(h)' /\ EventsStored(h)'
    BY <1>1, <1>2, <2>1 DEF CallsStored, EventsStored, Filed, nodeVars
  <2> QED
    BY <1>1, <1>2, <1>5, <1>6, <2>1, <2>2 DEF Stored, Past
<1>8. NothingAhead'
  <2>1. \A h \in Heights : blocks'[h] # None => blocks[h] # None \/ InChunk(h)
    BY <1>3, <1>4
  <2> QED
    BY <1>1, <1>2, <2>1 DEF Core, NothingAhead, Past
<1> QED
  BY <1>2, <1>7, <1>8 DEF Core

\* Calls that are stored stay so, and events as well.
LEMMA PersistCallsCore == ASSUME TypeOK, Core, PersistCalls PROVE Core'
<1>1. /\ UNCHANGED <<nodeVars, lags, stops, blocks, lastIndexed, from, to, chunkVars, asked>>
      /\ pc = "calls" /\ pc' = "events"
  BY DEF PersistCalls, Stage
<1>2. /\ ChunkEnd' = ChunkEnd /\ (\A n : InChunk(n)' <=> InChunk(n))
      /\ Placed' /\ ChunkShape' /\ Gathering' /\ LogsGathered' /\ GotSettled' /\ InTime'
      /\ \A h \in Heights : Settled(h)' <=> Settled(h)
  BY <1>1, StageCore
<1>3. ASSUME NEW h \in Heights, NEW t \in Tx
      PROVE  /\ actions'[h][t].events = actions[h][t].events
             /\ actions[h][t].call => actions'[h][t].call
             /\ (\E b \in got : b.height = h /\ t \in b.txs) => actions'[h][t].call
  <2>1. actions'[h][t] = IF \E b \in got : b.height = h /\ t \in b.txs
                         THEN [Upsert(actions[h][t], CHOOSE b \in got : b.height = h)
                                  EXCEPT !.call = TRUE]
                         ELSE actions[h][t]
    BY DEF PersistCalls
  <2>2. CASE \E b \in got : b.height = h /\ t \in b.txs
    <3>1. (CHOOSE b \in got : b.height = h) \in Block /\ actions[h][t] \in Row
      BY <2>2 DEF TypeOK
    <3> DEFINE up == Upsert(actions[h][t], CHOOSE b \in got : b.height = h)
    <3>2. up \in Row /\ up.events = actions[h][t].events
      BY <3>1, RowType
    <3>3. actions'[h][t] = [up EXCEPT !.call = TRUE]
      BY <2>1, <2>2
    <3> HIDE DEF up
    <3> QED
      BY <3>2, <3>3 DEF Row
  <2>3. CASE ~\E b \in got : b.height = h /\ t \in b.txs
    BY <2>1, <2>3
  <2> QED
    BY <2>2, <2>3
<1>4. \A h \in Heights : BlockStored(h)' <=> BlockStored(h)
  BY <1>1, <1>2 DEF BlockStored, nodeVars
<1>5. \A h \in Heights : EventsStored(h) => EventsStored(h)'
  <2> SUFFICES ASSUME NEW h \in Heights, EventsStored(h), NEW t \in asked[h].txs \cap Emits
               PROVE  Filed(t, asked[h])'
    BY <1>1 DEF EventsStored
  <2>1. t \in Tx
    BY ReorgAssumption
  <2> QED
    BY <1>1, <1>3, <2>1 DEF EventsStored, Filed
<1>6. ASSUME lags = 0,
             NEW h \in Heights, Settled(h), HasLogs(chain[h]), InChunk(h) \/ CallsStored(h),
             NEW t \in chain[h].txs
      PROVE  actions'[h][t].call
  <2>1. t \in Tx
    <3>1. h \in 1..head
      BY <1>6, Numbers DEF Settled, Heights
    <3>2. chain[h] \in Block
      BY <3>1, PlacedFacts DEF Core
    <3> QED
      BY <3>2 DEF Block
  <2>2. CASE CallsStored(h)
    BY <1>3, <1>6, <2>1, <2>2 DEF CallsStored
  <2>3. CASE InChunk(h)
    <3>1. HasLogs(asked[h])
      BY <1>6 DEF Settled
    <3>2. PICK b \in got : b.height = h
      BY <1>1, <2>3, <3>1, ChunkComplete
    <3>3. b = chain[h]
      BY <1>6, <3>2 DEF Core, GotSettled
    <3> QED
      BY <1>3, <2>1, <3>2, <3>3
  <2> QED
    BY <1>6, <2>2, <2>3
<1>7. \A h \in Heights : InChunk(h) \/ CallsStored(h) => CallsStored(h)'
  BY <1>1, <1>2, <1>6 DEF CallsStored, nodeVars
<1>8. Stored'
  BY <1>1, <1>2, <1>4, <1>5, <1>7 DEF Core, Stored, Past
<1>9. NothingAhead'
  BY <1>1, <1>2 DEF Core, NothingAhead, Past
<1> QED
  BY <1>2, <1>8, <1>9 DEF Core

LEMMA PersistEventsCore == ASSUME TypeOK, Core, PersistEvents PROVE Core'
<1>1. /\ UNCHANGED <<nodeVars, lags, stops, blocks, lastIndexed, from, to, chunkVars, asked>>
      /\ pc = "events" /\ pc' = "cursor"
  BY DEF PersistEvents, Stage
<1>2. /\ ChunkEnd' = ChunkEnd /\ (\A n : InChunk(n)' <=> InChunk(n))
      /\ Placed' /\ ChunkShape' /\ Gathering' /\ LogsGathered' /\ GotSettled' /\ InTime'
      /\ \A h \in Heights : Settled(h)' <=> Settled(h)
  BY <1>1, StageCore
<1>3. PICK first \in Firsts :
          actions' = [h \in Heights |-> [t \in Tx |->
                         IF t \in DOMAIN first /\ RowOf(first[t]) = h
                         THEN Append(actions[h][t], t, first[t])
                         ELSE actions[h][t]]]
  BY DEF PersistEvents
<1>4. ASSUME NEW h \in Heights, NEW t \in Tx
      PROVE  /\ actions'[h][t].call = actions[h][t].call
             /\ actions[h][t].events \subseteq actions'[h][t].events
             /\ t \in DOMAIN first /\ first[t].height = h => LogsOf(t) \subseteq actions'[h][t].events
  <2>1. actions'[h][t] = IF t \in DOMAIN first /\ first[t].height = h
                         THEN Append(actions[h][t], t, first[t])
                         ELSE actions[h][t]
    BY <1>3 DEF RowOf
  <2>2. CASE t \in DOMAIN first /\ first[t].height = h
    <3>1. actions[h][t] \in Row /\ first[t] \in Block /\ LogsOf(t) \subseteq Block
      BY <2>2, FirstFacts DEF TypeOK
    <3> QED
      BY <2>1, <2>2, <3>1, AppendType
  <2>3. CASE ~(t \in DOMAIN first /\ first[t].height = h)
    BY <2>1, <2>3
  <2> QED
    BY <2>2, <2>3
<1>5. ASSUME NEW h \in Heights, EventsStored(h) \/ InChunk(h), NEW t \in asked[h].txs \cap Emits
      PROVE  Filed(t, asked[h])'
  <2>1. t \in Tx
    BY ReorgAssumption
  <2>2. CASE EventsStored(h)
    BY <1>1, <1>4, <2>1, <2>2 DEF EventsStored, Filed
  <2>3. CASE InChunk(h)
    <3>1. [tx |-> t, block |-> asked[h]] \in logs
      BY <1>1, <2>3, ChunkComplete
    <3>2. t \in DOMAIN first /\ asked[h] \in LogsOf(t)
      BY <3>1 DEF Firsts, LogsOf
    <3>3. first[t] \in LogsOf(t) /\ first[t].height \in Heights
      BY <3>2, FirstFacts DEF Block
    <3>4. LogsOf(t) \subseteq actions'[first[t].height][t].events
      BY <1>4, <2>1, <3>2, <3>3
    <3> QED
      BY <1>1, <3>2, <3>3, <3>4 DEF Filed
  <2> QED
    BY <1>5, <2>2, <2>3
<1>6. \A h \in Heights : EventsStored(h) \/ InChunk(h) => EventsStored(h)'
  BY <1>1, <1>5 DEF EventsStored
<1>7. \A h \in Heights : CallsStored(h) => CallsStored(h)'
  <2> SUFFICES ASSUME lags = 0, NEW h \in Heights, CallsStored(h), Settled(h), HasLogs(chain[h]),
                      NEW t \in chain[h].txs
               PROVE  actions'[h][t].call
    BY <1>1, <1>2 DEF CallsStored, nodeVars
  <2>1. t \in Tx
    <3>1. h \in 1..head
      BY Numbers DEF Settled, Heights
    <3>2. chain[h] \in Block
      BY <3>1, PlacedFacts DEF Core
    <3> QED
      BY <3>2 DEF Block
  <2> QED
    BY <1>4, <2>1 DEF CallsStored
<1>8. \A h \in Heights : BlockStored(h)' <=> BlockStored(h)
  BY <1>1, <1>2 DEF BlockStored, nodeVars
<1>9. Stored'
  BY <1>1, <1>2, <1>6, <1>7, <1>8 DEF Core, Stored, Past
<1>10. NothingAhead'
  BY <1>1, <1>2 DEF Core, NothingAhead, Past
<1> QED
  BY <1>2, <1>9, <1>10 DEF Core

LEMMA AdvanceCore ==
    ASSUME TypeOK, Core, AdvanceCursor
    PROVE  Core' /\ lastIndexed <= lastIndexed'
<1>1. /\ UNCHANGED <<head, chain, left, reorgs, lags, stops, blocks, actions, to, asked>>
      /\ pc = "cursor" /\ logs' = {} /\ got' = {}
      /\ lastIndexed' = ChunkEnd /\ from' = ChunkEnd + 1
      /\ \/ ChunkEnd < to /\ pc' = "logs" /\ asking' = {Chunk(from', to)}
         \/ ~(ChunkEnd < to) /\ pc' = "poll" /\ asking' = {}
  BY DEF AdvanceCursor, nodeVars
<1>2. /\ ChunkEnd \in Nat /\ from <= ChunkEnd /\ ChunkEnd <= to /\ lastIndexed < from
      /\ asking = {}
  BY <1>1, WorkingChunk DEF Core, ChunkShape
<1>3. ChunkEnd < to => /\ Chunk(from', to) = <<from', ChunkEnd'>>
                       /\ from' <= ChunkEnd' /\ ChunkEnd' \in Nat
  <2> SUFFICES ASSUME ChunkEnd < to
               PROVE  /\ Chunk(from', to) = <<from', ChunkEnd'>>
                      /\ from' <= ChunkEnd' /\ ChunkEnd' \in Nat
    OBVIOUS
  <2>1. from' \in Nat /\ to \in Nat /\ from' <= to /\ to' = to
    BY <1>1, <1>2, Numbers
  <2> QED
    BY <2>1, ChunkFacts DEF ChunkEnd
<1>4. \A h \in Heights : ~(Working' /\ Answered(h)')
  BY <1>1, <1>3 DEF Answered, InChunk, Covers, Working
<1>5. \A h \in Heights : h <= lastIndexed' => h <= lastIndexed \/ InChunk(h)
  BY <1>1, <1>2, Numbers DEF Core, ChunkShape, InChunk, Heights
<1>6. \A h \in Heights : h <= lastIndexed \/ InChunk(h) => h <= lastIndexed'
  BY <1>1, <1>2, Numbers DEF InChunk, Heights
<1>7. Placed'
  BY <1>1 DEF Core, Placed
<1>8. ChunkShape'
  <2>1. \A r \in asking' : from' <= r[1] /\ r[1] <= r[2] /\ r[2] <= ChunkEnd'
    BY <1>1, <1>2, <1>3
  <2>2. pc' # "poll" => from' <= to'
    BY <1>1, <1>2, Numbers
  <2> QED
    BY <1>1, <2>1, <2>2 DEF ChunkShape
<1>9. Gathering' /\ GotSettled' /\ LogsGathered'
  BY <1>1, <1>4 DEF Gathering, GotSettled, LogsGathered
<1>10. Stored'
  <2>1. \A h \in Heights : h <= lastIndexed' => BlockStored(h) /\ CallsStored(h) /\ EventsStored(h)
    BY <1>1, <1>5 DEF Core, Stored, Past
  <2>2. \A h \in Heights : h <= lastIndexed' => BlockStored(h)' /\ CallsStored(h)' /\ EventsStored(h)'
    BY <1>1, <2>1 DEF BlockStored, CallsStored, EventsStored, Filed, Settled
  <2> QED
    BY <1>1, <2>2 DEF Stored, Past
<1>11. NothingAhead'
  BY <1>1, <1>6 DEF Core, NothingAhead, Past
<1>12. InTime'
  <2>1. lags = 0 => \A h \in Heights : InChunk(h) => asked[h] # None
    BY <1>1, <1>2 DEF Core, InTime, Answered, Working
  <2> QED
    BY <1>1, <1>4, <1>5, <2>1 DEF Core, InTime
<1> QED
  BY <1>1, <1>2, <1>7, <1>8, <1>9, <1>10, <1>11, <1>12, Numbers DEF Core

LEMMA RestartCore == ASSUME TypeOK, Core, Restart PROVE Core'
<1>1. /\ UNCHANGED <<head, chain, left, reorgs, lags, blocks, actions, lastIndexed, asked>>
      /\ pc' = "poll" /\ logs' = {} /\ got' = {} /\ asking' = {} /\ stops' > 0
      /\ from' = lastIndexed + 1 /\ to' = 0
  BY Numbers DEF Restart, nodeVars, tables
<1>2. Placed' /\ ChunkShape' /\ Gathering' /\ LogsGathered' /\ GotSettled'
  BY <1>1 DEF Core, Placed, ChunkShape, Gathering, LogsGathered, GotSettled, Working
<1>3. Stored'
  <2>1. \A h \in Heights : h <= lastIndexed => BlockStored(h) /\ CallsStored(h) /\ EventsStored(h)
    BY DEF Core, Stored, Past
  <2>2. \A h \in Heights : h <= lastIndexed => BlockStored(h)' /\ CallsStored(h)' /\ EventsStored(h)'
    BY <1>1, <2>1 DEF BlockStored, CallsStored, EventsStored, Filed, Settled
  <2> QED
    BY <1>1, <2>2 DEF Stored, Past
<1>4. NothingAhead' /\ InTime'
  BY <1>1, Numbers DEF Core, NothingAhead, InTime, Working
<1> QED
  BY <1>2, <1>3, <1>4 DEF Core

(***************************************************************************)
(* One block of each branch.                                               *)
(***************************************************************************)
\* Steps that bring no block into sight keep what is known of the branches.
LEMMA NothingNew ==
    ASSUME OneBlock, UNCHANGED nodeVars,
           \A t \in Tx, b \in Block : Holds(b, t)' => Holds(b, t)
    PROVE  OneBlock'
BY DEF OneBlock, nodeVars

LEMMA GrowOneBlock ==
    ASSUME TypeOK, Placed, OneBlock, RowsPlaced, Grow
    PROVE  OneBlock' /\ RowsPlaced'
<1>1. /\ UNCHANGED <<reorgs, actions, logs, got>>
      /\ head \in Nat /\ head' = head + 1 /\ head + 1 \in Heights /\ 1..head \subseteq Heights
      /\ reorgs \in 0..MaxReorgs
  BY ReorgAssumption DEF Grow, tables, chunkVars, TypeOK, Heights
<1>2. PICK T \in SUBSET (Tx \ Mined(1..head)) :
          chain' = [chain EXCEPT ![head + 1] = NewBlock(head + 1, reorgs, T)]
  BY DEF Grow
<1> DEFINE new == NewBlock(head + 1, reorgs, T)
<1>3. /\ chain'[head + 1] = new /\ new.txs = T /\ new.height = head + 1 /\ new.branch = reorgs
      /\ \A h \in Heights : h # head + 1 => chain'[h] = chain[h]
      /\ \A h \in 1..head : chain'[h] = chain[h]
      /\ left' = left
  BY <1>1, <1>2, NewBlockType DEF TypeOK, Grow
<1> HIDE DEF new
<1>4. \A t \in Tx, b \in Block : Holds(b, t)' => Holds(b, t) \/ (b = new /\ t \in T)
  BY <1>1, <1>3 DEF Holds, Seen
<1>5. \A t \in T, b \in Block : Holds(b, t) => b.branch # reorgs
  <2> SUFFICES ASSUME NEW t \in T, NEW b \in Block, Holds(b, t), b.branch = reorgs PROVE FALSE
    OBVIOUS
  <2>1. b.height \in 1..head /\ chain[b.height] = b /\ t \in b.txs
    BY <1>1 DEF OneBlock, Holds, Block, Heights
  <2> QED
    BY <2>1 DEF Mined
<1>6. ASSUME NEW t \in Tx, NEW b \in Block, Holds(b, t)'
      PROVE  /\ b.branch <= reorgs
             /\ b.branch = reorgs => b.height <= head' /\ chain'[b.height] = b
             /\ \A c \in Block : Holds(c, t)' /\ c.branch = b.branch => c = b
  <2>1. CASE b = new /\ t \in T
    BY <1>1, <1>3, <1>4, <1>5, <2>1
  <2>2. CASE Holds(b, t)
    <3>1. b.branch = reorgs => b.height \in 1..head /\ chain[b.height] = b
      BY <1>1, <2>2 DEF OneBlock, Block, Heights
    <3>2. \A c \in Block : Holds(c, t)' /\ c.branch = b.branch => c = b
      BY <1>3, <1>4, <1>5, <2>2 DEF OneBlock
    <3> QED
      BY <1>1, <1>3, <2>2, <3>1, <3>2 DEF OneBlock
  <2> QED
    BY <1>4, <1>6, <2>1, <2>2
<1>7. OneBlock'
  BY <1>1, <1>6 DEF OneBlock
<1>8. RowsPlaced'
  BY <1>1 DEF RowsPlaced
<1> QED
  BY <1>7, <1>8

LEMMA ReorganiseOneBlock ==
    ASSUME TypeOK, Placed, OneBlock, RowsPlaced, NEW fork \in Heights, Reorganise(fork)
    PROVE  OneBlock' /\ RowsPlaced'
<1>1. /\ UNCHANGED <<head, actions, logs, got>>
      /\ head \in Nat /\ head <= MaxHeight /\ MaxHeight \in Nat /\ fork \in Nat /\ 1 <= fork
      /\ reorgs' = reorgs + 1 /\ reorgs \in Nat /\ reorgs + 1 \in 0..MaxReorgs
      /\ 1..head \subseteq Heights /\ left' = left \cup {chain}
  BY ReorgAssumption DEF Reorganise, tables, chunkVars, TypeOK, Heights
<1>2. PICK new \in [fork..head -> SUBSET (Tx \ Mined(1..(fork - 1)))] :
          /\ Disjoint(new)
          /\ chain' = [h \in Heights |-> IF h \in fork..head
                                         THEN NewBlock(h, reorgs + 1, new[h])
                                         ELSE chain[h]]
  BY DEF Reorganise
<1>3. ASSUME NEW h \in fork..head
      PROVE  /\ h \in Heights /\ chain'[h].txs = new[h]
             /\ chain'[h].height = h /\ chain'[h].branch = reorgs + 1
  <2>1. h \in Heights /\ new[h] \in SUBSET Tx
    BY <1>1, <1>2, <1>3 DEF Heights
  <2>2. chain'[h] = NewBlock(h, reorgs + 1, new[h])
    BY <1>2, <1>3, <2>1
  <2> QED
    BY <1>1, <2>1, <2>2, NewBlockType
<1>4. \A h \in Heights : h \notin fork..head => chain'[h] = chain[h]
  BY <1>2
<1>5. \A t \in Tx, b \in Block : Holds(b, t)' =>
          Holds(b, t) \/ \E h \in fork..head : b = chain'[h] /\ t \in new[h]
  BY <1>1, <1>3, <1>4 DEF Holds, Seen
<1>6. \A t \in Tx, b \in Block : Holds(b, t) => b.branch \in Nat /\ b.branch < reorgs + 1
  <2> SUFFICES ASSUME NEW t \in Tx, NEW b \in Block, Holds(b, t)
               PROVE  b.branch \in Nat /\ b.branch < reorgs + 1
    OBVIOUS
  <2>1. b.branch \in Nat /\ b.branch <= reorgs
    BY DEF OneBlock, Block
  <2> QED
    BY <1>1, <2>1
<1>7. ASSUME NEW t \in Tx, NEW b \in Block, Holds(b, t)'
      PROVE  /\ b.branch <= reorgs'
             /\ b.branch = reorgs' => b.height <= head' /\ chain'[b.height] = b
             /\ \A c \in Block : Holds(c, t)' /\ c.branch = b.branch => c = b
  <2>1. CASE \E h \in fork..head : b = chain'[h] /\ t \in new[h]
    <3>1. PICK h \in fork..head : b = chain'[h] /\ t \in new[h]
      BY <2>1
    <3>2. b.height = h /\ b.branch = reorgs + 1 /\ h <= head
      BY <1>3, <3>1
    <3>3. ASSUME NEW c \in Block, Holds(c, t)', c.branch = b.branch PROVE c = b
      <4>1. ~Holds(c, t)
        BY <1>1, <1>6, <3>2, <3>3
      <4>2. PICK g \in fork..head : c = chain'[g] /\ t \in new[g]
        BY <1>5, <3>3, <4>1
      <4>3. g = h
        BY <1>2, <3>1, <4>2 DEF Disjoint
      <4> QED
        BY <3>1, <4>2, <4>3
    <3> QED
      BY <1>1, <3>1, <3>2, <3>3
  <2>2. CASE Holds(b, t)
    <3>1. b.branch \in Nat /\ b.branch < reorgs + 1
      BY <1>6, <2>2
    <3>2. ASSUME NEW c \in Block, Holds(c, t)', c.branch = b.branch PROVE c = b
      <4>1. Holds(c, t)
        BY <1>1, <1>3, <1>5, <3>1, <3>2
      <4> QED
        BY <2>2, <3>2, <4>1 DEF OneBlock
    <3> QED
      BY <1>1, <3>1, <3>2
  <2> QED
    BY <1>5, <1>7, <2>1, <2>2
<1>8. OneBlock'
  BY <1>7 DEF OneBlock
<1>9. RowsPlaced'
  BY <1>1 DEF RowsPlaced
<1> QED
  BY <1>8, <1>9

LEMMA RequestsOneBlock ==
    ASSUME TypeOK, Core, OneBlock, RowsPlaced,
           \/ Poll \/ Fetched \/ AdvanceCursor \/ Restart \/ PersistBlocks
           \/ \E r \in Heights \X Heights : AnswerLogs(r) \/ SplitLogs(r)
           \/ \E h \in Heights : FetchBlock(h)
    PROVE  OneBlock' /\ RowsPlaced'
<1>1. UNCHANGED nodeVars /\ UNCHANGED actions
  BY DEF Poll, Fetched, AdvanceCursor, Restart, AnswerLogs, SplitLogs, FetchBlock,
         PersistBlocks, Stage, tables, nodeVars
<1>2. 1..head \subseteq Heights /\ (\A h \in 1..head : chain[h] \in Block)
  BY PlacedFacts DEF Core
<1>3. ASSUME logs' \subseteq logs, got' \subseteq got PROVE OneBlock' /\ RowsPlaced'
  <2>1. \A t \in Tx, b \in Block : Holds(b, t)' => Holds(b, t)
    BY <1>1, <1>3 DEF Holds, Seen, nodeVars
  <2> QED
    BY <1>1, <1>3, <2>1, NothingNew DEF RowsPlaced
<1>4. CASE Poll \/ Fetched \/ AdvanceCursor \/ Restart \/ PersistBlocks
           \/ \E r \in Heights \X Heights : SplitLogs(r)
  <2>1. logs' \subseteq logs /\ got' \subseteq got
    BY <1>4 DEF Poll, Fetched, AdvanceCursor, Restart, SplitLogs, PersistBlocks, Stage, chunkVars
  <2> QED
    BY <1>3, <2>1
<1>5. ASSUME NEW r \in Heights \X Heights, AnswerLogs(r) PROVE OneBlock' /\ RowsPlaced'
  <2>1. PICK c \in left \cup {chain}, n \in 0..head :
            Answer(c, n) /\ logs' = logs \cup LogsIn(View(c, n), r[1]..r[2])
    BY <1>5 DEF AnswerLogs
  <2> DEFINE seen == View(c, n)
  <2>2. /\ r[1]..r[2] \in SUBSET Heights /\ seen \in [Heights -> Block \cup {None}]
        /\ \A h \in Heights : seen[h] \in {c[h], None}
    <3>1. r[1]..r[2] \in SUBSET Heights
      BY Numbers DEF Heights
    <3>2. seen \in [Heights -> Block \cup {None}]
      BY <2>1, AnswerFacts DEF Core
    <3>3. \A h \in Heights : seen[h] \in {c[h], None}
      BY DEF View
    <3> QED
      BY <3>1, <3>2, <3>3
  <2>3. \A l \in LogsIn(seen, r[1]..r[2]) :
            l.tx \in l.block.txs /\ \E h \in Heights : l.block = c[h]
    <3> HIDE DEF seen
    <3>1. \A l \in LogsIn(seen, r[1]..r[2]) : \E h \in r[1]..r[2] :
              seen[h] \in Block /\ l.block = seen[h] /\ l.tx \in seen[h].txs
      BY <2>2, LogsInFacts
    <3>2. \A h \in r[1]..r[2] : h \in Heights /\ (seen[h] \in Block => seen[h] = c[h])
      BY <2>2, NoneHasNothing
    <3> QED
      BY <3>1, <3>2
  <2>4. got' = got
    BY <1>5 DEF AnswerLogs
  <2>5. \A t \in Tx, b \in Block : Holds(b, t)' => Holds(b, t)
    BY <1>1, <2>1, <2>3, <2>4 DEF Holds, Seen, nodeVars
  <2>6. RowsPlaced'
    BY <1>1, <2>1, <2>3 DEF RowsPlaced
  <2> QED
    BY <1>1, <2>5, <2>6, NothingNew
<1>6. ASSUME NEW h \in Heights, FetchBlock(h) PROVE OneBlock' /\ RowsPlaced'
  <2>1. logs' = logs /\ \E c \in left \cup {chain} : got' \subseteq got \cup {c[h]}
    BY <1>6 DEF FetchBlock, BlockNumber
  <2>2. \A t \in Tx, b \in Block : Holds(b, t)' => Holds(b, t)
    BY <1>1, <2>1 DEF Holds, Seen, nodeVars
  <2> QED
    BY <1>1, <2>1, <2>2, NothingNew DEF RowsPlaced
<1> QED
  BY <1>4, <1>5, <1>6

\* A statement that writes rows writes them for a transaction into the row of
\* a block it was seen in.
LEMMA RowWritten ==
    ASSUME TypeOK, Core, RowsPlaced, PersistCalls \/ PersistEvents,
           NEW h \in Heights, NEW t \in Tx, actions'[h][t] # actions[h][t]
    PROVE  \E b \in Block : /\ Seen(b) /\ b.height = h /\ t \in b.txs
                            /\ actions'[h][t].hash = Upsert(actions[h][t], b).hash
<1>1. CASE PersistCalls
  <2>1. actions'[h][t] = IF \E b \in got : b.height = h /\ t \in b.txs
                         THEN [Upsert(actions[h][t], CHOOSE b \in got : b.height = h)
                                  EXCEPT !.call = TRUE]
                         ELSE actions[h][t]
    BY <1>1 DEF PersistCalls
  <2>2. PICK b \in got : b.height = h /\ t \in b.txs
    BY <2>1
  <2>3. (CHOOSE c \in got : c.height = h) = b
    BY <2>2 DEF Core, Gathering
  <2>4. b \in Block /\ Seen(b) /\ actions[h][t] \in Row
    BY <2>2 DEF TypeOK, Seen
  <2> DEFINE up == Upsert(actions[h][t], b)
  <2>5. up \in Row /\ actions'[h][t] = [up EXCEPT !.call = TRUE]
    BY <2>1, <2>2, <2>3, <2>4, RowType
  <2> HIDE DEF up
  <2>6. actions'[h][t].hash = up.hash
    BY <2>5 DEF Row
  <2> QED
    BY <2>2, <2>4, <2>6 DEF up
<1>2. CASE PersistEvents
  <2>1. PICK first \in Firsts :
            actions' = [g \in Heights |-> [u \in Tx |->
                           IF u \in DOMAIN first /\ RowOf(first[u]) = g
                           THEN Append(actions[g][u], u, first[u])
                           ELSE actions[g][u]]]
    BY <1>2 DEF PersistEvents
  <2>2. /\ t \in DOMAIN first /\ first[t].height = h
        /\ actions'[h][t] = Append(actions[h][t], t, first[t])
    BY <2>1 DEF RowOf
  <2>3. /\ first[t] \in Block /\ LogsOf(t) \subseteq Block
        /\ [tx |-> t, block |-> first[t]] \in logs /\ actions[h][t] \in Row
    BY <2>2, FirstFacts DEF TypeOK
  <2>4. t \in first[t].txs /\ Seen(first[t])
    BY <2>3 DEF RowsPlaced, Seen
  <2> QED
    BY <2>2, <2>3, <2>4, AppendType
<1> QED
  BY <1>1, <1>2

LEMMA RowsOneBlock ==
    ASSUME TypeOK, Core, OneBlock, RowsPlaced, PersistCalls \/ PersistEvents
    PROVE  OneBlock' /\ RowsPlaced'
<1>1. UNCHANGED nodeVars /\ UNCHANGED <<logs, got>>
  BY DEF PersistCalls, PersistEvents, Stage, chunkVars
<1>2. ASSUME NEW h \in Heights, NEW t \in Tx, actions'[h][t] # NoRow
      PROVE  /\ actions'[h][t].hash \in Block /\ actions'[h][t].hash.height = h
             /\ t \in actions'[h][t].hash.txs
             /\ \/ Seen(actions'[h][t].hash)
                \/ actions[h][t] # NoRow /\ actions'[h][t].hash = actions[h][t].hash
  <2>1. CASE actions'[h][t] = actions[h][t]
    BY <1>2, <2>1 DEF RowsPlaced
  <2>2. CASE actions'[h][t] # actions[h][t]
    <3>1. PICK b \in Block : /\ Seen(b) /\ b.height = h /\ t \in b.txs
                             /\ actions'[h][t].hash = Upsert(actions[h][t], b).hash
      BY <2>2, RowWritten
    <3>2. actions[h][t] \in Row
      BY DEF TypeOK
    <3>3. Upsert(actions[h][t], b).hash = IF actions[h][t].hash = None THEN b ELSE actions[h][t].hash
      BY <3>2, RowType
    <3>4. actions[h][t].hash # None => actions[h][t] # NoRow
      BY DEF NoRow
    <3> QED
      BY <3>1, <3>3, <3>4 DEF RowsPlaced
  <2> QED
    BY <2>1, <2>2
<1>3. RowsPlaced'
  BY <1>1, <1>2 DEF RowsPlaced
<1>4. \A t \in Tx, b \in Block : Holds(b, t)' => Holds(b, t)
  <2>1. \A b : Seen(b)' <=> Seen(b)
    BY <1>1 DEF Seen, nodeVars
  <2> QED
    BY <1>2, <2>1 DEF Holds
<1> QED
  BY <1>1, <1>3, <1>4, NothingNew

(***************************************************************************)
(* The theorems.                                                           *)
(***************************************************************************)
LEMMA InitReorgInv == Init => ReorgInv
<1> SUFFICES ASSUME Init PROVE ReorgInv
  OBVIOUS
<1>1. TypeOK
  BY InitReorgType
<1>2. /\ left = {} /\ reorgs = 0 /\ lags = 0 /\ pc = "poll" /\ from = 1 /\ to = 0 /\ lastIndexed = 0
      /\ asking = {} /\ logs = {} /\ got = {}
      /\ blocks = [h \in Heights |-> None] /\ asked = [h \in Heights |-> None]
      /\ actions = [h \in Heights |-> [t \in Tx |-> NoRow]]
  BY DEF Init
<1>3. PICK T \in [1..head -> SUBSET Tx] :
          /\ Disjoint(T)
          /\ chain = [h \in Heights |-> IF h <= head THEN NewBlock(h, 0, T[h]) ELSE None]
  BY DEF Init
<1>4. ASSUME NEW h \in 1..head
      PROVE  /\ h \in Heights /\ chain[h] \in Block
             /\ chain[h].height = h /\ chain[h].branch = 0 /\ chain[h].txs = T[h]
  <2>1. h \in Heights /\ h <= head /\ 0 \in 0..MaxReorgs
    BY <1>1, Numbers, ReorgAssumption DEF Heights
  <2>2. chain[h] = NewBlock(h, 0, T[h])
    BY <1>3, <2>1
  <2> QED
    BY <2>1, <2>2, NewBlockType
<1>5. Placed
  <2>1. \A h \in Heights : chain[h] # None <=> h \in 1..head
    <3>1. head \in Nat /\ \A h \in Heights : h \in 1..head <=> h <= head
      BY <1>1, Numbers DEF Heights
    <3>2. \A h \in Heights : ~(h <= head) => chain[h] = None
      BY <1>3
    <3> QED
      BY <1>4, <3>1, <3>2, NoneHasNothing
  <2>2. Shape(chain, head, reorgs)
    BY <1>1, <1>2, <1>4, <2>1, Numbers DEF Shape
  <2>3. Filled(chain)
    BY <1>1, <2>1, Numbers DEF Filled, Heights
  <2>4. Shape(asked, head, reorgs)
    BY <1>2 DEF Shape
  <2> QED
    BY <1>2, <1>4, <2>2, <2>3, <2>4, NoneHasNothing DEF Placed
<1>6. ChunkShape /\ Gathering /\ LogsGathered /\ GotSettled /\ NothingAhead
  BY <1>2 DEF ChunkShape, Gathering, LogsGathered, GotSettled, NothingAhead, Working
<1>7. Stored
  BY <1>2 DEF Stored, Past, Heights
<1>8. InTime
  BY <1>1, <1>2, Numbers DEF InTime, Working, Heights
<1>9. RowsPlaced
  BY <1>2 DEF RowsPlaced
<1>10. OneBlock
  <2>1. \A t \in Tx, b \in Block : Holds(b, t) => \E h \in 1..head : b = chain[h] /\ t \in T[h]
    <3>1. \A h \in Heights : chain[h] # None => h \in 1..head
      BY <1>1, <1>5, PlacedFacts
    <3> QED
      BY <1>2, <1>4, <3>1, NoneHasNothing DEF Holds, Seen
  <2>2. ASSUME NEW t \in Tx, NEW b \in Block, NEW c \in Block, Holds(b, t), Holds(c, t) PROVE c = b
    BY <1>3, <2>1, <2>2 DEF Disjoint
  <2>3. ASSUME NEW t \in Tx, NEW b \in Block, Holds(b, t)
        PROVE  b.branch = 0 /\ b.height <= head /\ chain[b.height] = b
    BY <1>1, <1>4, <2>1, <2>3, Numbers
  <2> QED
    BY <1>2, <2>2, <2>3 DEF OneBlock
<1> QED
  BY <1>1, <1>5, <1>6, <1>7, <1>8, <1>9, <1>10 DEF ReorgInv

LEMMA NextReorgInv == ReorgInv /\ [Next]_vars => ReorgInv'
<1> SUFFICES ASSUME ReorgInv, [Next]_vars PROVE ReorgInv'
  OBVIOUS
<1>1. TypeOK /\ Core /\ Placed /\ ChunkShape /\ Gathering /\ OneBlock /\ RowsPlaced
  BY DEF ReorgInv, Core
<1>2. ASSUME TypeOK', Core', OneBlock', RowsPlaced' PROVE ReorgInv'
  BY <1>2 DEF ReorgInv, Core
<1>3. CASE Grow
  BY <1>1, <1>2, <1>3, ChainType, ChainCore, GrowOneBlock
<1>4. ASSUME NEW fork \in Heights, Reorganise(fork) PROVE ReorgInv'
  BY <1>1, <1>2, <1>4, ChainType, ChainCore, ReorganiseOneBlock
<1>5. CASE Poll
  BY <1>1, <1>2, <1>5, FetchType, PollCore, RequestsOneBlock
<1>6. ASSUME NEW r \in Heights \X Heights, AnswerLogs(r) PROVE ReorgInv'
  BY <1>1, <1>2, <1>6, FetchType, AnswerLogsCore, RequestsOneBlock
<1>7. ASSUME NEW r \in Heights \X Heights, SplitLogs(r) PROVE ReorgInv'
  BY <1>1, <1>2, <1>7, FetchType, SplitLogsCore, RequestsOneBlock
<1>8. ASSUME NEW h \in Heights, FetchBlock(h) PROVE ReorgInv'
  BY <1>1, <1>2, <1>8, FetchType, FetchBlockCore, RequestsOneBlock
<1>9. CASE Fetched
  BY <1>1, <1>2, <1>9, FetchType, FetchedCore, RequestsOneBlock
<1>10. CASE PersistBlocks
  BY <1>1, <1>2, <1>10, StageType, PersistBlocksCore, RequestsOneBlock
<1>11. CASE PersistCalls
  BY <1>1, <1>2, <1>11, StageType, PersistCallsCore, RowsOneBlock
<1>12. CASE PersistEvents
  BY <1>1, <1>2, <1>12, StageType, PersistEventsCore, RowsOneBlock
<1>13. CASE AdvanceCursor
  BY <1>1, <1>2, <1>13, StageType, AdvanceCore, RequestsOneBlock
<1>14. CASE Restart
  BY <1>1, <1>2, <1>14, StageType, RestartCore, RequestsOneBlock
<1>15. CASE UNCHANGED vars
  <2>1. /\ UNCHANGED nodeVars /\ UNCHANGED <<lags, stops, blocks, actions, lastIndexed, pc, from, to>>
        /\ UNCHANGED <<asking, logs, got, asked>>
    BY <1>15 DEF vars, tables, chunkVars
  <2>2. TypeOK'
    BY <1>1, <2>1 DEF TypeOK, nodeVars
  <2>3. ChunkEnd' = ChunkEnd /\ \A n : InChunk(n)' <=> InChunk(n)
    BY <2>1, SameChunk
  <2>4. Placed' /\ ChunkShape' /\ Gathering' /\ LogsGathered' /\ GotSettled'
    BY <1>1, <2>1, <2>3 DEF Core, Placed, ChunkShape, Gathering, LogsGathered, GotSettled,
         Answered, Working, Settled, nodeVars
  <2>5. Stored' /\ NothingAhead' /\ InTime'
    BY <1>1, <2>1, <2>3 DEF Core, Stored, NothingAhead, InTime, Past, BlockStored, CallsStored,
         EventsStored, Filed, Answered, Working, Settled, nodeVars
  <2>6. OneBlock' /\ RowsPlaced'
    BY <1>1, <2>1, NothingNew DEF Holds, Seen, RowsPlaced, nodeVars
  <2> QED
    BY <1>2, <2>2, <2>4, <2>5, <2>6 DEF Core
<1> QED
  BY <1>3, <1>4, <1>5, <1>6, <1>7, <1>8, <1>9, <1>10, <1>11, <1>12, <1>13, <1>14, <1>15
  DEF Next, IndexerStep

\* The invariant holds of every behaviour, and with it the types.
THEOREM ReorgInductive == Spec => []ReorgInv
<1> QED
  BY InitReorgInv, NextReorgInv, PTL DEF Spec

\* Behind the cursor, a block that is still the one eth_getLogs answered from
\* has all its events, whatever replicas answered, and all its calls if each
\* answer was of the whole chain (backfill.go:80-187, db_handler.go:16-77).
THEOREM SettledIsIndexedHolds == Spec => []SettledIsIndexed
<1>1. ReorgInv => SettledIsIndexed
  <2> SUFFICES ASSUME ReorgInv, NEW h \in Heights, h <= lastIndexed, Settled(h),
                      NEW t \in chain[h].txs
               PROVE  /\ t \in Emits => Filed(t, chain[h])
                      /\ HasLogs(chain[h]) => actions[h][t].call \/ lags > 0
    BY DEF SettledIsIndexed
  <2>1. CallsStored(h) /\ EventsStored(h) /\ lags \in Nat
    BY Numbers DEF ReorgInv, Stored, Past
  <2> QED
    BY <2>1 DEF CallsStored, EventsStored, Settled
<1> QED
  BY <1>1, ReorgInductive, PTL

\* Without a restart, and if each answer was of the whole chain, table blocks
\* holds such a block itself (db.go:80-84).
THEOREM BlockRowSettledHolds == Spec => []BlockRowSettled
<1>1. ReorgInv => BlockRowSettled
  <2> SUFFICES ASSUME ReorgInv, NEW h \in Heights, h <= lastIndexed, Settled(h),
                      HasLogs(chain[h]), ~(stops > 0), ~(lags > 0)
               PROVE  blocks[h] = chain[h]
    BY DEF BlockRowSettled
  <2>1. BlockStored(h) /\ stops = 0 /\ lags = 0
    BY Numbers DEF ReorgInv, Stored, Past
  <2> QED
    BY <2>1 DEF BlockStored
<1> QED
  BY <1>1, ReorgInductive, PTL

\* Only a replica that is behind makes the cursor pass a block that was not
\* there when its logs were asked for (backfill.go:80, 241).
THEOREM NotAskedTooEarlyHolds == Spec => []NotAskedTooEarly
<1>1. ReorgInv => NotAskedTooEarly
  BY Numbers DEF ReorgInv, InTime, NotAskedTooEarly
<1> QED
  BY <1>1, ReorgInductive, PTL

\* The rows of a transaction are of different branches.
LEMMA RowBranch ==
    ASSUME ReorgInv, NEW t \in Tx, NEW h \in Heights, actions[h][t] # NoRow
    PROVE  /\ reorgs \in Nat /\ actions[h][t].hash.branch \in 0..reorgs
           /\ \A g \in Heights :
                 /\ actions[g][t] # NoRow
                 /\ actions[g][t].hash.branch = actions[h][t].hash.branch
                 => g = h
<1>1. reorgs \in Nat
  BY ReorgAssumption DEF ReorgInv, TypeOK
<1>2. ASSUME NEW g \in Heights, actions[g][t] # NoRow
      PROVE  /\ actions[g][t].hash \in Block /\ actions[g][t].hash.height = g
             /\ Holds(actions[g][t].hash, t)
  BY <1>2 DEF ReorgInv, RowsPlaced, Holds
<1>3. actions[h][t].hash.branch \in 0..reorgs
  <2>1. actions[h][t].hash.branch \in Nat
    BY <1>2, ReorgAssumption DEF Block
  <2>2. actions[h][t].hash.branch <= reorgs
    BY <1>2 DEF ReorgInv, OneBlock
  <2> QED
    BY <1>1, <2>1, <2>2
<1>4. ASSUME NEW g \in Heights, actions[g][t] # NoRow,
             actions[g][t].hash.branch = actions[h][t].hash.branch
      PROVE  g = h
  <2>1. actions[g][t].hash = actions[h][t].hash
    BY <1>2, <1>4 DEF ReorgInv, OneBlock
  <2> QED
    BY <1>2, <1>4, <2>1
<1> QED
  BY <1>1, <1>3, <1>4

\* A transaction has rows in at most one block of each branch, as many as there
\* were reorganisations and one.
THEOREM RowsBoundedHolds == Spec => []RowsBounded
<1>1. ASSUME ReorgInv, NEW t \in Tx
      PROVE  Cardinality({h \in Heights : actions[h][t] # NoRow}) <= 1 + reorgs
  <2> DEFINE S == {h \in Heights : actions[h][t] # NoRow}
             f == [h \in S |-> actions[h][t].hash.branch]
  <2>1. reorgs \in Nat
    BY <1>1, ReorgAssumption DEF ReorgInv, TypeOK
  <2>2. f \in Injection(S, 0..reorgs)
    <3>1. f \in [S -> 0..reorgs]
      BY <1>1, RowBranch
    <3>2. \A g, h \in S : f[g] = f[h] => g = h
      BY <1>1, RowBranch
    <3> QED
      BY <3>1, <3>2 DEF Injection, IsInjective
  <2>3. IsFiniteSet(0..reorgs) /\ Cardinality(0..reorgs) = 1 + reorgs
    BY <2>1, FS_Interval
  <2> HIDE DEF S, f
  <2>4. Cardinality(S) <= Cardinality(0..reorgs)
    BY <2>2, <2>3, FS_Injection
  <2> QED
    BY <2>3, <2>4 DEF S
<1>2. ReorgInv => RowsBounded
  BY <1>1 DEF RowsBounded
<1> QED
  BY <1>2, ReorgInductive, PTL

\* If the node serves at least two blocks at once, only a replica that is
\* behind ends the goroutine (rpc.go:294-296, backfill.go:271-273).
THEOREM SurvivesReorgsHolds ==
    ASSUME NodeLimit > 1
    PROVE  Spec => []SurvivesReorgs
<1>1. Init => SurvivesReorgs
  BY DEF Init, SurvivesReorgs
<1>2. ReorgInv /\ SurvivesReorgs /\ [Next]_vars => SurvivesReorgs'
  <2> SUFFICES ASSUME ReorgInv, SurvivesReorgs, [Next]_vars, pc' = "dead" PROVE lags' > 0
    BY DEF SurvivesReorgs
  <2>1. TypeOK /\ Core
    BY DEF ReorgInv, Core
  <2>2. ASSUME NEW h \in Heights, FetchBlock(h) PROVE lags' > 0
    BY <2>1, <2>2, FetchBlockCore
  <2>3. ASSUME NEW r \in Heights \X Heights, SplitLogs(r) PROVE FALSE
    <3>1. r[1] \in Nat /\ r[2] \in Nat /\ NodeLimit \in Nat /\ Size(r) > NodeLimit /\ pc = "logs"
      BY <2>3, ReorgAssumption DEF SplitLogs, Heights
    <3>2. r[1] + 2 <= r[2]
      BY <3>1 DEF Size
    <3>3. Mid(r) # r[1] /\ Mid(r) # r[2]
      BY <3>1, <3>2 DEF Mid
    <3> QED
      BY <2>3, <3>1, <3>3 DEF SplitLogs
  <2>4. CASE pc = "dead" /\ lags' = lags
    BY <2>4 DEF SurvivesReorgs
  <2>5. CASE Grow \/ (\E fork \in Heights : Reorganise(fork)) \/ UNCHANGED vars
    <3>1. pc' = pc /\ lags' = lags
      BY <2>5 DEF Grow, Reorganise, vars
    <3> QED
      BY <2>4, <3>1
  <2>6. ASSUME NEW r \in Heights \X Heights, AnswerLogs(r) PROVE FALSE
    BY <2>6 DEF AnswerLogs
  <2>7. CASE Poll \/ Fetched \/ PersistBlocks \/ PersistCalls \/ PersistEvents
             \/ AdvanceCursor \/ Restart
    BY <2>7 DEF Poll, Fetched, PersistBlocks, PersistCalls, PersistEvents, AdvanceCursor,
         Restart, Stage
  <2> QED
    BY <2>2, <2>3, <2>5, <2>6, <2>7 DEF Next, IndexerStep
<1> QED
  BY <1>1, <1>2, ReorgInductive, PTL DEF Spec

(***************************************************************************)
(* GET /health.                                                            *)
(***************************************************************************)
\* What the indexer never takes back.
LEMMA Monotone ==
    ASSUME ReorgInv, [Next]_vars
    PROVE  /\ lastIndexed <= lastIndexed' /\ reorgs <= reorgs'
           /\ \A h \in Heights : h <= lastIndexed => asked'[h] = asked[h]
           /\ \A h \in Heights, t \in Tx : actions[h][t] # NoRow => actions'[h][t] # NoRow
<1>1. TypeOK /\ Core /\ RowsPlaced /\ lastIndexed \in Nat /\ reorgs \in Nat
  <2>1. TypeOK /\ Core /\ RowsPlaced
    BY DEF ReorgInv, Core
  <2> QED
    BY <2>1, Numbers, ReorgAssumption DEF TypeOK
<1>2. CASE Grow \/ (\E fork \in Heights : Reorganise(fork)) \/ UNCHANGED vars
  BY <1>1, <1>2 DEF Grow, Reorganise, vars, nodeVars, tables
<1>3. CASE Poll \/ Fetched \/ PersistBlocks \/ Restart
           \/ (\E r \in Heights \X Heights : SplitLogs(r)) \/ (\E h \in Heights : FetchBlock(h))
  BY <1>1, <1>3 DEF Poll, Fetched, PersistBlocks, Restart, SplitLogs, FetchBlock, Stage,
       nodeVars, tables
<1>4. CASE AdvanceCursor
  <2>1. lastIndexed <= lastIndexed'
    BY <1>1, <1>4, AdvanceCore
  <2> QED
    BY <1>1, <1>4, <2>1 DEF AdvanceCursor, nodeVars
<1>5. ASSUME NEW r \in Heights \X Heights, AnswerLogs(r)
      PROVE  /\ UNCHANGED <<lastIndexed, reorgs, actions>>
             /\ \A h \in Heights : h <= lastIndexed => asked'[h] = asked[h]
  <2>1. /\ UNCHANGED <<lastIndexed, reorgs, actions>>
        /\ \A h \in Heights : h \notin r[1]..r[2] => asked'[h] = asked[h]
    BY <1>5 DEF AnswerLogs, nodeVars, tables
  <2>2. r[1] \in Nat /\ lastIndexed < from /\ from <= r[1] /\ from \in Nat
    BY <1>1, <1>5, WorkingChunk, Numbers DEF AnswerLogs, Core, ChunkShape, Heights
  <2>3. \A h \in Heights : h <= lastIndexed => h \notin r[1]..r[2]
    BY <1>1, <2>2 DEF Heights
  <2> QED
    BY <2>1, <2>3
<1>6. CASE PersistCalls \/ PersistEvents
  <2>1. UNCHANGED <<lastIndexed, reorgs, asked>>
    BY <1>6 DEF PersistCalls, PersistEvents, Stage, nodeVars
  <2>2. ASSUME NEW h \in Heights, NEW t \in Tx, actions'[h][t] # actions[h][t]
        PROVE  actions'[h][t] # NoRow
    <3>1. PICK b \in Block : actions'[h][t].hash = Upsert(actions[h][t], b).hash
      BY <1>1, <1>6, <2>2, RowWritten
    <3>2. actions[h][t] \in Row
      BY <1>1 DEF TypeOK
    <3>3. actions'[h][t].hash # None
      BY <3>1, <3>2, RowType, NoneHasNothing
    <3> QED
      BY <3>3 DEF NoRow
  <2> QED
    BY <1>1, <2>1, <2>2
<1> QED
  BY <1>1, <1>2, <1>3, <1>4, <1>5, <1>6 DEF Next, IndexerStep

\* The explorer underneath moves as before.
LEMMA StatsImplementsReorg == StatsSpec => Spec
<1>1. StatsInit => Init
  BY DEF StatsInit
<1>2. [StatsNext]_<<vars, statVars>> => [Next]_vars
  BY DEF StatsNext, StatsStep
<1> QED
  BY <1>1, <1>2, PTL DEF StatsSpec, Spec

StatsType ==
    /\ query \in {"none", "actions", "state", "txs", "blocks", "ok"}
    /\ DOMAIN stats = Figures

Backed == {h \in Heights : h <= stats["last_indexed"] /\ HasLogs(asked[h])}

CursorRead ==
    /\ query \in {"txs", "blocks", "ok"} =>
          stats["last_indexed"] \in Nat /\ stats["last_indexed"] <= lastIndexed
    /\ query = "ok" => Cardinality(Backed) <= stats["total_blocks"]

LEMMA StatsTypeStep ==
    ASSUME StatsType, StatsStep PROVE StatsType'
BY DEF StatsType, StatsStep, Request, GetStats, Read, QueryFails, Figures

\* Every block with logs behind the cursor of an answer is among its blocks.
THEOREM CursorIsBackedHolds == StatsSpec => []CursorIsBacked
<1>1. StatsInit => StatsType /\ CursorRead
  BY DEF StatsInit, StatsType, CursorRead, Figures
<1>2. ReorgInv /\ StatsType /\ CursorRead /\ [StatsNext]_<<vars, statVars>>
        => StatsType' /\ CursorRead'
  <2> SUFFICES ASSUME ReorgInv, StatsType, CursorRead, [StatsNext]_<<vars, statVars>>
               PROVE  StatsType' /\ CursorRead'
    OBVIOUS
  <2>1. lastIndexed \in Nat /\ MaxHeight \in Nat
    BY Numbers DEF ReorgInv
  <2>2. ASSUME [Next]_vars, UNCHANGED statVars PROVE StatsType' /\ CursorRead'
    <3>1. StatsType'
      BY <2>2 DEF StatsType, statVars
    <3>2. /\ lastIndexed <= lastIndexed'
          /\ \A h \in Heights : h <= lastIndexed => asked'[h] = asked[h]
      BY <2>2, Monotone
    <3>3. lastIndexed' \in Nat
      BY <2>2, NextReorgInv, ReorgAssumption DEF ReorgInv, TypeOK
    <3>4. query = "ok" => Backed' = Backed
      <4> SUFFICES ASSUME query = "ok",
                          NEW h \in Heights, h <= stats["last_indexed"]
                   PROVE  asked'[h] = asked[h]
        BY <2>2 DEF Backed, statVars
      <4>1. h <= lastIndexed
        BY <2>1 DEF CursorRead, Heights
      <4> QED
        BY <3>2, <4>1
    <3> QED
      BY <2>1, <2>2, <3>1, <3>2, <3>3, <3>4 DEF CursorRead, statVars
  <2>3. CASE StatsStep
    <3>1. StatsType' /\ UNCHANGED vars
      BY <2>3, StatsTypeStep DEF StatsStep
    <3>2. lastIndexed' = lastIndexed /\ asked' = asked /\ blocks' = blocks
      BY <3>1 DEF vars, tables
    <3>3. CASE Request \/ QueryFails
      BY <3>1, <3>3 DEF Request, QueryFails, CursorRead
    <3>4. CASE GetStats
      <4>1. CASE Read("actions", "total_actions", TotalActions, "state")
        BY <3>1, <4>1 DEF Read, CursorRead
      <4>2. CASE Read("state", "last_indexed", lastIndexed, "txs")
        BY <2>1, <3>1, <3>2, <4>2 DEF Read, CursorRead, StatsType, Figures
      <4>3. CASE Read("txs", "unique_transactions", UniqueTransactions, "blocks")
        BY <2>1, <3>1, <3>2, <4>3 DEF Read, CursorRead, StatsType, Figures
      <4>4. CASE Read("blocks", "total_blocks", TotalBlocks, "ok")
        <5>1. /\ query = "blocks" /\ query' = "ok" /\ stats'["total_blocks"] = TotalBlocks
              /\ stats'["last_indexed"] = stats["last_indexed"]
          BY <4>4 DEF Read, StatsType, Figures
        <5>2. Backed' = Backed
          BY <3>2, <5>1 DEF Backed
        <5>3. Backed \subseteq {h \in Heights : blocks[h] # None}
          <6> SUFFICES ASSUME NEW h \in Heights, h <= stats["last_indexed"], HasLogs(asked[h])
                       PROVE  blocks[h] # None
            BY DEF Backed
          <6>1. h <= lastIndexed
            BY <2>1, <5>1 DEF CursorRead, Heights
          <6> QED
            BY <6>1 DEF ReorgInv, Stored, Past, BlockStored
        <5>4. IsFiniteSet({h \in Heights : blocks[h] # None})
          <6>1. IsFiniteSet(Heights)
            BY <2>1, FS_Interval DEF Heights
          <6> QED
            BY <6>1, FS_Subset
        <5>5. Cardinality(Backed) <= TotalBlocks
          BY <5>3, <5>4, FS_Subset DEF TotalBlocks
        <5> QED
          BY <2>1, <3>1, <3>2, <5>1, <5>2, <5>5 DEF CursorRead
      <4> QED
        BY <3>4, <4>1, <4>2, <4>3, <4>4 DEF GetStats
    <3> QED
      BY <2>3, <3>3, <3>4 DEF StatsStep
  <2>4. CASE UNCHANGED <<vars, statVars>>
    BY <2>2, <2>4
  <2> QED
    BY <2>2, <2>3, <2>4 DEF StatsNext
<1>3. CursorRead => CursorIsBacked
  BY DEF CursorRead, Backed, CursorIsBacked
<1> QED
  BY <1>1, <1>2, <1>3, StatsImplementsReorg, ReorgInductive, PTL DEF StatsSpec

Rows == {r \in Heights \X Tx : r[2] \in RowsAt(r[1])}

Owners == UNION {RowsAt(h) : h \in Heights}

LEMMA PairsFinite == ASSUME IsFiniteSet(Tx) PROVE IsFiniteSet(Heights \X Tx)
<1>1. MaxHeight \in Int /\ 1 \in Int
  BY ReorgAssumption
<1>2. IsFiniteSet(Heights)
  BY <1>1, FS_Interval DEF Heights
<1> QED
  BY <1>2, FS_Product

LEMMA RowsFinite ==
    ASSUME IsFiniteSet(Tx), ReorgInv
    PROVE  /\ IsFiniteSet(Rows) /\ IsFiniteSet(Owners)
           /\ TotalActions = Cardinality(Rows) /\ TotalActions \in Nat
           /\ UniqueTransactions = Cardinality(Owners) /\ UniqueTransactions \in Nat
<1>1. IsFiniteSet(Heights \X Tx)
  BY PairsFinite
<1>2. Rows \in SUBSET (Heights \X Tx) /\ Owners \in SUBSET Tx
  BY DEF Rows, Owners, RowsAt
<1>3. IsFiniteSet(Rows) /\ IsFiniteSet(Owners)
  BY <1>1, <1>2, FS_Subset
<1> QED
  BY <1>3, FS_CardinalityType DEF Rows, Owners, TotalActions, UniqueTransactions

\* A row is determined by its transaction and its branch.
LEMMA RowsPerTransaction ==
    ASSUME IsFiniteSet(Tx), ReorgInv
    PROVE  TotalActions <= (1 + reorgs) * UniqueTransactions
<1> DEFINE f == [r \in Rows |-> <<actions[r[1]][r[2]].hash.branch, r[2]>>]
           T == (0..reorgs) \X Owners
<1>1. reorgs \in Nat
  BY ReorgAssumption DEF ReorgInv, TypeOK
<1>2. ASSUME NEW r \in Rows
      PROVE  /\ r[1] \in Heights /\ r[2] \in Tx /\ r[2] \in Owners /\ r = <<r[1], r[2]>>
             /\ actions[r[1]][r[2]] # NoRow
  BY DEF Rows, Owners, RowsAt
<1>3. f \in [Rows -> T]
  BY <1>2, RowBranch
<1>4. \A q, r \in Rows : f[q] = f[r] => q = r
  <2> SUFFICES ASSUME NEW q \in Rows, NEW r \in Rows, f[q] = f[r] PROVE q = r
    OBVIOUS
  <2>1. q[2] = r[2] /\ actions[q[1]][q[2]].hash.branch = actions[r[1]][r[2]].hash.branch
    OBVIOUS
  <2>2. q[1] = r[1]
    BY <1>2, <2>1, RowBranch
  <2> QED
    BY <1>2, <2>1, <2>2
<1>5. f \in Injection(Rows, T)
  BY <1>3, <1>4 DEF Injection, IsInjective
<1>6. IsFiniteSet(0..reorgs) /\ Cardinality(0..reorgs) = 1 + reorgs
  BY <1>1, FS_Interval
<1>7. IsFiniteSet(T) /\ Cardinality(T) = (1 + reorgs) * UniqueTransactions
  <2>1. IsFiniteSet(Owners) /\ UniqueTransactions = Cardinality(Owners)
    BY RowsFinite
  <2>2. IsFiniteSet(T) /\ Cardinality(T) = Cardinality(0..reorgs) * Cardinality(Owners)
    BY <1>6, <2>1, FS_Product
  <2> QED
    BY <1>6, <2>1, <2>2
<1> HIDE DEF f, T
<1>8. Cardinality(Rows) <= Cardinality(T)
  BY <1>5, <1>7, FS_Injection
<1> QED
  BY <1>7, <1>8, RowsFinite

LEMMA MoreBranches ==
    ASSUME NEW m \in Nat, NEW n \in Nat, NEW u \in Nat, m <= n
    PROVE  (1 + m) * u <= (1 + n) * u
<1>1. PICK d \in Nat : n = m + d
  <2>1. n - m \in Nat /\ n = m + (n - m)
    OBVIOUS
  <2> QED
    BY <2>1
<1>2. (1 + n) * u = (1 + m) * u + d * u
  BY <1>1
<1>3. d * u \in Nat /\ (1 + m) * u \in Nat
  BY <1>1
<1> QED
  BY <1>2, <1>3

FiguresRead ==
    /\ query \in {"state", "txs"} =>
          stats["total_actions"] \in Nat /\ stats["total_actions"] <= TotalActions
    /\ query \in {"blocks", "ok"} =>
          /\ stats["total_actions"] \in Nat /\ stats["unique_transactions"] \in Nat
          /\ stats["total_actions"] <= (1 + reorgs) * stats["unique_transactions"]

\* An answer shows no more actions for a transaction, on average, than there
\* are branches.
THEOREM ActionsCountedHolds ==
    ASSUME IsFiniteSet(Tx)
    PROVE  StatsSpec => []ActionsCounted
<1>1. StatsInit => StatsType /\ FiguresRead
  BY DEF StatsInit, StatsType, FiguresRead, Figures
<1>2. ReorgInv /\ StatsType /\ FiguresRead /\ [StatsNext]_<<vars, statVars>>
        => StatsType' /\ FiguresRead'
  <2> SUFFICES ASSUME ReorgInv, StatsType, FiguresRead, [StatsNext]_<<vars, statVars>>
               PROVE  StatsType' /\ FiguresRead'
    OBVIOUS
  <2>1. reorgs \in Nat /\ TotalActions \in Nat /\ UniqueTransactions \in Nat
    BY RowsFinite, ReorgAssumption DEF ReorgInv, TypeOK
  <2>2. ASSUME [Next]_vars, UNCHANGED statVars PROVE StatsType' /\ FiguresRead'
    <3>1. StatsType'
      BY <2>2 DEF StatsType, statVars
    <3>2. ReorgInv'
      BY <2>2, NextReorgInv
    <3>3. reorgs <= reorgs' /\ reorgs' \in Nat
      BY <2>2, <3>2, Monotone, ReorgAssumption DEF ReorgInv, TypeOK
    <3>4. TotalActions <= TotalActions' /\ TotalActions' \in Nat
      <4>1. Rows \subseteq Rows'
        BY <2>2, Monotone DEF Rows, RowsAt
      <4>2. IsFiniteSet(Rows') /\ TotalActions' = Cardinality(Rows') /\ TotalActions' \in Nat
        <5>1. Rows' \in SUBSET (Heights \X Tx)
          BY DEF Rows, RowsAt
        <5>2. IsFiniteSet(Rows')
          BY <5>1, PairsFinite, FS_Subset
        <5> QED
          BY <5>2, FS_CardinalityType DEF Rows, TotalActions
      <4>3. Cardinality(Rows) <= Cardinality(Rows')
        BY <4>1, <4>2, FS_Subset
      <4> QED
        BY <4>2, <4>3, RowsFinite
    <3>5. query \in {"state", "txs"} => FiguresRead'
      BY <2>1, <2>2, <3>4 DEF FiguresRead, statVars
    <3>6. ASSUME query \in {"blocks", "ok"} PROVE FiguresRead'
      <4>1. UNCHANGED <<query, stats>>
        BY <2>2 DEF statVars
      <4> DEFINE total == stats["total_actions"]
                 unique == stats["unique_transactions"]
      <4>2. total \in Nat /\ unique \in Nat /\ total <= (1 + reorgs) * unique
        BY <3>6 DEF FiguresRead
      <4>3. (1 + reorgs) * unique <= (1 + reorgs') * unique
        BY <2>1, <3>3, <4>2, MoreBranches
      <4>4. (1 + reorgs) * unique \in Nat /\ (1 + reorgs') * unique \in Nat
        BY <2>1, <3>3, <4>2
      <4> HIDE DEF total, unique
      <4>5. total <= (1 + reorgs') * unique
        BY <4>2, <4>3, <4>4
      <4> QED
        BY <3>6, <4>1, <4>2, <4>5 DEF FiguresRead, total, unique
    <3> QED
      BY <2>2, <3>1, <3>5, <3>6 DEF FiguresRead, statVars
  <2>3. CASE StatsStep
    <3>1. StatsType' /\ UNCHANGED vars
      BY <2>3, StatsTypeStep DEF StatsStep
    <3>2. TotalActions' = TotalActions /\ UniqueTransactions' = UniqueTransactions /\ reorgs' = reorgs
      BY <3>1 DEF vars, tables, nodeVars, TotalActions, UniqueTransactions, RowsAt
    <3>3. CASE Request \/ QueryFails
      BY <3>1, <3>3 DEF Request, QueryFails, FiguresRead
    <3>4. CASE GetStats
      <4>1. CASE Read("actions", "total_actions", TotalActions, "state")
        BY <2>1, <3>2, <4>1 DEF Read, FiguresRead, StatsType, Figures
      <4>2. CASE Read("state", "last_indexed", lastIndexed, "txs")
        BY <3>2, <4>2 DEF Read, FiguresRead, StatsType, Figures
      <4>3. CASE Read("txs", "unique_transactions", UniqueTransactions, "blocks")
        <5>1. /\ query = "txs" /\ query' = "blocks"
              /\ stats'["unique_transactions"] = UniqueTransactions
              /\ stats'["total_actions"] = stats["total_actions"]
          BY <4>3 DEF Read, StatsType, Figures
        <5>2. stats["total_actions"] \in Nat /\ stats["total_actions"] <= TotalActions
          BY <5>1 DEF FiguresRead
        <5> DEFINE bound == (1 + reorgs) * UniqueTransactions
        <5>3. TotalActions <= bound /\ bound \in Nat
          BY <2>1, RowsPerTransaction
        <5>4. bound = (1 + reorgs') * stats'["unique_transactions"]
          BY <3>2, <5>1
        <5> HIDE DEF bound
        <5>5. stats["total_actions"] <= bound
          BY <2>1, <5>2, <5>3
        <5>6. stats'["total_actions"] <= (1 + reorgs') * stats'["unique_transactions"]
          BY <5>1, <5>4, <5>5
        <5> QED
          BY <2>1, <3>1, <5>1, <5>2, <5>6 DEF FiguresRead
      <4>4. CASE Read("blocks", "total_blocks", TotalBlocks, "ok")
        BY <3>2, <4>4 DEF Read, FiguresRead, StatsType, Figures
      <4> QED
        BY <3>1, <3>4, <4>1, <4>2, <4>3, <4>4 DEF GetStats
    <3> QED
      BY <2>3, <3>1, <3>3, <3>4 DEF StatsStep
  <2>4. CASE UNCHANGED <<vars, statVars>>
    BY <2>2, <2>4
  <2> QED
    BY <2>2, <2>3, <2>4 DEF StatsNext
<1>3. FiguresRead => ActionsCounted
  BY DEF FiguresRead, ActionsCounted
<1> QED
  BY <1>1, <1>2, <1>3, StatsImplementsReorg, ReorgInductive, PTL DEF StatsSpec

=============================================================================
