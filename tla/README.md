# Verification of the data explorer

TLA+ models of `data-explorer`, the only program of this repository: an indexer that
reads the transactions and logs of Akave's `Storage` contract from a JSON-RPC node,
decodes them, and keeps them in Postgres for a REST API. The other directories
(`akavelog`, `pytorch-o3`, `zkml-o3`) hold proposals and no code.

The models were written from the Go code and the SQL schema. Paths below are relative to
`data-explorer/`.

## 1. The system

One process (`main.go`) runs three things beside each other: the **indexer** goroutine,
the **retry** goroutine, and the HTTP server. They share nothing in memory except the
connection pool; they meet in the database.

| Part | Code | State | Operations | Talks to |
|---|---|---|---|---|
| Indexer | `indexing/backfill.go`, `main.go:72-95` | first block not handled, end of the running range, the chunk being persisted | `Backfill` over the history, then `LiveIndexing` for ever; chunk by chunk: fetch, decode, `DBHandler` | RPC client, database |
| Worker pool | `backfill.go:108-208` | channel of block numbers, the slices of results, `firstErr`, `chunkCtx` | dispatch, receive, fetch, append, fail, wait | RPC client |
| Batch handler | `indexing/db_handler.go` | none | five stages of statements per chunk: blocks, decoded calls, failed calls, events, cursor | database |
| RPC client | `utils/rpc.go` | none | `MakeRequest` (retries with backoff), `GetLogs` (splits a refused range), single requests | the node |
| Retry loop | `indexing/failed_backfill.go`, `main.go:97-113` | the list of the run, the record in hand | every 30 minutes: fetch, decode, insert and resolve, or count, or abandon | RPC client, database |
| Database | `database/*.go`, `database/schema.sql` | `blocks`, `actions` (partitioned by block), `failed_txs`, `indexing_state` | one SQL statement or SQL transaction each | Postgres |
| Process | `main.go`, `docker-compose.yml` | running, shutting down, down | start from the cursor, SIGTERM, exit, crash, restart (`restart: unless-stopped`) | all |
| Decoding | `decoding/*.go`, `utils/structs.go` | none (ABI, registries and structs are constant tables) | log → event, input → call, or one of two kinds of error | – |
| Batched fetch | `indexing/events.go` | none | events of a range in batches; has tests and no caller | RPC client, decoding |
| REST API | `api/**`, `database/actions.go` | none | filtered keyset pages of actions, one action, methods, contracts | database |
| Health | `handlers/health.go`, `db.go:373-423` | the figures read so far | five queries, no transaction around them | database |
| Contract discovery | `utils/constants.go`, `config/config.go` | page of contracts, bytecodes seen, list in hand | `FetchStorageContractAddresses`: one page from the block explorer, then code and implementation slots from the node | HTTP, RPC client |
| Sanitising | `utils/helpers.go` | none | text to text that Postgres accepts, between `json.Marshal` and `jsonb` | – |
| Storage contract | `integration/contracts/storage.sol` | buckets, files, chunks, nonces | the transactions that are indexed; a fixture of the tests | – |

What is hard about it:

* **Statements without a transaction around them.** A chunk is persisted by many
  statements; any of them may fail, be refused because the context was cancelled, or be
  the last one before a crash. The cursor is the last statement. It must not pass what
  was not written, and what is written again after a restart must not spoil anything.
* **Two goroutines, and two lives of the process, on the same rows.** A call that could
  not be decoded is recovered by the retry loop while the indexer appends events to the
  same row, or is met again by an indexer of a later release that decodes it itself.
* **Cancellation.** `idxCtx` reaches the indexer's calls but not those of the retry loop;
  workers may drop a block because of it without reporting an error; `main` takes
  `context.Canceled` for a shutdown, whoever caused it.
* **Errors.** Some are returned, some logged and skipped, some taken for an empty answer.
  `MakeRequest` sorts those of the node into "retry", "split the range" and "return".
* **Concurrency inside one fetch.** Dispatcher and workers over an unbuffered channel;
  a tree of goroutines, one per half of a split range.
* **A chain that changes between two requests.** The height, the logs and the blocks of a
  chunk come from separate requests. Between them the last blocks may be reorganised, and
  behind a load balancer each may be answered by a replica that is at another height.
* **A world that changes during the discovery.** Listing, bytecodes, slots and the code
  behind the slots are read one after the other, while contracts are verified and proxies
  upgraded; the errors of most of these calls are skipped.
* **Texts that pass several escapings.** A name taken from a log is sanitised, marshalled,
  sanitised again as JSON and converted by Postgres; each step has its own idea of `\u`.
* **Tables that must agree.** Topic filter, event registry, ABI, method registry and struct
  fields are five lists kept by hand; a mistake drops logs or calls without an error.

What makes it correct, part by part:

* indexer and batch handler: no hole behind the cursor; the cursor moves forward; every
  block is reached eventually; what is indexed twice is stored once;
* worker pool: every block once or an error, no lost or masked error, an end in any case;
* RPC client: all the logs of the chunk once or an error, an end in any case, a range is
  split if and only if the node refuses it;
* retry loop: attempts are bounded, final states are final, what can be decoded is
  recovered, what is resolved is recorded;
* database: every action has its block, rows of different statements agree;
* indexer on a changing chain: what is settled is indexed completely, what a
  reorganisation leaves behind is bounded, no reorganisation ends the goroutine;
* health: the figures of one answer agree although they are read at different times;
* API: no row twice, no old row missed, addresses that stay;
* discovery: no storage contract left out, none on the list that was never due;
* decoding: what the filter lets in decodes, only foreign calls are skipped; sanitising:
  what was marshalled is accepted by Postgres and comes back.

The hazards of the code are listed, each at its line, in `PROJECT.json`.

## 2. Modules

```
                                                      IndexLog
                                                         △
Chain ── Database ── Process ──┬── Indexer ───────┐
                               └── FailedTxRetry ─┴── Explorer ──┬── ExplorerClaims ──┐
                                                                 └── ExplorerInvariant ┼─ MCExplorer
                                                                        └── ExplorerProofs ── SafetyProofs
Reorg ── Stats ──┬── MCReorg
                 └── ReorgProofs
ChunkFetch ◁── WorkerPool ──┬── MCWorkerPool
                            └── WorkerPoolProofs
GetLogs ── GetLogsProofs
Discovery ──┬── MCDiscovery
            └── DiscoveryProofs
ActionsAPI ──┬── MCActionsAPI
             └── ActionsAPIProofs
Decoding, Text ── Inputs ── InputsProofs
```

(── is EXTENDS; ◁, △ is "is implemented by", an INSTANCE with a refinement mapping.)

**`Chain`**: the node's view of an append-only chain. Transactions are model values with
a block, a bit "emits a log the ABI decodes", and, per release of the program, what
decoding their input gives: `ok`, `malformed` (recorded in `failed_txs`) or `unknown`
(not meant for the contract, skipped). The release matters because the retry loop can
only ever succeed when a later release with a better ABI runs.

**`Database`**: the four tables the indexer writes and one operator per statement.
Postgres applies a statement, or an SQL transaction, entirely or not at all; nothing else
is assumed. A row of `actions` is reduced to "the columns of the call are set" and "how
often the logs were appended to `events`". The advisory locks in the code are released
before the statement they were meant for (they are taken in autocommit mode), so they are
no part of the model.

**`Process`**: running, stopping, down; the release; a call that fails, having been
applied or not; a call that is refused because its context is cancelled. The operators
`Execute` and `ExecuteCtx` are the two ways the code calls the database.

**`Indexer`**: the indexer goroutine, one action per call it makes. `ipc` is the call
that comes next; `start` and `to` are the loop variables of `Backfill` (and `lastBlock`
of `LiveIndexing`); `batch` is what `DBHandler` still has to write, so that a stage is
over when its part of `batch` is empty. The order inside a stage is that of a Go map:
any. The fetch of a chunk is one action with the outcomes that `ChunkFetch` and `GetLogs`
allow: everything, an error, and, once the context is cancelled, a part.

**`FailedTxRetry`**: the retry goroutine in the same style.

**`Explorer`**: both goroutines, the chain and the life of the process; safety
properties, action properties, liveness. **`ExplorerClaims`**: a sentence of the
documentation that does not hold. **`ExplorerInvariant`**: the inductive invariants.
**`ExplorerProofs`**, **`SafetyProofs`**: the proofs.

**`IndexLog`**: what all of this is for a reader of the database, in four variables: the
height of the chain, the set of complete blocks, the cursor, and whether a call has ever
failed. Complete blocks stay complete, the cursor passes complete blocks only and goes back
only after a failed call, and neither is ahead of the chain. `Explorer` implements it: a
block is complete when `Indexed` holds of it, and everything in memory (`ipc`, `batch`, the
record in hand) is hidden.

**`Reorg`** details what `Explorer` assumes of the node: an append-only chain and answers
that agree. The requests of a chunk are separate steps, each answered from the chain as
it is then, or by a replica that is behind (by any number of blocks) or still on a branch
that a reorganisation has ended (`left`, `Answer`, `View`); `lags` counts the answers of
such replicas. It assumes that the branch that wins is at least as long as the one it
replaces, so that the height of the chain never falls; the code relies on it and checks it
nowhere (`NotAskedTooEarly` and `SurvivesReorgs` would fail without it). In return it is coarser where
`Explorer` is fine: a stage of `DBHandler` is one step, it fails only with the process,
and every call decodes. A block is the record of its height, the reorganisation that
brought it and its transactions; it stands for its hash, which the code stores and never
compares. **`Stats`** puts a `GET /health` beside it. **`ReorgProofs`**: the proofs.

**`ChunkFetch`**: the promise of a chunk's fetch in three variables. **`WorkerPool`**:
dispatcher and workers, where sending and receiving over the unbuffered channel is one
step of both, and a section under the mutex is one step. **`WorkerPoolProofs`**: the
proof that it keeps the promise.

**`GetLogs`**: the tree of requests for one chunk. A call is identified by its range; each
is in `MakeRequest`, waits for its two halves, or has returned. The loop of `MakeRequest`
is one action per attempt, with the code's sorting of the answers: network error and codes
from -33000 on are retried, any HTTP status but 200 splits, the rest is returned.

**`ActionsAPI`**: a client of `GET /actions` and the three SQL transactions that write the
table it reads. It is a model of its own, finer than `Database` where this matters for a
reader: an id is drawn when an INSERT runs and seen when its SQL transaction commits, and a
row that another session holds makes an upsert wait. A filter is what it accepts of each
row before and after the call was decoded. **`ActionsAPIProofs`**: the proofs.

**`Discovery`**: `FetchStorageContractAddresses`, call by call, with its two callers; a
chunk is one step that asks for the list in hand. The world moves on between the calls.
What the list should have held is kept in history variables. **`DiscoveryProofs`**: the
proofs.

**`Decoding`**: the ABI, the registries and the structs as tables (name, type, indexed or
not), and the decoders as operators over them, with what their callers do with an error.
A value is abstracted to how it came to be: read from a topic, from the data, missing,
or a hash. **`Text`**: both sanitisers, `json.Marshal`, the conversion to `jsonb` and
`json.Unmarshal`, on sequences of the characters that one of them treats in its own way.
**`Inputs`**: these functions, and the loop of `FetchAndDecodeInBatches`, applied to
every input of bounded size. **`InputsProofs`**: the proofs, for inputs of every size.

### Actions and code

| Action | Code |
|---|---|
| `BackfillBegin`, `ChunkLoop`, `FetchChunk` | `backfill.go:40-58`, `68-73`, `80-208` |
| `HandleBlock`, `HandleTransactions`, `HandleFailed`, `HandleEvents`/`SkipEvents`, `AdvanceCursor` | the stages of `db_handler.go:15-82`, with the error handling of the `database` function each one calls |
| `Handover`, `FetchAddresses`, `Poll` | `main.go:83-90`, `backfill.go:225-276` |
| `ListPending`, `FetchAndDecode`, `InsertRecovered`, `Resolve`, `Bump`, `Abandon` | `failed_backfill.go:28-107` |
| `Start`, `Shutdown`, `Exit`, `Crash`, `RetryStops` | `main.go:58-70`, `129-143` |
| `Send`, `EndSending`, `Return` | the dispatcher, `backfill.go:194-207` |
| `EndReceiving`, `CheckContext`, `Fetch`, `RecordError`, `AppendBlock` | a worker, `backfill.go:137-187` |
| `InsertCall`, `AppendEvents`, `InsertRecovered`, `Commit`, `Rollback` | the SQL transactions of `db.go:98-149`, `185-342` |
| `Begin`, `NextPage`, `LastPage` | a request of `handlers/actions.go:15-72` and its `SELECT`, `actions.go:52-182` |
| `Request`, `Exhausted`, `Join`, `Return` of `GetLogs` | `rpc.go:39-86`, `126-158` |
| `Poll` of `Reorg` | `rpc.go:171-187`, `backfill.go:241-275` |
| `AnswerLogs`, `SplitLogs` | `rpc.go:89-158` |
| `FetchBlock`, `Fetched` | `rpc.go:274-323`, `backfill.go:204-210` |
| `PersistBlocks`, `PersistCalls`, `PersistEvents`, `AdvanceCursor` of `Reorg` | `db_handler.go:15-82` and the statements of `db.go` |
| `Restart` of `Reorg` | `main.go:58-63` |
| `Request`, `GetStats`, `QueryFails` of `Stats` | `health.go:9-19`, `db.go:373-423` |
| `ListContracts`, `ListFails`, `GetCode`, `SecondPass`, `GetSlot`, `GetImplCode`, `ReturnAddresses` | `constants.go:68-143`, `rpc.go:234-246`, `config.go:23-43` |
| `IndexChunk`, `Handover`, `LiveFails`, `Restart` of `Discovery` | `backfill.go:68-83`, `225-229`, `main.go:45-94` |
| `DecodeLog`, `DecodeTxs` | `decoding/events.go`, `transactions.go`, `blocks.go` |
| `StoreText`, `FetchInBatches` | `helpers.go` with `db.go:263-326`, `425-461`; `indexing/events.go:14-61` |

A definition whose comment begins with "Mutant" is a plausible mistake in the definition
after it, kept to show that a property notices it; no specification uses it.

## 3. What is checked

Runs that pass:

| Run | Properties | What it shows |
|---|---|---|
| `explorer` | `TypeOK`, `NoGap`, `ChunkCovered`, `ActionsHaveBlock`, `ResolvedIsRecorded`, `RetriesBounded`, `DuplicatesBounded`, `LeaksBounded`, `FinalStatuses`, `CursorMovesForward`, `ImplementsIndexLog` | with a failing call and a stop anywhere, in both goroutines and in either release, and with a block beyond the last partition: no hole behind the cursor, nothing reopened, at most one copy of events per disturbance, at most two leaked connections; a reader sees complete blocks stay complete and a cursor that is backed by them and not ahead of the chain |
| `live` | `CatchesUp`, `Recovers` | with a stop anywhere every block is reached unless a call fails; a decodable failed transaction is resolved in spite of a stop, a failing call, and an older transaction that never decodes |
| `worker_pool` | `FetchesChunk`, `PoolReturns` | the pool implements `ChunkFetch` and always ends |
| `get_logs` | `TypeOK`, `LogsComplete`, `SplitSucceeds`, `GetLogsReturns` | all logs once or an error, always an answer, with three failing requests; without any, a limit of two blocks or more never fails a chunk, if the node announces it by an HTTP status |
| `reorg` | `SettledIsIndexed`, `BlockRowSettled`, `NotAskedTooEarly`, `RowsBounded`, `SurvivesReorgs`, `CursorIsBacked`, `ActionsCounted` | with a reorganisation, two answers of replicas behind or on the branch that was left, and a restart anywhere between the requests of a chunk, and a health request at any time: what is settled has all its events, and its calls and its row of `blocks` unless such a replica answered; what stays behind is bounded; the figures of one health answer agree |
| `discovery` | `TypeOK`, `NothingLeftOut`, `OnlyContractsDue`, `NeverAsksForAll` | with failing calls, a page that is too short, contracts verified and a proxy upgraded meanwhile: no storage contract is left out, none is asked for that was never due, and all of the chain is asked for only by `LiveIndexing` after an empty page |
| `actions_api` | `NoRowTwice`, `OldRowsServed`, `LinksStable` | no row on two pages, no row lost that was there from the first request on, addresses that stay, under every filter and any order of inserts and commits |
| `inputs` | `FilteredLogsDecode`, `NotInPart`, `OnlyForeignSkipped`, `DecodersAgree`, `TextsAccepted`, `TextsKept`, `BatchesCover` | the tables of events, methods and structs agree; no call of the contract is dropped without a trace; the database refuses a name only for a `\u` without its digits, and gives back what it took unless the name spells out the code of a control character; batches leave out no block and repeat none |

Runs that end in a violation, each the disagreement of a sentence of the repository with
its code (quoted in `PROJECT.json`, "findings"):

| Run | The sentence that fails | Why |
|---|---|---|
| `claim_polls` | live indexing polls continuously | it returns at the first error of a chunk and is not restarted |
| `claim_splits` | -32005 splits the range | the test before it catches the code first |
| `claim_reorg_safe` | reorg-safe windowing | a block is stored once and never looked at again; `reorg_depth` is never read |
| `claim_json` | `SanitizeJSONString` fixes invalid escapes | of an escaped backslash before a `u` it takes the second half for the start of an escape, and breaks JSON that was valid |

`claim_polls` and `claim_reorg_safe` are temporal and checked under the fairness below.

More disagreements show in the models and have no run of their own:

* no hash is compared: if `eth_getLogs` is answered from the new branch and
  `eth_getBlockByNumber` by a replica still on the old one, the calls and the row of the
  old block are stored, those of the new one never, and the cursor passes (backfill.go:145,
  rpc.go:274-323). `SettledIsIndexed` and `BlockRowSettled` name this case as their
  exception (`lags > 0`); only the events are stored in spite of it;
* `DecodeBlock` fails a call of the contract whose sender cannot be recovered
  (blocks.go:28-36), and the decoder of the worker, which does not look at the signature,
  decodes it (`DecodersAgree` names the exception);
* data that is missing altogether leaves zeroes in an event without an error
  (helpers.go:18; `NotInPart` says in which arguments);
* events are appended again when a chunk is indexed again after a stop (db.go:324;
  PROPOSAL.md:121 wants reproducible output); `DuplicatesBounded` says how often;
* an error of the append is logged and skipped, the cursor advances, and the events are
  lost (db.go:326; schema.sql:48); `Indexed` accepts this;
* out of retries a transaction stays `pending` (failed_txs.go:96; schema.sql:84 knows
  `abandoned`); and a `null` answer of the node decodes to "no input data", which abandons
  a transaction of the contract at once (rpc.go:331, failed_backfill.go:64);
* only blocks with logs of the contract are fetched, so that its calls in other blocks are
  not indexed (`HasLogs`; PROPOSAL.md:80-82), while in a block that is fetched every call
  that decodes is taken, whatever its receiver (transactions.go:102; README.md:52 says the
  transactions are filtered by address);
* rows that appear behind a client's cursor are skipped without having been seen
  (`Beyond`; actions.go:60);
* an error of the read at boot is taken for an empty table (`Start`; PLAN.md:80-81);
* an HTTP status such as 429 or 502 splits a range that the node would serve
  (`OtherStatus`; rpc.go:106);
* `actions` has no partition from block 200000 on (`HasPartition`), beyond which every
  decoded call ends the indexer;
* `LiveIndexing` reads the contract addresses once more and accepts an empty list
  (backfill.go:222-229; the comment says the list of the start is reused);
* `DecodeBlock`, which nothing calls (the tests call `DecodeTransaction`), panics on a block that creates a contract
  (blocks.go:39), unlike the decoder of the worker.

### Bounds

* *Chain*: three blocks and four transactions in the main run. Block 1 has a call with
  events; block 2 a call that only the second release decodes and a transaction of another
  contract that makes the storage contract emit a log; block 3 a call, and no partition
  (`PartitionEnd = 3`). The run `live` has a call that no release decodes in front of one
  that the second release does, so that the older one occupies the list of the retry loop.
  These are all the kinds of transactions the code tells apart, and give chunks of one and
  of two blocks, a chunk cut at the head, and a head that grows while the backfill runs.
  The genesis block is the boundary case of a cursor of 0.
* `ChunkSize = 2`, `BackfillFrom = 0`.
* `MaxFaults = 1`, `MaxStops = 1`: one failed call and one crash or shutdown, anywhere. A
  fault moves the indexer from backfill to live indexing or ends it, the missing partition
  fails a second call without being counted, and a stop gives a second life, which
  re-indexes the chunk that was interrupted.
* `MaxRelease = 2`: the release that fails to decode and the one that succeeds.
* `MaxRetry = 2`, `BatchLimit = 1`: a transaction can be retried, fail and be retried
  again, and the list of a run can be shorter than the set of pending transactions.
* *Worker pool*: three blocks and two workers: some worker receives twice, both may be
  busy when a third number waits, both may fail. Any number of calls may fail, as every
  failure ends a worker.
* *GetLogs*: 7 blocks and a limit of 2: ranges of odd and even size, split three levels
  deep; two attempts per request; three failing requests.
* *Reorg*: three blocks, two of them there when the explorer starts; a call with an event
  and one without; chunks of three blocks that a node with a limit of two makes split;
  one reorganisation of up to two blocks, two answers of replicas that are behind or on the
  branch that was left (so that both halves of a range, or a range and a block of it, can
  be answered so), one restart. A transaction can move to another block or vanish, the fork
  can pass through the middle of a chunk, and a chunk can be read from two branches. Beside
  a health request there is one restart or one such answer (`HealthBound`, the constraint
  of the run): the figures depend on what the indexer writes between the queries, and that
  is left as free as it is. 3.8 million states in all.
* *Discovery*: two storage contracts, a proxy, and a contract of another name with the
  bytecode of the first; the empty code of the zero address, which an empty slot leads to
  (no storage contract has it: `DiscoveryAssumption`); a page of three, so that it can be too short; three blocks in
  chunks of two; one upgrade, one restart.
* *API*: three transactions, two in one block and one in the next, pages of one row, four
  ids (one more than rows, for an upsert or a rollback that wastes one), every filter.
* *Inputs*: every event of the ABI and an unknown one with up to three topics and data
  that is whole, short or missing; every method, with arguments that are in order or not,
  a receiver or none, and a sender that can be recovered or not; inputs too short, empty,
  missing, or not hex; blocks of up to two transactions; texts of up to five characters of
  fourteen kinds (U+0000 and the other control characters are told apart, because only the
  code of the first is refused), which hold an escape with two digits (`Width`) behind
  another character; ranges up to block 5 in batches of every size.

### Fairness

`FairSpec` of `Explorer` assumes that the two goroutines keep running
(`WF(Indexing)`, `WF(Retrying)`: the Go scheduler, tickers that fire, calls that return
because client and pool have timeouts), that a process told to stop exits (`WF(Exit)`:
`srv.Shutdown` has a timeout) and that a process that is down is started again
(`WF(Start)`: the restart policy of the container). Nothing is assumed of the chain, of
shutdowns, or of failures; weak fairness of a goroutine does not make its calls succeed,
which is why liveness needs `MaxFaults` to be a bound: failures stop eventually.
`WorkerPool` assumes fairness of each goroutine, `GetLogs` that some goroutine that can
run does, and `Reorg` (for `claim_reorg_safe` only) that the indexer's goroutine runs; the
chain owes neither a block nor a reorganisation.

## 4. What is proved

The theorems hold for every value of the constants that satisfies the named assumptions
of the modules (positive chunk size, a `BackfillFrom` on the chain, and so on): any
chain, any number of releases, faults, stops, blocks, workers, contracts and
reorganisations; texts, blocks and ranges of any size. Every safety and action property of
the passing runs is proved, and so are the two refinements.

**`ExplorerProofs`** — `TypeCorrect`, `NoGapHolds`, `ChunkCoveredHolds`. `NoGap` speaks of
the cursor only, which the last stage of `DBHandler` writes, so it is not inductive.
`ExplorerInvariant` adds what justifies the write: `ChunkCovered`, inside `DBHandler`
everything a block of the chunk owes the database is there or still in `batch`;
`HandledBefore`, the blocks before `start` are indexed, because live indexing may work
behind the stored cursor; `PartialIsCancelled`, a chunk of which only a part was fetched
exists only while every statement is refused. The proof uses two monotonicity lemmas: no
statement of either goroutine takes back what `Indexed` asks for (`Grows`), so that the
steps of the retry loop, the chain and the process keep it, and each stage of the indexer
moves an obligation from `batch` to the database.

**`SafetyProofs`** — the rest of `Explorer`, each property from an invariant of its own.
`RetriesBoundedHolds`, `ResolvedIsRecordedHolds` and `FinalStatusesHolds` rest on `RInv`:
the list of a run is read once and used later, so the invariant has to say why it is not
stale. The record in hand and those still listed are pending with attempts left, and no
other statement of the program touches a pending row (the indexer's `ON CONFLICT DO
NOTHING` leaves it alone); what is about to be resolved has been recorded.
`ActionsHaveBlockHolds`: blocks are written before everything else, so a chunk whose later
stages run has its blocks, unless it is partial and refused. `LeaksBoundedHolds`: a
connection leaks where a mode of the indexer ends, hence two at most.
`CursorMovesForwardHolds`: a chunk is not empty, and without a fault the goroutine is
never behind the stored cursor. `DuplicatesBoundedHolds`: each copy of a transaction's
events is paid for by a stop or a fault, except the first, which is paid for while its
events are still to be appended.

`IndexLogImplemented`, `Spec => ImplementsIndexLog`, brings these together. The mapping
needs `HInv` besides the invariants of `NoGap` and `CursorMovesForward`: the end of the
range is a height that was announced, so that no chunk, no row of `blocks` and no cursor is
ahead of the chain. A step that leaves the cursor alone completes some blocks of the chain,
perhaps none (`CompletesBlocks`: `IndexedStays` says that none is lost). The cursor is
written by the last stage only, which completes nothing (`MovesCursor`). A new release may
complete a block by itself, because it no longer counts a call as one of the contract,
which is why `Persist` of `IndexLog` may happen at a restart. `LogHasNoHole` shows that the
abstract specification promises enough: from its steps alone it follows that there is no
hole behind its cursor and that the cursor is on the chain.

**`WorkerPoolProofs`** — `PoolFetchesChunk`: `WorkerPool!Spec => ChunkFetch!Spec` under the
refinement mapping; `PoolTypeCorrect`. The invariant says that a number that was sent is
held by exactly one worker until it is fetched, that it is lost only once `chunkCtx` is
done, and that `chunkCtx` is done only after `idxCtx` is or an error was recorded.
`PoolReturns` itself needs fairness and stays with TLC, but both halves of the argument for
it are proved for every pool. `PoolNeverStuck`: until Backfill has its answer, the guard of
some goroutine's action holds (`NeverStuck` writes the guards out, since `ENABLED` cannot be
reasoned about); a worker that ended found the channel closed or the chunk done, and in
either case the dispatcher does not wait for a receiver. `PoolEnds`, for finitely many
blocks and workers: `Work` is a natural number, and every step but `Cancel` that changes
something makes it smaller, so that the pool takes at most 6 * blocks + workers + 2 steps.

**`GetLogsProofs`** — `LogsTypeCorrect`, `LogsCompleteHolds`, `SplitSucceedsHolds`. The
invariant says that the active calls form a tree: two ranges are nested or disjoint, a
call that is still asking has none below it, a split has its two halves, and only halves
that ended are joined. So each call has one parent, and what a split has gathered is what
its joined halves returned, each block once. `SplitSucceeds` is proved for a node that
refuses by an HTTP status and at least one attempt per request; for the error code,
`claim_splits` refutes it. The same two halves stand behind `GetLogsReturns`:
`LogsNeverStuck` (of the calls that have not ended, the one with the smallest range can
run, because halves are smaller than their call) and `LogsEnds` (every step settles one of
the finitely many things in `Remaining`, and none is ever opened again, because the halves
of a call are new when it is split).

**`ReorgProofs`** — seven theorems. `SettledIsIndexedHolds`, `BlockRowSettledHolds`,
`NotAskedTooEarlyHolds`, `RowsBoundedHolds` for every instance; `SurvivesReorgsHolds` for a
node that serves at least two blocks (`NodeLimit > 1`; a range of two cannot be split);
`CursorIsBackedHolds` and, for finitely many transactions, `ActionsCountedHolds` for
`StatsSpec`. The key fact is that a replaced block never comes back: a block carries the
reorganisation that brought it, so "the block that `eth_getLogs` answered from is the
block on the chain" means that it was there all the time, in particular when the worker
asked for it. The invariant follows a block through the chunk: its logs are gathered once
its range was answered (`LogsGathered`), the block fetched is the one asked for if that is
settled and no replica that is behind or on another branch has answered (`GotSettled`), and
each stage stores what it stands for (`Stored`). For the events no such condition is
needed, whichever replicas answer: they come with the logs themselves. `InTime` says
that a block asked for exists. `OneBlock`, that a transaction is in one block per branch,
gives an injection from the rows of a transaction to the reorganisations, hence
`RowsBounded`; and it makes the figures of the health answer comparable.

**`DiscoveryProofs`** — `DiscoveryTypeCorrect`, `OnlyContractsDueHolds`,
`NothingLeftOutHolds`, `NeverAsksForAllHolds`. The invariant says of each thing read that
it was true at some time since the discovery began (`ReadWasThere`), that a storage
contract of the page is on the list or still to be looked at (`StoragesListed`), and that
a proxy that was due all the time will be recognised whenever its slot is read, because
the first pass has the bytecodes of all storage contracts before the second begins
(`DueListed`).

**`ActionsAPIProofs`** — `NoRowTwiceHolds`, `OldRowsServedHolds`, `LinksStableHolds`, for
every set of transactions, page size and filter. The invariant says that an id is drawn
once, that a row has one id whichever session writes it, that only one session holds a
row, and that the client has passed the place of every row it was given; the page step
then rests on the keys being totally ordered (`KeyOrder`).

**`InputsProofs`** — `FilteredLogsDecodeHolds`, `NotInPartHolds`,
`OnlyForeignSkippedHolds`, `DecodersAgreeHolds`, `TextsAcceptedHolds`, `TextsKeptHolds`,
`BatchesCoverHolds`, for logs of every shape, blocks of any number of transactions, texts of
any length with codes of any width, ranges and batches of any size. A run of `Inputs` is one
application of one function, so that its invariant (the lemma `InputsInductive`) says no
more than that, and the work is in the functions:

* *Tables.* `TablesAgree` and `ParamsFit` evaluate the ABI, the registries and the structs
  event by event and method by method. From them `LogDecoded` and `TxDecoded` say when a
  decoder fails and how, `LogWhole` which arguments of a log without data are zero.
* *Texts.* The functions of `Text` are recursive functions over sequences. `TextRecursion`
  proves that such functions exist, i.e. that each is what its equation says; it is itself
  proved by induction, as is everything about them. The library's induction theorems cannot
  be instantiated, so `ByMeasure`, `ByCharacter` and `ByShape` derive induction from the
  least-number principle in its form for sets (`WFMin`): a set of texts that is closed under
  the rule contains all of them. `EscapesSplit` finds the escapes of a text that was cut in
  two; `ReadsWhatWasWritten` says that `Unmarshal` undoes `Marshal`; `ReadBack`, what a text
  reads as that was marshalled and then sanitised as JSON. `TopicSent` puts them together:
  the rest is to see when that is the text one began with.
* *Batches.* `BatchOf` gives the one batch that holds a block, by division with remainder.

Two things were found by proving. In `Decoding`, `CASE` expressions whose guards overlapped
did not say which of two errors a decoder returns; they are now in the order of the code.
And `TextsAccepted` was an implication at first; the proof showed that its converse holds as
well, so that it now says exactly which texts the database refuses.

Only model-checked: liveness (`CatchesUp`, `Recovers`, `PoolReturns`, `GetLogsReturns`),
which the prover does not handle, and the refuted claims.

## 5. What is not modelled

* *REST API*: parameter validation, `/methods`, `/contracts` and the middleware keep no
  state. The cursor string is modelled as the pair it encodes.
* *Database*: `UpdateEventsForTransaction`, `GetBlockByNumber` and the table `contracts`
  have no caller.
* *Several failures at once in `Reorg`*: failing statements and undecodable calls are in
  `Explorer`, reorganisations and lagging replicas in `Reorg`; a run with both is out of
  reach of the model checker, and no property relates the two.
* *Storage contract*: `storage.sol` is a fixture of the integration tests, not a part of
  the program. Its binding `storage.go` is generated.
* *Time*: backoff, poll interval and the 30 minutes of the ticker are left out; a step may
  take any time.
* *akavelog*, *pytorch-o3*, *zkml-o3*: proposals.

## 6. Plan

Everything planned for the program is done: the explorer with its two goroutines and the
life of the process, the abstract log it implements, the pool, the log requests, the
changing chain, the discovery, the API and the pure functions, with the proofs above.

What could be added:

1. `StorageContract`: buckets, files, chunks and the fill counter against the bitmap.
2. An abstract specification of `GetLogs` (the answer to one chunk, or an error), of which
   `LogsComplete` is the safety half, so that `Explorer`'s `FetchChunk` and `Reorg`'s
   requests rest on the same promise as the pool's `ChunkFetch`.
