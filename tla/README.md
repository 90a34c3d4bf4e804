# Double Zero, verified: TLA+ models of the explorer's indexer and of the services around it

Double Zero is a private explorer and RPC gateway of a ZKsync validium.  This
directory models the parts of it that keep state, in TLA+; TLC checks them on
small instances and TLAPS proves theorems about them for every instance.  Paths
below are relative to `src/packages/` unless they say otherwise.

## 1. Inventory

| Part | State it keeps | Operations | What makes it correct | Here |
|---|---|---|---|---|
| **worker**, block loop: `block/`, `unitOfWork/`, `dataFetcher/` | last heard height; the range being fetched; open transactions; table `blocks` and the rows that cascade from it | plan a range, fetch it, check links, write chunks, commit in order, compare the head | the table is one unbroken branch of the chain, and becomes the chain | `BlockSync`, `UnitOfWork` |
| **worker**, revert: `app.service.ts`, `blocksRevert/` | binary-search bounds | stop workers, search, delete, start workers | deletes exactly what the chain reverted, never anything executed; always ends | `BlockSync` |
| **worker**, batches: `batch/` | table `batches`; a cached batch number for each of 4 states | load the last number, ask the chain, check the last stored block, upsert | rows follow the chain, no status is taken back, executed rows are final | `BatchSync` |
| **worker**, counters: `counter/` | tables `counters`, `counterStates`; cached last record number | read records, increment, revert | a counter is the number of stored records; every record is counted once | `Counters` |
| **worker**, balances: `balance/` | table `balances`; start of the next cleaning window | save, delete old, delete zero, move the window | the latest balance of a pair is never lost, also after a revert | `BalancesCleaner` |
| **worker**, rows of a block: `transaction/`, `token/`, `repositories/` | the other tables | insert in order, upsert the token of an address | a block is stored with all its rows or not at all | order, failures and locks in `UnitOfWork` |
| **data-fetcher** | a map of changed balances by block number, shared by all requests | collect transfers, read balances, clear | the answer to a request holds all balances the block changed | `FetcherBalances` |
| **app** login, **proxy** session, **private-rpc** users | local storage, session cookie, table `users` | connect, sign in, get a token, log out | the token shown is that of the user who is logged in | `Session` |
| `bots_attack_game` contract | games, boards, counters, lists of games | start or join a game, place bots, hack | a game is a duel; nobody gets stuck | `BotsAttack` |
| **worker**, start-up and connections: `utils/runMigrations.ts`, `rpcProvider/`, `blockchain/` | lock table, retry delays | lock and migrate, retry | one migrator at a time | not modelled |
| **private-rpc** access rules, **proxy** filters, **api** | none | predicates and queries on one request | an answer holds what the rules allow | not modelled: no state |
| **app** views, game frontend | browser state | user interface | | not modelled: presentation |
| migrations, entities, metrics, health checks, logging, config | the database schema | | | not modelled: declarations and plumbing; keys and cascades of the schema are part of the models of their users |

The parts interact through the database (worker writes, api reads), HTTP (the
worker polls data-fetcher; proxy calls api; private-rpc calls the node), an
in-process event (`BLOCKS_REVERT_DETECTED_EVENT`, from the block processor to
the app service) and shared promises (a worker is stopped by clearing its
promise and waiting for it).

What is hard here is concurrency between the chain and everybody who reads it
more than once: a block, a batch or a balance read before an `await` and used
after it; commits of several transactions one after another; caches that
outlive a revert; a process that dies between any two of these.  `PROJECT.json`
lists these hazards at their lines, with the properties that would catch them.

## 2. The modules

| Modules | Content | Checked | Proved |
|---|---|---|---|
| `BlockTree`, `BlockSync`, `ChainMirror` | block loop, revert and chain; what readers of `blocks` rely on | yes | safety and refinement |
| `ChunkStore`, `UnitOfWork` | one range, statement by statement; what `BlockSync` assumes of its commits | yes | safety and refinement |
| `BatchSync`, `BalancesCleaner` | batch workers call by call; on top of them the `balances` table and its cleaner | yes | safety and refinement |
| `Counters`, `RecordTally` | increments and reverts over record numbers; "a counter is a count" | yes | safety and refinement |
| `FetcherBalances` | the map that requests of the data fetcher share | yes | safety |
| `Session` | login page, session and token | yes | no |
| `BotsAttack`, `Duel` | the game; what a game promises its players | yes | safety and refinement |

`MC*` modules give the constants of these values for TLC; `*Proofs` modules
hold the theorems.  `BatchSync` and `BlockSync` share `BlockTree`: `BlockSync`
takes a batch worker's iteration as one step and shows the block loop in detail,
`BatchSync` the other way round.  `UnitOfWork` shows that the commits of a range
do what `BlockSync` takes for granted: `StoredByChunks`, its refinement of
`ChunkStore`, is `BlockSync`'s commit of one chunk (`ChunkStore` keeps the range
that is under way and allows its chunks only, each as a whole).  `BlockSync` and `BatchSync`
implement the same `ChainMirror`.

## 3. The model of the block loop

**`BlockTree`** is the data.  A block stands for its hash, and has a number, a
parent and a batch; `Blocks` is a tree and every path in it is a chain that
could be.  The canonical chain and the `blocks` table are both sets of blocks;
`At`, `Last` and `UpTo` are the three queries the code uses.

**`BlockSync`** is the system.

| Variables | In the code |
|---|---|
| `canon`, `execHeight` | the chain behind the JSON-RPC node (external): it may grow, revert to any block above what is executed on L1, and execute batches |
| `stored`, `batchRoot`, `executedRows` | tables `blocks` and `batches` (`rootHash`, `executedAt`) |
| `tip` | `BlockWatcher.lastBlockchainBlockNumber` |
| `running` | `Worker.currentProcessPromise !== null` (all workers are started and stopped together) |
| `worker`, `head`, `fetched`, `inserted`, `next` | the frame of `processNextBlocksRange`: where it is, `lastDbBlock`, `blocksToProcess`, the transactions that have run, the next one to commit |
| `handler`, `lo`, `hi`, `keepBatch` | the frame of `handleBlocksRevert`/`handleRevert` |
| `chainMoved` | a history variable: the chain changed a block that matters since the iteration or revert in progress started |

An action is the code between two awaits that other parties can see: each
answer of the data fetcher, each probe of the binary search and each `COMMIT` is
a step of its own; the inserts of one chunk are one step, since nothing of an
open transaction is visible before it commits.  The order of the four early
returns of `processNextBlocksRange` is that of the code.  `Exit` is the end of
the process: nothing awaits the revert handler, so when it throws, the
rejection reaches the `uncaughtException` handler of `main.ts`, and the
orchestrator restarts the container (`Restart`).  Faults may happen at any step:
a statement or a `COMMIT` fails (the latter before or after the database applied
it), the process dies, the revert transaction fails.

Three simplifications matter.  The New, Committed and Proven batch workers are
one action, `RecordBatch`, and every iteration of a batch worker is atomic; the
counters' part of the revert transaction is not there; a missing table row of
other entities cannot be told from the block's, since all cascade from it.
`BatchSync`, `Counters` and `UnitOfWork` take these three apart again.

**`SlowExecution`** is an assumption about the environment.  When it is `TRUE`,
the chain executes no batch on L1 while the worker holds blocks that it has
reverted: the time between the seal of a batch and its execution is hours, an
iteration takes seconds.  Without it `ExecutedRowsCorrect` is false (section 5).

**`ChainMirror`** is what readers of the table rely on: it is one unbroken
branch that grows at its end, is cut back above everything final, and nothing
else.  `BlockSync` implements it with `mirror <- stored, final <- executedRows`,
and so does `BatchSync`, where the batches are recorded call by call, with
`final <- ExecutedRows` and `Lowest <- 0`: for the readers of the two tables it
makes no difference that `BlockSync` takes a batch worker's iteration as one
step.

### The model of a range's transactions

**`UnitOfWork`** is `processNextBlocksRange` from line 110 of
`block.processor.ts` on, `addBlock`, and `useTransaction` of
`unitOfWork.provider.ts`.

| Variables | In the code |
|---|---|
| `main`, `first`, `last`, `next` | where `processNextBlocksRange` is; the range; the chunk it commits |
| `unit`, `ending` | per chunk: its `executionPromise`; what `commit` or `ensureRollbackIfNotCommitted` has done, with `isReleased` |
| `task` | per block: which statement of `addBlock` is awaited |
| `pool`, `conn`, `queue` | the pool of the data source; which query runners have a connection; the statements each connection has been sent |
| `txn`, `written`, `rows` | in the database: the transaction of each connection, its rows, the committed rows |
| `tokenOf` | which block adds which token: chosen at the start |

A step is one statement, run by the database, with everything the answer
resumes up to the next statement.  The driver sends the statements of one
connection one at a time and in order (`pg`'s queue); connections are
independent.  External, and taken from the documentation of the products: a
failed statement aborts its transaction and frees its locks; `COMMIT` of an
aborted transaction rolls back and reports no error; a statement outside of a
transaction commits by itself; an insert waits for a row that another open
transaction has inserted; a query on a released runner throws; a connection that
breaks while `COMMIT` is under way leaves it applied or not.  A block is two
inserts, the row of `blocks` and one for all rows that refer to it (foreign keys
of `1683976594958-BlockRelationCascadeDelete.ts`), and a third for a token when
its contract is new to the database.

`Settled` lets the next iteration start when nothing of the last one is left:
`Worker` waits after an error, and what a rolled back chunk still had to send
has been answered by then.  `RangeThrown` waits for all rollbacks, while
`Promise.all` of the catch rejects with the first that fails; because of
`Settled` nothing can tell the two apart.

Three premises are needed, and each is a weakness of the code:

* `EarlyFaults = FALSE`: in a range of several chunks nothing fails before all
  of them have begun.  `connect` and `startTransaction` stand outside the `try`
  (`unitOfWork.provider.ts:91`), and a chunk that fails makes its siblings roll
  back at once.  With `EarlyFaults = TRUE`, TLC finds `PoolKept` violated (a
  runner that is released before it is connected keeps its connection for
  ever), and `WholeBlocks` and `StoredByChunks` (a chunk whose `BEGIN` is under
  way gets its `ROLLBACK` next, then its action starts, and its first inserts
  commit by themselves: a block without its rows, above a gap).
* No token is added by blocks of two chunks (`SharesToken`): neither chunk sees
  the other's row, the second waits for the row lock of the first, and the first
  commits only when both have run (`block.processor.ts:121`).  Postgres sees one
  waiting session and no deadlock; the worker hangs.  This is a premise of
  `CatchesUp` only; `NobodyStuck` has the wait as one of its cases
  (`WaitsForToken`) and says that it is the only one.
* `EnoughConnections`: a range has no more chunks than the pool has
  connections.  A chunk keeps its connection until all have run
  (`block.processor.ts:121`), so one that waits for a connection then waits for
  ever.  With `PoolSize = 1` and ranges of two chunks TLC finds `NobodyStuck`
  violated.  The run has two of each; the theorem has it as a premise.

With the default configuration a range is one chunk (50/50, `.env.example`:
10/10), and none is needed.

### The model of the batch workers and the cleaner

**`BatchSync`** has every call of `BatchProcessor.processNextBatch` as a step,
for each state a batch can be in (`Executed + 1` workers), over the same tree of
blocks.  `canon` and `l1` are the chain; `stored` and `row` the tables `blocks`
and `batches`; `cached`, `pc`, `number`, `details`, `block` the frame of each
worker; `handler`, `keepBlock`, `keepBatch` the frame of the revert, which is
reduced to what the batches see of it.  The row of a batch is its root and the
highest status it has; `upsert` leaves columns alone for which the new details
have `null`, so that a status never goes back (`Upsert`).

`stop()` resets the cached number at once (`batch.worker.ts:11`) and then waits
for the iteration under way, which sets it again
(`batch.processor.ts:107`).  After the revert a worker may therefore go on
after a batch that was deleted.  In the model this happens, and heals: a worker
for New to Proven may leave a batch without row, which the worker of a later
status writes; the executed worker's number cannot be deleted by a revert.
`CatchesUp` and `ExecutedContiguous` say so; the test
`batch.worker.spec.ts:80` does not reach it, as its iteration ends before the
stop.

Its **`SlowExecution`** is the assumption of `BlockSync`, seen from the batch
workers: the chain executes no batch while one of them holds details whose root
hash is no longer the one of the chain (`HoldsReverted`), because the batch was
reverted, or reverted in part and opened again.

**`BalancesCleaner`** extends it with the `balances` table: `StoreBlock` adds a
row for each balance the block changes, the revert's deletion cascades, and
`BalancesCleanerService` deletes rows in three statements without a
transaction: rows that have a later one in the window, rows of zero, and then
moves the window.  Any of them may fail, and the window is a sequence, whose
change no rollback takes back.  A revert goes on while a cleaning run is under
way.

### The model of the counters

**`Counters`** is the counter worker for one table of records, with as much of
the block worker and of the revert as it depends on.

| Variables | In the code |
|---|---|
| `sequence`, `rows`, `height` | the database sequence behind `number`, the committed records, the stored blocks |
| `txns`, `committing` | the chunk transactions of an iteration: the records each has inserted, in commit order |
| `counters`, `lastProcessed` | tables `counters` and `counterStates` |
| `cached`, `page` | `CounterProcessor.lastProcessedRecordNumber`; the records read and not yet counted |
| `handler`, `correct`, `from`, `decrements` | the frame of `handleBlocksRevert` and of `CounterProcessor.revert`, and what its transaction has subtracted |

A number is taken when a record is inserted and becomes visible when its
transaction commits; sequences are not rolled back.  A page is one set
(`Pages`), cut by number.  What a record counts for is the constant
`QueriesOf`.  A missing row of `counters` is a counter of 0, as the API reads it
(`counter?.count || 0`), which is why `CounterService.revert` may delete rows
with count 0; the two tables that are counted do not depend on each other and
one is modelled.

**`RecordTally`** is what the API relies on: records are stored, counted at most
once, and uncounted when they are removed.  `Counters` implements it, with the
counted records being those up to `lastProcessed`.

`Chunks` is the number of transactions an iteration may open,
`blocksProcessingBatchSize / numberOfBlocksPerDbTransaction`.  It is 1 with the
defaults (50/50) and with `.env.example` (10/10).  Exactness needs it to be 1;
with 2 it is false (finding 4).

### The model of the data fetcher's balances

**`FetcherBalances`** is `BlockService.getData` of the data fetcher with
`BalanceService`, for one block, and the worker that asks for the block.

| Variables | In the code |
|---|---|
| `state`, `stage` | the frames of `getData` under way, and of `TransactionService.getData` for each transaction of the block |
| `entry`, `content` | `changedBalances.get(blockNumber)`: which object it is, and the nested maps in the object |
| `ref`, `keys` | `blockChangedBalances` and `balanceAddresses` of a request in `getChangedBalances` |
| `waiting`, `answer` | the request `getBlocksDataRetryable` of the worker awaits, and what it returned |
| `scenario` | the block, the request slots, and whether requests overlap; chosen at the start |

Objects have identities because a request that has awaited its balances goes on
with the object it got, which may not be in the map any more.  A transaction
that throws makes `Promise.all` reject and the request end; the other
transactions go on and still add to the map (`Track` and `FailLate` in state
`over`), possibly into the entry of the retry, or into an entry that nobody
clears.  A response, an answer or an error, may be lost after the request has
ended (`Unanswered`): the worker then waits until its timeout.  A block without
transactions has one "transaction", its logs (`BlockTx`).  `overlap` says whether the worker may give up a request that goes on in the data
fetcher, as it does after `DATA_FETCHER_REQUEST_TIMEOUT`.  The block is the same
in every read, balances are `Read` or `Undefined`, and the rest of the answer is
left out.

### The model of the login page

**`Session`** is one browser tab (`app/src/composables/useWallet.ts`,
`useLogin.ts`, `useRpcToken.ts`, `views/LoginView.vue`), the proxy's session
routes and the `POST /users` route of private-rpc.  The proxy keeps nothing: its
session is a cookie.  A request carries the cookie as it was when it was sent;
an answer replaces the cookie only if the handler changed the session or the
hook prolonged it (that is how `@fastify/secure-session` works, external).  Each
`await` of the page is two steps, the request and its answer, so that answers
arrive in any order (with `Patient`, the user waits for the first one), the
wallet's account may change, the page may be loaded again, and requests may be
lost (`Lossy`).  The session ends after a day (`Expire`); the token in local
storage does not.

### The model of the game

**`BotsAttack`** (`src/bots_attack_game/contracts/contracts/BotsAttack.sol`) has
an action for each call that succeeds; a call whose `require` fails changes
nothing.  The fields of `player1...` and `player2...` are functions of a side.
`JoinGame` lets a player join the own game, as the contract does: that game
stays open for ever, and `SideOf` takes every call of the player for side 1, as
in the code.  **`Duel`** is the game without boards and counters: hide your
bots, try cells in turn, win by finding all bots of the other side.
`BotsAttack` implements it.  `placeBots` asks for exactly
`BOT_COUNT` cells marked as bots, and may be called again until both sides are
ready.

## 4. The runs

| Run | Configuration | States | Shows |
|---|---|---|---|
| `block_sync` | `MCBlockSync.cfg` | 75,015 | all the invariants, action properties, the refinement and both liveness properties hold; every step of a revert brings it nearer to its end |
| `missing_first_block` | `MCBlockSyncMissing.cfg` | | finding 1 |
| `stale_ingest` | `MCBlockSyncStale.cfg` | | finding 2: `SlowExecution = FALSE` |
| `range_revert` | `MCBlockSyncRange.cfg` | | finding 3: `FromBlock = 2` |
| `unit_of_work` | `MCUnitOfWork.cfg` | 35,502 | chunks that run at once and fail anywhere store whole chunks in order, lose no connection, and hang on nothing but a token of two chunks |
| `finality` | `MCBalancesCleaner.cfg` | 172,188 | what is executed is final, the table is a mirror of the chain, no status goes back, no balance is lost, all catch up |
| `counters` | `MCCounters.cfg` | 153,078 | one transaction at a time: no counter is negative, all are exact, they implement `RecordTally` and catch up with the records |
| `counters_parallel` | `MCCountersParallel.cfg` | | finding 4: `Chunks = 2` |
| `fetcher_balances` | `MCFetcherBalances.cfg` | 203,282 | requests do not overlap: the answer is complete whatever failed requests leave behind; the worker gets an answer in any case |
| `fetcher_overlap` | `MCFetcherBalancesOverlap.cfg` | | finding 5: requests overlap |
| `token_of_user` | `Session.cfg` | | finding 6 |
| `bots_attack` | `MCBotsAttack.cfg` | 138,920 | counters and boards agree, nobody is stuck, a game is a duel |

The tree of `MCBlockSync` has eight blocks in four batches, with forks at
heights 1, 2 and 3: deep enough that a revert may span two batches and end in
the middle of one, and that the binary search takes two probes.  Ranges of 3 in
chunks of 2 give iterations of one and of two transactions, the second one
shorter.  Reverts, faults and restarts are not bounded: the state space is
finite because the tree is.  There is no symmetry: the blocks of a tree are not
interchangeable.

`MCUnitOfWork` has five blocks, ranges of four in chunks of two, and so a range
of two chunks and a range of one, a pool of two connections and at most three
failures (`MaxFaults`): enough for a statement to fail, the rollback's
connection to break, and the retry to fail or the process to die.  One token is
added twice in a chunk, by two chunks, or once.  `CHECK_DEADLOCK` is off because
the model ends when the chain is stored.

`MCBalancesCleaner` has six blocks in three batches with a fork inside batch 1,
two states (New and Executed), and two accounts whose balances are set, set to
zero or left alone differently on the two branches.  Reverts, failures and
restarts are not bounded.

The counters are checked with five record numbers, pages of two and two blocks:
a revert may then take two full pages and a rest, delete records that were
counted and records that were not, and meet a restart anywhere.  The numbers are
a bound; reverts, failures and restarts are not bounded.

`MCFetcherBalances` has three scenarios: three request slots and three
transactions one by one (one shares a balance with another, one also changes a
balance that can not be read, one has no transfers), two slots and two
transactions that overlap, and a block that changes nothing.  Three slots let
the transactions of two failed requests run on during a third; a slot is used
again once nothing of its request runs, so that the number of requests is not
bounded.

`MCBotsAttack` has two players, two games (`MaxGames`), and boards of three
cells with two bots, so that a hit may be the last or not and a board may be
full before the end; players and cells are interchangeable (`SYMMETRY`; no
liveness is checked there).  No more games may be created in the end:
`CHECK_DEADLOCK` is off.

`Session.cfg` has two accounts, two nonces and one token, a patient user and no
lost request: finding 6 needs none of these faults.  It is an initial segment of
what can happen, and the model stops when the bounds are used up.

*Safety.* `DbLinked`: the table is one branch whatever was fetched, and wherever
a commit failed.  `ExecutedRowsCorrect`: what the table says is executed is
final on the chain.  `SearchStartsAtRow`: the search reads no missing row.
`ExecutedKept`: no step deletes anything executed.  `RevertPrecise`: a revert
deletes the reverted blocks and no other, if the chain stands still.
`RevertAdvances`: while a revert is under way no iteration is, and each step of
the worker or the handler lowers `RevertLeft`, a bound on the steps left.
`MirrorsChain`: the refinement.  `WholeBlocks`: a block is there with its rows
or not at all.  `PoolKept`: every connection is free or in use.
`StoredByChunks`: the refinement of `ChunkStore`: a range is taken up right above
the stored blocks, every commit adds exactly the next chunk of the range under
way, and none comes after the range has failed; a commit of each block of a
chunk on its own, or a row that commits by itself, is no step of it.
`NobodyStuck`: as long as a
block is missing, the worker, a connection, the database or the chain can go
on, or a chunk waits for a token of another.  `BatchesMirrorChain`: the
refinement of `ChainMirror` by `BatchSync`.  `ExecutedContiguous`: no gap
below an executed batch.  `StatesOnlyAdvance`: no status is taken back while the
row stays.  `BalancesKept`: a reader gets the right balance now and after any
revert that may come.  `CountersExact`: a counter is the number of records up to
the last processed one.  `CountersTally`: the refinement.  `AnswerComplete`: the
answer has a value for every balance of the block that can be read, and no
other.  `CountersMatchBoards`, `MoveLeft`, `HacksOnBoard`, `GamesListed`,
`GamesAreDuels`: the game.

*Liveness.* `Converges`: when chain and faults have settled and the chain has
reached the height the watcher heard of, the table becomes the chain.  The
premise on the height is real: `lastBlockchainBlockNumber` never goes down, so
after a revert to a shorter chain the worker asks for blocks that do not exist
and does not compare its head until the chain has grown back.  `RevertEnds`: a
triggered revert comes to an end.  `CatchesUp` of `UnitOfWork`: every block is
stored once failures end.  `CatchesUp` of `BalancesCleaner`: every executed
batch gets its row and the cleaner goes over all executed blocks.
`CountersCatchUp`: when reverts, failures and new blocks have ended, every
record is counted.  `Answered`: when faults have ended and the worker does not
give up, it gets an answer.

*Fairness* is weak, on the watcher, the workers, the handler, the restart, the
connections and the answers of other services: Node's event loop runs every
callback that is ready, RPC and data-fetcher calls are retried until they
answer, Postgres runs what it was sent, the orchestrator restarts the container.
Nothing is assumed of the chain, and no fault has to happen or to stop, except
where a property says so.  `Session` and `BotsAttack` assume nothing: a user may
stop at any point.

## 5. Findings

1. *A missing first block throws instead of triggering a revert* (`block.processor.ts:81`).
   The unit test gives an element `{block: null}`; the data fetcher answers
   `null`.  The iteration throws, and is retried; the stored head, whose
   successor is gone, is not checked.
2. *A block fetched before a revert can be committed into an executed batch*
   (`batch.processor.ts:90`).  The comment there argues that the missing blocks
   of the batch can not be reverted any more.  It does not consider blocks the
   block worker already holds.  Reverts start above the executed batch, so the
   block stays.
3. *A revert with `fromBlock > 0` and nothing executed ends the process*
   (`blocksRevert.service.ts:84`, `block.repository.ts:41`): the search starts at
   block 0, which is not stored.

4. *A record may become visible below a number that was already counted*
   (`counter.repository.ts:39`).  Two chunk transactions take numbers at the same
   time and commit one after the other; a comment says new records have higher
   numbers.  The record is never counted, and subtracted if its block is
   reverted.

5. *A request that was given up clears the balances of its successor*
   (`block/block.service.ts:89` of data-fetcher).  All requests for a block share
   one entry of the map; the first to end or to fail deletes it under the
   others, which then answer with fewer balances, or with none.

6. *The token of an earlier user is kept* (`app/src/composables/useRpcToken.ts:23`).
   The guide says the login makes "a unique token for your address", and that
   another address needs the login again (`src/docs/step-by-step-guide.md:252`).
   The page asks for a token only if local storage has none, and only a logout
   removes it.  The session ends after a day, the token stays: who signs in next
   with another address is shown, and adds to the wallet, the network of the
   first.

## 6. Proofs

`BlockTreeProofs` has the facts about the queries and about segments of a
branch; where one needs induction along the branch, the proof takes the least
counterexample (`WFMin` on the order of the naturals).  `BlockSyncProofs` has the theorems, for all
trees, ranges, batch and chunk sizes, assuming only `BlockTreeAssumption` and
`BlockSyncAssumption`:

| Theorem | Says |
|---|---|
| `TypeCorrect` | `Spec => []TypeOK` |
| `BranchUnbroken` | `Spec => []DbLinked` |
| `NothingExecutedIsLost` | `Spec => ExecutedKept` |
| `ImplementsMirror` | `Spec => MirrorsChain` |
| `ExecutedIsFinal` | `SlowExecution` implies `Spec => []ExecutedRowsCorrect` |
| `SearchHasRow` | `FromBlock = 0` implies `Spec => []SearchStartsAtRow` |
| `RevertsAdvance` | `Spec => RevertAdvances` |
| `RevertsArePrecise` | `SlowExecution` implies `Spec => RevertPrecise` |

All rest on one inductive invariant, `IInv`.  None of the properties is
inductive: a commit keeps `DbLinked` because of what the iteration checked
before (`WriteInv`: the next chunk continues the table), that holds because the
table does not change under an iteration, and that because the handler deletes
only while the worker is stopped (`HandlerInv`).  A deletion keeps what is
executed because its bounds were above it when they were read and executed rows
are not added while the handler runs (`ExecutedInv`), which needs that batch
numbers grow along the table (`BatchGrows`, from `DbLinked`) and that what the
chain has executed stays as it is (`ChainInv`).  `FinalInv` and `SearchInv` are
added for `ExecutedIsFinal` and `SearchHasRow`.  The invariants were checked
with TLC on the instance above before they were proved.

`RevertsArePrecise` needs no induction over the rounds of the binary search,
because `PreciseInv` says what each round keeps: while the chain stands still,
the blocks an iteration has fetched are canonical, so that only a head which is
not canonical triggers a revert (`TriggerIsRight`), and the block at the upper
end of the search is stored and not canonical, the one at the lower end
canonical.  At the end the two are neighbours, and since both tables are
branches, everything up to the lower one is canonical and nothing above it is
(`BoundsArePrecise`).  `SlowExecution` is there for the block where the search
starts, which the code takes for correct: with finding 2 it need not be.

`RevertsAdvance` is the safety half of `RevertEnds`: nothing holds a revert
back, and it has at most `hi + 4` steps.  The middle of the interval is strictly
inside while a round is left (`ProbeNarrows`), the worker that emitted the event
starts no other iteration, since its promise is cleared in the same turn
(`StopInv`), and so no second event is emitted either.  The other half, that the
next step is taken, is fairness.

`CountersProofs` proves, for all queries, page sizes and bounds, and with
`Chunks = 1` as a premise:

| Theorem | Says |
|---|---|
| `CountersTyped` | `Spec => []TypeOK`: no counter is negative |
| `CountersAreExact` | `Spec => []CountersExact` |
| `NumbersGrow` | `Spec => NewRecordsAreHigher`, what the comment of finding 4 says |
| `CountersImplementTally` | `Spec => CountersTally` |

`CountersExact` is not inductive.  An increment keeps it because the page is
still all there is between the last number and its own (`PageInv`): numbers
that commit meanwhile are above all that is stored (`NumbersInv`).  The end of a
revert keeps it because it has subtracted exactly the counted records of the
blocks it deletes (`RevertInv`), while nobody else counts or writes.

`UnitOfWorkProofs` proves, for all chains, ranges, chunks, pools and numbers of
failures, and with `Calm` as a premise (`EarlyFaults` is `FALSE`, or a range is
one chunk; section 3 says why):

| Theorem | Says |
|---|---|
| `TypeCorrect` | `Spec => []TypeOK` |
| `ConnectionsKept` | `Spec => []PoolKept` |
| `BlocksWhole` | `Spec => []WholeBlocks` |
| `ChunksInOrder` | `Spec => StoredByChunks`: the transactions implement `ChunkStore`: whole chunks of the range under way, in order |
| `NothingHangs` | `EnoughConnections` implies `Spec => []NobodyStuck` |

Here the inductive invariant has a part for the range and one for each of its
chunks.  `StoredInv`: what is stored ends where the chunk that is committed
begins or ends.  `ChunkInv`, of each chunk: what its connection has still to run
(`EndOk`: nothing inserts a block after the statement that ends the transaction,
which is there exactly once while one is awaited), what its blocks wait for
(`TaskOk`: every insert in the queue is awaited by one block), and what its
transaction holds (`TxnOk`: the rows of a block that its task has passed, as
long as the transaction is active).  `WholeBlocks` is kept by a `COMMIT` because
all tasks of the chunk are done by then, and by an insert outside of a
transaction because it can only be one of the later rows of a block, which the
foreign key refuses.  That is where `Calm` is needed.

`NothingHangs` needs the converse of what `ChunkInv` says, and `LiveInv` adds
it: whatever a chunk or one of its blocks waits for is under way.  An action
that runs has a block that is not done, and none that failed (`ActingOk`); what
is awaited is in the queue of the connection (`SentOk`); a token row in a
transaction belongs to a block of the chunk (`TokensOk`).  In a state where
nobody goes on, every queue is then empty or its head waits for a row, and only
a token row of a sibling can be waited for, as block numbers differ
(`WhatWaits`).  With empty queues every action has ended and every chunk is
done, failed or waits for a connection; there is one for it, since by
`PoolKept` the pool and the chunks share `PoolSize` connections and a range has
no more chunks than that (`ConnectionLeft`).

`BotsAttackProofs` proves, for all boards, numbers of bots, players and games:

| Theorem | Says |
|---|---|
| `GamesTyped` | `Spec => []TypeOK`: no counter of bots wraps around |
| `CountersRight` | `Spec => []CountersMatchBoards` |
| `HacksRight` | `Spec => []HacksOnBoard` |
| `ListsRight` | `Spec => []GamesListed` |
| `NobodyStuck` | `Spec => []MoveLeft` |
| `ContractIsDuel` | `Spec => GamesAreDuels`: the contract implements `Duel` |

The inductive invariant joins the type, the counters and the hacks with what
holds before both sides are ready (nobody has hacked, no counter has gone down)
and with who may sit where.  `NobodyStuck` follows from it: a side that has
tried every cell has found every bot, so the game is over.

`BatchSyncProofs` and `BalancesCleanerProofs` prove, for all trees of blocks,
numbers of states and accounts:

| Theorem | Says |
|---|---|
| `TypeCorrect` | `Spec => []TypeOK` |
| `StatusesAdvance` | `Spec => StatesOnlyAdvance` |
| `ExecutedIsFinal` | `SlowExecution` implies `Spec => []ExecutedRowsCorrect` |
| `NoGaps` | `SlowExecution` implies `Spec => []ExecutedContiguous` |
| `BatchesImplementMirror` | `SlowExecution` implies `Spec => BatchesMirrorChain`: the tables implement `ChainMirror` |
| `BalancesRight` | `SlowExecution` implies `Spec => []BalancesKept` |

The first two rest on `SyncInv`, which holds whatever the chain does: the tables
are branches, a worker past a call has what the call returned, and the workers
stand still before the revert transaction.  The others need `FinalInv` too.
`DetailsInv`: what a worker holds of an executed batch is right.
`ExecutedWorkerInv`: no row is missing below the number the worker for executed
batches goes on from, wherever the number came from, and once it has found its
block on the chain, all stored blocks of the batch are there; blocks that are
stored later come from the chain.  `RevertInv`: the bounds of the deletion are
above everything executed, which is why a cached number survives a revert.  With
these, the last executed block never goes down and never leaves the table
(`LastExecutedStays`), and `BalancesInv` is inductive: every row that is gone is
superseded (`Superseded`), by a later executed row or because it was an executed
zero with nothing below.  `BalancesKept` alone is not: it does not say that the
reason a row was deleted for outlives the next revert.
`BatchesImplementMirror` takes from the same invariants that a block is stored
only on top of the table (`StoreMirrored`), that a deletion leaves every final
block and row (`DeleteMirrored`), and that a late upsert makes its own batch
final or none, and takes no other back (`WriteMirrored`).

`FetcherBalancesProofs` proves, for all blocks, transactions and requests, with
more objects than requests that may hold one (`FetcherAssumption`):

| Theorem | Says |
|---|---|
| `TypeCorrect` | `Spec => []TypeOK` |
| `AnswersComplete` | `Spec => []AnswerComplete` |

`AnswerComplete` speaks of scenarios where requests do not overlap, but failed
requests still run on in them.  The argument is `AloneInv`: only the request
that is waited for reads and clears the entry, and what an earlier one adds to
it are balances of the same block; so the entry has at least what the
transactions of the request have tracked, and at most what the block changes.

## 7. Only model-checked, and not modelled

Liveness (`Converges`, `RevertEnds`, `CountersCatchUp`, `Answered`, both
`CatchesUp`) is model-checked only: fairness is beyond the prover.  Every other
property of a passing run is a theorem.  `RevertsAdvance` and `NothingHangs` are
what can be said of `RevertEnds` and of `CatchesUp` of `UnitOfWork` without
fairness.

Not modelled:

* the access rules of private-rpc and the filters of the proxy and the api:
  functions of one request, without state or order of events, which tests on
  examples reach well;
* the views of app, and the game's frontend: presentation, more than half of the
  lines of the repository;
* the translation of logs to transfers and tokens in data-fetcher: stateless;
* the off-chain data of tokens: a periodic overwrite nothing else reads;
* the lock around migrations: listed as a hazard, two statements and a wait;
* web sockets, timers and retries of the JSON-RPC providers: library code; the
  models see the answers;
* the clause of the upserts that keeps the newer deployment of a token, and
  whether an upsert by (block, log) commutes: one statement of SQL;
* a batch row without a root: `batch.entity.ts:20-22` lets `rootHash` be null,
  in `BlockSync` and `BatchSync` every row has one.
