----------------------------- MODULE BlockSync ------------------------------
(***************************************************************************)
(* The block indexing loop of packages/worker: BlockWatcher,               *)
(* BlockService/BlockProcessor, AppService's handler of the revert event   *)
(* and BlocksRevertService, over a chain that may revert its blocks.       *)
(*                                                                         *)
(* Three parties interleave.  The chain produces, reverts and executes     *)
(* blocks whenever it likes.  The block worker reads the last stored       *)
(* block, fetches the next ones one request at a time, checks how they     *)
(* link, writes them in concurrent database transactions and commits these *)
(* one by one.  The revert handler stops the worker, looks for the last    *)
(* correct block with a binary search whose every probe is a call to the   *)
(* chain, and deletes what is above it.  The process may die anywhere.     *)
(*                                                                         *)
(* The batch workers are two atomic actions here (RecordBatch and          *)
(* RecordExecutedBatch): the rows they write bound the revert.             *)
(***************************************************************************)
EXTENDS BlockTree

CONSTANTS
    Pending,             \* a block that is requested and not yet fetched
    FromBlock,           \* config blocks.fromBlock
    ToBlock,             \* config blocks.toBlock, 0 when it is not set
    BatchSize,           \* config blocks.blocksProcessingBatchSize
    ChunkSize,           \* config blocks.numberOfBlocksPerDbTransaction
    DisableBlocksRevert, \* config blocks.disableBlocksRevert
    SlowExecution        \* the chain executes no batch while the worker still
                         \* holds fetched blocks the chain has reverted

ASSUME BlockSyncAssumption ==
    /\ Pending \notin Blocks \cup {NoBlock}
    /\ FromBlock \in Nat
    /\ ToBlock \in Nat
    /\ BatchSize \in Nat \ {0}
    /\ ChunkSize \in Nat \ {0}
    /\ DisableBlocksRevert \in BOOLEAN
    /\ SlowExecution \in BOOLEAN

VARIABLES
    (***********************************************************************)
    (* The chain.                                                          *)
    (***********************************************************************)
    canon,        \* the canonical blocks
    execHeight,   \* the last block whose batch is executed on L1, never reverted
    (***********************************************************************)
    (* The database.                                                       *)
    (***********************************************************************)
    stored,       \* table `blocks`
    batchRoot,    \* table `batches`: batch number -> rootHash, NoBlock if no row
    executedRows, \* the batches of that table that have executedAt
    (***********************************************************************)
    (* The memory of the worker process.                                   *)
    (***********************************************************************)
    tip,          \* BlockWatcher.lastBlockchainBlockNumber
    running,      \* Worker.currentProcessPromise is not null
    worker,       \* where BlockService.runProcess is
    head,         \* lastDbBlock of this iteration
    fetched,      \* blocksToProcess: block number -> what was fetched
    inserted,     \* the chunks whose transaction has run its inserts
    next,         \* the first block not yet committed
    handler,      \* where AppService.handleBlocksRevert is
    lo, hi,       \* start and end of the binary search
    keepBatch,    \* lastCorrectBatchNumber
    (***********************************************************************)
    (* Observation only: the chain changed a block that matters to the     *)
    (* iteration or the revert in progress.                                *)
    (***********************************************************************)
    chainMoved

chainVars   == <<canon, execHeight>>
dbVars      == <<stored, batchRoot, executedRows>>
iterVars    == <<head, fetched, inserted, next>>
handlerVars == <<handler, lo, hi, keepBatch>>
vars == <<chainVars, dbVars, tip, running, worker, iterVars, handlerVars,
          chainMoved>>

Null == -1    \* a JavaScript null where a number is expected

Min2(a, b) == IF a <= b THEN a ELSE b

\* The batch numbers that can occur.
BatchNumbers == {Batch[b] : b \in Blocks}

(***************************************************************************)
(* What the chain answers.                                                 *)
(***************************************************************************)
Height == Number[Last(canon)]

\* Batch n is executed on L1.
ChainExecuted(n) == n <= Batch[At(canon, execHeight)]

\* The last canonical block of batch n, when n is sealed: it is executed, or
\* the chain has started the next batch.  It stands for the batch's root hash.
ChainRoot(n) ==
    IF ChainExecuted(n) \/ \E b \in canon : Batch[b] = n + 1
    THEN Last({b \in canon : Batch[b] = n})
    ELSE NoBlock

(***************************************************************************)
(* BlockWatcher.getNextBlocksToProcess: the range of the next iteration.   *)
(***************************************************************************)
LastBlockNumberToProcess == IF ToBlock # 0 THEN Min2(ToBlock, tip) ELSE tip

NextRange(last) ==
    LET from == IF last = NoBlock THEN FromBlock ELSE Number[last] + 1
    IN  IF tip = Null THEN {}
        ELSE from .. Min2(LastBlockNumberToProcess, from + BatchSize - 1)

\* BlockProcessor.buildBlockRangeCondition.
InRange(S) == {b \in S : /\ Number[b] >= FromBlock
                         /\ ToBlock # 0 => Number[b] <= ToBlock}

(***************************************************************************)
(* splitIntoChunks: the chunks of the fetched range, by first number.      *)
(***************************************************************************)
First == IF head = NoBlock THEN FromBlock ELSE Number[head] + 1

ChunkStarts == {n \in DOMAIN fetched : (n - First) % ChunkSize = 0}

Chunk(s) == {fetched[n] : n \in {m \in DOMAIN fetched : s <= m /\ m < s + ChunkSize}}

\* Mutant: without the default 0 of a database that has no executed batch.
LastExecutedBlockNumberNoDefault ==
    LET executed == {b \in stored : Batch[b] \in executedRows}
    IN  IF executed = {} THEN Null ELSE Number[Last(executed)]

(***************************************************************************)
(* BlockRepository.getLastExecutedBlockNumber: blocks joined with batches. *)
(***************************************************************************)
LastExecutedBlockNumber ==
    LET executed == {b \in stored : Batch[b] \in executedRows}
    IN  IF executed = {} THEN 0 ELSE Number[Last(executed)]

-----------------------------------------------------------------------------
TypeOK ==
    /\ canon \subseteq Blocks
    /\ execHeight \in Nat
    /\ stored \subseteq Blocks
    /\ batchRoot \in [BatchNumbers -> Blocks \cup {NoBlock}]
    /\ executedRows \subseteq BatchNumbers
    /\ tip \in Nat \cup {Null}
    /\ running \in BOOLEAN
    /\ worker \in {"down", "idle", "fetching", "comparing", "writing", "stopped"}
    /\ head \in Blocks \cup {NoBlock}
    /\ DOMAIN fetched \subseteq Nat
    /\ fetched \in [DOMAIN fetched -> Blocks \cup {NoBlock, Pending}]
    /\ inserted \subseteq DOMAIN fetched
    /\ next \in Nat
    /\ handler \in {"none", "stopping", "searching", "deleting"}
    /\ lo \in Nat
    /\ hi \in Nat
    /\ keepBatch \in Int
    /\ chainMoved \in BOOLEAN

Init ==
    /\ canon = {b \in Blocks : Number[b] = 0}
    /\ execHeight = 0
    /\ stored = {}
    /\ batchRoot = [n \in BatchNumbers |-> NoBlock]
    /\ executedRows = {}
    /\ tip = Null
    /\ running = TRUE
    /\ worker = "idle"
    /\ head = NoBlock
    /\ fetched = [n \in {} |-> NoBlock]
    /\ inserted = {}
    /\ next = 0
    /\ handler = "none"
    /\ lo = 0
    /\ hi = 0
    /\ keepBatch = 0
    /\ chainMoved = FALSE

-----------------------------------------------------------------------------
(***************************************************************************)
(* The chain.                                                              *)
(***************************************************************************)
\* An iteration or a revert is under way.
Busy == worker \in {"fetching", "comparing", "writing"} \/ handler # "none"

\* No block joins an executed batch.
ProduceBlock(b) ==
    /\ Parent[b] = Last(canon)
    /\ ~ChainExecuted(Batch[b])
    /\ canon' = canon \cup {b}
    /\ chainMoved' = (chainMoved \/ (Busy /\ b \in stored))
    /\ UNCHANGED <<execHeight, dbVars, tip, running, worker, iterVars, handlerVars>>

RevertChain(n) ==
    /\ n \in execHeight .. (Height - 1)
    /\ canon' = UpTo(canon, n)
    /\ chainMoved' = Busy
    /\ UNCHANGED <<execHeight, dbVars, tip, running, worker, iterVars, handlerVars>>

\* The worker holds a block the chain has reverted since it was fetched.
HoldsReverted == \E n \in DOMAIN fetched : fetched[n] \in Blocks \ canon

ExecuteBatch ==
    LET n == Batch[At(canon, execHeight)] + 1
    IN  /\ ChainRoot(n) # NoBlock
        /\ SlowExecution => ~HoldsReverted
        /\ execHeight' = Number[ChainRoot(n)]
        /\ UNCHANGED <<canon, dbVars, tip, running, worker, iterVars, handlerVars,
                       chainMoved>>

(***************************************************************************)
(* BlockWatcher: the height it last heard of never goes down.              *)
(***************************************************************************)
WatcherInit ==
    /\ worker # "down"
    /\ tip = Null
    /\ tip' = Height
    /\ UNCHANGED <<chainVars, dbVars, running, worker, iterVars, handlerVars,
                   chainMoved>>

OnBlock ==
    /\ worker # "down"
    /\ tip # Null
    /\ Height > tip
    /\ tip' = Height
    /\ UNCHANGED <<chainVars, dbVars, running, worker, iterVars, handlerVars,
                   chainMoved>>

-----------------------------------------------------------------------------
(***************************************************************************)
(* The block worker.                                                       *)
(***************************************************************************)
\* runProcess comes to the end of an iteration: it returned true or false,
\* or threw, and these differ only in the delay before the next iteration.
EndIteration ==
    /\ worker' = "idle"
    /\ head' = NoBlock
    /\ fetched' = [n \in {} |-> NoBlock]
    /\ inserted' = {}
    /\ next' = 0

\* Mutant: stop waits for the promise of the worker before it clears it.
TriggerRevertStopsLate ==
    IF DisableBlocksRevert
    THEN UNCHANGED <<running, handlerVars>>
    ELSE /\ handler' = "stopping"
         /\ hi' = Number[head]
         /\ UNCHANGED <<running, lo, keepBatch>>

\* triggerBlocksRevertEvent: the handler runs up to its first await, where
\* stopWorkers has cleared currentProcessPromise of every worker.
TriggerRevert ==
    IF DisableBlocksRevert
    THEN UNCHANGED <<running, handlerVars>>
    ELSE /\ running' = FALSE
         /\ handler' = "stopping"
         /\ hi' = Number[head]
         /\ UNCHANGED <<lo, keepBatch>>

\* getLastBlock, and the range getNextBlocksToProcess computes from it.
StartIteration ==
    /\ worker = "idle"
    /\ running
    /\ LET last == Last(InRange(stored))
           range == NextRange(last)
       IN  /\ head' = last
           /\ fetched' = [n \in range |-> Pending]
           /\ worker' = IF range # {} THEN "fetching"
                        ELSE IF last # NoBlock THEN "comparing"
                        ELSE "idle"
    /\ chainMoved' = FALSE
    /\ UNCHANGED <<chainVars, dbVars, tip, running, inserted, next, handlerVars>>

\* One of the concurrent getBlockData calls answers; a missing block is null.
FetchBlock(n) ==
    /\ worker = "fetching"
    /\ fetched[n] = Pending
    /\ fetched' = [fetched EXCEPT ![n] = At(canon, n)]
    /\ UNCHANGED <<chainVars, dbVars, tip, running, worker, head, inserted, next,
                   handlerVars, chainMoved>>

AllFetched == worker = "fetching" /\ \A n \in DOMAIN fetched : fetched[n] # Pending

FirstUnlinked == /\ head # NoBlock
                 /\ fetched[First] # NoBlock
                 /\ Parent[fetched[First]] # head

\* Mutant: the links inside the range are not checked.
RangeLinkedUnchecked == TRUE

\* validateBlocksLinking.
RangeLinked == \A n \in DOMAIN fetched :
    n + 1 \in DOMAIN fetched => fetched[n] = Parent[fetched[n + 1]]

\* A range that starts with the wrong parent: the stored head was reverted.
RevertOnFirstBlock ==
    /\ AllFetched
    /\ FirstUnlinked
    /\ TriggerRevert
    /\ EndIteration
    /\ UNCHANGED <<chainVars, dbVars, tip, chainMoved>>

\* The data fetcher answers null for a block that does not exist, and reading
\* a property of null throws: of the first element in the parent check, of a
\* later one in the search for blocks without data.
MissingBlockThrows ==
    /\ AllFetched
    /\ ~FirstUnlinked
    /\ \E n \in DOMAIN fetched : fetched[n] = NoBlock
    /\ EndIteration
    /\ UNCHANGED <<chainVars, dbVars, tip, running, handlerVars, chainMoved>>

\* The range mixes two branches.
RangeNotLinked ==
    /\ AllFetched
    /\ \A n \in DOMAIN fetched : fetched[n] # NoBlock
    /\ ~FirstUnlinked
    /\ ~RangeLinked
    /\ EndIteration
    /\ UNCHANGED <<chainVars, dbVars, tip, running, handlerVars, chainMoved>>

\* Every chunk gets a transaction of its own; all of them start at once.
StartTransactions ==
    /\ AllFetched
    /\ \A n \in DOMAIN fetched : fetched[n] # NoBlock
    /\ ~FirstUnlinked
    /\ RangeLinked
    /\ worker' = "writing"
    /\ next' = First
    /\ UNCHANGED <<chainVars, dbVars, tip, running, head, fetched, inserted,
                   handlerVars, chainMoved>>

\* No new block: compare the stored head with the chain.
CompareHead ==
    /\ worker = "comparing"
    /\ IF At(canon, Number[head]) = head
       THEN UNCHANGED <<running, handlerVars>>
       ELSE TriggerRevert
    /\ EndIteration
    /\ UNCHANGED <<chainVars, dbVars, tip, chainMoved>>

\* A transaction has inserted all its blocks: no primary key is taken.
InsertChunk(s) ==
    /\ worker = "writing"
    /\ s \in ChunkStarts \ inserted
    /\ \A b \in Chunk(s), c \in stored : Number[b] # Number[c]
    /\ inserted' = inserted \cup {s}
    /\ UNCHANGED <<chainVars, dbVars, tip, running, worker, head, fetched, next,
                   handlerVars, chainMoved>>

\* Some statement fails before the first commit: every transaction is rolled
\* back.
WriteFails ==
    /\ worker = "writing"
    /\ next = First
    /\ EndIteration
    /\ UNCHANGED <<chainVars, dbVars, tip, running, handlerVars, chainMoved>>

\* All transactions have run: commit the next one, in the order of the chain.
CommitChunk ==
    /\ worker = "writing"
    /\ inserted = ChunkStarts
    /\ stored' = stored \cup Chunk(next)
    /\ IF next + ChunkSize \in DOMAIN fetched
       THEN /\ next' = next + ChunkSize
            /\ UNCHANGED <<worker, head, fetched, inserted>>
       ELSE EndIteration
    /\ UNCHANGED <<chainVars, batchRoot, executedRows, tip, running, handlerVars,
                   chainMoved>>

\* A COMMIT fails, before or after the database applied it; the transactions
\* not yet committed are rolled back.
CommitFails ==
    /\ worker = "writing"
    /\ inserted = ChunkStarts
    /\ stored' \in {stored, stored \cup Chunk(next)}
    /\ EndIteration
    /\ UNCHANGED <<chainVars, batchRoot, executedRows, tip, running, handlerVars,
                   chainMoved>>

\* The loop notices that the promise was cleared, and returns.
WorkerStops ==
    /\ worker = "idle"
    /\ ~running
    /\ worker' = "stopped"
    /\ UNCHANGED <<chainVars, dbVars, tip, running, iterVars, handlerVars, chainMoved>>

-----------------------------------------------------------------------------
(***************************************************************************)
(* The revert handler.                                                     *)
(***************************************************************************)
\* All that is in memory is gone; open transactions are rolled back.
Exit ==
    /\ worker' = "down"
    /\ running' = FALSE
    /\ tip' = Null
    /\ head' = NoBlock
    /\ fetched' = [n \in {} |-> NoBlock]
    /\ inserted' = {}
    /\ next' = 0
    /\ handler' = "none"
    /\ lo' = 0 /\ hi' = 0 /\ keepBatch' = 0
    /\ chainMoved' = FALSE

\* handleRevert throws.  Nothing awaits the handler, so the rejection ends the
\* process (main.ts).
RevertThrows == Exit /\ UNCHANGED <<chainVars, dbVars>>

\* Mutant: the handler polls for an idle worker, and misses one that returned.
StartSearchIfIdle ==
    /\ handler = "stopping"
    /\ worker = "idle"
    /\ handler' = "searching"
    /\ lo' = LastExecutedBlockNumber
    /\ UNCHANGED <<chainVars, dbVars, tip, running, worker, iterVars, hi, keepBatch,
                   chainMoved>>

\* stopWorkers has resolved; handleRevert reads the last executed block.
StartSearch ==
    /\ handler = "stopping"
    /\ worker = "stopped"
    /\ handler' = "searching"
    /\ lo' = LastExecutedBlockNumber
    /\ UNCHANGED <<chainVars, dbVars, tip, running, worker, iterVars, hi, keepBatch,
                   chainMoved>>

Mid == (lo + hi) \div 2

\* Mutant: a mismatch moves the end of the interval below the middle.
ProbeBelow ==
    /\ IF At(stored, Mid) = At(canon, Mid)
       THEN lo' = Mid /\ UNCHANGED hi
       ELSE hi' = Mid - 1 /\ UNCHANGED lo
    /\ UNCHANGED <<chainVars, dbVars, tip, running, worker, iterVars, handler,
                   keepBatch, chainMoved>>

\* isHashMatch on the middle of the interval.
Probe ==
    /\ IF At(stored, Mid) = At(canon, Mid)
       THEN lo' = Mid /\ UNCHANGED hi
       ELSE hi' = Mid /\ UNCHANGED lo
    /\ UNCHANGED <<chainVars, dbVars, tip, running, worker, iterVars, handler,
                   keepBatch, chainMoved>>

\* A round of the binary search; it reads the hash of a row it must find.
SearchStep ==
    /\ handler = "searching"
    /\ hi > lo + 1
    /\ IF At(stored, Mid) = NoBlock THEN RevertThrows ELSE Probe

\* Mutant: a batch that has a row is reverted, whatever its root hash.
LastCorrectBatchNoRoot(n) == IF batchRoot[n] # NoBlock THEN n - 1 ELSE n

\* Does the batch n of the last correct block survive?
LastCorrectBatch(n) ==
    IF batchRoot[n] # NoBlock /\ batchRoot[n] # ChainRoot(n) THEN n - 1 ELSE n

\* The search is over: read the last correct block, which must be a row too.
FinishSearch ==
    /\ handler = "searching"
    /\ hi <= lo + 1
    /\ IF At(stored, lo) = NoBlock
       THEN RevertThrows
       ELSE /\ keepBatch' = LastCorrectBatch(Batch[At(stored, lo)])
            /\ handler' = "deleting"
            /\ UNCHANGED <<chainVars, dbVars, tip, running, worker, iterVars,
                           lo, hi, chainMoved>>

\* Mutant: DELETE ... WHERE number >= lastCorrectBlockNumber.
DeleteFromLastCorrect ==
    /\ stored' = UpTo(stored, lo - 1)
    /\ batchRoot' = [n \in BatchNumbers |-> IF n > keepBatch THEN NoBlock
                                            ELSE batchRoot[n]]
    /\ executedRows' = {n \in executedRows : n <= keepBatch}

\* The two DELETEs of the revert transaction.
DeleteReverted ==
    /\ stored' = UpTo(stored, lo)
    /\ batchRoot' = [n \in BatchNumbers |-> IF n > keepBatch THEN NoBlock
                                            ELSE batchRoot[n]]
    /\ executedRows' = {n \in executedRows : n <= keepBatch}

\* Mutant: the workers stay stopped after the revert.
FinishRevertNoStart ==
    /\ handler = "deleting"
    /\ DeleteReverted
    /\ handler' = "none"
    /\ lo' = 0 /\ hi' = 0 /\ keepBatch' = 0
    /\ worker' = "idle"
    /\ UNCHANGED <<chainVars, tip, running, iterVars, chainMoved>>

\* The transaction commits, and startWorkers starts the loop again.
FinishRevert ==
    /\ handler = "deleting"
    /\ DeleteReverted
    /\ handler' = "none"
    /\ lo' = 0 /\ hi' = 0 /\ keepBatch' = 0
    /\ running' = TRUE
    /\ worker' = "idle"
    /\ UNCHANGED <<chainVars, tip, iterVars, chainMoved>>

-----------------------------------------------------------------------------
(***************************************************************************)
(* The process.                                                            *)
(***************************************************************************)
Crash ==
    /\ worker # "down"
    /\ Exit
    /\ UNCHANGED <<chainVars, dbVars>>

\* The revert transaction fails, before or after the database applied it.
RevertFails ==
    /\ handler = "deleting"
    /\ DeleteReverted \/ UNCHANGED dbVars
    /\ Exit
    /\ UNCHANGED chainVars

Restart ==
    /\ worker = "down"
    /\ worker' = "idle"
    /\ running' = TRUE
    /\ UNCHANGED <<chainVars, dbVars, tip, iterVars, handlerVars, chainMoved>>

-----------------------------------------------------------------------------
(***************************************************************************)
(* The batch workers (BatchProcessor.processNextBatch), one iteration a    *)
(* step.  They run only while the workers run.                             *)
(***************************************************************************)
\* Mutant: the batch has a stored block, canonical or not.
BatchBlocksStored(n) == \E b \in stored : Batch[b] = n

\* The last stored block of batch n is canonical.
BatchBlocksCorrect(n) ==
    LET last == Last({b \in stored : Batch[b] = n})
    IN  last # NoBlock /\ At(canon, Number[last]) = last

RowNumbers == {n \in BatchNumbers : batchRoot[n] # NoBlock}

\* Every row below n is there, and n is not (MAX(number) + 1 of the rows).
IsNextOf(n, rows) == n \notin rows /\ \A m \in BatchNumbers : m < n => m \in rows

RecordBatch(n) ==
    /\ running
    /\ IsNextOf(n, RowNumbers)
    /\ ChainRoot(n) # NoBlock /\ ~ChainExecuted(n)
    /\ BatchBlocksCorrect(n)
    /\ batchRoot' = [batchRoot EXCEPT ![n] = ChainRoot(n)]
    /\ UNCHANGED <<chainVars, stored, executedRows, tip, running, worker, iterVars,
                   handlerVars, chainMoved>>

RecordExecutedBatch(n) ==
    /\ running
    /\ IsNextOf(n, executedRows)
    /\ ChainExecuted(n)
    /\ BatchBlocksCorrect(n)
    /\ batchRoot' = [batchRoot EXCEPT ![n] = ChainRoot(n)]
    /\ executedRows' = executedRows \cup {n}
    /\ UNCHANGED <<chainVars, stored, tip, running, worker, iterVars, handlerVars,
                   chainMoved>>

-----------------------------------------------------------------------------
Chain == \/ \E b \in Blocks : ProduceBlock(b)
         \/ \E n \in {Number[b] : b \in Blocks} : RevertChain(n)
         \/ ExecuteBatch

Watcher == WatcherInit \/ OnBlock

CheckRange == RevertOnFirstBlock \/ MissingBlockThrows \/ RangeNotLinked
              \/ StartTransactions

Worker == \/ StartIteration
          \/ \E n \in DOMAIN fetched : FetchBlock(n)
          \/ CheckRange
          \/ CompareHead
          \/ \E s \in DOMAIN fetched : InsertChunk(s)
          \/ CommitChunk
          \/ WorkerStops

Handler == StartSearch \/ SearchStep \/ FinishSearch \/ FinishRevert

BatchWorkers == \E n \in BatchNumbers : RecordBatch(n) \/ RecordExecutedBatch(n)

Fault == WriteFails \/ CommitFails \/ Crash \/ RevertFails

Next == Chain \/ Watcher \/ Worker \/ Handler \/ BatchWorkers \/ Fault \/ Restart

\* What the event loop and the orchestrator keep running.  Nothing is assumed of
\* the chain, and no fault has to happen.
Fairness ==
    /\ WF_vars(Watcher)
    /\ WF_vars(Worker)
    /\ WF_vars(Handler)
    /\ WF_vars(Restart)

Spec == Init /\ [][Next]_vars /\ Fairness

-----------------------------------------------------------------------------
(***************************************************************************)
(* Safety.                                                                 *)
(***************************************************************************)
\* The `blocks` table is one unbroken branch from FromBlock up, whatever the
\* chain did while a range was fetched, and wherever a commit failed or the
\* process died between two commits (processNextBlocksRange).
DbLinked == Linked(stored, FromBlock)

\* What the database says is executed is final: the row has the root hash of
\* the batch on the chain, and every stored block of the batch is canonical.
\* The revert starts its search from such a block without looking at it
\* (findLastCorrectBlockNumber), and the API shows it as verified.
ExecutedRowsCorrect ==
    /\ \A n \in executedRows : batchRoot[n] = ChainRoot(n)
    /\ \A b \in stored : Batch[b] \in executedRows => b \in canon

\* No step deletes the row of an executed batch or a block of one.  A revert
\* deletes by number only (handleRevert), from bounds it read several calls
\* to the chain before.
ExecutedKept ==
    [][/\ executedRows \subseteq executedRows'
       /\ \A b \in stored : Batch[b] \in executedRows => b \in stored']_vars

\* A revert deletes all the stored blocks that the chain reverted and no
\* other one, if the chain stood still since the worker looked at it.
RevertPrecise ==
    [][FinishRevert /\ ~chainMoved => stored' = stored \cap canon]_vars

\* A revert under way can go on, and comes nearer to its end with every step
\* that touches it: the worker that emitted the event stops, nothing starts it
\* or triggers a second revert meanwhile, and every probe narrows the search.
\* RevertLeft bounds the steps that are left.
RevertLeft ==
    CASE handler = "stopping"  -> hi + (IF worker = "idle" THEN 4 ELSE 3)
      [] handler = "searching" -> 2 + (IF lo < hi THEN hi - lo ELSE 0)
      [] handler = "deleting"  -> 1
      [] OTHER                 -> 0

RevertAdvances ==
    [][handler # "none" =>
         /\ ~running
         /\ worker = "stopped" \/ (worker = "idle" /\ handler = "stopping")
         /\ RevertLeft' < RevertLeft \/ UNCHANGED <<running, worker, handlerVars>>]_vars

\* The table implements its abstract specification.
Mirror == INSTANCE ChainMirror WITH
    Lowest <- FromBlock, mirror <- stored, final <- executedRows

MirrorsChain == Mirror!MirrorSpec

\* The search for the last correct block starts at a block of the database.
SearchStartsAtRow == handler = "searching" => At(stored, lo) # NoBlock

(***************************************************************************)
(* Liveness.                                                               *)
(***************************************************************************)
\* The chain stands still at last, and faults have ended.
Settles == <>[][~(Chain \/ Fault)]_vars

\* When things settle, and the chain has grown to the height the watcher
\* heard of, the table becomes the canonical chain: every reverted block is
\* found and deleted, and all the blocks of the configured range are there.
Converges == Settles /\ <>[](tip <= Height) => <>[](stored = InRange(canon))

\* Unless the process dies, a revert that was triggered comes to its end: the
\* handler waits for a worker that itself emitted the event.
RevertEnds == (<>[][~Fault]_vars) => (handler # "none" ~> handler = "none")

(***************************************************************************)
(* What a test says of the code and the code does not do.                  *)
(***************************************************************************)
\* The stored head has no successor on the chain: the iteration triggers the
\* revert (block.processor.spec.ts, "and the first block requested to process
\* does not exist in blockchain").
MissingFirstBlockReverts ==
    [][/\ AllFetched /\ head # NoBlock /\ fetched[First] = NoBlock
       /\ worker' = "idle"
       => handler' = "stopping"]_vars
=============================================================================
