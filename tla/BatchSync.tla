----------------------------- MODULE BatchSync ------------------------------
(***************************************************************************)
(* The batch workers of packages/worker: BatchService starts one           *)
(* BatchWorker for each state a batch can be in on L1, and all of them     *)
(* write rows of the same table from details each read on its own.         *)
(*                                                                         *)
(* An iteration (BatchProcessor.processNextBatch) is a sequence of calls,  *)
(* one a step here: the last batch in the database, the details of the     *)
(* next one on the chain, the last stored block of it, that block on the   *)
(* chain, the upsert.  The chain, the block worker and the other batch     *)
(* workers may move between any two of them.  stop() forgets the cached    *)
(* batch number at once and then waits for the iteration under way, which  *)
(* sets it again.                                                          *)
(*                                                                         *)
(* The block worker and the revert are reduced to what the batches see of  *)
(* them; BlockSync has them step by step.                                  *)
(***************************************************************************)
EXTENDS BlockTree

CONSTANTS
    Executed,        \* BatchState.Executed; the states are 0 (New) .. Executed
    SlowExecution    \* the chain executes no batch while a worker still holds
                     \* details the chain has reverted

ASSUME BatchSyncAssumption ==
    /\ Executed \in Nat \ {0}
    /\ SlowExecution \in BOOLEAN

VARIABLES
    (***********************************************************************)
    (* The chain.                                                          *)
    (***********************************************************************)
    canon,      \* the canonical blocks
    l1,         \* batch number -> its state on L1
    (***********************************************************************)
    (* The database.                                                       *)
    (***********************************************************************)
    stored,     \* table `blocks`
    row,        \* table `batches`: batch number -> [root, state], NoRow if none
    (***********************************************************************)
    (* The memory of the worker process.                                   *)
    (***********************************************************************)
    running,    \* Worker.currentProcessPromise of the workers is not null
    cached,     \* worker -> lastProcessedBatchNumber, Null for null
    pc,         \* worker -> where processNextBatch is
    number,     \* worker -> nextBatchNumber
    details,    \* worker -> nextBatch, NoRow when it holds none
    block,      \* worker -> lastDbBlockInBatch
    handler,    \* where AppService.handleBlocksRevert is
    keepBlock,  \* lastCorrectBlockNumber
    keepBatch   \* lastCorrectBatchNumber

chainVars   == <<canon, l1>>
iterVars    == <<cached, pc, number, details, block>>
handlerVars == <<handler, keepBlock, keepBatch>>
batchVars   == <<chainVars, stored, row, running, iterVars, handlerVars>>

Null == -2    \* a JavaScript null where a number is expected

States == 0 .. Executed

BatchNumbers == {Batch[b] : b \in Blocks}

Max2(a, b) == IF a >= b THEN a ELSE b

\* A row of `batches`, or the details of a batch: root stands for rootHash,
\* state for the highest of committedAt, provenAt and executedAt that is set.
NoRow == [root |-> NoBlock, state |-> -1]

Rows == [root : Blocks, state : States] \cup {NoRow}

-----------------------------------------------------------------------------
(***************************************************************************)
(* What the chain answers.                                                 *)
(***************************************************************************)
\* The batch is complete: the chain has started the next one.
Sealed(n) == \E b \in canon : Batch[b] = n + 1

\* The root hash of a batch, which commits to all its blocks.
ChainRoot(n) == IF Sealed(n) \/ (n \in BatchNumbers /\ l1[n] > 0)
                THEN Last({b \in canon : Batch[b] = n}) ELSE NoBlock

\* getL1BatchDetails, null (NoRow) for a batch that does not exist yet.
ChainDetails(n) == IF ChainRoot(n) = NoBlock THEN NoRow
                   ELSE [root |-> ChainRoot(n), state |-> l1[n]]

ChainExecuted(n) == l1[n] = Executed

(***************************************************************************)
(* What the database answers.                                              *)
(***************************************************************************)
\* Mutant: 0 where there is no row.
LastBatchOrZero(s) ==
    LET found == {n \in BatchNumbers : row[n].state >= s}
    IN  IF found = {} THEN 0 ELSE CHOOSE n \in found : \A m \in found : m <= n

\* getLastProcessedBatchNumber: the last row that is at least in state s.
LastBatch(s) ==
    LET found == {n \in BatchNumbers : row[n].state >= s}
    IN  IF found = {} THEN -1 ELSE CHOOSE n \in found : \A m \in found : m <= n

StoredIn(n) == Last({b \in stored : Batch[b] = n})

ExecutedRows == {n \in BatchNumbers : row[n].state = Executed}

\* BlockRepository.getLastExecutedBlockNumber.
LastExecutedBlockNumber ==
    LET last == Last({b \in stored : Batch[b] \in ExecutedRows})
    IN  IF last = NoBlock THEN 0 ELSE Number[last]

-----------------------------------------------------------------------------
BatchTypeOK ==
    /\ canon \subseteq Blocks
    /\ l1 \in [BatchNumbers -> States]
    /\ stored \subseteq Blocks
    /\ row \in [BatchNumbers -> Rows]
    /\ running \in BOOLEAN
    /\ cached \in [States -> {Null, -1} \cup Nat]
    /\ pc \in [States -> {"idle", "asking", "looking", "comparing", "writing", "stopped"}]
    /\ number \in [States -> Nat]
    /\ details \in [States -> Rows]
    /\ block \in [States -> Blocks \cup {NoBlock}]
    /\ handler \in {"none", "stopping", "deleting"}
    /\ keepBlock \in Nat
    /\ keepBatch \in Int

\* The iteration variables of a process that has just started.
FreshIterations ==
    /\ cached' = [s \in States |-> Null]
    /\ pc' = [s \in States |-> "idle"]
    /\ number' = [s \in States |-> 0]
    /\ details' = [s \in States |-> NoRow]
    /\ block' = [s \in States |-> NoBlock]

\* The genesis batch is executed from the start.
BatchInit ==
    /\ canon = {b \in Blocks : Number[b] = 0}
    /\ l1 = [n \in BatchNumbers |-> IF n = 0 THEN Executed ELSE 0]
    /\ stored = {}
    /\ row = [n \in BatchNumbers |-> NoRow]
    /\ running = TRUE
    /\ cached = [s \in States |-> Null]
    /\ pc = [s \in States |-> "idle"]
    /\ number = [s \in States |-> 0]
    /\ details = [s \in States |-> NoRow]
    /\ block = [s \in States |-> NoBlock]
    /\ handler = "none"
    /\ keepBlock = 0
    /\ keepBatch = 0

-----------------------------------------------------------------------------
(***************************************************************************)
(* The chain.                                                              *)
(***************************************************************************)
\* No block joins a batch that has left the state New.
ProduceBlock(b) ==
    /\ Parent[b] = Last(canon)
    /\ l1[Batch[b]] = 0
    /\ canon' = canon \cup {b}
    /\ UNCHANGED <<l1, stored, row, running, iterVars, handlerVars>>

\* The chain drops its blocks above n, none of an executed batch, and what L1
\* knew of their batches.
RevertChain(n) ==
    /\ n < Number[Last(canon)]
    /\ \A b \in canon : Number[b] > n => ~ChainExecuted(Batch[b])
    /\ canon' = UpTo(canon, n)
    /\ l1' = [m \in BatchNumbers |->
                 IF \E b \in canon : Batch[b] = m /\ Number[b] > n THEN 0 ELSE l1[m]]
    /\ UNCHANGED <<stored, row, running, iterVars, handlerVars>>

\* A worker holds details of a batch that the chain has reverted, or reopened.
HoldsReverted == \E s \in States : details[s] # NoRow /\ details[s].root # ChainRoot(number[s])

\* A batch is committed, proven or executed, after the batch before it.
AdvanceBatch(n) ==
    /\ ChainRoot(n) # NoBlock
    /\ ~ChainExecuted(n)
    /\ \A m \in BatchNumbers : m < n => l1[m] > l1[n]  \/ ChainExecuted(m)
    /\ SlowExecution /\ l1[n] + 1 = Executed => ~HoldsReverted
    /\ l1' = [l1 EXCEPT ![n] = @ + 1]
    /\ UNCHANGED <<canon, stored, row, running, iterVars, handlerVars>>

-----------------------------------------------------------------------------
(***************************************************************************)
(* The block worker: a row is added on top of its parent.                  *)
(***************************************************************************)
StoreBlock(b) ==
    /\ running
    /\ b \in canon
    /\ Parent[b] = Last(stored)
    /\ stored' = stored \cup {b}
    /\ UNCHANGED <<chainVars, row, running, iterVars, handlerVars>>

\* Its last row is not on the chain: the handler starts, up to its first await,
\* where stopWorkers has reset and stopped every worker.
DetectRevert ==
    /\ running
    /\ stored # {} /\ Last(stored) \notin canon
    /\ running' = FALSE
    /\ handler' = "stopping"
    /\ cached' = [s \in States |-> Null]
    /\ UNCHANGED <<chainVars, stored, row, pc, number, details, block, keepBlock,
                   keepBatch>>

-----------------------------------------------------------------------------
(***************************************************************************)
(* The batch worker for the state s.                                       *)
(***************************************************************************)
\* The end of processNextBatch; n is what it leaves in the cache.
EndIteration(s, n) ==
    /\ cached' = [cached EXCEPT ![s] = n]
    /\ pc' = [pc EXCEPT ![s] = "idle"]
    /\ number' = [number EXCEPT ![s] = 0]
    /\ details' = [details EXCEPT ![s] = NoRow]
    /\ block' = [block EXCEPT ![s] = NoBlock]

\* Mutant: the last batch is taken again.
BeginAtLast(s) ==
    /\ pc[s] = "idle"
    /\ running
    /\ cached' = [cached EXCEPT ![s] = IF @ = Null THEN LastBatch(s) ELSE @]
    /\ number' = [number EXCEPT ![s] = cached'[s]]
    /\ pc' = [pc EXCEPT ![s] = "asking"]
    /\ UNCHANGED <<chainVars, stored, row, running, details, block, handlerVars>>

\* The next batch number, from the cache or from the database.
Begin(s) ==
    /\ pc[s] = "idle"
    /\ running
    /\ cached' = [cached EXCEPT ![s] = IF @ = Null THEN LastBatch(s) ELSE @]
    /\ number' = [number EXCEPT ![s] = cached'[s] + 1]
    /\ pc' = [pc EXCEPT ![s] = "asking"]
    /\ UNCHANGED <<chainVars, stored, row, running, details, block, handlerVars>>

\* The details of the next batch, which must be in the worker's state.
GetDetails(s) ==
    /\ pc[s] = "asking"
    /\ LET next == ChainDetails(number[s])
       IN  IF next # NoRow /\ next.state = s
           THEN /\ details' = [details EXCEPT ![s] = next]
                /\ pc' = [pc EXCEPT ![s] = "looking"]
                /\ UNCHANGED <<cached, number, block>>
           ELSE EndIteration(s, Null)
    /\ UNCHANGED <<chainVars, stored, row, running, handlerVars>>

\* The last stored block of the batch; without one the batch has to wait.
GetLastBlock(s) ==
    /\ pc[s] = "looking"
    /\ LET last == StoredIn(number[s])
       IN  IF last # NoBlock
           THEN /\ block' = [block EXCEPT ![s] = last]
                /\ pc' = [pc EXCEPT ![s] = "comparing"]
                /\ UNCHANGED <<cached, number, details>>
           ELSE EndIteration(s, Null)
    /\ UNCHANGED <<chainVars, stored, row, running, handlerVars>>

\* Mutant: any block of that number will do.
CompareNumberOnly(s) ==
    /\ pc[s] = "comparing"
    /\ IF At(canon, Number[block[s]]) # NoBlock
       THEN /\ pc' = [pc EXCEPT ![s] = "writing"]
            /\ UNCHANGED <<cached, number, details, block>>
       ELSE EndIteration(s, Null)
    /\ UNCHANGED <<chainVars, stored, row, running, handlerVars>>

\* The same block on the chain must have the same hash.
CompareBlock(s) ==
    /\ pc[s] = "comparing"
    /\ IF At(canon, Number[block[s]]) = block[s]
       THEN /\ pc' = [pc EXCEPT ![s] = "writing"]
            /\ UNCHANGED <<cached, number, details, block>>
       ELSE EndIteration(s, Null)
    /\ UNCHANGED <<chainVars, stored, row, running, handlerVars>>

\* Mutant: null values are written too.
UpsertAll(old, new) == new

\* BaseRepository.upsert leaves out what is null in the new record: a time
\* that was set stays.
Upsert(old, new) == [new EXCEPT !.state = Max2(old.state, @)]

WriteRow(s) == row' = [row EXCEPT ![number[s]] = Upsert(@, details[s])]

UpsertBatch(s) ==
    /\ pc[s] = "writing"
    /\ WriteRow(s)
    /\ EndIteration(s, number[s])
    /\ UNCHANGED <<chainVars, stored, running, handlerVars>>

\* Any of the calls throws; the upsert may have been applied all the same.
IterationFails(s) ==
    /\ pc[s] \in {"asking", "looking", "comparing", "writing"}
    /\ UNCHANGED row \/ (pc[s] = "writing" /\ WriteRow(s))
    /\ EndIteration(s, Null)
    /\ UNCHANGED <<chainVars, stored, running, handlerVars>>

\* The loop finds that its promise was cleared.
WorkerStops(s) ==
    /\ pc[s] = "idle"
    /\ ~running
    /\ pc' = [pc EXCEPT ![s] = "stopped"]
    /\ UNCHANGED <<chainVars, stored, row, running, cached, number, details, block,
                   handlerVars>>

-----------------------------------------------------------------------------
(***************************************************************************)
(* The revert handler.                                                     *)
(***************************************************************************)
BatchesStopped == \A s \in States : pc[s] = "stopped"

\* The binary search from the last executed block, over stored blocks.
LastCorrect == Last({b \in stored : Number[b] <= LastExecutedBlockNumber}
                    \cup (stored \cap canon))

\* Does the batch n of the last correct block survive?
LastCorrectBatch(n) ==
    IF row[n] # NoRow /\ row[n].root # ChainRoot(n) THEN n - 1 ELSE n

FindLastCorrect ==
    /\ handler = "stopping"
    /\ BatchesStopped
    /\ LastCorrect # NoBlock
    /\ handler' = "deleting"
    /\ keepBlock' = Number[LastCorrect]
    /\ keepBatch' = LastCorrectBatch(Batch[LastCorrect])
    /\ UNCHANGED <<chainVars, stored, row, running, iterVars>>

\* Mutant: the last correct block goes with the rest.
DeleteFromLastCorrect ==
    /\ stored' = UpTo(stored, keepBlock - 1)
    /\ row' = [n \in BatchNumbers |-> IF n > keepBatch THEN NoRow ELSE row[n]]

\* The revert transaction.
DeleteReverted ==
    /\ stored' = UpTo(stored, keepBlock)
    /\ row' = [n \in BatchNumbers |-> IF n > keepBatch THEN NoRow ELSE row[n]]

EndRevert == handler' = "none" /\ keepBlock' = 0 /\ keepBatch' = 0

\* Mutant: the loops are not started again.
FinishRevertNoStart ==
    /\ handler = "deleting"
    /\ DeleteReverted
    /\ EndRevert
    /\ UNCHANGED <<chainVars, running, iterVars>>

\* The transaction commits, and startWorkers starts the loops again: with the
\* numbers the iterations under way at the stop have left in the caches.
FinishRevert ==
    /\ handler = "deleting"
    /\ DeleteReverted
    /\ EndRevert
    /\ running' = TRUE
    /\ pc' = [s \in States |-> "idle"]
    /\ UNCHANGED <<chainVars, cached, number, details, block>>

\* The process dies and is started again.  A revert transaction that was under
\* way is applied or rolled back.
Restart ==
    /\ FreshIterations
    /\ EndRevert
    /\ running' = TRUE
    /\ UNCHANGED <<stored, row>> \/ (handler = "deleting" /\ DeleteReverted)
    /\ UNCHANGED chainVars

-----------------------------------------------------------------------------
Chain == \/ \E b \in Blocks : ProduceBlock(b)
         \/ \E n \in {Number[b] : b \in Blocks} : RevertChain(n)
         \/ \E n \in BatchNumbers : AdvanceBatch(n)

BlockWorker == (\E b \in Blocks : StoreBlock(b)) \/ DetectRevert

BatchWorker(s) == Begin(s) \/ GetDetails(s) \/ GetLastBlock(s) \/ CompareBlock(s)
                  \/ UpsertBatch(s) \/ WorkerStops(s)

Handler == FindLastCorrect \/ FinishRevert

BatchFault == (\E s \in States : IterationFails(s)) \/ Restart

-----------------------------------------------------------------------------
(***************************************************************************)
(* Properties.                                                             *)
(***************************************************************************)
\* What the database says is executed is final: the row has the root hash of
\* the batch on the chain and every stored block of the batch is canonical,
\* even if only some of its blocks were stored when the row was written (the
\* argument of the comment at batch.processor.ts:85-92).
ExecutedRowsCorrect ==
    /\ \A n \in ExecutedRows : row[n].root = ChainRoot(n)
    /\ \A b \in stored : Batch[b] \in ExecutedRows => b \in canon

\* Rows of executed batches are never missing below one: the executed worker
\* goes on from the highest of them, and so never comes back to a gap.
ExecutedContiguous ==
    \A n \in ExecutedRows, m \in BatchNumbers : m < n => m \in ExecutedRows

\* A status that a reader has seen is never taken back while the row stays,
\* whatever older details a slow worker still writes (upsert without nulls).
StatesOnlyAdvance ==
    [][\A n \in BatchNumbers : row[n] # NoRow /\ row'[n] # NoRow
                               => row'[n].state >= row[n].state]_batchVars

\* The workers record batches, from details they read long before, while the
\* block worker and reverts change `blocks`: to a reader the two tables stay
\* one branch of the chain, of which nothing final is lost (in BlockSync a
\* batch is recorded in one atomic step).
Mirror == INSTANCE ChainMirror WITH
    Lowest <- 0, mirror <- stored, final <- ExecutedRows

BatchesMirrorChain == Mirror!MirrorSpec

\* Every executed batch of the chain has its row, with the right root hash.
AllRecorded == \A n \in BatchNumbers : ChainExecuted(n) => row[n] = ChainDetails(n)
=============================================================================
