-------------------------- MODULE BlockSyncProofs ---------------------------
(***************************************************************************)
(* Theorems about BlockSync for every tree of blocks, range, batch and     *)
(* chunk size.  IInv below is an inductive invariant of the specification: *)
(* none of the safety properties is inductive alone, because a commit is   *)
(* sound only by what the iteration has checked before, and a deletion     *)
(* only by what the search has read before.                                *)
(***************************************************************************)
EXTENDS BlockSync, BlockTreeProofs

-----------------------------------------------------------------------------
(***************************************************************************)
(* The inductive invariant.                                                *)
(***************************************************************************)
\* The chain is one branch from the genesis block, and no batch is executed
\* in part.
ChainInv ==
    /\ Bounded(canon)
    /\ Linked(canon, 0)
    /\ At(canon, execHeight) # NoBlock
    /\ \A b \in canon : ChainExecuted(Batch[b]) => Number[b] <= execHeight

\* The table is one branch in the configured range.
TableInv ==
    /\ Bounded(stored)
    /\ Linked(stored, FromBlock)
    /\ InRange(stored) = stored

\* The range of an iteration starts above the head, and what is fetched is
\* where it belongs.
RangeInv ==
    /\ InRange({head} \ {NoBlock}) = {head} \ {NoBlock}
    /\ First \in DOMAIN fetched
    /\ \E last \in Int : /\ DOMAIN fetched = First .. last
                         /\ ToBlock # 0 => last <= ToBlock
    /\ \A n \in DOMAIN fetched : fetched[n] \in Blocks => Number[fetched[n]] = n

\* The next chunk to commit continues the table.
WriteInv ==
    /\ \A n \in DOMAIN fetched : fetched[n] \in Blocks
    /\ RangeLinked
    /\ ~FirstUnlinked
    /\ next \in DOMAIN fetched
    /\ \A b \in stored : Number[b] < next
    /\ next = First => head \in stored \cup {NoBlock}
    /\ next # First => fetched[next - 1] \in stored

IterationInv ==
    /\ worker # "writing" => inserted = {}
    /\ worker = "comparing" => head # NoBlock
    /\ worker \in {"fetching", "comparing"} => head = Last(stored)
    /\ worker \in {"fetching", "writing"} => RangeInv
    /\ worker = "writing" => WriteInv

\* While the handler searches and deletes, the worker does nothing.
HandlerInv ==
    /\ handler # "none" => ~running
    /\ handler \in {"searching", "deleting"} => worker = "stopped"
    /\ worker = "down" => handler = "none"

\* A batch recorded as executed is executed, with that root, and has blocks in
\* the table; the bounds of a revert are above all of it.
ExecutedInv ==
    /\ \A n \in executedRows : /\ ChainExecuted(n)
                               /\ batchRoot[n] = ChainRoot(n)
                               /\ \E b \in stored : Batch[b] = n
    /\ handler \in {"searching", "deleting"} =>
          \A b \in stored : Batch[b] \in executedRows => Number[b] <= lo
    /\ handler = "deleting" => /\ At(stored, lo) # NoBlock
                               /\ \A n \in executedRows : n <= keepBatch

IInv == TypeOK /\ ChainInv /\ TableInv /\ IterationInv /\ HandlerInv /\ ExecutedInv

\* When the chain executes slowly, the iteration holds no block that is not
\* canonical and belongs to an executed batch, and the table has none either
\* once the batch is recorded.
FinalInv ==
    /\ \A n \in DOMAIN fetched : fetched[n] \in Blocks \ canon =>
          ~ChainExecuted(Batch[fetched[n]])
    /\ \A b \in stored : Batch[b] \in executedRows => b \in canon

\* A revert is triggered by a block of the table, and its lower bound is one.
SearchInv ==
    /\ handler = "stopping" => stored # {}
    /\ handler = "searching" => At(stored, lo) # NoBlock

\* The worker that emitted the event has only to return: it is between two
\* iterations and will start none.
StopInv == handler = "stopping" => worker \in {"idle", "stopped"}

\* While the chain stands still, the iteration holds canonical blocks only, and
\* the search is between a canonical block and one that is not.
PreciseInv ==
    ~chainMoved =>
       /\ worker = "fetching" => \A n \in DOMAIN fetched :
             fetched[n] \in Blocks => fetched[n] \in canon
       /\ handler # "none" => At(stored, hi) \in stored \ canon
       /\ handler \in {"searching", "deleting"} =>
             At(stored, lo) \in canon \cup {NoBlock}
       /\ handler = "deleting" => hi <= lo + 1

-----------------------------------------------------------------------------
(***************************************************************************)
(* What the operators of BlockSync return.                                 *)
(***************************************************************************)
\* The watcher plans natural numbers, from the first one on, none above
\* ToBlock.
LEMMA NextRangeType ==
    ASSUME NEW last \in Blocks \cup {NoBlock}, tip \in Nat \cup {Null}
    PROVE  LET from == IF last = NoBlock THEN FromBlock ELSE Number[last] + 1
           IN  /\ NextRange(last) \subseteq Nat
               /\ NextRange(last) # {} =>
                     /\ from \in NextRange(last)
                     /\ \E n \in Int : /\ NextRange(last) = from .. n
                                       /\ ToBlock # 0 => n <= ToBlock
<1> DEFINE from == IF last = NoBlock THEN FromBlock ELSE Number[last] + 1
           n == Min2(LastBlockNumberToProcess, from + BatchSize - 1)
<1>1. from \in Nat
    BY BlockTreeAssumption, BlockSyncAssumption
<1>2. n \in Int /\ (ToBlock # 0 => n <= ToBlock)
    BY <1>1, BlockSyncAssumption DEF Min2, LastBlockNumberToProcess, Null
<1>3. NextRange(last) = {} \/ NextRange(last) = from .. n
    BY DEF NextRange
<1> HIDE DEF from, n
<1>4. from .. n \subseteq Nat /\ (from .. n # {} => from \in from .. n)
    BY <1>1, <1>2
<1> QED
    BY <1>2, <1>3, <1>4 DEF from

\* The height of the chain is a block number.
LEMMA HeightType ==
    ASSUME canon \subseteq Blocks, ChainInv
    PROVE  Last(canon) \in canon /\ Height \in Nat
<1>1. canon # {}
    BY AtType DEF ChainInv
<1> QED
    BY <1>1, LastIsGreatest, BlockTreeAssumption DEF Height, ChainInv

\* The root of a batch is one of its blocks, and no block of it is above.
LEMMA ChainRootType ==
    ASSUME canon \subseteq Blocks, ChainInv, NEW n
    PROVE  /\ ChainRoot(n) \in canon \cup {NoBlock}
           /\ ChainRoot(n) # NoBlock =>
                 /\ Batch[ChainRoot(n)] = n
                 /\ \A b \in canon : Batch[b] = n => Number[b] <= Number[ChainRoot(n)]
<1> DEFINE S == {b \in canon : Batch[b] = n}
<1>1. S \subseteq Blocks /\ Bounded(S)
    BY BoundedSubset DEF ChainInv
<1>2. S = {} => Last(S) = NoBlock
    BY <1>1, LastType
<1>3. S # {} => Last(S) \in S /\ \A c \in S : Number[c] <= Number[Last(S)]
    BY <1>1, LastIsGreatest
<1>4. ChainRoot(n) \in {NoBlock, Last(S)}
    BY DEF ChainRoot
<1> HIDE DEF S
<1>5. ChainRoot(n) # NoBlock => S # {} /\ ChainRoot(n) = Last(S)
    BY <1>2, <1>4
<1> QED
    BY <1>3, <1>5 DEF S

\* The last executed block is 0 or the number of a row, and no stored block of
\* a recorded batch is above it.
LEMMA LastExecutedType ==
    ASSUME stored \subseteq Blocks, Bounded(stored)
    PROVE  /\ LastExecutedBlockNumber \in Nat
           /\ \A b \in stored : Batch[b] \in executedRows =>
                 Number[b] <= LastExecutedBlockNumber
<1> DEFINE S == {b \in stored : Batch[b] \in executedRows}
<1>1. S \subseteq Blocks /\ Bounded(S)
    BY BoundedSubset
<1>2. S # {} => Last(S) \in S /\ \A c \in S : Number[c] <= Number[Last(S)]
    BY <1>1, LastIsGreatest
<1>3. LastExecutedBlockNumber = IF S = {} THEN 0 ELSE Number[Last(S)]
    BY DEF LastExecutedBlockNumber
<1> HIDE DEF S
<1>4. LastExecutedBlockNumber \in Nat
    BY <1>1, <1>2, <1>3, BlockTreeAssumption
<1>5. \A b \in S : Number[b] <= LastExecutedBlockNumber
    BY <1>2, <1>3
<1> QED
    BY <1>4, <1>5 DEF S

-----------------------------------------------------------------------------
(***************************************************************************)
(* Every step preserves the types.                                         *)
(***************************************************************************)
\* Two pieces of several actions: the end of an iteration and of the process.
LEMMA EndIterationType ==
    ASSUME EndIteration
    PROVE  /\ worker' = "idle"
           /\ head' \in Blocks \cup {NoBlock}
           /\ DOMAIN fetched' \subseteq Nat
           /\ fetched' \in [DOMAIN fetched' -> Blocks \cup {NoBlock, Pending}]
           /\ inserted' \subseteq DOMAIN fetched'
           /\ next' \in Nat
BY DEF EndIteration

LEMMA ExitType ==
    ASSUME Exit
    PROVE  /\ worker' = "down" /\ running' = FALSE /\ tip' = Null /\ head' = NoBlock
           /\ DOMAIN fetched' \subseteq Nat
           /\ fetched' \in [DOMAIN fetched' -> Blocks \cup {NoBlock, Pending}]
           /\ inserted' \subseteq DOMAIN fetched'
           /\ next' \in Nat
           /\ handler' = "none" /\ lo' \in Nat /\ hi' \in Nat /\ keepBatch' \in Int
           /\ chainMoved' = FALSE
BY DEF Exit

LEMMA TypeStep ==
    ASSUME IInv, [Next]_vars
    PROVE  TypeOK'
<1>1. TypeOK /\ ChainInv /\ TableInv /\ IterationInv
    BY DEF IInv
<1>2. CASE UNCHANGED vars
    BY <1>1, <1>2 DEF TypeOK, vars, chainVars, dbVars, iterVars, handlerVars
<1>3. CASE Chain
    <2>1. ASSUME NEW b \in Blocks, ProduceBlock(b) PROVE TypeOK'
        BY <1>1, <2>1 DEF TypeOK, ProduceBlock, Busy, chainVars, dbVars, iterVars, handlerVars
    <2>2. ASSUME NEW n, RevertChain(n) PROVE TypeOK'
        BY <1>1, <2>2 DEF TypeOK, RevertChain, Busy, UpTo, dbVars, iterVars, handlerVars
    <2>3. CASE ExecuteBatch
        <3>1. execHeight' \in Nat
            BY <1>1, <2>3, ChainRootType, BlockTreeAssumption DEF TypeOK, ExecuteBatch
        <3> QED
            BY <1>1, <2>3, <3>1 DEF TypeOK, ExecuteBatch, dbVars, iterVars, handlerVars
    <2> QED
        BY <1>3, <2>1, <2>2, <2>3 DEF Chain
<1>4. CASE Watcher
    <2>1. tip' \in Nat
        BY <1>1, <1>4, HeightType DEF TypeOK, Watcher, WatcherInit, OnBlock
    <2> QED
        BY <1>1, <1>4, <2>1 DEF TypeOK, Watcher, WatcherInit, OnBlock, chainVars,
           dbVars, iterVars, handlerVars
<1>5. ASSUME head # NoBlock, TriggerRevert, EndIteration,
             UNCHANGED <<chainVars, dbVars, tip, chainMoved>>
      PROVE  TypeOK'
    <2>1. hi' \in Nat
        BY <1>1, <1>5, BlockTreeAssumption DEF TypeOK, TriggerRevert, handlerVars
    <2> QED
        BY <1>1, <1>5, <2>1, EndIterationType DEF TypeOK, TriggerRevert, chainVars,
           dbVars, handlerVars
<1>6. ASSUME EndIteration, UNCHANGED <<chainVars, batchRoot, executedRows, tip, running,
                                       handlerVars, chainMoved>>,
             stored' \subseteq Blocks
      PROVE  TypeOK'
    BY <1>1, <1>6, EndIterationType DEF TypeOK, chainVars, handlerVars
<1>7. CASE Worker
    <2>1. CASE StartIteration
        <3> DEFINE last == Last(InRange(stored))
                   range == NextRange(last)
        <3>1. last \in Blocks \cup {NoBlock}
            BY <1>1, LastType DEF TypeOK, TableInv
        <3>2. range \subseteq Nat
            BY <1>1, <3>1, NextRangeType DEF TypeOK
        <3>3. /\ head' = last
              /\ fetched' = [n \in range |-> Pending]
              /\ worker' \in {"fetching", "comparing", "idle"}
              /\ chainMoved' = FALSE
              /\ UNCHANGED <<chainVars, dbVars, tip, running, inserted, next, handlerVars>>
            BY <2>1 DEF StartIteration
        <3>4. inserted' \subseteq DOMAIN fetched'
            BY <1>1, <2>1, <3>3 DEF IterationInv, StartIteration
        <3> HIDE DEF last, range
        <3>5. /\ DOMAIN fetched' \subseteq Nat
              /\ fetched' \in [DOMAIN fetched' -> Blocks \cup {NoBlock, Pending}]
            BY <3>2, <3>3
        <3> QED
            BY <1>1, <3>1, <3>3, <3>4, <3>5 DEF TypeOK, chainVars, dbVars, handlerVars
    <2>2. ASSUME NEW n \in DOMAIN fetched, FetchBlock(n) PROVE TypeOK'
        <3>1. At(canon, n) \in Blocks \cup {NoBlock}
            BY <1>1, AtType DEF TypeOK
        <3> QED
            BY <1>1, <2>2, <3>1 DEF TypeOK, FetchBlock, chainVars, dbVars, handlerVars
    <2>3. CASE RevertOnFirstBlock
        BY <1>5, <2>3 DEF RevertOnFirstBlock, FirstUnlinked
    <2>4. CASE MissingBlockThrows \/ RangeNotLinked
        BY <1>1, <1>6, <2>4 DEF TypeOK, MissingBlockThrows, RangeNotLinked, dbVars
    <2>5. CASE StartTransactions
        <3>1. next' \in Nat
            BY <1>1, <2>5, BlockTreeAssumption, BlockSyncAssumption DEF TypeOK,
               StartTransactions, First
        <3> QED
            BY <1>1, <2>5, <3>1 DEF TypeOK, StartTransactions, chainVars, dbVars, handlerVars
    <2>6. CASE CompareHead
        <3>1. CASE TriggerRevert
            BY <1>1, <1>5, <2>6, <3>1 DEF CompareHead, IterationInv
        <3>2. CASE UNCHANGED <<running, handlerVars>>
            BY <1>1, <1>6, <2>6, <3>2 DEF TypeOK, CompareHead, dbVars
        <3> QED
            BY <2>6, <3>1, <3>2 DEF CompareHead
    <2>7. ASSUME NEW s \in DOMAIN fetched, InsertChunk(s) PROVE TypeOK'
        BY <1>1, <2>7 DEF TypeOK, InsertChunk, chainVars, dbVars, handlerVars
    <2>8. CASE CommitChunk
        <3>1. stored' \subseteq Blocks
            BY <1>1, <2>8 DEF TypeOK, CommitChunk, Chunk, IterationInv, WriteInv
        <3>2. CASE EndIteration
            BY <1>6, <2>8, <3>1, <3>2 DEF CommitChunk
        <3>3. CASE UNCHANGED <<worker, head, fetched, inserted>> /\ next' = next + ChunkSize
            BY <1>1, <2>8, <3>1, <3>3, BlockSyncAssumption DEF TypeOK, CommitChunk,
               chainVars, handlerVars
        <3> QED
            BY <2>8, <3>2, <3>3 DEF CommitChunk
    <2>9. CASE WorkerStops
        BY <1>1, <2>9 DEF TypeOK, WorkerStops, chainVars, dbVars, iterVars, handlerVars
    <2> QED
        BY <1>7, <2>1, <2>2, <2>3, <2>4, <2>5, <2>6, <2>7, <2>8, <2>9 DEF Worker, CheckRange
<1>8. ASSUME stored' \subseteq stored, executedRows' \subseteq executedRows,
             batchRoot' \in [BatchNumbers -> Blocks \cup {NoBlock}],
             Exit, UNCHANGED chainVars
      PROVE  TypeOK'
    BY <1>1, <1>8, ExitType DEF TypeOK, chainVars
<1>9. ASSUME DeleteReverted
      PROVE  /\ stored' \subseteq stored /\ executedRows' \subseteq executedRows
             /\ batchRoot' \in [BatchNumbers -> Blocks \cup {NoBlock}]
    BY <1>1, <1>9 DEF TypeOK, DeleteReverted, UpTo
<1>10. CASE Handler
    <2>1. CASE StartSearch
        BY <1>1, <2>1, LastExecutedType DEF TypeOK, TableInv, StartSearch, chainVars, dbVars,
           iterVars
    <2>2. CASE SearchStep
        <3>1. CASE RevertThrows
            BY <1>1, <1>8, <3>1 DEF TypeOK, RevertThrows, dbVars
        <3>2. CASE Probe
            <4>1. Mid \in Nat
                BY <1>1 DEF TypeOK, Mid
            <4> QED
                BY <1>1, <3>2, <4>1 DEF TypeOK, Probe, chainVars, dbVars, iterVars
        <3> QED
            BY <2>2, <3>1, <3>2 DEF SearchStep
    <2>3. CASE FinishSearch
        <3>1. CASE RevertThrows
            BY <1>1, <1>8, <3>1 DEF TypeOK, RevertThrows, dbVars
        <3>2. CASE ~RevertThrows
            <4>1. At(stored, lo) \in Blocks
                BY <1>1, <2>3, <3>2, AtType DEF TypeOK, FinishSearch
            <4>2. LastCorrectBatch(Batch[At(stored, lo)]) \in Int
                BY <4>1, BlockTreeAssumption DEF LastCorrectBatch
            <4> QED
                BY <1>1, <2>3, <3>2, <4>2 DEF TypeOK, FinishSearch, chainVars, dbVars, iterVars
        <3> QED
            BY <3>1, <3>2
    <2>4. CASE FinishRevert
        BY <1>1, <1>9, <2>4 DEF TypeOK, FinishRevert, chainVars, iterVars
    <2> QED
        BY <1>10, <2>1, <2>2, <2>3, <2>4 DEF Handler
<1>11. CASE BatchWorkers
    <2> SUFFICES ASSUME NEW n \in BatchNumbers, RecordBatch(n) \/ RecordExecutedBatch(n)
                 PROVE  TypeOK'
        BY <1>11 DEF BatchWorkers
    <2>1. ChainRoot(n) \in Blocks \cup {NoBlock}
        BY <1>1, ChainRootType DEF TypeOK
    <2> QED
        BY <1>1, <2>1 DEF TypeOK, RecordBatch, RecordExecutedBatch, chainVars, iterVars,
           handlerVars
<1>12. CASE Fault
    <2>1. CASE WriteFails
        BY <1>1, <1>6, <2>1 DEF TypeOK, WriteFails, dbVars
    <2>2. CASE CommitFails
        <3>1. stored' \subseteq Blocks
            BY <1>1, <2>2 DEF TypeOK, CommitFails, Chunk, IterationInv, WriteInv
        <3> QED
            BY <1>6, <2>2, <3>1 DEF CommitFails
    <2>3. CASE Crash
        BY <1>1, <1>8, <2>3 DEF TypeOK, Crash, dbVars
    <2>4. CASE RevertFails
        BY <1>1, <1>8, <1>9, <2>4 DEF TypeOK, RevertFails, dbVars
    <2> QED
        BY <1>12, <2>1, <2>2, <2>3, <2>4 DEF Fault
<1>13. CASE Restart
    BY <1>1, <1>13 DEF TypeOK, Restart, chainVars, dbVars, iterVars, handlerVars
<1> QED
    BY <1>2, <1>3, <1>4, <1>7, <1>10, <1>11, <1>12, <1>13 DEF Next

-----------------------------------------------------------------------------
(***************************************************************************)
(* The chain stays one branch, and what it executed stays as it is.        *)
(***************************************************************************)
\* Only the chain changes the chain.
LEMMA OthersKeepChain ==
    ASSUME [Next]_vars, ~Chain
    PROVE  UNCHANGED chainVars
<1>1. CASE UNCHANGED vars
    BY <1>1 DEF vars
<1>2. CASE Watcher
    BY <1>2 DEF Watcher, WatcherInit, OnBlock
<1>3. CASE Worker
    BY <1>3 DEF Worker, StartIteration, FetchBlock, CheckRange, RevertOnFirstBlock,
       MissingBlockThrows, RangeNotLinked, StartTransactions, CompareHead, InsertChunk,
       CommitChunk, WorkerStops
<1>4. CASE Handler
    BY <1>4 DEF Handler, StartSearch, SearchStep, RevertThrows, Probe, FinishSearch,
       FinishRevert
<1>5. CASE BatchWorkers \/ Fault \/ Restart
    BY <1>5 DEF BatchWorkers, RecordBatch, RecordExecutedBatch, Fault, WriteFails,
       CommitFails, Crash, RevertFails, Restart
<1> QED
    BY <1>1, <1>2, <1>3, <1>4, <1>5 DEF Next

\* The chain's own part of the invariant, with the block at execHeight named.
LEMMA ExecutedBlock ==
    ASSUME canon \subseteq Blocks, execHeight \in Nat, ChainInv
    PROVE  \E e \in canon :
              /\ Number[e] = execHeight
              /\ At(canon, execHeight) = e
              /\ \A n : ChainExecuted(n) <=> n <= Batch[e]
              /\ \A b \in canon : Batch[b] <= Batch[e] <=> Number[b] <= execHeight
<1> DEFINE e == At(canon, execHeight)
<1>1. e \in canon /\ Number[e] = execHeight
    BY AtType DEF ChainInv
<1>2. \A b \in canon : Number[b] <= execHeight => Batch[b] <= Batch[e]
    BY <1>1, BatchGrows DEF ChainInv
<1> QED
    BY <1>1, <1>2 DEF ChainInv, ChainExecuted

LEMMA ProduceKeepsChain ==
    ASSUME TypeOK, ChainInv, NEW b \in Blocks, ProduceBlock(b)
    PROVE  /\ Linked(canon', 0) /\ Bounded(canon')
           /\ b \notin canon
           /\ \A c \in canon : Number[c] < Number[b]
<1>1. Last(canon) \in canon /\ \A c \in canon : Number[c] <= Number[Last(canon)]
    BY HeightType, LastIsGreatest DEF TypeOK, ChainInv
<1>2. Parent[b] \in canon /\ Number[b] = Number[Parent[b]] + 1
    BY <1>1, BlockTreeAssumption DEF TypeOK, ProduceBlock
<1>3. \A c \in canon : Number[c] < Number[b]
    BY <1>1, <1>2, BlockTreeAssumption DEF TypeOK, ProduceBlock
<1>4. canon' = canon \cup {b}
    BY DEF ProduceBlock
<1>5. Bounded(canon')
    BY <1>3, <1>4, BlockTreeAssumption DEF TypeOK, Bounded
<1>6. Linked(canon', 0)
    BY <1>2, <1>3, <1>4, BlockTreeAssumption DEF TypeOK, ChainInv, Linked
<1> QED
    BY <1>3, <1>5, <1>6, BlockTreeAssumption DEF TypeOK

\* A step of the chain changes nothing of an executed batch: not which batches
\* are executed but for one more, nor their blocks.
LEMMA ExecutedStays ==
    ASSUME IInv, [Next]_vars
    PROVE  /\ ChainInv'
           /\ \A n \in Nat : ChainExecuted(n) =>
                 ChainExecuted(n)' /\ ChainRoot(n)' = ChainRoot(n)
           /\ \A b \in canon : ChainExecuted(Batch[b]) => b \in canon'
<1>1. TypeOK /\ ChainInv /\ TypeOK'
    BY TypeStep DEF IInv
<1>2. PICK e \in canon :
              /\ Number[e] = execHeight
              /\ At(canon, execHeight) = e
              /\ \A n : ChainExecuted(n) <=> n <= Batch[e]
              /\ \A b \in canon : Batch[b] <= Batch[e] <=> Number[b] <= execHeight
    BY <1>1, ExecutedBlock DEF TypeOK
<1>3. CASE UNCHANGED chainVars
    BY <1>1, <1>3 DEF ChainInv, ChainExecuted, ChainRoot, chainVars
<1>4. ASSUME NEW b \in Blocks, ProduceBlock(b)
      PROVE  /\ ChainInv'
             /\ \A n \in Nat : ChainExecuted(n) =>
                   ChainExecuted(n)' /\ ChainRoot(n)' = ChainRoot(n)
             /\ canon \subseteq canon'
    <2>1. /\ canon' = canon \cup {b} /\ execHeight' = execHeight
          /\ ~(Batch[b] <= Batch[e])
        BY <1>2, <1>4 DEF ProduceBlock
    <2>2. Linked(canon', 0) /\ Bounded(canon')
        BY <1>1, <1>4, ProduceKeepsChain
    <2>3. At(canon', execHeight') = e
        BY <1>1, <1>2, <2>1, <2>2, AtOwnNumber DEF TypeOK
    <2>4. \A n : ChainExecuted(n)' <=> n <= Batch[e]
        BY <2>3 DEF ChainExecuted
    <2>5. ASSUME NEW n \in Nat, ChainExecuted(n) PROVE ChainRoot(n)' = ChainRoot(n)
        <3>1. Batch[b] # n
            BY <1>2, <2>1, <2>5
        <3>2. {c \in canon' : Batch[c] = n} = {c \in canon : Batch[c] = n}
            BY <2>1, <3>1
        <3>3. ChainExecuted(n)'
            BY <1>2, <2>4, <2>5
        <3> QED
            BY <2>5, <3>2, <3>3 DEF ChainRoot
    <2>6. ChainInv'
        BY <1>1, <1>2, <2>1, <2>2, <2>3, <2>4, BlockTreeAssumption DEF TypeOK, ChainInv
    <2> QED
        BY <1>2, <2>1, <2>4, <2>5, <2>6
<1>5. ASSUME NEW m \in {Number[b] : b \in Blocks}, RevertChain(m)
      PROVE  /\ ChainInv'
             /\ \A n \in Nat : ChainExecuted(n) =>
                   ChainExecuted(n)' /\ ChainRoot(n)' = ChainRoot(n)
             /\ \A b \in canon : ChainExecuted(Batch[b]) => b \in canon'
    <2>1. canon' = UpTo(canon, m) /\ execHeight' = execHeight /\ execHeight <= m /\ m \in Nat
        BY <1>1, <1>5, HeightType, BlockTreeAssumption DEF RevertChain, TypeOK
    <2>2. Linked(canon', 0) /\ Bounded(canon')
        BY <1>1, <2>1, UpToLinked, BoundedSubset DEF TypeOK, ChainInv, UpTo
    <2>3. At(canon', execHeight') = e
        <3>1. e \in canon'
            BY <1>2, <2>1 DEF UpTo
        <3> QED
            BY <1>1, <1>2, <2>1, <2>2, <3>1, AtOwnNumber DEF TypeOK
    <2>4. \A n : ChainExecuted(n)' <=> n <= Batch[e]
        BY <2>3 DEF ChainExecuted
    <2>5. \A b \in canon : Batch[b] <= Batch[e] => b \in canon'
        BY <1>1, <1>2, <2>1, BlockTreeAssumption DEF TypeOK, UpTo
    <2>6. ASSUME NEW n \in Nat, ChainExecuted(n) PROVE ChainRoot(n)' = ChainRoot(n)
        <3>1. {c \in canon' : Batch[c] = n} = {c \in canon : Batch[c] = n}
            BY <1>2, <2>1, <2>5, <2>6 DEF UpTo
        <3>2. ChainExecuted(n)'
            BY <1>2, <2>4, <2>6
        <3> QED
            BY <2>6, <3>1, <3>2 DEF ChainRoot
    <2>7. ChainInv'
        BY <1>1, <1>2, <2>1, <2>2, <2>3, <2>4, BlockTreeAssumption DEF TypeOK, ChainInv, UpTo
    <2> QED
        BY <1>2, <2>4, <2>5, <2>6, <2>7
<1>6. CASE ExecuteBatch
    <2> DEFINE n == Batch[e] + 1
               r == ChainRoot(n)
    <2>1. r # NoBlock /\ execHeight' = Number[r] /\ canon' = canon
        BY <1>2, <1>6 DEF ExecuteBatch
    <2>2. r \in canon /\ Batch[r] = n /\ \A b \in canon : Batch[b] = n => Number[b] <= Number[r]
        BY <1>1, <2>1, ChainRootType DEF TypeOK
    <2> HIDE DEF r
    <2>3. At(canon', execHeight') = r
        BY <1>1, <2>1, <2>2, AtOwnNumber DEF TypeOK, ChainInv
    <2>4. \A k : ChainExecuted(k)' <=> k <= Batch[r]
        BY <2>3 DEF ChainExecuted
    <2>5. Number[e] <= Number[r]
        <3>1. ~(Number[r] <= execHeight)
            BY <1>1, <1>2, <2>2, BlockTreeAssumption DEF TypeOK
        <3> QED
            BY <1>1, <1>2, <2>2, <3>1, BlockTreeAssumption DEF TypeOK
    <2>6. \A b \in canon : Batch[b] <= Batch[r] => Number[b] <= Number[r]
        <3> SUFFICES ASSUME NEW b \in canon, Batch[b] <= Batch[r] PROVE Number[b] <= Number[r]
            OBVIOUS
        <3>1. CASE Batch[b] = n
            BY <2>2, <3>1
        <3>2. CASE Batch[b] <= Batch[e]
            BY <1>1, <1>2, <2>2, <2>5, <3>2, BlockTreeAssumption DEF TypeOK
        <3> QED
            BY <1>1, <1>2, <2>2, <3>1, <3>2, BlockTreeAssumption DEF TypeOK
    <2>7. ChainInv'
        BY <1>1, <2>1, <2>2, <2>3, <2>4, <2>6, BlockTreeAssumption DEF TypeOK, ChainInv
    <2>8. ASSUME NEW k \in Nat, ChainExecuted(k)
          PROVE  ChainExecuted(k)' /\ ChainRoot(k)' = ChainRoot(k)
        <3>1. ChainExecuted(k)'
            BY <1>1, <1>2, <2>2, <2>4, <2>8, BlockTreeAssumption DEF TypeOK
        <3> QED
            BY <2>1, <2>8, <3>1 DEF ChainRoot
    <2> QED
        BY <2>1, <2>7, <2>8
<1> QED
    BY <1>3, <1>4, <1>5, <1>6, OthersKeepChain DEF Chain

-----------------------------------------------------------------------------
(***************************************************************************)
(* The handler has the table for itself.                                   *)
(***************************************************************************)
LEMMA HandlerStep ==
    ASSUME IInv, [Next]_vars
    PROVE  HandlerInv'
<1>1. TypeOK /\ HandlerInv
    BY DEF IInv
<1>2. CASE UNCHANGED vars \/ Chain \/ Watcher \/ BatchWorkers
    BY <1>1, <1>2 DEF HandlerInv, vars, handlerVars, Chain, ProduceBlock, RevertChain,
       ExecuteBatch, Watcher, WatcherInit, OnBlock, BatchWorkers, RecordBatch,
       RecordExecutedBatch
<1>3. ASSUME worker \in {"fetching", "comparing"}, EndIteration,
             TriggerRevert \/ UNCHANGED <<running, handlerVars>>
      PROVE  HandlerInv'
    BY <1>1, <1>3 DEF TypeOK, HandlerInv, EndIteration, TriggerRevert, handlerVars
<1>4. CASE Worker
    <2>1. CASE RevertOnFirstBlock \/ MissingBlockThrows \/ RangeNotLinked
        BY <1>3, <2>1 DEF RevertOnFirstBlock, MissingBlockThrows, RangeNotLinked, AllFetched
    <2>2. CASE CompareHead
        BY <1>3, <2>2 DEF CompareHead
    <2>3. CASE StartIteration \/ StartTransactions \/ WorkerStops
        BY <1>1, <2>3 DEF HandlerInv, StartIteration, StartTransactions, AllFetched,
           WorkerStops, handlerVars
    <2>4. ASSUME NEW n, FetchBlock(n) \/ InsertChunk(n) PROVE HandlerInv'
        BY <1>1, <2>4 DEF HandlerInv, FetchBlock, InsertChunk, handlerVars
    <2>5. CASE CommitChunk
        BY <1>1, <2>5 DEF HandlerInv, CommitChunk, EndIteration, handlerVars
    <2> QED
        BY <1>4, <2>1, <2>2, <2>3, <2>4, <2>5 DEF Worker, CheckRange
<1>5. CASE Handler
    BY <1>1, <1>5 DEF HandlerInv, Handler, StartSearch, SearchStep, RevertThrows, Exit, Probe,
       FinishSearch, FinishRevert
<1>6. CASE Fault \/ Restart
    BY <1>1, <1>6 DEF HandlerInv, Fault, WriteFails, CommitFails, EndIteration, Crash,
       RevertFails, Exit, Restart, handlerVars
<1> QED
    BY <1>2, <1>4, <1>5, <1>6 DEF Next

-----------------------------------------------------------------------------
(***************************************************************************)
(* The table stays one branch.                                             *)
(***************************************************************************)
\* The heart of the argument: a chunk that was checked continues the table.
LEMMA ChunkContinues ==
    ASSUME IInv, worker = "writing"
    PROVE  /\ Chunk(next) \subseteq Blocks
           /\ Linked(stored \cup Chunk(next), FromBlock)
           /\ Bounded(stored \cup Chunk(next))
           /\ InRange(stored \cup Chunk(next)) = stored \cup Chunk(next)
           /\ \A b \in Chunk(next), c \in stored : Number[c] < Number[b]
           /\ \A b \in stored \cup Chunk(next) : Number[b] < next + ChunkSize
<1> DEFINE C == Chunk(next)
<1>1. TypeOK /\ TableInv /\ RangeInv /\ WriteInv
    BY DEF IInv, IterationInv
<1>2. PICK last \in Int : DOMAIN fetched = First .. last /\ (ToBlock # 0 => last <= ToBlock)
    BY <1>1 DEF RangeInv
<1>3. First \in Nat /\ FromBlock <= First /\ (head # NoBlock => Number[head] + 1 = First)
    <2>1. CASE head = NoBlock
        BY <2>1, BlockSyncAssumption DEF First
    <2>2. CASE head # NoBlock
        <3>1. head \in InRange({head} \ {NoBlock})
            BY <1>1, <2>2 DEF RangeInv
        <3> QED
            BY <1>1, <2>2, <3>1, BlockTreeAssumption, BlockSyncAssumption DEF TypeOK, First,
               InRange
    <2> QED
        BY <2>1, <2>2
<1>4. next \in Nat /\ First <= next
    BY <1>1, <1>2, <1>3 DEF TypeOK, WriteInv
<1>5. ASSUME NEW b \in C
      PROVE  /\ b \in Blocks /\ Number[b] \in DOMAIN fetched /\ fetched[Number[b]] = b
             /\ next <= Number[b] /\ Number[b] < next + ChunkSize
             /\ FromBlock <= Number[b] /\ (ToBlock # 0 => Number[b] <= ToBlock)
    <2>1. PICK n \in DOMAIN fetched : b = fetched[n] /\ next <= n /\ n < next + ChunkSize
        BY <1>5 DEF Chunk
    <2>2. b \in Blocks /\ Number[b] = n
        BY <1>1, <2>1 DEF WriteInv, RangeInv
    <2>3. n \in Int /\ FromBlock <= n /\ (ToBlock # 0 => n <= ToBlock)
        BY <1>2, <1>3, <2>1, BlockSyncAssumption
    <2> QED
        BY <2>1, <2>2, <2>3
<1>6. \A n \in DOMAIN fetched : next <= n /\ n < next + ChunkSize => fetched[n] \in C
    BY DEF Chunk
<1> HIDE DEF C
<1>7. \A b \in stored : b \in Blocks /\ Number[b] \in Nat /\ Number[b] < next
    BY <1>1, BlockTreeAssumption DEF TypeOK, WriteInv
<1>8. ASSUME NEW b \in C, Number[b] > FromBlock PROVE Parent[b] \in stored \cup C
    <2> DEFINE n == Number[b]
    <2>1. n \in DOMAIN fetched /\ fetched[n] = b /\ next <= n /\ n < next + ChunkSize /\ n \in Nat
        BY <1>5, BlockTreeAssumption
    <2>2. CASE n > First
        <3>1. n - 1 \in DOMAIN fetched
            BY <1>2, <1>3, <2>1, <2>2
        <3>2. fetched[n - 1] = Parent[b]
            <4>1. (n - 1) + 1 = n
                BY <2>1
            <4> HIDE DEF n
            <4> QED
                BY <1>1, <2>1, <3>1, <4>1 DEF WriteInv, RangeLinked
        <3>3. CASE n = next
            <4>1. next # First
                BY <1>3, <2>1, <2>2, <3>3
            <4> QED
                BY <1>1, <3>2, <3>3, <4>1 DEF WriteInv
        <3>4. CASE n # next
            <4>1. next <= n - 1 /\ n - 1 < next + ChunkSize
                BY <1>4, <2>1, <3>4, BlockSyncAssumption
            <4> QED
                BY <1>6, <3>1, <3>2, <4>1
        <3> QED
            BY <3>3, <3>4
    <2>3. CASE n = First
        <3>1. head # NoBlock
            BY <1>8, <2>1, <2>3, BlockSyncAssumption DEF First
        <3>2. next = First
            BY <1>3, <1>4, <2>1, <2>3
        <3>3. head \in stored
            BY <1>1, <3>1, <3>2 DEF WriteInv
        <3>4. Parent[b] = head
            BY <1>1, <1>5, <2>1, <2>3, <3>1, BlockTreeAssumption DEF WriteInv, FirstUnlinked
        <3> QED
            BY <3>3, <3>4
    <2>4. First <= n
        BY <1>3, <1>4, <2>1
    <2> QED
        BY <1>3, <2>1, <2>2, <2>3, <2>4
<1>9. Linked(stored \cup C, FromBlock)
    <2>1. \A b \in stored \cup C : Number[b] >= FromBlock
        BY <1>1, <1>5, BlockTreeAssumption, BlockSyncAssumption DEF TableInv, Linked
    <2>2. ASSUME NEW b \in stored \cup C, NEW c \in stored \cup C, Number[b] = Number[c]
          PROVE  b = c
        <3>1. CASE b \in stored /\ c \in stored
            BY <1>1, <2>2, <3>1 DEF TableInv, Linked
        <3>2. CASE b \in C /\ c \in C
            BY <1>5, <2>2, <3>2
        <3>3. CASE (b \in stored /\ c \in C) \/ (b \in C /\ c \in stored)
            BY <1>4, <1>5, <1>7, <2>2, <3>3, BlockTreeAssumption
        <3> QED
            BY <3>1, <3>2, <3>3
    <2>3. \A b \in stored \cup C : Number[b] > FromBlock => Parent[b] \in stored \cup C
        BY <1>1, <1>8 DEF TableInv, Linked
    <2> QED
        BY <2>1, <2>2, <2>3 DEF Linked
<1>10. \A b \in stored \cup C : Number[b] < next + ChunkSize
    BY <1>4, <1>5, <1>7, BlockSyncAssumption
<1>11. Bounded(stored \cup C)
    <2>1. next + ChunkSize \in Nat
        BY <1>4, BlockSyncAssumption
    <2>2. ASSUME NEW b \in stored \cup C PROVE Number[b] <= next + ChunkSize
        <3>1. Number[b] \in Nat
            BY <1>5, <1>7, BlockTreeAssumption
        <3> QED
            BY <1>10, <2>1, <3>1
    <2> QED
        BY <2>1, <2>2 DEF Bounded
<1>12. InRange(stored \cup C) = stored \cup C
    <2>1. ASSUME NEW b \in C PROVE b \in InRange(C)
        <3>1. Number[b] \in Nat /\ FromBlock <= Number[b] /\ (ToBlock # 0 => Number[b] <= ToBlock)
            BY <1>5, BlockTreeAssumption
        <3> QED
            BY <3>1, BlockSyncAssumption DEF InRange
    <2>2. InRange(stored \cup C) = InRange(stored) \cup InRange(C)
        BY DEF InRange
    <2>3. InRange(C) = C
        BY <2>1 DEF InRange
    <2> QED
        BY <1>1, <2>2, <2>3 DEF TableInv
<1>13. \A b \in C, c \in stored : Number[c] < Number[b]
    BY <1>4, <1>5, <1>7, BlockTreeAssumption
<1> QED
    BY <1>5, <1>9, <1>10, <1>11, <1>12, <1>13 DEF C

\* The three things a step may do to the table.
LEMMA TableSteps ==
    ASSUME [Next]_vars
    PROVE  \/ stored' = stored
           \/ /\ worker = "writing" /\ stored' = stored \cup Chunk(next)
              /\ CommitChunk \/ CommitFails
           \/ /\ handler = "deleting" /\ DeleteReverted
              /\ FinishRevert \/ RevertFails
<1>1. CASE UNCHANGED vars \/ Chain \/ Watcher \/ BatchWorkers
    BY <1>1 DEF vars, dbVars, Chain, ProduceBlock, RevertChain, ExecuteBatch, Watcher,
       WatcherInit, OnBlock, BatchWorkers, RecordBatch, RecordExecutedBatch
<1>2. CASE Worker
    BY <1>2 DEF Worker, StartIteration, FetchBlock, CheckRange, RevertOnFirstBlock,
       MissingBlockThrows, RangeNotLinked, StartTransactions, CompareHead, InsertChunk,
       CommitChunk, WorkerStops, dbVars
<1>3. CASE Handler
    BY <1>3 DEF Handler, StartSearch, SearchStep, RevertThrows, Probe, FinishSearch,
       FinishRevert, dbVars
<1>4. CASE Fault \/ Restart
    BY <1>4 DEF Fault, WriteFails, CommitFails, Crash, RevertFails, Restart, dbVars
<1> QED
    BY <1>1, <1>2, <1>3, <1>4 DEF Next

\* And to the rows of executed batches.
LEMMA RowSteps ==
    ASSUME [Next]_vars
    PROVE  \/ UNCHANGED <<batchRoot, executedRows>>
           \/ \E n \in BatchNumbers : RecordBatch(n) \/ RecordExecutedBatch(n)
           \/ handler = "deleting" /\ DeleteReverted
<1>1. CASE UNCHANGED vars \/ Chain \/ Watcher
    BY <1>1 DEF vars, dbVars, Chain, ProduceBlock, RevertChain, ExecuteBatch, Watcher,
       WatcherInit, OnBlock
<1>2. CASE Worker
    BY <1>2 DEF Worker, StartIteration, FetchBlock, CheckRange, RevertOnFirstBlock,
       MissingBlockThrows, RangeNotLinked, StartTransactions, CompareHead, InsertChunk,
       CommitChunk, WorkerStops, dbVars
<1>3. CASE Handler
    BY <1>3 DEF Handler, StartSearch, SearchStep, RevertThrows, Probe, FinishSearch,
       FinishRevert, dbVars
<1>4. CASE Fault \/ Restart
    BY <1>4 DEF Fault, WriteFails, CommitFails, Crash, RevertFails, Restart, dbVars
<1> QED
    BY <1>1, <1>2, <1>3, <1>4 DEF Next, BatchWorkers

LEMMA TableStep ==
    ASSUME IInv, [Next]_vars
    PROVE  TableInv'
<1>1. TypeOK /\ TableInv
    BY DEF IInv
<1>2. CASE stored' = stored
    BY <1>1, <1>2 DEF TableInv
<1>3. CASE worker = "writing" /\ stored' = stored \cup Chunk(next)
    BY <1>3, ChunkContinues DEF TableInv
<1>4. CASE DeleteReverted
    <2>1. stored' = UpTo(stored, lo)
        BY <1>4 DEF DeleteReverted
    <2>2. Linked(UpTo(stored, lo), FromBlock)
        BY <1>1, UpToLinked, BlockSyncAssumption DEF TypeOK, TableInv
    <2>3. Bounded(UpTo(stored, lo))
        BY <1>1, BoundedSubset DEF TableInv, UpTo
    <2>4. InRange(UpTo(stored, lo)) = UpTo(stored, lo)
        BY <1>1 DEF TableInv, InRange, UpTo
    <2> QED
        BY <2>1, <2>2, <2>3, <2>4 DEF TableInv
<1> QED
    BY <1>2, <1>3, <1>4, TableSteps

-----------------------------------------------------------------------------
(***************************************************************************)
(* An iteration writes only what it has checked.                           *)
(***************************************************************************)
LEMMA IterationStep ==
    ASSUME IInv, [Next]_vars
    PROVE  IterationInv'
<1>1. TypeOK /\ ChainInv /\ TableInv /\ IterationInv /\ HandlerInv /\ TypeOK'
    BY TypeStep DEF IInv
\* Whoever leaves the iteration and the table alone.
<1>2. ASSUME UNCHANGED <<stored, worker, iterVars>>
      PROVE  IterationInv'
    <2>1. First' = First /\ RangeLinked' = RangeLinked /\ FirstUnlinked' = FirstUnlinked
        BY <1>2 DEF First, RangeLinked, FirstUnlinked, iterVars
    <2> QED
        BY <1>1, <1>2, <2>1 DEF IterationInv, RangeInv, WriteInv, iterVars
\* Whoever is not in an iteration afterwards.
<1>3. ASSUME worker' \in {"idle", "stopped", "down"}, inserted' = {}
      PROVE  IterationInv'
    BY <1>3 DEF IterationInv
<1>4. CASE UNCHANGED vars \/ Chain \/ Watcher \/ BatchWorkers
    BY <1>2, <1>4 DEF vars, dbVars, Chain, ProduceBlock, RevertChain, ExecuteBatch, Watcher,
       WatcherInit, OnBlock, BatchWorkers, RecordBatch, RecordExecutedBatch
<1>5. CASE Handler
    <2>1. CASE StartSearch \/ Probe \/ (FinishSearch /\ ~RevertThrows)
        BY <1>2, <2>1 DEF StartSearch, Probe, FinishSearch, dbVars
    <2>2. CASE RevertThrows
        BY <1>3, <2>2 DEF RevertThrows, Exit
    <2>3. CASE FinishRevert
        BY <1>1, <1>3, <2>3 DEF FinishRevert, HandlerInv, IterationInv, iterVars
    <2> QED
        BY <1>5, <2>1, <2>2, <2>3 DEF Handler, SearchStep, FinishSearch
<1>6. CASE Fault \/ Restart
    <2>1. CASE Restart
        BY <1>1, <1>3, <2>1 DEF Restart, IterationInv, iterVars
    <2> QED
        BY <1>3, <1>6, <2>1 DEF Fault, WriteFails, CommitFails, EndIteration, Crash, RevertFails,
           Exit
<1>7. CASE StartIteration
    <2> DEFINE last == Last(InRange(stored))
               range == NextRange(last)
    <2>1. /\ head' = last /\ stored' = stored
          /\ fetched' = [n \in range |-> Pending]
          /\ worker' = IF range # {} THEN "fetching"
                       ELSE IF last # NoBlock THEN "comparing" ELSE "idle"
          /\ inserted' = {}
        BY <1>1, <1>7 DEF StartIteration, dbVars, IterationInv
    <2>2. last = Last(stored) /\ last \in stored \cup {NoBlock}
        BY <1>1, LastType DEF TypeOK, TableInv
    <2> HIDE DEF last
    <2>3. First' = IF last = NoBlock THEN FromBlock ELSE Number[last] + 1
        BY <2>1 DEF First
    <2>4. CASE range # {}
        <3>1. /\ First' \in range
              /\ \E n \in Int : range = First' .. n /\ (ToBlock # 0 => n <= ToBlock)
            BY <1>1, <2>2, <2>3, <2>4, NextRangeType DEF TypeOK
        <3> HIDE DEF range
        <3>2. DOMAIN fetched' = range /\ \A n \in range : fetched'[n] = Pending
            BY <2>1
        <3>3. InRange({last} \ {NoBlock}) = {last} \ {NoBlock}
            BY <1>1, <2>2 DEF TableInv, InRange
        <3>4. RangeInv'
            BY <2>1, <3>1, <3>2, <3>3, BlockSyncAssumption DEF RangeInv
        <3> QED
            BY <2>1, <2>2, <2>4, <3>4 DEF IterationInv
    <2>5. CASE range = {}
        BY <2>1, <2>2, <2>5 DEF IterationInv
    <2> QED
        BY <2>4, <2>5
<1>8. ASSUME NEW n \in DOMAIN fetched, FetchBlock(n) PROVE IterationInv'
    <2>1. /\ worker = "fetching" /\ UNCHANGED <<worker, stored, head, inserted, next>>
          /\ fetched' = [fetched EXCEPT ![n] = At(canon, n)]
        BY <1>8 DEF FetchBlock, dbVars
    <2>2. At(canon, n) \in Blocks => Number[At(canon, n)] = n
        BY <1>1, AtType, BlockTreeAssumption DEF TypeOK
    <2>3. First' = First /\ DOMAIN fetched' = DOMAIN fetched
        BY <2>1 DEF First
    <2>4. \A m \in DOMAIN fetched' : fetched'[m] \in Blocks => Number[fetched'[m]] = m
        BY <1>1, <2>1, <2>2 DEF IterationInv, RangeInv
    <2>5. RangeInv'
        BY <1>1, <2>1, <2>3, <2>4 DEF IterationInv, RangeInv
    <2> QED
        BY <1>1, <2>1, <2>5 DEF IterationInv
<1>9. CASE RevertOnFirstBlock \/ MissingBlockThrows \/ RangeNotLinked \/ CompareHead
    BY <1>3, <1>9 DEF RevertOnFirstBlock, MissingBlockThrows, RangeNotLinked, CompareHead,
       EndIteration
<1>10. CASE StartTransactions
    <2>1. /\ worker = "fetching" /\ worker' = "writing" /\ next' = First
          /\ UNCHANGED <<stored, head, fetched, inserted>>
        BY <1>10 DEF StartTransactions, AllFetched, dbVars
    <2>2. First' = First /\ RangeLinked' /\ ~FirstUnlinked'
        BY <1>10, <2>1 DEF StartTransactions, First, RangeLinked, FirstUnlinked
    <2>3. RangeInv /\ RangeInv'
        BY <1>1, <2>1, <2>2 DEF IterationInv, RangeInv
    <2>4. \A n \in DOMAIN fetched' : fetched'[n] \in Blocks
        BY <1>1, <1>10, <2>1 DEF TypeOK, StartTransactions, AllFetched
    <2>5. head = Last(stored)
        BY <1>1, <2>1 DEF IterationInv
    <2>6. \A b \in stored : Number[b] < First
        <3>1. CASE stored = {}
            BY <3>1
        <3>2. CASE stored # {}
            <4>1. head \in stored /\ \A b \in stored : Number[b] <= Number[head]
                BY <1>1, <2>5, <3>2, LastIsGreatest DEF TypeOK, TableInv
            <4>2. First = Number[head] + 1
                BY <1>1, <4>1, BlockTreeAssumption DEF TypeOK, First
            <4> QED
                BY <1>1, <4>1, <4>2, BlockTreeAssumption DEF TypeOK
        <3> QED
            BY <3>1, <3>2
    <2>7. head \in stored \cup {NoBlock}
        BY <1>1, <2>5, LastType DEF TypeOK, TableInv
    <2>8. WriteInv'
        BY <2>1, <2>2, <2>3, <2>4, <2>6, <2>7 DEF WriteInv, RangeInv
    <2> QED
        BY <2>1, <2>3, <2>8 DEF IterationInv
<1>11. ASSUME NEW s, InsertChunk(s) PROVE IterationInv'
    <2>1. worker = "writing" /\ UNCHANGED <<worker, stored, head, fetched, next>>
        BY <1>11 DEF InsertChunk, dbVars
    <2>2. First' = First /\ RangeLinked' = RangeLinked /\ FirstUnlinked' = FirstUnlinked
        BY <2>1 DEF First, RangeLinked, FirstUnlinked
    <2> QED
        BY <1>1, <2>1, <2>2 DEF IterationInv, RangeInv, WriteInv
<1>12. CASE CommitChunk
    <2>1. CASE EndIteration
        BY <1>3, <2>1 DEF EndIteration
    <2>2. CASE ~EndIteration
        <3>1. /\ worker = "writing" /\ stored' = stored \cup Chunk(next)
              /\ next + ChunkSize \in DOMAIN fetched /\ next' = next + ChunkSize
              /\ UNCHANGED <<worker, head, fetched, inserted>>
            BY <1>12, <2>2 DEF CommitChunk
        <3>2. First' = First /\ RangeLinked' = RangeLinked /\ FirstUnlinked' = FirstUnlinked
            BY <3>1 DEF First, RangeLinked, FirstUnlinked
        <3>3. RangeInv /\ RangeInv' /\ WriteInv
            BY <1>1, <3>1, <3>2 DEF IterationInv, RangeInv
        <3>4. \A b \in stored' : Number[b] < next'
            BY <3>1, ChunkContinues
        <3>5. PICK last \in Int : DOMAIN fetched = First .. last
            BY <3>3 DEF RangeInv
        <3>6. First \in Int /\ next \in Nat /\ First <= next
            BY <1>1, <3>3, <3>5, BlockTreeAssumption, BlockSyncAssumption DEF TypeOK, First,
               WriteInv
        <3>7. /\ next' - 1 \in DOMAIN fetched /\ next <= next' - 1 /\ next' - 1 < next + ChunkSize
              /\ next' # First
            BY <3>1, <3>5, <3>6, BlockSyncAssumption
        <3>8. fetched'[next' - 1] \in stored'
            BY <3>1, <3>7 DEF Chunk
        <3>9. WriteInv'
            BY <3>1, <3>2, <3>3, <3>4, <3>7, <3>8 DEF WriteInv
        <3> QED
            BY <1>1, <3>1, <3>3, <3>9 DEF IterationInv
    <2> QED
        BY <2>1, <2>2
<1>13. CASE WorkerStops
    BY <1>1, <1>3, <1>13 DEF WorkerStops, IterationInv, iterVars
<1> QED
    BY <1>4, <1>5, <1>6, <1>7, <1>8, <1>9, <1>10, <1>11, <1>12, <1>13 DEF Next, Worker, CheckRange

-----------------------------------------------------------------------------
(***************************************************************************)
(* What is recorded as executed stays.                                     *)
(***************************************************************************)
\* The batch of the last correct block survives, or else the one before it:
\* no batch recorded as executed is above.
LEMMA KeptBatches ==
    ASSUME TypeOK, TableInv, ExecutedInv, handler \in {"searching", "deleting"},
           At(stored, lo) # NoBlock, NEW n \in executedRows
    PROVE  n <= LastCorrectBatch(Batch[At(stored, lo)])
<1> DEFINE x == At(stored, lo)
<1>1. x \in stored /\ Number[x] = lo
    BY AtType DEF TypeOK
<1>2. PICK b \in stored : Batch[b] = n
    BY DEF ExecutedInv
<1>3. Number[b] <= Number[x]
    BY <1>1, <1>2 DEF ExecutedInv
<1>4. n <= Batch[x]
    BY <1>1, <1>2, <1>3, BatchGrows, BlockSyncAssumption DEF TypeOK, TableInv
<1>5. n \in Nat /\ Batch[x] \in Nat
    BY <1>1, <1>2, BlockTreeAssumption DEF TypeOK
<1>6. n = Batch[x] => batchRoot[Batch[x]] = ChainRoot(Batch[x])
    BY DEF ExecutedInv
<1> HIDE DEF x
<1>7. n <= LastCorrectBatch(Batch[x])
    BY <1>4, <1>5, <1>6 DEF LastCorrectBatch
<1> QED
    BY <1>7 DEF x

\* A revert keeps all the rows of executed batches, and their blocks.
LEMMA DeleteKeepsExecuted ==
    ASSUME TypeOK, ExecutedInv, handler = "deleting", DeleteReverted
    PROVE  /\ executedRows' = executedRows
           /\ \A n \in executedRows : batchRoot'[n] = batchRoot[n]
           /\ \A b \in stored : Batch[b] \in executedRows => b \in stored'
<1>1. \A n \in executedRows : n <= keepBatch /\ n \in BatchNumbers /\ n \in Nat
    BY BlockTreeAssumption DEF TypeOK, ExecutedInv, BatchNumbers
<1>2. executedRows' = executedRows
    BY <1>1 DEF DeleteReverted
<1>3. \A n \in executedRows : ~(n > keepBatch)
    BY <1>1 DEF TypeOK
<1>4. \A n \in executedRows : batchRoot'[n] = batchRoot[n]
    BY <1>1, <1>3 DEF DeleteReverted
<1>5. \A b \in stored : Batch[b] \in executedRows => b \in stored'
    BY DEF ExecutedInv, DeleteReverted, UpTo
<1> QED
    BY <1>2, <1>4, <1>5

LEMMA ExecutedStep ==
    ASSUME IInv, [Next]_vars
    PROVE  ExecutedInv'
<1>1. TypeOK /\ TypeOK' /\ TableInv /\ HandlerInv /\ ExecutedInv
    BY TypeStep DEF IInv
<1>2. \A n \in executedRows : n \in Nat
    BY <1>1, BlockTreeAssumption DEF TypeOK, BatchNumbers
<1>3. \A n \in executedRows : ChainExecuted(n)' /\ ChainRoot(n)' = batchRoot[n]
    BY <1>1, <1>2, ExecutedStays DEF ExecutedInv
\* Rows and blocks of executed batches stay, and no batch becomes one of them.
<1>4. ASSUME executedRows' = executedRows,
             \A n \in executedRows : batchRoot'[n] = batchRoot[n],
             \A b \in stored : Batch[b] \in executedRows => b \in stored'
      PROVE  \A n \in executedRows' : /\ ChainExecuted(n)'
                                      /\ batchRoot'[n] = ChainRoot(n)'
                                      /\ \E b \in stored' : Batch[b] = n
    BY <1>1, <1>3, <1>4 DEF ExecutedInv
<1>5. ASSUME executedRows' = executedRows,
             \A n \in executedRows : batchRoot'[n] = batchRoot[n],
             \A b \in stored : Batch[b] \in executedRows => b \in stored',
             handler' \in {"none", "stopping"}
      PROVE  ExecutedInv'
    BY <1>4, <1>5 DEF ExecutedInv
<1>6. ASSUME UNCHANGED dbVars, handler' \in {"none", "stopping"}
      PROVE  ExecutedInv'
    BY <1>5, <1>6 DEF dbVars
<1>7. ASSUME UNCHANGED <<dbVars, handlerVars>>
      PROVE  ExecutedInv'
    <2>1. \A n \in executedRows' : /\ ChainExecuted(n)'
                                   /\ batchRoot'[n] = ChainRoot(n)'
                                   /\ \E b \in stored' : Batch[b] = n
        BY <1>4, <1>7 DEF dbVars
    <2>2. UNCHANGED <<stored, executedRows, handler, lo, keepBatch>>
        BY <1>7 DEF dbVars, handlerVars
    <2> QED
        BY <1>1, <2>1, <2>2 DEF ExecutedInv
<1>8. CASE UNCHANGED vars \/ Chain \/ Watcher \/ Restart
    BY <1>7, <1>8 DEF vars, Chain, ProduceBlock, RevertChain, ExecuteBatch, Watcher, WatcherInit,
       OnBlock, Restart
<1>9. ASSUME TriggerRevert \/ UNCHANGED <<running, handlerVars>>, UNCHANGED dbVars
      PROVE  ExecutedInv'
    <2>1. CASE UNCHANGED handlerVars
        BY <1>7, <1>9, <2>1
    <2>2. CASE ~UNCHANGED handlerVars
        BY <1>6, <1>9, <2>2 DEF TriggerRevert
    <2> QED
        BY <2>1, <2>2
<1>10. ASSUME worker = "writing", stored' = stored \cup Chunk(next),
              UNCHANGED <<batchRoot, executedRows, handlerVars>>
       PROVE  ExecutedInv'
    <2>1. handler' \in {"none", "stopping"}
        BY <1>1, <1>10 DEF TypeOK, HandlerInv, handlerVars
    <2> QED
        BY <1>5, <1>10, <2>1
<1>11. CASE Worker
    <2>1. CASE RevertOnFirstBlock \/ CompareHead
        BY <1>9, <2>1 DEF RevertOnFirstBlock, CompareHead
    <2>2. CASE CommitChunk
        BY <1>10, <2>2 DEF CommitChunk
    <2>3. CASE StartIteration \/ MissingBlockThrows \/ RangeNotLinked \/ StartTransactions
               \/ WorkerStops
        BY <1>7, <2>3 DEF StartIteration, MissingBlockThrows, RangeNotLinked, StartTransactions,
           WorkerStops
    <2>4. ASSUME NEW n, FetchBlock(n) \/ InsertChunk(n) PROVE ExecutedInv'
        BY <1>7, <2>4 DEF FetchBlock, InsertChunk
    <2> QED
        BY <1>11, <2>1, <2>2, <2>3, <2>4 DEF Worker, CheckRange
<1>12. ASSUME handler = "deleting", DeleteReverted, handler' = "none"
       PROVE  ExecutedInv'
    BY <1>1, <1>5, <1>12, DeleteKeepsExecuted
<1>13. ASSUME UNCHANGED dbVars
       PROVE  \A n \in executedRows' : /\ ChainExecuted(n)'
                                       /\ batchRoot'[n] = ChainRoot(n)'
                                       /\ \E b \in stored' : Batch[b] = n
    BY <1>4, <1>13 DEF dbVars
<1>14. CASE Handler
    <2>1. CASE StartSearch
        <3>1. \A b \in stored : Batch[b] \in executedRows => Number[b] <= LastExecutedBlockNumber
            BY <1>1, LastExecutedType DEF TypeOK, TableInv
        <3>2. /\ handler' = "searching" /\ lo' = LastExecutedBlockNumber
              /\ UNCHANGED dbVars
            BY <2>1 DEF StartSearch
        <3> QED
            BY <1>13, <3>1, <3>2 DEF ExecutedInv, dbVars
    <2>2. CASE Probe /\ handler = "searching" /\ hi > lo + 1
        <3>1. UNCHANGED <<dbVars, handler>> /\ lo <= lo'
            BY <1>1, <2>2 DEF TypeOK, Probe, Mid
        <3>2. \A b \in stored : Batch[b] \in executedRows => Number[b] <= lo'
            BY <1>1, <2>2, <3>1, BlockTreeAssumption DEF TypeOK, ExecutedInv
        <3> QED
            BY <1>13, <2>2, <3>1, <3>2 DEF ExecutedInv, dbVars
    <2>3. CASE RevertThrows
        BY <1>6, <2>3 DEF RevertThrows, Exit
    <2>4. CASE FinishSearch /\ ~RevertThrows
        <3>1. /\ handler = "searching" /\ handler' = "deleting" /\ lo' = lo
              /\ At(stored, lo) # NoBlock /\ UNCHANGED dbVars
              /\ keepBatch' = LastCorrectBatch(Batch[At(stored, lo)])
            BY <2>4 DEF FinishSearch
        <3>2. \A n \in executedRows : n <= keepBatch'
            BY <1>1, <3>1, KeptBatches
        <3>3. \A b \in stored : Batch[b] \in executedRows => Number[b] <= lo
            BY <1>1, <3>1 DEF ExecutedInv
        <3> QED
            BY <1>13, <3>1, <3>2, <3>3 DEF ExecutedInv, dbVars
    <2>5. CASE FinishRevert
        BY <1>12, <2>5 DEF FinishRevert
    <2> QED
        BY <1>14, <2>1, <2>2, <2>3, <2>4, <2>5 DEF Handler, SearchStep
<1>15. ASSUME NEW n \in BatchNumbers, RecordBatch(n) PROVE ExecutedInv'
    <2>1. n \notin executedRows
        BY <1>1, <1>15 DEF RecordBatch, ExecutedInv
    <2>2. /\ UNCHANGED <<stored, executedRows, handlerVars>>
          /\ \A m \in executedRows : batchRoot'[m] = batchRoot[m]
        BY <1>1, <1>15, <2>1 DEF TypeOK, RecordBatch
    <2>3. handler' = "none"
        BY <1>1, <1>15, <2>2 DEF TypeOK, HandlerInv, RecordBatch, handlerVars
    <2> QED
        BY <1>5, <2>2, <2>3
<1>16. ASSUME NEW n \in BatchNumbers, RecordExecutedBatch(n) PROVE ExecutedInv'
    <2>1. n \in Nat /\ ChainExecuted(n)
        BY <1>16, BlockTreeAssumption DEF BatchNumbers, RecordExecutedBatch
    <2>2. ChainExecuted(n)' /\ ChainRoot(n)' = ChainRoot(n)
        BY <2>1, ExecutedStays
    <2>3. /\ batchRoot' = [batchRoot EXCEPT ![n] = ChainRoot(n)]
          /\ executedRows' = executedRows \cup {n} /\ stored' = stored
          /\ handler' = handler /\ running
        BY <1>16 DEF RecordExecutedBatch, handlerVars
    <2>4. \E b \in stored : Batch[b] = n
        <3> DEFINE S == {b \in stored : Batch[b] = n}
        <3>1. Bounded(S) /\ S \subseteq Blocks
            BY <1>1, BoundedSubset DEF TypeOK, TableInv
        <3>2. Last(S) # NoBlock
            BY <1>16 DEF RecordExecutedBatch, BatchBlocksCorrect
        <3>3. S # {}
            BY <3>1, <3>2, LastType
        <3> QED
            BY <3>3
    <2>5. handler' = "none"
        BY <1>1, <2>3 DEF HandlerInv
    <2>6. batchRoot'[n] = ChainRoot(n) /\ \A m \in executedRows \ {n} : batchRoot'[m] = batchRoot[m]
        BY <1>1, <2>3 DEF TypeOK
    <2>7. ASSUME NEW m \in executedRows'
          PROVE  /\ ChainExecuted(m)' /\ batchRoot'[m] = ChainRoot(m)'
                 /\ \E b \in stored' : Batch[b] = m
        <3>1. CASE m = n
            BY <2>2, <2>3, <2>4, <2>6, <3>1
        <3>2. CASE m # n
            BY <1>1, <1>3, <2>3, <2>6, <2>7, <3>2 DEF ExecutedInv
        <3> QED
            BY <3>1, <3>2
    <2> QED
        BY <2>5, <2>7 DEF ExecutedInv
<1>17. CASE Fault
    <2>1. CASE WriteFails
        BY <1>7, <2>1 DEF WriteFails
    <2>2. CASE CommitFails
        <3>1. CASE stored' = stored
            BY <1>7, <2>2, <3>1 DEF CommitFails, dbVars
        <3>2. CASE stored' = stored \cup Chunk(next)
            BY <1>10, <2>2, <3>2 DEF CommitFails
        <3> QED
            BY <2>2, <3>1, <3>2 DEF CommitFails
    <2>3. CASE Crash
        BY <1>6, <2>3 DEF Crash, Exit
    <2>4. CASE RevertFails
        BY <1>6, <1>12, <2>4 DEF RevertFails, Exit
    <2> QED
        BY <1>17, <2>1, <2>2, <2>3, <2>4 DEF Fault
<1> QED
    BY <1>8, <1>11, <1>14, <1>15, <1>16, <1>17 DEF Next, BatchWorkers

-----------------------------------------------------------------------------
(***************************************************************************)
(* The invariant holds.                                                    *)
(***************************************************************************)
LEMMA InitInv ==
    ASSUME Init
    PROVE  IInv /\ FinalInv /\ SearchInv
<1>1. PICK g \in Blocks : Number[g] = 0 /\ Batch[g] = 0
    BY BlockTreeAssumption
<1>2. canon = {g} /\ execHeight = 0
    BY <1>1, BlockTreeAssumption DEF Init
<1>3. TypeOK
    <2>1. batchRoot \in [BatchNumbers -> Blocks \cup {NoBlock}]
        BY DEF Init
    <2>2. /\ DOMAIN fetched = {}
          /\ fetched \in [DOMAIN fetched -> Blocks \cup {NoBlock, Pending}]
        BY DEF Init
    <2>3. /\ canon \subseteq Blocks /\ execHeight = 0 /\ stored = {} /\ executedRows = {}
          /\ tip = Null /\ worker = "idle" /\ head = NoBlock
          /\ inserted = {} /\ next = 0 /\ handler = "none"
          /\ lo = 0 /\ hi = 0 /\ keepBatch = 0
        BY DEF Init
    <2>4. running \in BOOLEAN /\ chainMoved \in BOOLEAN
        BY DEF Init
    <2> QED
        BY <2>1, <2>2, <2>3, <2>4 DEF TypeOK
<1>4. At(canon, 0) = g
    BY <1>1, <1>2 DEF At
<1>5. ChainInv
    BY <1>1, <1>2, <1>4, BlockTreeAssumption DEF ChainInv, Bounded, Linked
<1>6. TableInv
    BY DEF Init, TableInv, Bounded, Linked, InRange
<1>7. IterationInv /\ HandlerInv /\ ExecutedInv /\ FinalInv /\ SearchInv
    BY DEF Init, IterationInv, HandlerInv, ExecutedInv, FinalInv, SearchInv
<1> QED
    BY <1>3, <1>5, <1>6, <1>7 DEF IInv

LEMMA StepInv ==
    ASSUME IInv, [Next]_vars
    PROVE  IInv'
BY TypeStep, ExecutedStays, TableStep, IterationStep, HandlerStep, ExecutedStep DEF IInv

THEOREM Inductive == Spec => []IInv
<1>1. Init => IInv
    BY InitInv
<1>2. IInv /\ [Next]_vars => IInv'
    BY StepInv
<1> QED
    BY <1>1, <1>2, PTL DEF Spec

-----------------------------------------------------------------------------
(***************************************************************************)
(* The theorems.                                                           *)
(***************************************************************************)
\* Every variable keeps its type: no handler, iteration or fault computes a
\* block number from a row that is not there.
THEOREM TypeCorrect == Spec => []TypeOK
<1>1. IInv => TypeOK
    BY DEF IInv
<1> QED
    BY <1>1, Inductive, PTL

\* The `blocks` table is one unbroken branch at all times, for any chain, any
\* batch and chunk size, and wherever a commit fails or the process dies.
THEOREM BranchUnbroken == Spec => []DbLinked
<1>1. IInv => DbLinked
    BY DEF IInv, TableInv, DbLinked
<1> QED
    BY <1>1, Inductive, PTL

\* No step deletes what the database says is executed.
THEOREM NothingExecutedIsLost == Spec => ExecutedKept
<1> DEFINE Kept == /\ executedRows \subseteq executedRows'
                   /\ \A b \in stored : Batch[b] \in executedRows => b \in stored'
<1>1. IInv /\ [Next]_vars => [Kept]_vars
    <2> SUFFICES ASSUME IInv, [Next]_vars PROVE Kept
        OBVIOUS
    <2>1. CASE handler = "deleting" /\ DeleteReverted
        BY <2>1, DeleteKeepsExecuted DEF IInv
    <2>2. CASE ~(handler = "deleting" /\ DeleteReverted)
        <3>1. stored \subseteq stored'
            BY <2>2, TableSteps
        <3>2. executedRows \subseteq executedRows'
            BY <2>2, RowSteps DEF RecordBatch, RecordExecutedBatch
        <3> QED
            BY <3>1, <3>2
    <2> QED
        BY <2>1, <2>2
<1> QED
    BY <1>1, Inductive, PTL DEF Spec, ExecutedKept

\* In the words of the abstract specification: every step of the system extends
\* the table at its end, truncates it above all that is final, records one more
\* final batch, or is not seen by a reader of the table.
THEOREM ImplementsMirror == Spec => MirrorsChain
<1>1. Init => Mirror!MirrorInit
    BY DEF Init, Mirror!MirrorInit
<1>2. IInv /\ [Next]_vars => [Mirror!MirrorNext]_(Mirror!mirrorVars)
    <2> SUFFICES ASSUME IInv, [Next]_vars, ~UNCHANGED <<stored, executedRows>>
                 PROVE  Mirror!MirrorNext
        BY DEF Mirror!mirrorVars
    <2>1. TypeOK /\ TypeOK' /\ TableInv' /\ ExecutedInv
        BY StepInv DEF IInv
    <2>2. CASE worker = "writing" /\ stored' = stored \cup Chunk(next)
               /\ (CommitChunk \/ CommitFails)
        <3>1. \A b \in stored' \ stored, c \in stored : Number[c] < Number[b]
            BY <2>2, ChunkContinues
        <3>2. executedRows' = executedRows
            BY <2>2 DEF CommitChunk, CommitFails
        <3>3. Mirror!Linked(stored', FromBlock)
            BY <2>1 DEF TableInv, Linked, Mirror!Linked
        <3>4. Mirror!Extend
            BY <2>1, <2>2, <3>1, <3>2, <3>3 DEF TypeOK, Mirror!Extend
        <3> QED
            BY <3>4 DEF Mirror!MirrorNext
    <2>3. CASE handler = "deleting" /\ DeleteReverted
        <3>1. /\ executedRows' = executedRows
              /\ \A b \in stored : Batch[b] \in executedRows => b \in stored'
            BY <2>1, <2>3, DeleteKeepsExecuted
        <3>2. lo \in {Number[b] : b \in Blocks}
            BY <2>1, <2>3, AtType DEF TypeOK, ExecutedInv
        <3>3. stored' = Mirror!UpTo(stored, lo)
            BY <2>3 DEF DeleteReverted, UpTo, Mirror!UpTo
        <3>4. Mirror!FinalBlocks \subseteq stored'
            BY <3>1 DEF Mirror!FinalBlocks
        <3>5. Mirror!Truncate
            BY <3>1, <3>2, <3>3, <3>4 DEF Mirror!Truncate
        <3> QED
            BY <3>5 DEF Mirror!MirrorNext
    <2>4. ASSUME NEW n \in BatchNumbers, RecordBatch(n) \/ RecordExecutedBatch(n)
          PROVE  Mirror!MirrorNext
        <3>1. Mirror!Finalise(n)
            BY <2>4 DEF RecordBatch, RecordExecutedBatch, Mirror!Finalise
        <3> QED
            BY <3>1 DEF BatchNumbers, Mirror!MirrorNext
    <2>5. CASE stored' = stored
        BY <2>3, <2>4, <2>5, RowSteps
    <2> QED
        BY <2>2, <2>3, <2>5, TableSteps
<1> QED
    BY <1>1, <1>2, Inductive, PTL DEF Spec, MirrorsChain, Mirror!MirrorSpec

-----------------------------------------------------------------------------
(***************************************************************************)
(* What is recorded as executed is canonical, when the chain executes      *)
(* slowly.                                                                 *)
(***************************************************************************)
\* Recording a batch as executed looks at its last stored block only: if that
\* one is canonical, so is all that the branch has below.
LEMMA RecordChecksAll ==
    ASSUME TypeOK, ChainInv, TableInv, NEW n, BatchBlocksCorrect(n),
           NEW b \in stored, Batch[b] = n
    PROVE  b \in canon
<1> DEFINE S == {c \in stored : Batch[c] = n}
           last == Last(S)
<1>1. S \subseteq Blocks /\ S # {} /\ Bounded(S) /\ b \in S
    BY BoundedSubset DEF TypeOK, TableInv
<1>2. last \in S /\ Number[b] <= Number[last]
    BY <1>1, LastIsGreatest
<1>3. last # NoBlock /\ At(canon, Number[last]) = last
    BY DEF BatchBlocksCorrect
<1> HIDE DEF last
<1>4. last \in canon /\ last \in stored
    BY <1>2, <1>3, AtType DEF TypeOK
<1>5. Linked(stored, FromBlock) /\ Linked(canon, 0)
    BY DEF TableInv, ChainInv
<1>6. FromBlock \in Nat /\ 0 \in Nat /\ 0 <= FromBlock
    BY BlockSyncAssumption
<1> QED
    BY <1>2, <1>4, <1>5, <1>6, SharedBelow DEF TypeOK

\* Which batches are executed changes only when the chain executes one.
LEMMA ExecutedSame ==
    ASSUME IInv, [Next]_vars, ~ExecuteBatch, NEW n
    PROVE  ChainExecuted(n)' <=> ChainExecuted(n)
<1>1. TypeOK /\ ChainInv /\ TypeOK' /\ ChainInv'
    BY StepInv DEF IInv
<1>2. PICK e \in canon :
              /\ Number[e] = execHeight
              /\ At(canon, execHeight) = e
              /\ \A m : ChainExecuted(m) <=> m <= Batch[e]
    BY <1>1, ExecutedBlock DEF TypeOK
<1>3. e \in canon'
    BY <1>1, <1>2, ExecutedStays, BlockTreeAssumption DEF TypeOK
<1>4. execHeight' = execHeight
    BY OthersKeepChain DEF Chain, ProduceBlock, RevertChain, chainVars
<1>5. At(canon', execHeight') = e
    BY <1>1, <1>2, <1>3, <1>4, AtOwnNumber DEF TypeOK, ChainInv
<1> QED
    BY <1>2, <1>5 DEF ChainExecuted

LEMMA FinalStep ==
    ASSUME SlowExecution, IInv, FinalInv, [Next]_vars
    PROVE  FinalInv'
<1>1. TypeOK /\ ChainInv /\ TableInv /\ ExecutedInv
    BY DEF IInv
<1> DEFINE Held(b) == \E n \in DOMAIN fetched : fetched[n] = b
           HeldAfter(b) == \E n \in DOMAIN fetched' : fetched'[n] = b
\* What the iteration holds afterwards it held before, or is canonical.
<1>2. ASSUME NEW b \in Blocks, HeldAfter(b) PROVE Held(b) \/ b \in canon'
    <2>1. CASE UNCHANGED fetched
        BY <1>2, <2>1
    <2>2. CASE EndIteration \/ Exit
        BY <1>2, <2>2 DEF EndIteration, Exit
    <2>3. CASE StartIteration
        BY <1>2, <2>3, BlockSyncAssumption DEF StartIteration
    <2>4. ASSUME NEW n \in DOMAIN fetched, FetchBlock(n) PROVE Held(b) \/ b \in canon'
        <3>1. fetched' = [fetched EXCEPT ![n] = At(canon, n)] /\ canon' = canon
            BY <2>4 DEF FetchBlock, chainVars
        <3>2. PICK m \in DOMAIN fetched : fetched'[m] = b
            BY <1>2, <3>1
        <3>3. CASE m = n
            BY <1>1, <3>1, <3>2, <3>3, AtType, BlockTreeAssumption DEF TypeOK
        <3>4. CASE m # n
            BY <3>1, <3>2, <3>4
        <3> QED
            BY <3>3, <3>4
    <2>5. CASE Worker /\ ~StartIteration /\ ~(\E n \in DOMAIN fetched : FetchBlock(n))
        BY <2>1, <2>2, <2>5 DEF Worker, CheckRange, RevertOnFirstBlock, MissingBlockThrows,
           RangeNotLinked, StartTransactions, CompareHead, InsertChunk, CommitChunk, WorkerStops,
           iterVars
    <2>6. CASE UNCHANGED vars \/ Chain \/ Watcher \/ BatchWorkers \/ Restart
        BY <2>1, <2>6 DEF vars, iterVars, Chain, ProduceBlock, RevertChain, ExecuteBatch,
           Watcher, WatcherInit, OnBlock, BatchWorkers, RecordBatch, RecordExecutedBatch, Restart
    <2>7. CASE Handler \/ Fault
        BY <2>1, <2>2, <2>7 DEF Handler, StartSearch, SearchStep, RevertThrows, Probe,
           FinishSearch, FinishRevert, iterVars, Fault, WriteFails, CommitFails, Crash, RevertFails
    <2> QED
        BY <2>3, <2>4, <2>5, <2>6, <2>7 DEF Next
\* A canonical block that is reverted is of no executed batch.
<1>3. \A b \in canon \ canon' : ~ChainExecuted(Batch[b])
    BY ExecutedStays
<1>4. ASSUME NEW b \in Blocks, HeldAfter(b), b \notin canon'
      PROVE  ~ChainExecuted(Batch[b])'
    <2>1. Held(b)
        BY <1>2, <1>4
    <2>2. CASE ~ExecuteBatch
        <3>1. ~ChainExecuted(Batch[b])
            BY <1>3, <1>4, <2>1 DEF FinalInv
        <3>2. ChainExecuted(Batch[b])' <=> ChainExecuted(Batch[b])
            BY <2>2, ExecutedSame
        <3> QED
            BY <3>1, <3>2
    <2>3. CASE ExecuteBatch
        BY <1>4, <2>1, <2>3 DEF ExecuteBatch, HoldsReverted
    <2> QED
        BY <2>2, <2>3
<1>5. ASSUME NEW b \in stored', Batch[b] \in executedRows' PROVE b \in canon'
    <2>1. CASE b \in stored /\ Batch[b] \in executedRows
        <3>1. b \in canon /\ ChainExecuted(Batch[b])
            BY <1>1, <2>1 DEF FinalInv, ExecutedInv
        <3> QED
            BY <3>1, ExecutedStays
    <2>2. CASE b \notin stored
        <3>1. /\ worker = "writing" /\ b \in Chunk(next)
              /\ CommitChunk \/ CommitFails
            BY <1>5, <2>2, TableSteps DEF DeleteReverted, UpTo
        <3>2. executedRows' = executedRows /\ canon' = canon
            BY <3>1 DEF CommitChunk, CommitFails, chainVars
        <3>3. ChainExecuted(Batch[b])
            BY <1>1, <1>5, <3>2 DEF ExecutedInv
        <3>4. b \in Blocks /\ Held(b)
            BY <3>1, ChunkContinues DEF Chunk
        <3> QED
            BY <3>2, <3>3, <3>4 DEF FinalInv
    <2>3. CASE b \in stored /\ Batch[b] \notin executedRows
        <3>1. Batch[b] \in BatchNumbers
            BY <1>1, <2>3 DEF TypeOK, BatchNumbers
        <3>2. PICK n \in BatchNumbers : RecordBatch(n) \/ RecordExecutedBatch(n)
            BY <1>5, <2>3, RowSteps DEF DeleteReverted
        <3>3. RecordExecutedBatch(n) /\ Batch[b] = n
            BY <1>5, <2>3, <3>2 DEF RecordBatch, RecordExecutedBatch
        <3>4. BatchBlocksCorrect(n) /\ canon' = canon
            BY <3>3 DEF RecordExecutedBatch, chainVars
        <3> QED
            BY <1>1, <2>3, <3>3, <3>4, RecordChecksAll
    <2> QED
        BY <2>1, <2>2, <2>3
<1>6. \A n \in DOMAIN fetched' : fetched'[n] \in Blocks \ canon' =>
         ~(Batch[fetched'[n]] <= Batch[At(canon', execHeight')])
    BY <1>4 DEF ChainExecuted
<1> QED
    BY <1>5, <1>6 DEF FinalInv, ChainExecuted

\* A row of an executed batch has the root of the batch on the chain, and all
\* its stored blocks are canonical, for ever: what the search for the last
\* correct block starts from needs no check.  It holds only if the chain does
\* not execute a batch while the worker holds blocks that were reverted.
THEOREM ExecutedIsFinal ==
    ASSUME SlowExecution
    PROVE  Spec => []ExecutedRowsCorrect
<1>1. Init => FinalInv
    BY InitInv
<1>2. IInv /\ FinalInv /\ [Next]_vars => FinalInv'
    BY FinalStep
<1>3. IInv /\ FinalInv => ExecutedRowsCorrect
    BY DEF IInv, ExecutedInv, FinalInv, ExecutedRowsCorrect
<1> QED
    BY <1>1, <1>2, <1>3, Inductive, PTL DEF Spec

-----------------------------------------------------------------------------
(***************************************************************************)
(* The search starts at a row of the table.                                *)
(***************************************************************************)
LEMMA SearchInvStep ==
    ASSUME FromBlock = 0, IInv, SearchInv, [Next]_vars
    PROVE  SearchInv'
<1>1. TypeOK /\ TableInv /\ IterationInv /\ HandlerInv
    BY DEF IInv
<1>2. ASSUME UNCHANGED <<stored, handler, lo>> PROVE SearchInv'
    BY <1>2 DEF SearchInv
<1>3. ASSUME handler' \in {"none", "deleting"} PROVE SearchInv'
    BY <1>3 DEF SearchInv
<1>4. CASE UNCHANGED vars \/ Chain \/ Watcher \/ BatchWorkers \/ Restart
    BY <1>2, <1>4 DEF vars, dbVars, handlerVars, Chain, ProduceBlock, RevertChain, ExecuteBatch,
       Watcher, WatcherInit, OnBlock, BatchWorkers, RecordBatch, RecordExecutedBatch, Restart
<1>5. ASSUME worker \in {"fetching", "comparing"}, head # NoBlock, stored' = stored,
             TriggerRevert
      PROVE  SearchInv'
    <2>1. stored # {}
        BY <1>1, <1>5, LastType DEF TypeOK, TableInv, IterationInv
    <2> QED
        BY <1>2, <1>5, <2>1 DEF TriggerRevert, SearchInv, handlerVars
<1>6. ASSUME worker = "writing", stored \subseteq stored', UNCHANGED handlerVars
      PROVE  SearchInv'
    BY <1>1, <1>6 DEF SearchInv, HandlerInv, handlerVars
<1>7. CASE Worker
    <2>1. CASE RevertOnFirstBlock
        BY <1>5, <2>1 DEF RevertOnFirstBlock, FirstUnlinked, AllFetched, dbVars
    <2>2. CASE CompareHead
        <3>1. CASE TriggerRevert
            BY <1>1, <1>5, <2>2, <3>1 DEF CompareHead, IterationInv, dbVars
        <3>2. CASE ~TriggerRevert
            BY <1>2, <2>2, <3>2 DEF CompareHead, dbVars, handlerVars
        <3> QED
            BY <3>1, <3>2
    <2>3. CASE CommitChunk
        BY <1>6, <2>3 DEF CommitChunk
    <2>4. CASE StartIteration \/ MissingBlockThrows \/ RangeNotLinked \/ StartTransactions
               \/ WorkerStops
        BY <1>2, <2>4 DEF StartIteration, MissingBlockThrows, RangeNotLinked, StartTransactions,
           WorkerStops, dbVars, handlerVars
    <2>5. ASSUME NEW n, FetchBlock(n) \/ InsertChunk(n) PROVE SearchInv'
        BY <1>2, <2>5 DEF FetchBlock, InsertChunk, dbVars, handlerVars
    <2> QED
        BY <1>7, <2>1, <2>2, <2>3, <2>4, <2>5 DEF Worker, CheckRange
<1>8. CASE StartSearch
    <2> DEFINE S == {b \in stored : Batch[b] \in executedRows}
    <2>1. handler = "stopping" /\ stored' = stored /\ lo' = LastExecutedBlockNumber
          /\ handler' = "searching"
        BY <1>8 DEF StartSearch, dbVars
    <2>2. \E b \in stored : Number[b] = lo'
        <3>1. CASE S = {}
            <4>1. stored # {} /\ lo' = 0 /\ 0 \in Nat
                BY <2>1, <3>1 DEF SearchInv, LastExecutedBlockNumber
            <4>2. \E b \in stored : Number[b] = FromBlock
                BY <1>1, <4>1, SegmentStarts DEF TypeOK, TableInv
            <4> QED
                BY <4>1, <4>2
        <3>2. CASE S # {}
            <4>1. Bounded(S) /\ S \subseteq Blocks
                BY <1>1, BoundedSubset DEF TypeOK, TableInv
            <4>2. Last(S) \in stored
                BY <3>2, <4>1, LastIsGreatest
            <4>3. lo' = Number[Last(S)]
                BY <2>1, <3>2 DEF LastExecutedBlockNumber
            <4> QED
                BY <4>2, <4>3
        <3> QED
            BY <3>1, <3>2
    <2>3. At(stored, lo') # NoBlock
        BY <1>1, <2>2, AtType DEF TypeOK
    <2> QED
        BY <2>1, <2>3 DEF SearchInv
<1>9. CASE SearchStep
    <2>1. CASE RevertThrows
        BY <1>3, <2>1 DEF RevertThrows, Exit
    <2>2. CASE ~RevertThrows
        BY <1>9, <2>2 DEF SearchStep, Probe, SearchInv, dbVars
    <2> QED
        BY <2>1, <2>2
<1>10. CASE FinishSearch \/ FinishRevert
    BY <1>3, <1>10 DEF FinishSearch, RevertThrows, Exit, FinishRevert
<1>11. CASE Fault
    <2>1. CASE WriteFails
        BY <1>2, <2>1 DEF WriteFails, dbVars, handlerVars
    <2>2. CASE CommitFails
        BY <1>6, <2>2 DEF CommitFails
    <2>3. CASE Crash \/ RevertFails
        BY <1>3, <2>3 DEF Crash, RevertFails, Exit
    <2> QED
        BY <1>11, <2>1, <2>2, <2>3 DEF Fault
<1> QED
    BY <1>4, <1>7, <1>8, <1>9, <1>10, <1>11 DEF Next, Handler

\* When blocks are indexed from the genesis block, the revert never reads a row
\* that is not there: not even when no batch is executed yet.
THEOREM SearchHasRow ==
    ASSUME FromBlock = 0
    PROVE  Spec => []SearchStartsAtRow
<1>1. Init => SearchInv
    BY InitInv
<1>2. IInv /\ SearchInv /\ [Next]_vars => SearchInv'
    BY SearchInvStep
<1>3. SearchInv => SearchStartsAtRow
    BY DEF SearchInv, SearchStartsAtRow
<1> QED
    BY <1>1, <1>2, <1>3, Inductive, PTL DEF Spec

-----------------------------------------------------------------------------
(***************************************************************************)
(* A revert advances.                                                      *)
(***************************************************************************)
\* No iteration is under way during a revert, and a process that is down has
\* no handler.
LEMMA NoIterationMeanwhile ==
    ASSUME TypeOK, HandlerInv, StopInv
    PROVE  worker \in {"fetching", "comparing", "writing", "down"} => handler = "none"
BY DEF TypeOK, HandlerInv, StopInv

LEMMA StopStep ==
    ASSUME IInv, StopInv, [Next]_vars
    PROVE  StopInv'
<1>1. TypeOK /\ HandlerInv
    BY DEF IInv
<1>2. worker \in {"fetching", "comparing", "writing", "down"} => handler = "none"
    BY <1>1, NoIterationMeanwhile
<1>3. ASSUME worker' = "idle" \/ handler' # "stopping" PROVE StopInv'
    BY <1>3 DEF StopInv
<1>4. CASE UNCHANGED vars \/ Chain \/ Watcher \/ BatchWorkers
    BY <1>4 DEF StopInv, vars, handlerVars, Chain, ProduceBlock, RevertChain,
       ExecuteBatch, Watcher, WatcherInit, OnBlock, BatchWorkers, RecordBatch,
       RecordExecutedBatch
<1>5. CASE Worker
    <2>1. CASE RevertOnFirstBlock \/ MissingBlockThrows \/ RangeNotLinked \/ CompareHead
        BY <1>3, <2>1 DEF RevertOnFirstBlock, MissingBlockThrows, RangeNotLinked,
           CompareHead, EndIteration
    <2>2. CASE StartIteration \/ StartTransactions
        BY <1>1, <1>2, <2>2 DEF StopInv, HandlerInv, StartIteration, StartTransactions,
           AllFetched, handlerVars
    <2>3. ASSUME NEW n, FetchBlock(n) \/ InsertChunk(n) PROVE StopInv'
        BY <2>3 DEF StopInv, FetchBlock, InsertChunk, handlerVars
    <2>4. CASE CommitChunk
        BY <1>2, <2>4 DEF StopInv, CommitChunk, handlerVars
    <2>5. CASE WorkerStops
        BY <2>5 DEF StopInv, WorkerStops
    <2> QED
        BY <1>5, <2>1, <2>2, <2>3, <2>4, <2>5 DEF Worker, CheckRange
<1>6. CASE Handler
    BY <1>3, <1>6 DEF Handler, StartSearch, SearchStep, RevertThrows, Exit, Probe,
       FinishSearch, FinishRevert
<1>7. CASE Fault \/ Restart
    BY <1>3, <1>7 DEF Fault, WriteFails, CommitFails, EndIteration, Crash, RevertFails,
       Exit, Restart
<1> QED
    BY <1>4, <1>5, <1>6, <1>7 DEF Next

LEMMA WorkerStopped == Spec => []StopInv
<1>1. Init => StopInv
    BY DEF Init, StopInv
<1>2. IInv /\ StopInv /\ [Next]_vars => StopInv'
    BY StopStep
<1> QED
    BY <1>1, <1>2, Inductive, PTL DEF Spec

\* Every round of the binary search narrows the interval: its middle is
\* strictly inside.
LEMMA ProbeNarrows ==
    ASSUME lo \in Nat, hi \in Nat, hi > lo + 1, handler = "searching", Probe
    PROVE  RevertLeft' < RevertLeft
<1>1. lo < Mid /\ Mid < hi /\ Mid \in Nat
    BY DEF Mid
<1>2. handler' = "searching" /\ ((lo' = Mid /\ hi' = hi) \/ (hi' = Mid /\ lo' = lo))
    BY DEF Probe
<1>3. RevertLeft = 2 + (hi - lo)
    BY DEF RevertLeft
<1>4. RevertLeft' = 2 + (hi' - lo')
    BY <1>1, <1>2 DEF RevertLeft
<1> QED
    BY <1>1, <1>2, <1>3, <1>4

\* A step that ends the revert, by success or by the end of the process.
LEMMA EndAdvances ==
    ASSUME TypeOK, handler # "none", handler' = "none"
    PROVE  RevertLeft' < RevertLeft
<1>1. RevertLeft' = 0
    BY DEF RevertLeft
<1>2. RevertLeft > 0
    BY DEF TypeOK, RevertLeft
<1> QED
    BY <1>1, <1>2

LEMMA AdvanceStep ==
    ASSUME IInv, StopInv, [Next]_vars, handler # "none"
    PROVE  RevertLeft' < RevertLeft \/ UNCHANGED <<running, worker, handlerVars>>
<1>1. TypeOK /\ TableInv /\ HandlerInv /\ ~running
    BY DEF IInv, HandlerInv
<1>2. worker \notin {"fetching", "comparing", "writing", "down"}
    BY <1>1, NoIterationMeanwhile
<1>3. CASE UNCHANGED vars \/ Chain \/ Watcher \/ BatchWorkers
    BY <1>3 DEF vars, Chain, ProduceBlock, RevertChain, ExecuteBatch, Watcher, WatcherInit,
       OnBlock, BatchWorkers, RecordBatch, RecordExecutedBatch
<1>4. CASE Worker
    <2>1. CASE RevertOnFirstBlock \/ MissingBlockThrows \/ RangeNotLinked \/ CompareHead
               \/ StartIteration \/ StartTransactions \/ CommitChunk
        BY <1>1, <1>2, <2>1 DEF RevertOnFirstBlock, MissingBlockThrows, RangeNotLinked,
           CompareHead, StartIteration, StartTransactions, AllFetched, CommitChunk
    <2>2. ASSUME NEW n, FetchBlock(n) \/ InsertChunk(n) PROVE FALSE
        BY <1>2, <2>2 DEF FetchBlock, InsertChunk
    <2>3. CASE WorkerStops
        <3>1. handler = "stopping" /\ handler' = "stopping" /\ hi' = hi
            BY <1>1, <2>3 DEF TypeOK, HandlerInv, WorkerStops, handlerVars
        <3>2. RevertLeft = hi + 4 /\ RevertLeft' = hi + 3
            BY <2>3, <3>1 DEF RevertLeft, WorkerStops
        <3> QED
            BY <1>1, <3>2 DEF TypeOK
    <2> QED
        BY <1>4, <2>1, <2>2, <2>3 DEF Worker, CheckRange
<1>5. CASE StartSearch
    <2>1. lo' \in Nat /\ hi \in Nat
        BY <1>1, <1>5, LastExecutedType DEF TypeOK, TableInv, StartSearch
    <2>2. RevertLeft = hi + 3
        BY <1>5 DEF RevertLeft, StartSearch
    <2>3. RevertLeft' = 2 + (IF lo' < hi THEN hi - lo' ELSE 0)
        BY <1>5 DEF RevertLeft, StartSearch
    <2>4. \A m, n \in Nat : 2 + (IF m < n THEN n - m ELSE 0) < n + 3
        OBVIOUS
    <2> QED
        BY <2>1, <2>2, <2>3, <2>4
<1>6. CASE SearchStep
    <2>1. CASE RevertThrows
        BY <1>1, <2>1, EndAdvances DEF RevertThrows, Exit
    <2>2. CASE Probe
        BY <1>1, <1>6, <2>2, ProbeNarrows DEF TypeOK, SearchStep
    <2> QED
        BY <1>6, <2>1, <2>2 DEF SearchStep
<1>7. CASE FinishSearch
    <2>1. CASE RevertThrows
        BY <1>1, <2>1, EndAdvances DEF RevertThrows, Exit
    <2>2. CASE handler' = "deleting"
        <3>1. RevertLeft' = 1
            BY <2>2 DEF RevertLeft
        <3>2. RevertLeft \in Nat /\ RevertLeft >= 2
            BY <1>1, <1>7 DEF TypeOK, FinishSearch, RevertLeft
        <3> QED
            BY <3>1, <3>2
    <2> QED
        BY <1>7, <2>1, <2>2 DEF FinishSearch
<1>8. CASE FinishRevert \/ Crash \/ RevertFails
    BY <1>1, <1>8, EndAdvances DEF FinishRevert, Crash, RevertFails, Exit
<1>9. CASE WriteFails \/ CommitFails \/ Restart
    BY <1>2, <1>9 DEF WriteFails, CommitFails, Restart
<1> QED
    BY <1>3, <1>4, <1>5, <1>6, <1>7, <1>8, <1>9 DEF Next, Handler, Fault

\* Nothing holds a revert back and nothing restarts it: from the event to the
\* end of the handler, every step of the worker or the handler brings it nearer
\* to its end, for every range, and whatever the chain and the batch workers do
\* meanwhile.  What fairness must add to RevertEnds is only that it moves.
THEOREM RevertsAdvance == Spec => RevertAdvances
<1>1. IInv /\ StopInv /\ handler # "none" =>
         ~running /\ (worker = "stopped" \/ (worker = "idle" /\ handler = "stopping"))
    BY DEF IInv, TypeOK, HandlerInv, StopInv
<1>2. IInv /\ StopInv /\ [Next]_vars =>
         [handler # "none" =>
            /\ ~running
            /\ worker = "stopped" \/ (worker = "idle" /\ handler = "stopping")
            /\ RevertLeft' < RevertLeft \/ UNCHANGED <<running, worker, handlerVars>>]_vars
    BY <1>1, AdvanceStep
<1> QED
    BY <1>2, Inductive, WorkerStopped, PTL DEF Spec, RevertAdvances

-----------------------------------------------------------------------------
(***************************************************************************)
(* A revert deletes what the chain reverted, and nothing else.             *)
(***************************************************************************)
\* The genesis block is on every chain.
LEMMA GenesisCanonical ==
    ASSUME TypeOK, ChainInv, NEW b \in Blocks, Number[b] = 0
    PROVE  b \in canon
<1>1. canon # {}
    BY AtType DEF TypeOK, ChainInv
<1>2. \E c \in canon : Number[c] = 0
    BY <1>1, SegmentStarts DEF TypeOK, ChainInv
<1> QED
    BY <1>2, BlockTreeAssumption DEF TypeOK

\* A row is canonical if the chain has it at its number.
LEMMA MatchIsCanonical ==
    ASSUME TypeOK, ChainInv, NEW b \in Blocks
    PROVE  b \in canon <=> At(canon, Number[b]) = b
BY AtType, AtOwnNumber, BlockTreeAssumption DEF TypeOK, ChainInv

\* Where the search may start: at the last executed block, which is final, or at
\* the genesis block.
LEMMA SearchStartsCanonical ==
    ASSUME IInv, FinalInv
    PROVE  At(stored, LastExecutedBlockNumber) \in canon \cup {NoBlock}
<1> DEFINE S == {b \in stored : Batch[b] \in executedRows}
<1>1. TypeOK /\ ChainInv /\ TableInv
    BY DEF IInv
<1>2. CASE S = {}
    <2>1. LastExecutedBlockNumber = 0
        BY <1>2 DEF LastExecutedBlockNumber
    <2> QED
        BY <1>1, <2>1, AtType, GenesisCanonical DEF TypeOK
<1>3. CASE S # {}
    <2>1. S \subseteq Blocks /\ Bounded(S)
        BY <1>1, BoundedSubset DEF TypeOK, TableInv
    <2>2. Last(S) \in S /\ LastExecutedBlockNumber = Number[Last(S)]
        BY <1>3, <2>1, LastIsGreatest DEF LastExecutedBlockNumber
    <2>3. At(stored, Number[Last(S)]) = Last(S)
        BY <1>1, <2>2, AtOwnNumber, BlockSyncAssumption DEF TypeOK, TableInv
    <2> QED
        BY <2>2, <2>3 DEF FinalInv
<1> QED
    BY <1>2, <1>3

\* The blocks of the table that the chain has not are those above the last
\* correct one.
LEMMA BoundsArePrecise ==
    ASSUME IInv, PreciseInv, handler = "deleting", ~chainMoved
    PROVE  UpTo(stored, lo) = stored \cap canon
<1> DEFINE l == At(stored, lo)
           h == At(stored, hi)
<1>1. TypeOK /\ ChainInv /\ TableInv /\ ExecutedInv
    BY DEF IInv
<1>2. l \in stored \cap canon /\ Number[l] = lo
    BY <1>1, AtType DEF TypeOK, ExecutedInv, PreciseInv
<1>3. h \in stored \ canon /\ Number[h] = hi /\ hi <= lo + 1
    BY <1>1, AtType, BlockTreeAssumption DEF TypeOK, PreciseInv
<1>4. Linked(stored, FromBlock) /\ Linked(canon, 0) /\ FromBlock \in Nat /\ 0 <= FromBlock
    BY <1>1, BlockSyncAssumption DEF TableInv, ChainInv
<1> HIDE DEF l, h
<1>5. ASSUME NEW b \in stored, Number[b] <= lo PROVE b \in canon
    BY <1>1, <1>2, <1>4, <1>5, SharedBelow DEF TypeOK
<1>6. ASSUME NEW b \in stored \cap canon PROVE Number[b] <= lo
    <2>1. Number[b] \in Nat /\ lo \in Nat /\ hi \in Nat
        BY <1>1, BlockTreeAssumption DEF TypeOK
    <2>2. SUFFICES ASSUME hi <= Number[b] PROVE FALSE
        BY <1>3, <2>1
    <2> QED
        BY <1>1, <1>3, <1>4, <2>2, SharedBelow DEF TypeOK
<1> QED
    BY <1>5, <1>6 DEF UpTo

\* A revert is triggered only by a head that is not canonical.
LEMMA TriggerIsRight ==
    ASSUME IInv, StopInv, PreciseInv, ~chainMoved, RevertOnFirstBlock \/ CompareHead,
           TriggerRevert, ~DisableBlocksRevert
    PROVE  At(stored, hi') \in stored \ canon
<1>1. TypeOK /\ ChainInv /\ TableInv /\ IterationInv
    BY DEF IInv
<1>2. head # NoBlock /\ head = Last(stored)
    BY <1>1 DEF IterationInv, RevertOnFirstBlock, AllFetched, FirstUnlinked, CompareHead
<1>3. head \in stored /\ hi' = Number[head] /\ head \in Blocks
    BY <1>1, <1>2, LastType DEF TypeOK, TableInv, TriggerRevert
<1>4. At(stored, hi') = head
    BY <1>1, <1>3, AtOwnNumber, BlockSyncAssumption DEF TypeOK, TableInv
<1>5. CASE CompareHead /\ At(canon, Number[head]) # head
    BY <1>1, <1>3, <1>4, <1>5, MatchIsCanonical
<1>6. CASE CompareHead /\ At(canon, Number[head]) = head
    <2>1. handler' = handler /\ handler' = "stopping" /\ worker = "comparing"
        BY <1>6 DEF CompareHead, TriggerRevert, handlerVars
    <2> QED
        BY <2>1 DEF StopInv
<1>7. CASE RevertOnFirstBlock
    <2> DEFINE f == fetched[First]
    <2>1. /\ worker = "fetching" /\ First \in DOMAIN fetched /\ First = Number[head] + 1
          /\ f # Pending /\ f # NoBlock /\ Parent[f] # head
        BY <1>1, <1>2, <1>7 DEF IterationInv, RangeInv, RevertOnFirstBlock, AllFetched,
           FirstUnlinked, First
    <2>2. f \in canon /\ Number[f] = First
        BY <1>1, <2>1 DEF TypeOK, PreciseInv, IterationInv, RangeInv
    <2> HIDE DEF f
    <2>3. Parent[f] \in canon /\ Number[Parent[f]] = Number[head]
        BY <1>1, <1>3, <2>1, <2>2, BlockTreeAssumption DEF TypeOK, ChainInv, Linked
    <2>4. head \notin canon
        BY <1>1, <2>1, <2>3 DEF ChainInv, Linked
    <2> QED
        BY <1>3, <1>4, <2>4
<1> QED
    BY <1>5, <1>6, <1>7

LEMMA PreciseStep ==
    ASSUME IInv, FinalInv, StopInv, PreciseInv, [Next]_vars
    PROVE  PreciseInv'
<1>1. TypeOK /\ TypeOK' /\ ChainInv /\ TableInv /\ HandlerInv
    BY StepInv DEF IInv
<1>2. worker \in {"fetching", "comparing", "writing", "down"} => handler = "none"
    BY <1>1, NoIterationMeanwhile
<1>3. ASSUME UNCHANGED <<canon, stored, fetched, worker, handlerVars, chainMoved>>
      PROVE  PreciseInv'
    BY <1>3 DEF PreciseInv, handlerVars
<1>4. ASSUME handler' = "none", worker' # "fetching" PROVE PreciseInv'
    BY <1>4 DEF PreciseInv
<1>5. CASE UNCHANGED vars \/ Watcher \/ BatchWorkers \/ ExecuteBatch
    BY <1>3, <1>5 DEF vars, chainVars, dbVars, iterVars, Watcher, WatcherInit, OnBlock,
       BatchWorkers, RecordBatch, RecordExecutedBatch, ExecuteBatch
<1>6. ASSUME NEW b \in Blocks, ProduceBlock(b) PROVE PreciseInv'
    <2>1. /\ canon' = canon \cup {b} /\ chainMoved' = (chainMoved \/ (Busy /\ b \in stored))
          /\ UNCHANGED <<stored, fetched, worker, handlerVars>>
        BY <1>6 DEF ProduceBlock, dbVars, iterVars
    <2>2. ASSUME ~chainMoved', handler # "none" PROVE At(stored, hi) \in stored \ canon'
        BY <2>1, <2>2 DEF PreciseInv, Busy
    <2> QED
        BY <2>1, <2>2 DEF PreciseInv, handlerVars
<1>7. ASSUME NEW n, RevertChain(n) PROVE PreciseInv'
    BY <1>7 DEF RevertChain, Busy, PreciseInv, handlerVars
<1>8. CASE StartIteration
    <2>1. handler' = "none"
        BY <1>1, <1>8 DEF StartIteration, HandlerInv, handlerVars
    <2>2. \A n \in DOMAIN fetched' : fetched'[n] \notin Blocks
        BY <1>8, BlockSyncAssumption DEF StartIteration
    <2> QED
        BY <2>1, <2>2 DEF PreciseInv
<1>9. ASSUME NEW m \in DOMAIN fetched, FetchBlock(m) PROVE PreciseInv'
    <2>1. /\ fetched' = [fetched EXCEPT ![m] = At(canon, m)]
          /\ UNCHANGED <<canon, stored, worker, handlerVars, chainMoved>>
        BY <1>9 DEF FetchBlock, chainVars, dbVars
    <2>2. At(canon, m) \in canon \cup {NoBlock}
        BY <1>1, AtType DEF TypeOK
    <2>3. ASSUME NEW n \in DOMAIN fetched', fetched'[n] \in Blocks, ~chainMoved,
                 worker = "fetching"
          PROVE  fetched'[n] \in canon
        BY <2>1, <2>2, <2>3, BlockTreeAssumption DEF PreciseInv
    <2> QED
        BY <2>1, <2>3 DEF PreciseInv, handlerVars
<1>10. CASE RevertOnFirstBlock \/ CompareHead
    <2>1. /\ worker \in {"fetching", "comparing"} /\ worker' = "idle"
          /\ UNCHANGED <<canon, stored, chainMoved>>
        BY <1>10 DEF RevertOnFirstBlock, AllFetched, CompareHead, EndIteration, chainVars, dbVars
    <2>2. CASE UNCHANGED handlerVars
        BY <1>2, <1>4, <2>1, <2>2 DEF handlerVars
    <2>3. CASE TriggerRevert /\ ~DisableBlocksRevert
        <3>1. handler' = "stopping"
            BY <2>3 DEF TriggerRevert
        <3>2. ~chainMoved => At(stored, hi') \in stored \ canon
            BY <1>10, <2>3, TriggerIsRight
        <3> QED
            BY <2>1, <3>1, <3>2 DEF PreciseInv
    <2> QED
        BY <1>10, <2>2, <2>3 DEF RevertOnFirstBlock, CompareHead, TriggerRevert
<1>11. CASE MissingBlockThrows \/ RangeNotLinked \/ StartTransactions
    BY <1>2, <1>4, <1>11 DEF MissingBlockThrows, RangeNotLinked, StartTransactions, AllFetched,
       EndIteration, handlerVars
<1>12. ASSUME NEW n, InsertChunk(n) PROVE PreciseInv'
    BY <1>3, <1>12 DEF InsertChunk, chainVars, dbVars
<1>13. CASE CommitChunk
    BY <1>2, <1>4, <1>13 DEF CommitChunk, EndIteration, handlerVars
<1>14. CASE WorkerStops
    BY <1>14 DEF WorkerStops, PreciseInv, chainVars, dbVars, iterVars, handlerVars
<1>15. CASE StartSearch
    BY <1>15, SearchStartsCanonical DEF StartSearch, PreciseInv, chainVars, dbVars, iterVars
<1>16. ASSUME Exit PROVE PreciseInv'
    BY <1>4, <1>16 DEF Exit
<1>17. CASE SearchStep
    <2>1. CASE RevertThrows
        BY <1>16, <2>1 DEF RevertThrows
    <2>2. CASE At(stored, Mid) # NoBlock /\ Probe
        <3>1. /\ handler = "searching"
              /\ UNCHANGED <<canon, stored, fetched, worker, handler, chainMoved>>
            BY <1>17, <2>2 DEF SearchStep, Probe, chainVars, dbVars, iterVars
        <3>2. /\ At(stored, Mid) \in stored /\ At(stored, Mid) \in Blocks
              /\ Number[At(stored, Mid)] = Mid
            BY <1>1, <2>2, AtType DEF TypeOK
        <3>3. At(stored, Mid) \in canon <=> At(stored, Mid) = At(canon, Mid)
            BY <1>1, <3>2, MatchIsCanonical
        <3>4. CASE lo' = Mid /\ hi' = hi /\ At(stored, Mid) = At(canon, Mid)
            BY <3>1, <3>3, <3>4 DEF PreciseInv
        <3>5. CASE hi' = Mid /\ lo' = lo /\ At(stored, Mid) # At(canon, Mid)
            BY <3>1, <3>2, <3>3, <3>5 DEF PreciseInv
        <3> QED
            BY <2>2, <3>4, <3>5 DEF Probe
    <2> QED
        BY <1>17, <2>1, <2>2 DEF SearchStep
<1>18. CASE FinishSearch
    <2>1. CASE RevertThrows
        BY <1>16, <2>1 DEF RevertThrows
    <2>2. CASE ~RevertThrows
        BY <1>18, <2>2 DEF FinishSearch, PreciseInv, chainVars, dbVars, iterVars
    <2> QED
        BY <2>1, <2>2
<1>19. CASE FinishRevert \/ Restart
    BY <1>2, <1>4, <1>19 DEF FinishRevert, Restart, handlerVars
<1>20. CASE Fault
    BY <1>2, <1>4, <1>16, <1>20 DEF Fault, WriteFails, CommitFails, Crash, RevertFails,
       EndIteration, handlerVars
<1> QED
    BY <1>5, <1>6, <1>7, <1>8, <1>9, <1>10, <1>11, <1>12, <1>13, <1>14, <1>15, <1>17, <1>18,
       <1>19, <1>20 DEF Next, Chain, Worker, CheckRange, Handler

\* If the chain stands still from the check that triggered the revert to its
\* end, the revert deletes all the blocks that the chain reverted and no other
\* one, whatever the number of probes and wherever the search began.
THEOREM RevertsArePrecise ==
    ASSUME SlowExecution
    PROVE  Spec => RevertPrecise
<1>1. Init => IInv /\ FinalInv /\ PreciseInv
    BY InitInv DEF Init, PreciseInv
<1>2. IInv /\ FinalInv /\ [Next]_vars => FinalInv'
    BY FinalStep
<1>3. IInv /\ FinalInv /\ StopInv /\ PreciseInv /\ [Next]_vars => PreciseInv'
    BY PreciseStep
<1>4. IInv /\ PreciseInv /\ [Next]_vars =>
         [FinishRevert /\ ~chainMoved => stored' = stored \cap canon]_vars
    BY BoundsArePrecise DEF FinishRevert, DeleteReverted
<1> QED
    BY <1>1, <1>2, <1>3, <1>4, Inductive, WorkerStopped, PTL DEF Spec, RevertPrecise
=============================================================================
