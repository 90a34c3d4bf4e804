------------------------------ MODULE Counters ------------------------------
(***************************************************************************)
(* The counters of one table of records (transactions or transfers).       *)
(*                                                                         *)
(* Records get their numbers from a database sequence when they are        *)
(* inserted, inside a transaction that commits later; a sequence is not    *)
(* rolled back.  The counter worker reads the next records by number,      *)
(* counts them and remembers the last number, in the table counterStates   *)
(* and in memory.  A revert subtracts the records of the reverted blocks   *)
(* in the transaction that deletes them.                                   *)
(*                                                                         *)
(* A counter without a row is a counter of 0: that is how the API reads    *)
(* it, so that CounterService.revert may delete the rows with count 0.     *)
(***************************************************************************)
EXTENDS Integers, Sequences, FiniteSets

CONSTANTS
    Query, Kind, QueriesOf,   \* see RecordTally
    Null,                     \* lastProcessedRecordNumber is not loaded
    Chunks,                   \* transactions an iteration of the block worker opens
    RecordsBatchSize,         \* counters.recordsBatchSize
    MaxNumber,                \* bound on the numbers of the sequence
    MaxBlock                  \* bound on the height of the blocks table

ASSUME CountersAssumption ==
    /\ QueriesOf \in [Kind -> SUBSET Query]
    /\ Null \notin Int
    /\ Chunks \in Nat \ {0} /\ RecordsBatchSize \in Nat \ {0}
    /\ MaxNumber \in Nat /\ MaxBlock \in Nat

VARIABLES
    sequence,       \* the last number handed out
    rows,           \* the committed records
    height,         \* the number of committed blocks, 1 to height
    txns,           \* the records of the transactions not yet committed, in commit order
    committing,     \* all of these have run, the first commit was tried
    counters,       \* table counters
    lastProcessed,  \* table counterStates
    cached,         \* CounterProcessor.lastProcessedRecordNumber
    page,           \* the records that are being counted, {} between iterations
    handler,        \* handleBlocksRevert: none, stopping, reverting, decremented
    correct,        \* lastCorrectBlockNumber
    from,           \* lastRevertedRecordNumber
    decrements      \* what the revert transaction has subtracted

blockVars == <<sequence, rows, height, txns, committing>>
counterVars == <<counters, lastProcessed, cached, page>>
revertVars == <<handler, correct, from, decrements>>
vars == <<blockVars, counterVars, revertVars>>

-----------------------------------------------------------------------------
Record == [number : 1..MaxNumber, block : 1..MaxBlock, kind : Kind]

Numbers(S) == {r.number : r \in S}

Upto(S, n) == {r \in S : r.number <= n}

\* Mutant: the last number of the sequence is taken, not that of the records.
LastNumberOfSequence(S) == sequence

LastNumber(S) == CHOOSE n \in Numbers(S) : \A r \in S : r.number <= n

\* The answer to "the first RecordsBatchSize records of S by number": one set.
Pages(S) ==
    {p \in {Upto(S, n) : n \in Numbers(S) \cup {0}} :
        /\ Cardinality(p) <= RecordsBatchSize
        /\ Cardinality(p) = RecordsBatchSize \/ p = S}

\* What calculateCounters returns for the records S.
CountIn(S, q) == Cardinality({r \in S : q \in QueriesOf[r.kind]})

NoDecrements == [q \in Query |-> 0]

Init ==
    /\ sequence = 0 /\ rows = {} /\ height = 0 /\ txns = <<>> /\ committing = FALSE
    /\ counters = [q \in Query |-> 0]
    /\ lastProcessed = -1 /\ cached = Null /\ page = {}
    /\ handler = "none" /\ correct = 0 /\ from = -1 /\ decrements = NoDecrements

-----------------------------------------------------------------------------
(***************************************************************************)
(* The block worker, as far as the records go: one block for each chunk.   *)
(***************************************************************************)
StartChunks ==
    /\ handler = "none" /\ txns = <<>>
    /\ \E n \in 1..Chunks :
        /\ height + n <= MaxBlock
        /\ txns' = [i \in 1..n |-> {}]
    /\ UNCHANGED <<sequence, rows, height, committing, counterVars, revertVars>>

\* The transactions run at the same time and take numbers from one sequence.
Insert(i, k) ==
    /\ ~committing
    /\ sequence < MaxNumber
    /\ sequence' = sequence + 1
    /\ txns' = [txns EXCEPT ![i] =
                    @ \cup {[number |-> sequence + 1, block |-> height + i, kind |-> k]}]
    /\ UNCHANGED <<rows, height, committing, counterVars, revertVars>>

\* The first transaction commits; the next one follows, unless the caller stops.
CommitFirst ==
    /\ txns # <<>>
    /\ rows' = rows \cup Head(txns)
    /\ height' = height + 1
    /\ UNCHANGED <<sequence, counterVars, revertVars>>

CommitChunk ==
    /\ CommitFirst
    /\ txns' = Tail(txns)
    /\ committing' = (Len(txns) > 1)

RollBackAll == txns' = <<>> /\ committing' = FALSE

\* A statement or a COMMIT failed (the latter after the database applied it,
\* or not): what has not been committed is rolled back.
WriteFails ==
    /\ txns # <<>>
    /\ CommitFirst \/ UNCHANGED <<sequence, rows, height, counterVars, revertVars>>
    /\ RollBackAll

-----------------------------------------------------------------------------
(***************************************************************************)
(* The counter worker.  Nobody else writes counterStates, so loading the   *)
(* last number and reading the records is one step.                        *)
(***************************************************************************)
LastSeen == IF cached = Null THEN lastProcessed ELSE cached

\* Mutant: the record after the last number is skipped.
RecordsToCountAfterNext == {r \in rows : r.number > LastSeen + 1}

\* The query of processNextRecordsBatch.
RecordsToCount == {r \in rows : r.number >= LastSeen + 1}

ReadRecords ==
    /\ handler = "none" /\ page = {}
    /\ page' \in Pages(RecordsToCount)
    /\ cached' = LastSeen
    /\ UNCHANGED <<counters, lastProcessed, blockVars, revertVars>>

\* The transaction of incrementCounters commits.
IncrementCounters ==
    /\ page # {}
    /\ counters' = [q \in Query |-> counters[q] + CountIn(page, q)]
    /\ lastProcessed' = LastNumber(page)

CountRecords ==
    /\ IncrementCounters
    /\ cached' = LastNumber(page)
    /\ page' = {}
    /\ UNCHANGED <<blockVars, revertVars>>

\* Mutant: the number in memory is advanced before the transaction has ended.
CountFailsAdvanced ==
    /\ IncrementCounters \/ UNCHANGED <<counters, lastProcessed>>
    /\ cached' = IF page = {} THEN Null ELSE LastNumber(page)
    /\ page' = {}
    /\ UNCHANGED <<blockVars, revertVars>>

\* Something throws, the commit perhaps after the database applied it: the
\* last number is forgotten.
CountFails ==
    /\ IncrementCounters \/ UNCHANGED <<counters, lastProcessed>>
    /\ cached' = Null
    /\ page' = {}
    /\ UNCHANGED <<blockVars, revertVars>>

-----------------------------------------------------------------------------
(***************************************************************************)
(* The revert.  The workers are stopped first; the block worker has ended  *)
(* its writing when it triggers the revert.                                *)
(***************************************************************************)
RevertDetected ==
    /\ handler = "none" /\ txns = <<>>
    /\ correct' \in 0..(height - 1)
    /\ handler' = "stopping"
    /\ UNCHANGED <<from, decrements, blockVars, counterVars>>

StartRevert ==
    /\ handler = "stopping" /\ page = {}
    /\ handler' = "reverting"
    /\ from' = -1
    /\ decrements' = NoDecrements
    /\ UNCHANGED <<correct, blockVars, counterVars>>

\* Mutant: the records that have not been counted are subtracted as well.
RecordsToRevertUncounted == {r \in rows : r.block > correct /\ from + 1 <= r.number}

\* Mutant: a page starts at the last record of the page before.
RecordsToRevertFromLast ==
    {r \in rows : r.block > correct /\ from <= r.number /\ r.number <= lastProcessed}

\* The query of CounterProcessor.revert.
RecordsToRevert ==
    {r \in rows : r.block > correct /\ from + 1 <= r.number /\ r.number <= lastProcessed}

\* One round of the loop of CounterProcessor.revert.
RevertPage ==
    /\ handler = "reverting"
    /\ \E p \in Pages(RecordsToRevert) :
        /\ decrements' = [q \in Query |-> decrements[q] + CountIn(p, q)]
        /\ from' = IF p = {} THEN from ELSE LastNumber(p)
        /\ handler' = IF Cardinality(p) = RecordsBatchSize THEN handler ELSE "decremented"
    /\ UNCHANGED <<correct, blockVars, counterVars>>

\* The revert transaction commits and the workers start again.
FinishRevert ==
    /\ handler = "decremented"
    /\ counters' = [q \in Query |-> counters[q] - decrements[q]]
    /\ rows' = {r \in rows : r.block <= correct}
    /\ height' = correct
    /\ handler' = "none"
    /\ UNCHANGED <<sequence, txns, committing, lastProcessed, cached, page,
                   correct, from, decrements>>

\* The process ends (a revert that throws ends it too) and starts again: the
\* open transactions are rolled back and nothing in memory is left.
Crash ==
    /\ RollBackAll
    /\ cached' = Null /\ page' = {}
    /\ handler' = "none" /\ correct' = 0 /\ from' = -1 /\ decrements' = NoDecrements
    /\ UNCHANGED <<sequence, rows, height, counters, lastProcessed>>

-----------------------------------------------------------------------------
BlockWorker ==
    \/ StartChunks
    \/ \E i \in DOMAIN txns, k \in Kind : Insert(i, k)
    \/ CommitChunk

CounterWorker == ReadRecords \/ CountRecords

Handler == StartRevert \/ RevertPage \/ FinishRevert

Fault == WriteFails \/ CountFails \/ Crash

Next == BlockWorker \/ CounterWorker \/ RevertDetected \/ Handler \/ Fault

\* The event loop runs whatever is ready; no block has to come.
Fairness == WF_vars(CommitChunk) /\ WF_vars(CounterWorker) /\ WF_vars(Handler)

Spec == Init /\ [][Next]_vars /\ Fairness

-----------------------------------------------------------------------------
(***************************************************************************)
(* Properties.                                                             *)
(***************************************************************************)
\* No counter is ever negative: a revert subtracts only what was counted.
TypeOK ==
    /\ sequence \in 0..MaxNumber /\ rows \in SUBSET Record /\ height \in 0..MaxBlock
    /\ txns \in Seq(SUBSET Record) /\ committing \in BOOLEAN
    /\ counters \in [Query -> Nat] /\ lastProcessed \in -1..MaxNumber
    /\ cached \in {Null} \cup -1..MaxNumber /\ page \in SUBSET Record
    /\ handler \in {"none", "stopping", "reverting", "decremented"}
    /\ correct \in 0..MaxBlock /\ from \in -1..MaxNumber
    /\ decrements \in [Query -> Nat]

\* A counter is the number of stored records up to the last processed number,
\* after any failures, restarts and reverts (processNextRecordsBatch, revert).
\* It needs one transaction at a time: see NewRecordsAreHigher.
CountersExact == \A q \in Query : counters[q] = CountIn(Upto(rows, lastProcessed), q)

\* The counters implement their abstract specification: no record is counted
\* twice, and none is taken for counted that was not.
Tally == INSTANCE RecordTally WITH
    recs <- rows, counted <- Upto(rows, lastProcessed), count <- counters

CountersTally == Tally!TallySpec

\* When reverts and failures have ended, every stored record is counted at last
\* (the worker keeps polling), whatever it cached before they did.
Undisturbed == <>[][~(Fault \/ RevertDetected \/ StartChunks)]_vars

AllCounted == \A q \in Query : counters[q] = CountIn(rows, q)

CountersCatchUp == Undisturbed => <>[]AllCounted

\* "New records will have higher number due to generated sequence type used"
\* (counter.repository.ts): a record that is committed has a higher number than
\* any that was processed before.
NewRecordsAreHigher ==
    [][\A r \in rows' \ rows : r.number > lastProcessed]_vars

=============================================================================
