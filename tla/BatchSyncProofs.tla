-------------------------- MODULE BatchSyncProofs --------------------------
(***************************************************************************)
(* What every step of BatchSync preserves: the types and the form of the   *)
(* tables, whatever happens, and, when SlowExecution holds, that what the  *)
(* database says is executed is final, has no gaps, and is never deleted.  *)
(***************************************************************************)
EXTENDS BatchSync, BlockTreeProofs

Busy == {"asking", "looking", "comparing", "writing"}

BatchNext == \/ Chain \/ BlockWorker \/ (\E s \in States : BatchWorker(s))
             \/ Handler \/ BatchFault

(***************************************************************************)
(* The invariant without a premise.                                        *)
(***************************************************************************)
\* The chain and the table `blocks` are branches from the genesis block.
BranchInv ==
    /\ Linked(canon, 0) /\ canon # {} /\ Bounded(canon)
    /\ Linked(stored, 0) /\ Bounded(stored)
    /\ \E m \in Nat : \A n \in BatchNumbers : row[n] # NoRow => n <= m

\* What a worker has read once it is past that call.
ReadInv == \A s \in States :
    /\ pc[s] \in {"looking", "comparing", "writing"} <=> details[s] # NoRow
    /\ pc[s] \in {"comparing", "writing"} => block[s] # NoBlock
    /\ details[s] # NoRow => number[s] \in BatchNumbers /\ details[s].state = s

\* The block and batch workers stand still before the revert transaction.
StopInv == /\ handler # "none" => ~running
           /\ handler = "deleting" => BatchesStopped

SyncInv == BatchTypeOK /\ BranchInv /\ ReadInv /\ StopInv

(***************************************************************************)
(* The invariant of SlowExecution.                                         *)
(***************************************************************************)
\* No worker holds old details of a batch that is executed.
DetailsInv == \A s \in States : details[s] # NoRow =>
    /\ ChainExecuted(number[s]) => details[s].root = ChainRoot(number[s])
    /\ s = Executed => ChainExecuted(number[s])

\* A batch with an executed row is executed, and some block of it is stored.
RowsInv == \A n \in ExecutedRows : ChainExecuted(n) /\ \E b \in stored : Batch[b] = n

\* The worker for executed batches goes on from a number below which nothing
\* is missing, and what it has compared stays on the chain: c, p, n and k are
\* its cached number, place, next number and block, X the executed rows.
GoesOn(c, p, n, k, X) ==
    /\ c # Null => \A m \in BatchNumbers : m <= c => m \in X
    /\ \A m \in BatchNumbers : m < n => m \in X
    /\ p = "comparing" =>
         /\ k \in stored /\ Batch[k] = n
         /\ \A b \in stored : Batch[b] = n /\ Number[b] > Number[k] => b \in canon
    /\ p = "writing" =>
         /\ \E b \in stored : Batch[b] = n
         /\ \A b \in stored : Batch[b] = n => b \in canon

ExecutedWorkerInv == GoesOn(cached[Executed], pc[Executed], number[Executed], block[Executed],
                            ExecutedRows)

\* The revert transaction will delete nothing that is executed.
RevertInv ==
    handler = "deleting" =>
         /\ \A n \in ExecutedRows : n <= keepBatch
         /\ \A b \in stored : Batch[b] \in ExecutedRows => Number[b] <= keepBlock

FinalInv == /\ DetailsInv /\ RowsInv /\ ExecutedRowsCorrect /\ ExecutedContiguous
            /\ ExecutedWorkerInv /\ RevertInv

-----------------------------------------------------------------------------
(***************************************************************************)
(* What the queries return.                                                *)
(***************************************************************************)
LEMMA NumbersAreNaturals == /\ BatchNumbers \subseteq Nat
                            /\ \A b \in Blocks : Number[b] \in Nat /\ Batch[b] \in BatchNumbers
  BY BlockTreeAssumption DEF BatchNumbers

LEMMA RowFacts == /\ NoRow \in Rows /\ NoRow.state = -1 /\ NoRow.root = NoBlock
                  /\ \A r \in Rows : /\ r.state \in States \cup {-1} /\ r.state \in Int
                                     /\ r # NoRow => r.root \in Blocks /\ r.state \in States
                                     /\ r.state \in States => r # NoRow
                  /\ Executed \in States /\ States \subseteq Nat
<1>1. Executed \in Nat /\ States = 0 .. Executed
  BY BatchSyncAssumption DEF States
<1> QED BY <1>1 DEF Rows, NoRow

LEMMA RootType ==
    ASSUME BatchTypeOK, BranchInv, NEW n
    PROVE  ChainRoot(n) # NoBlock =>
             /\ ChainRoot(n) \in canon /\ ChainRoot(n) \in Blocks /\ Batch[ChainRoot(n)] = n
             /\ n \in BatchNumbers
<1> DEFINE S == {b \in canon : Batch[b] = n}
<1>1. S \subseteq Blocks /\ S \subseteq canon
  BY DEF BatchTypeOK
<1>2. Bounded(S)
  BY <1>1, BoundedSubset DEF BranchInv
<1>3. Last(S) \in S \cup {NoBlock}
  BY <1>1, <1>2, LastType
<1> QED BY <1>1, <1>3, NumbersAreNaturals DEF ChainRoot

LEMMA ChainDetailsType ==
    ASSUME BatchTypeOK, BranchInv, NEW n
    PROVE  /\ ChainDetails(n) \in Rows
           /\ ChainDetails(n) # NoRow => /\ n \in BatchNumbers
                                         /\ ChainDetails(n).root = ChainRoot(n)
                                         /\ ChainDetails(n).state = l1[n]
<1>1. CASE ChainRoot(n) = NoBlock
  BY <1>1, RowFacts DEF ChainDetails
<1>2. CASE ChainRoot(n) # NoBlock
  <2>1. n \in BatchNumbers /\ ChainRoot(n) \in Blocks /\ l1[n] \in States
    BY <1>2, RootType DEF BatchTypeOK
  <2> QED BY <1>2, <2>1 DEF ChainDetails, Rows
<1> QED BY <1>1, <1>2

LEMMA LastBatchType ==
    ASSUME BatchTypeOK, BranchInv, NEW s \in States
    PROVE  /\ LastBatch(s) \in Nat \cup {-1}
           /\ LastBatch(s) # -1 => LastBatch(s) \in BatchNumbers /\ row[LastBatch(s)].state >= s
<1> DEFINE F == {n \in BatchNumbers : row[n].state >= s}
<1>1. CASE F = {}
  BY <1>1 DEF LastBatch
<1>2. CASE F # {}
  <2>1. PICK m \in Nat : \A n \in BatchNumbers : row[n] # NoRow => n <= m
    BY DEF BranchInv
  <2>2. F \subseteq Nat /\ \A n \in F : n <= m
    <3> SUFFICES ASSUME NEW n \in F PROVE n \in Nat /\ n <= m
      OBVIOUS
    <3>1. row[n] \in Rows /\ row[n].state >= s /\ s >= 0
      BY RowFacts DEF BatchTypeOK
    <3> QED BY <2>1, <3>1, RowFacts, NumbersAreNaturals
  <2> HIDE DEF F
  <2>3. \E n \in F : \A k \in F : k <= n
    BY <1>2, <2>2, GreatestNatural
  <2>4. LastBatch(s) = CHOOSE n \in F : \A k \in F : k <= n
    BY <1>2 DEF LastBatch, F
  <2>5. LastBatch(s) \in F
    BY <2>3, <2>4
  <2> QED BY <2>2, <2>5 DEF F
<1> QED BY <1>1, <1>2

LEMMA StoredInType ==
    ASSUME BatchTypeOK, BranchInv, NEW n
    PROVE  /\ StoredIn(n) \in Blocks \cup {NoBlock}
           /\ StoredIn(n) # NoBlock =>
                /\ StoredIn(n) \in stored /\ Batch[StoredIn(n)] = n
                /\ \A b \in stored : Batch[b] = n => Number[b] <= Number[StoredIn(n)]
<1> DEFINE S == {b \in stored : Batch[b] = n}
<1>1. S \subseteq Blocks /\ Bounded(S)
  BY BoundedSubset DEF BatchTypeOK, BranchInv
<1>2. Last(S) \in S \cup {NoBlock} /\ (Last(S) = NoBlock <=> S = {})
  BY <1>1, LastType
<1>3. S # {} => \A c \in S : Number[c] <= Number[Last(S)]
  BY <1>1, LastIsGreatest
<1> QED BY <1>1, <1>2, <1>3 DEF StoredIn

\* The last executed block is not below any stored block of an executed row.
LEMMA LastExecutedType ==
    ASSUME BatchTypeOK, BranchInv
    PROVE  /\ LastExecutedBlockNumber \in Nat
           /\ \A b \in stored : Batch[b] \in ExecutedRows => Number[b] <= LastExecutedBlockNumber
           /\ \/ LastExecutedBlockNumber = 0
              \/ \E b \in stored : Batch[b] \in ExecutedRows /\ Number[b] = LastExecutedBlockNumber
<1> DEFINE S == {b \in stored : Batch[b] \in ExecutedRows}
<1>1. S \subseteq Blocks /\ Bounded(S)
  BY BoundedSubset DEF BatchTypeOK, BranchInv
<1>2. Last(S) \in S \cup {NoBlock} /\ (Last(S) = NoBlock <=> S = {})
  BY <1>1, LastType
<1>3. S # {} => \A c \in S : Number[c] <= Number[Last(S)]
  BY <1>1, LastIsGreatest
<1> QED BY <1>1, <1>2, <1>3, NumbersAreNaturals DEF LastExecutedBlockNumber

LEMMA UpsertType ==
    ASSUME NEW old \in Rows, NEW new \in Rows, new # NoRow
    PROVE  /\ Upsert(old, new) \in Rows /\ Upsert(old, new) # NoRow
           /\ Upsert(old, new).root = new.root
           /\ Upsert(old, new).state = Max2(old.state, new.state)
           /\ Upsert(old, new).state >= old.state
<1>1. old.state \in States \cup {-1} /\ old.state \in Int /\ new.state \in States /\ new.state \in Int
      /\ new.root \in Blocks
  BY RowFacts
<1>2. Max2(old.state, new.state) \in States /\ Max2(old.state, new.state) >= old.state
  BY <1>1, RowFacts DEF Max2
<1>3. new \in [root : Blocks, state : States]
  BY DEF Rows
<1>4. Upsert(old, new) = [root |-> new.root, state |-> Max2(old.state, new.state)]
  BY <1>3 DEF Upsert
<1> QED BY <1>1, <1>2, <1>4, RowFacts DEF Rows

LEMMA GenesisIn == ASSUME NEW S \in SUBSET Blocks, S # {}, Linked(S, 0)
                   PROVE  \E b \in S : Number[b] = 0
<1>1. 0 \in Nat
  OBVIOUS
<1> QED BY <1>1, SegmentStarts

-----------------------------------------------------------------------------
(***************************************************************************)
(* The invariant without a premise.                                        *)
(***************************************************************************)
Places == {"idle", "asking", "looking", "comparing", "writing", "stopped"}

LEMMA BatchInitSync == ASSUME BatchInit PROVE SyncInv
<1>1. BatchTypeOK
  <2>1. \A n \in BatchNumbers : (IF n = 0 THEN Executed ELSE 0) \in States
    BY BatchSyncAssumption DEF States
  <2> QED BY <2>1, RowFacts DEF BatchInit, BatchTypeOK, Null
<1>2. BranchInv
  <2>1. Linked(canon, 0) /\ canon # {} /\ Bounded(canon)
    BY BlockTreeAssumption DEF BatchInit, Linked, Bounded
  <2>2. Linked(stored, 0) /\ Bounded(stored)
    BY DEF BatchInit, Linked, Bounded
  <2>3. \A n \in BatchNumbers : row[n] # NoRow => n <= 0
    BY DEF BatchInit
  <2> QED BY <2>1, <2>2, <2>3 DEF BranchInv
<1>3. ReadInv /\ StopInv
  BY DEF BatchInit, ReadInv, StopInv
<1> QED BY <1>1, <1>2, <1>3 DEF SyncInv

\* A step of one batch worker, which leaves the tree and the handler alone and
\* changes one row at most.
OneWorker(s, c, p, n, d, k) ==
    /\ UNCHANGED <<canon, l1, stored, running, handler, keepBlock, keepBatch>>
    /\ cached' = [cached EXCEPT ![s] = c]
    /\ pc' = [pc EXCEPT ![s] = p]
    /\ number' = [number EXCEPT ![s] = n]
    /\ details' = [details EXCEPT ![s] = d]
    /\ block' = [block EXCEPT ![s] = k]
    /\ c \in {Null, -1} \cup Nat
    /\ p \in Places
    /\ n \in Nat
    /\ d \in Rows
    /\ k \in Blocks \cup {NoBlock}
    /\ handler = "deleting" => p = "stopped"
    /\ p \in {"looking", "comparing", "writing"} <=> d # NoRow
    /\ p \in {"comparing", "writing"} => k # NoBlock
    /\ d # NoRow => n \in BatchNumbers /\ d.state = s

LEMMA OneWorkerSync ==
    ASSUME SyncInv, NEW s \in States, NEW c, NEW p, NEW n, NEW d, NEW k,
           OneWorker(s, c, p, n, d, k),
           row' \in [BatchNumbers -> Rows],
           NEW m \in BatchNumbers \cup {0}, \A x \in BatchNumbers : x # m => row'[x] = row[x]
    PROVE  SyncInv'
<1>1. BatchTypeOK'
  BY DEF OneWorker, SyncInv, BatchTypeOK, Places
<1>2. BranchInv'
  <2>1. PICK x \in Nat : \A y \in BatchNumbers : row[y] # NoRow => y <= x
    BY DEF SyncInv, BranchInv
  <2>2. PICK z \in Nat : x <= z /\ m <= z
    BY NumbersAreNaturals
  <2>3. \A y \in BatchNumbers : row'[y] # NoRow => y <= z
    BY <2>1, <2>2, NumbersAreNaturals
  <2>4. Linked(canon, 0)' /\ canon' # {} /\ Bounded(canon)' /\ Linked(stored, 0)' /\ Bounded(stored)'
    BY DEF OneWorker, SyncInv, BranchInv, Linked, Bounded
  <2> QED BY <2>3, <2>4 DEF BranchInv
<1>3. ReadInv'
  BY DEF OneWorker, SyncInv, BatchTypeOK, ReadInv
<1>4. StopInv'
  BY DEF OneWorker, SyncInv, BatchTypeOK, StopInv, BatchesStopped
<1> QED BY <1>1, <1>2, <1>3, <1>4 DEF SyncInv

\* The same worker, and no row.
LEMMA SameRowsSync ==
    ASSUME SyncInv, NEW s \in States, NEW c, NEW p, NEW n, NEW d, NEW k,
           OneWorker(s, c, p, n, d, k), row' = row
    PROVE  SyncInv'
<1>1. row' \in [BatchNumbers -> Rows]
  BY DEF SyncInv, BatchTypeOK
<1> QED BY <1>1, OneWorkerSync

LEMMA WriteRowSync ==
    ASSUME SyncInv, NEW s \in States, NEW c, NEW p, NEW n, NEW d, NEW k,
           OneWorker(s, c, p, n, d, k), pc[s] = "writing", WriteRow(s)
    PROVE  SyncInv'
<1>1. number[s] \in BatchNumbers /\ details[s] \in Rows /\ details[s] # NoRow
  BY DEF SyncInv, ReadInv, BatchTypeOK
<1>2. row' = [row EXCEPT ![number[s]] = Upsert(row[number[s]], details[s])]
  BY DEF WriteRow
<1>3. Upsert(row[number[s]], details[s]) \in Rows
  BY <1>1, UpsertType DEF SyncInv, BatchTypeOK
<1>4. row' \in [BatchNumbers -> Rows] /\ \A x \in BatchNumbers : x # number[s] => row'[x] = row[x]
  BY <1>1, <1>2, <1>3 DEF SyncInv, BatchTypeOK
<1> QED BY <1>1, <1>4, OneWorkerSync

(***************************************************************************)
(* The actions of a worker as such steps.                                  *)
(***************************************************************************)
LEMMA EndIs ==
    ASSUME SyncInv, NEW s \in States, NEW n \in {Null, -1} \cup Nat, EndIteration(s, n),
           pc[s] \in Busy, UNCHANGED <<chainVars, stored, running, handlerVars>>
    PROVE  OneWorker(s, n, "idle", 0, NoRow, NoBlock)
<1>1. handler # "deleting"
  BY DEF SyncInv, StopInv, BatchesStopped, Busy
<1> QED BY <1>1, RowFacts DEF EndIteration, OneWorker, Places, chainVars, handlerVars

LEMMA BeginIs ==
    ASSUME SyncInv, NEW s \in States, Begin(s)
    PROVE  /\ pc[s] = "idle" /\ row' = row
           /\ \E c \in Nat \cup {-1} :
                /\ c = IF cached[s] = Null THEN LastBatch(s) ELSE cached[s]
                /\ OneWorker(s, c, "asking", c + 1, details[s], block[s])
<1>1. PICK c : c = IF cached[s] = Null THEN LastBatch(s) ELSE cached[s]
  OBVIOUS
<1>2. c \in Nat \cup {-1}
  BY <1>1, LastBatchType DEF SyncInv, BatchTypeOK
<1>3. pc[s] = "idle" /\ details[s] = NoRow /\ handler # "deleting" /\ row' = row
  BY DEF Begin, SyncInv, ReadInv, StopInv
<1>4. cached' = [cached EXCEPT ![s] = c] /\ cached'[s] = c
  BY <1>1 DEF Begin, SyncInv, BatchTypeOK
<1>5. /\ number' = [number EXCEPT ![s] = c + 1] /\ pc' = [pc EXCEPT ![s] = "asking"]
      /\ details' = [details EXCEPT ![s] = details[s]] /\ block' = [block EXCEPT ![s] = block[s]]
      /\ UNCHANGED <<canon, l1, stored, running, handler, keepBlock, keepBatch>>
  BY <1>4 DEF Begin, SyncInv, BatchTypeOK, chainVars, handlerVars
<1>6. c \in {Null, -1} \cup Nat /\ c + 1 \in Nat
  BY <1>2
<1>7. details[s] \in Rows /\ block[s] \in Blocks \cup {NoBlock}
  BY DEF SyncInv, BatchTypeOK
<1>8. OneWorker(s, c, "asking", c + 1, details[s], block[s])
  BY <1>3, <1>4, <1>5, <1>6, <1>7 DEF OneWorker, Places
<1> QED BY <1>1, <1>2, <1>3, <1>8

LEMMA GetDetailsIs ==
    ASSUME SyncInv, NEW s \in States, GetDetails(s)
    PROVE  /\ pc[s] = "asking" /\ row' = row
           /\ \/ OneWorker(s, Null, "idle", 0, NoRow, NoBlock)
              \/ /\ OneWorker(s, cached[s], "looking", number[s], ChainDetails(number[s]), block[s])
                 /\ ChainDetails(number[s]) # NoRow /\ ChainDetails(number[s]).state = s
<1>1. pc[s] = "asking" /\ row' = row /\ handler # "deleting"
      /\ UNCHANGED <<chainVars, stored, running, handlerVars>>
  BY DEF GetDetails, SyncInv, StopInv, BatchesStopped
<1>2. PICK d : d = ChainDetails(number[s])
  OBVIOUS
<1>3. CASE d # NoRow /\ d.state = s
  <2>1. /\ details' = [details EXCEPT ![s] = d] /\ pc' = [pc EXCEPT ![s] = "looking"]
        /\ UNCHANGED <<cached, number, block>>
    BY <1>2, <1>3 DEF GetDetails
  <2>2. d \in Rows /\ number[s] \in BatchNumbers
    BY <1>2, <1>3, ChainDetailsType DEF SyncInv
  <2>3. OneWorker(s, cached[s], "looking", number[s], d, block[s])
    BY <1>1, <1>3, <2>1, <2>2 DEF OneWorker, SyncInv, BatchTypeOK, Places, chainVars, handlerVars
  <2> QED BY <1>1, <1>2, <1>3, <2>3
<1>4. CASE ~(d # NoRow /\ d.state = s)
  <2>1. EndIteration(s, Null)
    BY <1>2, <1>4 DEF GetDetails
  <2> QED BY <1>1, <2>1, EndIs DEF Busy
<1> QED BY <1>3, <1>4

LEMMA GetLastBlockIs ==
    ASSUME SyncInv, NEW s \in States, GetLastBlock(s)
    PROVE  /\ pc[s] = "looking" /\ row' = row
           /\ \/ OneWorker(s, Null, "idle", 0, NoRow, NoBlock)
              \/ /\ OneWorker(s, cached[s], "comparing", number[s], details[s], StoredIn(number[s]))
                 /\ StoredIn(number[s]) # NoBlock
<1>1. pc[s] = "looking" /\ row' = row /\ handler # "deleting"
      /\ UNCHANGED <<chainVars, stored, running, handlerVars>>
  BY DEF GetLastBlock, SyncInv, StopInv, BatchesStopped
<1>2. PICK k : k = StoredIn(number[s])
  OBVIOUS
<1>3. CASE k # NoBlock
  <2>1. /\ block' = [block EXCEPT ![s] = k] /\ pc' = [pc EXCEPT ![s] = "comparing"]
        /\ UNCHANGED <<cached, number, details>>
    BY <1>2, <1>3 DEF GetLastBlock
  <2>2. k \in Blocks /\ details[s] # NoRow
    BY <1>1, <1>2, <1>3, StoredInType DEF SyncInv, ReadInv
  <2>3. details[s].state = s /\ number[s] \in BatchNumbers
    BY <2>2 DEF SyncInv, ReadInv
  <2>4. OneWorker(s, cached[s], "comparing", number[s], details[s], k)
    BY <1>1, <1>3, <2>1, <2>2, <2>3
    DEF OneWorker, SyncInv, BatchTypeOK, Places, chainVars, handlerVars
  <2> QED BY <1>1, <1>2, <1>3, <2>4
<1>4. CASE k = NoBlock
  <2>1. EndIteration(s, Null)
    BY <1>2, <1>4 DEF GetLastBlock
  <2> QED BY <1>1, <2>1, EndIs DEF Busy
<1> QED BY <1>3, <1>4

LEMMA CompareBlockIs ==
    ASSUME SyncInv, NEW s \in States, CompareBlock(s)
    PROVE  /\ pc[s] = "comparing" /\ row' = row
           /\ \/ OneWorker(s, Null, "idle", 0, NoRow, NoBlock)
              \/ /\ OneWorker(s, cached[s], "writing", number[s], details[s], block[s])
                 /\ block[s] \in canon
<1>1. pc[s] = "comparing" /\ row' = row /\ handler # "deleting"
      /\ UNCHANGED <<chainVars, stored, running, handlerVars>>
  BY DEF CompareBlock, SyncInv, StopInv, BatchesStopped
<1>2. block[s] \in Blocks /\ details[s] # NoRow /\ details[s].state = s /\ number[s] \in BatchNumbers
  BY <1>1 DEF SyncInv, ReadInv, BatchTypeOK
<1>3. CASE At(canon, Number[block[s]]) = block[s]
  <2>1. pc' = [pc EXCEPT ![s] = "writing"] /\ UNCHANGED <<cached, number, details, block>>
    BY <1>3 DEF CompareBlock
  <2>2. block[s] \in canon
    BY <1>2, <1>3, AtType, BlockTreeAssumption DEF SyncInv, BatchTypeOK
  <2>3. OneWorker(s, cached[s], "writing", number[s], details[s], block[s])
    BY <1>1, <1>2, <2>1, BlockTreeAssumption
    DEF OneWorker, SyncInv, BatchTypeOK, Places, chainVars, handlerVars
  <2> QED BY <1>1, <2>2, <2>3
<1>4. CASE At(canon, Number[block[s]]) # block[s]
  <2>1. EndIteration(s, Null)
    BY <1>4 DEF CompareBlock
  <2> QED BY <1>1, <2>1, EndIs DEF Busy
<1> QED BY <1>3, <1>4

LEMMA UpsertBatchIs ==
    ASSUME SyncInv, NEW s \in States, UpsertBatch(s)
    PROVE  /\ pc[s] = "writing" /\ WriteRow(s)
           /\ OneWorker(s, number[s], "idle", 0, NoRow, NoBlock)
<1>1. number[s] \in Nat
  BY DEF SyncInv, BatchTypeOK
<1> QED BY <1>1, EndIs DEF UpsertBatch, Busy

LEMMA IterationFailsIs ==
    ASSUME SyncInv, NEW s \in States, IterationFails(s)
    PROVE  /\ row' = row \/ (pc[s] = "writing" /\ WriteRow(s))
           /\ OneWorker(s, Null, "idle", 0, NoRow, NoBlock)
  BY EndIs DEF IterationFails, Busy

LEMMA WorkerStopsIs ==
    ASSUME SyncInv, NEW s \in States, WorkerStops(s)
    PROVE  /\ row' = row
           /\ OneWorker(s, cached[s], "stopped", number[s], details[s], block[s])
<1>1. pc[s] = "idle" /\ pc' = [pc EXCEPT ![s] = "stopped"] /\ details[s] = NoRow
      /\ UNCHANGED <<chainVars, stored, row, running, cached, number, details, block, handlerVars>>
  BY DEF WorkerStops, SyncInv, ReadInv
<1> QED BY <1>1 DEF OneWorker, SyncInv, BatchTypeOK, Places, chainVars, handlerVars

LEMMA BatchWorkerSync == ASSUME SyncInv, NEW s \in States, BatchWorker(s) \/ IterationFails(s)
                         PROVE  SyncInv'
<1>1. CASE Begin(s)
  BY <1>1, BeginIs, SameRowsSync
<1>2. CASE GetDetails(s)
  BY <1>2, GetDetailsIs, SameRowsSync
<1>3. CASE GetLastBlock(s)
  BY <1>3, GetLastBlockIs, SameRowsSync
<1>4. CASE CompareBlock(s)
  BY <1>4, CompareBlockIs, SameRowsSync
<1>5. CASE UpsertBatch(s)
  BY <1>5, UpsertBatchIs, WriteRowSync
<1>6. CASE IterationFails(s)
  BY <1>6, IterationFailsIs, SameRowsSync, WriteRowSync
<1>7. CASE WorkerStops(s)
  BY <1>7, WorkerStopsIs, SameRowsSync
<1> QED BY <1>1, <1>2, <1>3, <1>4, <1>5, <1>6, <1>7 DEF BatchWorker

(***************************************************************************)
(* The other actions.                                                      *)
(***************************************************************************)
\* A block on top of the last one.
LEMMA OnTop ==
    ASSUME NEW S \in SUBSET Blocks, Linked(S, 0), Bounded(S),
           NEW b \in Blocks, Parent[b] = Last(S)
    PROVE  /\ Linked(S \cup {b}, 0) /\ Bounded(S \cup {b})
           /\ \A c \in S : Number[c] < Number[b]
<1>1. \A c \in Blocks : Number[c] \in Nat
  BY BlockTreeAssumption
<1>2. CASE S = {}
  <2>1. Number[b] = 0
    BY <1>2, BlockTreeAssumption DEF Last
  <2> QED BY <1>1, <1>2, <2>1 DEF Linked, Bounded
<1>3. CASE S # {}
  <2>1. Last(S) \in S /\ \A c \in S : Number[c] <= Number[Last(S)]
    BY <1>3, LastIsGreatest
  <2>2. Number[b] = Number[Last(S)] + 1
    BY <2>1, BlockTreeAssumption
  <2>3. \A c \in S : Number[c] < Number[b]
    <3> TAKE c \in S
    <3>1. Number[c] \in Nat /\ Number[Last(S)] \in Nat /\ Number[c] <= Number[Last(S)]
      BY <1>1, <2>1
    <3> QED BY <2>2, <3>1
  <2>4. Linked(S \cup {b}, 0)
    BY <1>1, <2>1, <2>3 DEF Linked
  <2>5. Bounded(S \cup {b})
    BY <1>1, <2>3 DEF Bounded
  <2> QED BY <2>3, <2>4, <2>5
<1> QED BY <1>2, <1>3

LEMMA CutBranch ==
    ASSUME NEW S \in SUBSET Blocks, Linked(S, 0), Bounded(S), NEW n \in Int
    PROVE  Linked(UpTo(S, n), 0) /\ Bounded(UpTo(S, n)) /\ UpTo(S, n) \subseteq S
<1>1. UpTo(S, n) \subseteq S
  BY DEF UpTo
<1>2. 0 \in Nat
  OBVIOUS
<1>3. Linked(UpTo(S, n), 0)
  BY <1>2, UpToLinked
<1> QED BY <1>1, <1>3, BoundedSubset

LEMMA ChainSync ==
    ASSUME SyncInv, Chain
    PROVE  SyncInv'
<1>1. UNCHANGED <<stored, row, running, cached, pc, number, details, block, handler, keepBlock, keepBatch>>
  BY DEF Chain, ProduceBlock, RevertChain, AdvanceBatch, iterVars, handlerVars
<1>2. /\ canon' \subseteq Blocks /\ l1' \in [BatchNumbers -> States]
      /\ Linked(canon', 0) /\ canon' # {} /\ Bounded(canon')
  <2>1. ASSUME NEW b \in Blocks, ProduceBlock(b) PROVE <1>2!:
    <3>1. canon' = canon \cup {b} /\ Parent[b] = Last(canon) /\ l1' = l1
      BY <2>1 DEF ProduceBlock
    <3> QED BY <3>1, OnTop DEF SyncInv, BatchTypeOK, BranchInv
  <2>2. ASSUME NEW n \in {Number[b] : b \in Blocks}, RevertChain(n) PROVE <1>2!:
    <3>1. canon' = UpTo(canon, n) /\ n \in Nat
      BY <2>2, BlockTreeAssumption DEF RevertChain
    <3>2. l1' \in [BatchNumbers -> States]
      BY <2>2, BatchSyncAssumption DEF RevertChain, SyncInv, BatchTypeOK, States
    <3>3. canon' # {}
      BY <3>1, GenesisIn DEF SyncInv, BatchTypeOK, BranchInv, UpTo
    <3> QED BY <3>1, <3>2, <3>3, CutBranch DEF SyncInv, BatchTypeOK, BranchInv
  <2>3. ASSUME NEW n \in BatchNumbers, AdvanceBatch(n) PROVE <1>2!:
    <3>1. canon' = canon /\ l1' = [l1 EXCEPT ![n] = l1[n] + 1] /\ l1[n] # Executed
      BY <2>3 DEF AdvanceBatch, ChainExecuted
    <3>2. l1[n] + 1 \in States
      BY <3>1, BatchSyncAssumption DEF SyncInv, BatchTypeOK, States
    <3> QED BY <3>1, <3>2 DEF SyncInv, BatchTypeOK, BranchInv
  <2> QED BY <2>1, <2>2, <2>3 DEF Chain
<1>3. BatchTypeOK'
  BY <1>1, <1>2 DEF SyncInv, BatchTypeOK
<1>4. BranchInv'
  BY <1>1, <1>2 DEF SyncInv, BranchInv, Linked, Bounded
<1>5. ReadInv' /\ StopInv'
  BY <1>1 DEF SyncInv, ReadInv, StopInv, BatchesStopped
<1> QED BY <1>3, <1>4, <1>5 DEF SyncInv

LEMMA BlockWorkerSync == ASSUME SyncInv, BlockWorker
                         PROVE  SyncInv'
<1>1. ASSUME NEW b \in Blocks, StoreBlock(b) PROVE SyncInv'
  <2>1. /\ stored' = stored \cup {b} /\ Parent[b] = Last(stored)
        /\ UNCHANGED <<canon, l1, row, running, cached, pc, number, details, block, handler,
                       keepBlock, keepBatch>>
    BY <1>1 DEF StoreBlock, chainVars, iterVars, handlerVars
  <2>2. Linked(stored', 0) /\ Bounded(stored') /\ stored' \subseteq Blocks
    BY <2>1, OnTop DEF SyncInv, BatchTypeOK, BranchInv
  <2>3. BatchTypeOK' /\ ReadInv' /\ StopInv'
    BY <2>1, <2>2 DEF SyncInv, BatchTypeOK, ReadInv, StopInv, BatchesStopped
  <2>4. BranchInv'
    BY <2>1, <2>2 DEF SyncInv, BranchInv, Linked, Bounded
  <2> QED BY <2>3, <2>4 DEF SyncInv
<1>2. CASE DetectRevert
  <2>1. /\ running' = FALSE /\ handler' = "stopping" /\ cached' = [s \in States |-> Null]
        /\ UNCHANGED <<canon, l1, stored, row, pc, number, details, block, keepBlock, keepBatch>>
    BY <1>2 DEF DetectRevert, chainVars
  <2>2. BatchTypeOK' /\ ReadInv' /\ StopInv'
    BY <2>1 DEF SyncInv, BatchTypeOK, ReadInv, StopInv
  <2>3. BranchInv'
    BY <2>1 DEF SyncInv, BranchInv, Linked, Bounded
  <2> QED BY <2>2, <2>3 DEF SyncInv
<1> QED BY <1>1, <1>2 DEF BlockWorker

\* Where the binary search ends.
LEMMA LastCorrectType ==
    ASSUME SyncInv
    PROVE  LastCorrect # NoBlock =>
             /\ LastCorrect \in stored /\ LastCorrect \in Blocks
             /\ \A b \in stored : b \in canon \/ Number[b] <= LastExecutedBlockNumber
                                  => Number[b] <= Number[LastCorrect]
<1> DEFINE S == {b \in stored : Number[b] <= LastExecutedBlockNumber} \cup (stored \cap canon)
<1>1. S \subseteq Blocks /\ S \subseteq stored /\ Bounded(S)
  BY BoundedSubset DEF SyncInv, BatchTypeOK, BranchInv
<1>2. Last(S) \in S \cup {NoBlock} /\ (Last(S) = NoBlock <=> S = {})
  BY <1>1, LastType
<1>3. S # {} => \A c \in S : Number[c] <= Number[Last(S)]
  BY <1>1, LastIsGreatest
<1> QED BY <1>1, <1>2, <1>3 DEF LastCorrect

LEMMA FindLastCorrectSync == ASSUME SyncInv, FindLastCorrect
                             PROVE  SyncInv'
<1>1. /\ handler = "stopping" /\ BatchesStopped /\ LastCorrect # NoBlock
      /\ handler' = "deleting" /\ keepBlock' = Number[LastCorrect]
      /\ keepBatch' = LastCorrectBatch(Batch[LastCorrect])
      /\ UNCHANGED <<canon, l1, stored, row, running, cached, pc, number, details, block>>
  BY DEF FindLastCorrect, chainVars, iterVars
<1>2. Number[LastCorrect] \in Nat /\ LastCorrectBatch(Batch[LastCorrect]) \in Int
  BY <1>1, LastCorrectType, BlockTreeAssumption DEF LastCorrectBatch
<1>3. BatchTypeOK' /\ ReadInv' /\ StopInv'
  BY <1>1, <1>2 DEF SyncInv, BatchTypeOK, ReadInv, StopInv, BatchesStopped
<1>4. BranchInv'
  BY <1>1 DEF SyncInv, BranchInv, Linked, Bounded
<1> QED BY <1>3, <1>4 DEF SyncInv

\* The tables after the revert transaction.
LEMMA DeletedTables ==
    ASSUME SyncInv, UNCHANGED <<stored, row>> \/ DeleteReverted, canon' = canon
    PROVE  /\ stored' \subseteq stored /\ stored' \subseteq Blocks /\ row' \in [BatchNumbers -> Rows]
           /\ BranchInv'
           /\ \A n \in BatchNumbers : row'[n] \in {row[n], NoRow}
<1>1. CASE UNCHANGED <<stored, row>>
  BY <1>1 DEF SyncInv, BatchTypeOK, BranchInv, Linked, Bounded
<1>2. CASE DeleteReverted
  <2>1. stored' = UpTo(stored, keepBlock) /\ keepBlock \in Nat /\ keepBlock \in Int
    BY <1>2 DEF DeleteReverted, SyncInv, BatchTypeOK
  <2>2. Linked(stored', 0) /\ Bounded(stored') /\ stored' \subseteq stored
    BY <2>1, CutBranch DEF SyncInv, BatchTypeOK, BranchInv
  <2>3. row' = [n \in BatchNumbers |-> IF n > keepBatch THEN NoRow ELSE row[n]]
    BY <1>2 DEF DeleteReverted
  <2>4. row' \in [BatchNumbers -> Rows] /\ \A n \in BatchNumbers : row'[n] \in {row[n], NoRow}
    BY <2>3, RowFacts DEF SyncInv, BatchTypeOK
  <2>5. \E m \in Nat : \A n \in BatchNumbers : row'[n] # NoRow => n <= m
    BY <2>4 DEF SyncInv, BranchInv
  <2>6. BranchInv'
    BY <2>2, <2>5 DEF SyncInv, BranchInv, Linked, Bounded
  <2> QED BY <2>2, <2>4, <2>6 DEF SyncInv, BatchTypeOK
<1> QED BY <1>1, <1>2

LEMMA FinishRevertSync == ASSUME SyncInv, FinishRevert
                          PROVE  SyncInv'
<1>1. /\ handler = "deleting" /\ DeleteReverted /\ running' = TRUE
      /\ handler' = "none" /\ keepBlock' = 0 /\ keepBatch' = 0
      /\ pc' = [s \in States |-> "idle"]
      /\ UNCHANGED <<canon, l1, cached, number, details, block>>
  BY DEF FinishRevert, EndRevert, chainVars
<1>2. BatchTypeOK' /\ BranchInv'
  BY <1>1, DeletedTables DEF SyncInv, BatchTypeOK
<1>3. ReadInv' /\ StopInv'
  BY <1>1 DEF SyncInv, BatchTypeOK, ReadInv, StopInv, BatchesStopped
<1> QED BY <1>2, <1>3 DEF SyncInv

LEMMA RestartSync == ASSUME SyncInv, Restart
                     PROVE  SyncInv'
<1>1. /\ UNCHANGED <<stored, row>> \/ DeleteReverted
      /\ running' = TRUE /\ handler' = "none" /\ keepBlock' = 0 /\ keepBatch' = 0
      /\ cached' = [s \in States |-> Null] /\ pc' = [s \in States |-> "idle"]
      /\ number' = [s \in States |-> 0] /\ details' = [s \in States |-> NoRow]
      /\ block' = [s \in States |-> NoBlock]
      /\ UNCHANGED <<canon, l1>>
  BY DEF Restart, FreshIterations, EndRevert, chainVars
<1>2. BatchTypeOK' /\ BranchInv'
  BY <1>1, DeletedTables, RowFacts DEF SyncInv, BatchTypeOK
<1>3. ReadInv' /\ StopInv'
  BY <1>1 DEF ReadInv, StopInv
<1> QED BY <1>2, <1>3 DEF SyncInv

LEMMA BatchNextSync == ASSUME SyncInv, BatchNext \/ UNCHANGED batchVars
                       PROVE  SyncInv'
<1>1. CASE UNCHANGED batchVars
  BY <1>1 DEF batchVars, chainVars, iterVars, handlerVars, SyncInv, BatchTypeOK, BranchInv, ReadInv,
              StopInv, BatchesStopped, Linked, Bounded
<1>2. CASE BatchNext
  BY <1>2, ChainSync, BlockWorkerSync, BatchWorkerSync, FindLastCorrectSync, FinishRevertSync,
     RestartSync DEF BatchNext, Handler, BatchFault
<1> QED BY <1>1, <1>2

-----------------------------------------------------------------------------
(***************************************************************************)
(* The invariant of SlowExecution.                                         *)
(***************************************************************************)
LEMMA BatchInitFinal == ASSUME BatchInit PROVE FinalInv
<1>1. ExecutedRows = {}
  BY RowFacts, BatchSyncAssumption DEF BatchInit, ExecutedRows
<1>2. cached[Executed] = Null /\ pc[Executed] = "idle" /\ number[Executed] = 0
  BY RowFacts DEF BatchInit
<1>3. ExecutedWorkerInv
  BY <1>1, <1>2, NumbersAreNaturals DEF ExecutedWorkerInv, GoesOn
<1>4. DetailsInv /\ RevertInv
  BY DEF BatchInit, DetailsInv, RevertInv
<1>5. RowsInv /\ ExecutedRowsCorrect /\ ExecutedContiguous
  BY <1>1 DEF BatchInit, RowsInv, ExecutedRowsCorrect, ExecutedContiguous
<1> QED BY <1>3, <1>4, <1>5 DEF FinalInv

(***************************************************************************)
(* The batch workers.                                                      *)
(***************************************************************************)
LEMMA OneWorkerFinal ==
    ASSUME SyncInv, FinalInv, NEW s \in States, NEW c, NEW p, NEW n, NEW d, NEW k,
           OneWorker(s, c, p, n, d, k),
           RowsInv', ExecutedRowsCorrect', ExecutedContiguous',
           ExecutedRows \subseteq ExecutedRows', handler = "deleting" => row' = row,
           d # NoRow => /\ ChainExecuted(n) => d.root = ChainRoot(n)
                        /\ s = Executed => ChainExecuted(n),
           s = Executed => GoesOn(c, p, n, k, ExecutedRows')
    PROVE  FinalInv'
<1>1. \A x : ChainRoot(x)' = ChainRoot(x) /\ ChainExecuted(x)' = ChainExecuted(x)
  BY DEF OneWorker, ChainRoot, Sealed, ChainExecuted
<1>2. DetailsInv'
  BY <1>1 DEF OneWorker, SyncInv, BatchTypeOK, FinalInv, DetailsInv
<1>3. RevertInv'
  BY DEF OneWorker, FinalInv, RevertInv, ExecutedRows
<1>4. ExecutedWorkerInv'
  <2>1. CASE s = Executed
    <3>1. cached'[Executed] = c /\ pc'[Executed] = p /\ number'[Executed] = n /\ block'[Executed] = k
      BY <2>1, RowFacts DEF OneWorker, SyncInv, BatchTypeOK
    <3> QED BY <2>1, <3>1 DEF OneWorker, ExecutedWorkerInv, GoesOn
  <2>2. CASE s # Executed
    <3>1. /\ cached'[Executed] = cached[Executed] /\ pc'[Executed] = pc[Executed]
          /\ number'[Executed] = number[Executed] /\ block'[Executed] = block[Executed]
          /\ stored' = stored /\ canon' = canon
      BY <2>2, RowFacts DEF OneWorker, SyncInv, BatchTypeOK
    <3> QED BY <3>1 DEF FinalInv, ExecutedWorkerInv, GoesOn
  <2> QED BY <2>1, <2>2
<1> QED BY <1>2, <1>3, <1>4 DEF FinalInv

\* A step without a row.
LEMMA SameRowsFinal ==
    ASSUME SyncInv, FinalInv, NEW s \in States, NEW c, NEW p, NEW n, NEW d, NEW k,
           OneWorker(s, c, p, n, d, k), row' = row,
           d # NoRow => /\ ChainExecuted(n) => d.root = ChainRoot(n)
                        /\ s = Executed => ChainExecuted(n),
           s = Executed => GoesOn(c, p, n, k, ExecutedRows)
    PROVE  FinalInv'
<1>1. \A x : ChainRoot(x)' = ChainRoot(x) /\ ChainExecuted(x)' = ChainExecuted(x)
  BY DEF OneWorker, ChainRoot, Sealed, ChainExecuted
<1>2. ExecutedRows' = ExecutedRows
  BY DEF ExecutedRows
<1>3. RowsInv' /\ ExecutedRowsCorrect' /\ ExecutedContiguous'
  BY <1>1, <1>2 DEF OneWorker, FinalInv, RowsInv, ExecutedRowsCorrect, ExecutedContiguous
<1> QED BY <1>2, <1>3, OneWorkerFinal

\* What the write of a row makes of the executed rows.
LEMMA WrittenRows ==
    ASSUME SyncInv, FinalInv, NEW s \in States, pc[s] = "writing", WriteRow(s),
           UNCHANGED <<canon, l1, stored>>
    PROVE  /\ ExecutedRows' = ExecutedRows \cup (IF s = Executed THEN {number[s]} ELSE {})
           /\ RowsInv' /\ ExecutedRowsCorrect' /\ ExecutedContiguous'
<1>1. /\ number[s] \in BatchNumbers /\ details[s] \in Rows /\ details[s] # NoRow
      /\ details[s].state = s
  BY DEF SyncInv, ReadInv, BatchTypeOK
<1>2. PICK r : r = Upsert(row[number[s]], details[s])
  OBVIOUS
<1>3. row[number[s]] \in Rows
  BY <1>1 DEF SyncInv, BatchTypeOK
<1>4. r.root = details[s].root /\ r.state = Max2(row[number[s]].state, s)
  BY <1>1, <1>2, <1>3, UpsertType
<1>5. row' = [row EXCEPT ![number[s]] = r]
  BY <1>2 DEF WriteRow
<1>6. \A n \in BatchNumbers : row'[n] = IF n = number[s] THEN r ELSE row[n]
  BY <1>1, <1>5 DEF SyncInv, BatchTypeOK
<1>7. r.state = Executed <=> row[number[s]].state = Executed \/ s = Executed
  BY <1>3, <1>4, RowFacts DEF Max2, States
<1>8. ExecutedRows' = ExecutedRows \cup (IF s = Executed THEN {number[s]} ELSE {})
  BY <1>1, <1>6, <1>7 DEF ExecutedRows
<1>9. \A x : ChainRoot(x)' = ChainRoot(x) /\ ChainExecuted(x)' = ChainExecuted(x)
  BY DEF ChainRoot, Sealed, ChainExecuted
<1>10. ASSUME number[s] \in ExecutedRows'
       PROVE  ChainExecuted(number[s]) /\ r.root = ChainRoot(number[s])
  <2>1. ChainExecuted(number[s])
    BY <1>1, <1>8, <1>10 DEF FinalInv, RowsInv, DetailsInv
  <2> QED BY <1>1, <1>4, <2>1 DEF FinalInv, DetailsInv
<1>11. s = Executed => /\ \E b \in stored : Batch[b] = number[s]
                       /\ \A b \in stored : Batch[b] = number[s] => b \in canon
                       /\ \A m \in BatchNumbers : m < number[s] => m \in ExecutedRows
  BY DEF FinalInv, ExecutedWorkerInv, GoesOn
<1>12. RowsInv'
  BY <1>8, <1>9, <1>10, <1>11 DEF FinalInv, RowsInv
<1>13. ExecutedRowsCorrect'
  <2>1. \A n \in ExecutedRows' : row'[n].root = ChainRoot(n)
    <3> TAKE n \in ExecutedRows'
    <3>1. CASE n = number[s]
      BY <1>1, <1>6, <1>10, <3>1
    <3>2. CASE n # number[s]
      BY <1>6, <1>8, <3>2 DEF FinalInv, ExecutedRowsCorrect, ExecutedRows
    <3> QED BY <3>1, <3>2
  <2>2. \A b \in stored : Batch[b] \in ExecutedRows' => b \in canon
    BY <1>8, <1>11 DEF FinalInv, ExecutedRowsCorrect
  <2> QED BY <1>9, <2>1, <2>2 DEF ExecutedRowsCorrect
<1>14. ExecutedContiguous'
  BY <1>8, <1>11 DEF FinalInv, ExecutedContiguous
<1> QED BY <1>8, <1>12, <1>13, <1>14

LEMMA NothingBelowZero == ASSUME NEW X, NEW k
                          PROVE  GoesOn(Null, "idle", 0, k, X)
  BY NumbersAreNaturals DEF GoesOn

LEMMA BeginFinal == ASSUME SyncInv, FinalInv, NEW s \in States, Begin(s)
                    PROVE  FinalInv'
<1>1. PICK c \in Nat \cup {-1} :
         /\ c = IF cached[s] = Null THEN LastBatch(s) ELSE cached[s]
         /\ OneWorker(s, c, "asking", c + 1, details[s], block[s])
  BY BeginIs
<1>2. details[s] = NoRow /\ row' = row
  BY BeginIs DEF SyncInv, ReadInv
<1>3. ASSUME s = Executed PROVE GoesOn(c, "asking", c + 1, block[s], ExecutedRows)
  <2>1. \A m \in BatchNumbers : m <= c => m \in ExecutedRows
    <3>1. CASE cached[s] = Null /\ LastBatch(s) # -1
      <4>1. c \in BatchNumbers /\ row[c].state >= Executed
        BY <1>1, <1>3, <3>1, LastBatchType DEF SyncInv
      <4>2. row[c].state = Executed
        <5>1. row[c] \in Rows
          BY <4>1 DEF SyncInv, BatchTypeOK
        <5>2. row[c].state \in (0 .. Executed) \cup {-1} /\ Executed \in Nat
          BY <5>1, RowFacts, BatchSyncAssumption DEF States
        <5> QED BY <4>1, <5>2
      <4>3. c \in ExecutedRows
        BY <4>1, <4>2 DEF ExecutedRows
      <4> TAKE m \in BatchNumbers
      <4> HAVE m <= c
      <4>4. m = c \/ m < c
        BY <4>1, NumbersAreNaturals
      <4> QED BY <4>3, <4>4 DEF FinalInv, ExecutedContiguous
    <3>2. CASE cached[s] = Null /\ LastBatch(s) = -1
      <4>1. c = -1
        BY <1>1, <3>2
      <4> QED BY <4>1, NumbersAreNaturals
    <3>3. CASE cached[s] # Null
      BY <1>1, <1>3, <3>3 DEF FinalInv, ExecutedWorkerInv, GoesOn
    <3> QED BY <3>1, <3>2, <3>3
  <2> QED BY <2>1, NumbersAreNaturals DEF GoesOn
<1> QED BY <1>1, <1>2, <1>3, SameRowsFinal

LEMMA GetDetailsFinal == ASSUME SyncInv, FinalInv, NEW s \in States, GetDetails(s)
                         PROVE  FinalInv'
<1>1. CASE OneWorker(s, Null, "idle", 0, NoRow, NoBlock)
  BY <1>1, GetDetailsIs, NothingBelowZero, SameRowsFinal
<1>2. CASE /\ OneWorker(s, cached[s], "looking", number[s], ChainDetails(number[s]), block[s])
           /\ ChainDetails(number[s]) # NoRow /\ ChainDetails(number[s]).state = s
  <2>1. PICK d : d = ChainDetails(number[s])
    OBVIOUS
  <2>2. d # NoRow /\ d.root = ChainRoot(number[s]) /\ (s = Executed => ChainExecuted(number[s]))
    BY <1>2, <2>1, ChainDetailsType DEF SyncInv, ChainExecuted
  <2>3. s = Executed => GoesOn(cached[s], "looking", number[s], block[s], ExecutedRows)
    BY DEF FinalInv, ExecutedWorkerInv, GoesOn
  <2>4. OneWorker(s, cached[s], "looking", number[s], d, block[s]) /\ row' = row
    BY <1>2, <2>1, GetDetailsIs
  <2> QED BY <2>2, <2>3, <2>4, SameRowsFinal
<1> QED BY <1>1, <1>2, GetDetailsIs

LEMMA GetLastBlockFinal == ASSUME SyncInv, FinalInv, NEW s \in States, GetLastBlock(s)
                           PROVE  FinalInv'
<1>1. CASE OneWorker(s, Null, "idle", 0, NoRow, NoBlock)
  BY <1>1, GetLastBlockIs, NothingBelowZero, SameRowsFinal
<1>2. CASE /\ OneWorker(s, cached[s], "comparing", number[s], details[s], StoredIn(number[s]))
           /\ StoredIn(number[s]) # NoBlock
  <2>1. PICK k : k = StoredIn(number[s])
    OBVIOUS
  <2>2. /\ k \in stored /\ Batch[k] = number[s]
        /\ \A b \in stored : Batch[b] = number[s] => ~(Number[b] > Number[k])
    BY <1>2, <2>1, StoredInType, BlockTreeAssumption DEF SyncInv, BatchTypeOK
  <2>3. s = Executed => GoesOn(cached[s], "comparing", number[s], k, ExecutedRows)
    BY <2>2 DEF FinalInv, ExecutedWorkerInv, GoesOn
  <2>4. OneWorker(s, cached[s], "comparing", number[s], details[s], k) /\ row' = row
    BY <1>2, <2>1, GetLastBlockIs
  <2> QED BY <2>3, <2>4, SameRowsFinal DEF FinalInv, DetailsInv
<1> QED BY <1>1, <1>2, GetLastBlockIs

LEMMA CompareBlockFinal == ASSUME SyncInv, FinalInv, NEW s \in States, CompareBlock(s)
                           PROVE  FinalInv'
<1>1. CASE OneWorker(s, Null, "idle", 0, NoRow, NoBlock)
  BY <1>1, CompareBlockIs, NothingBelowZero, SameRowsFinal
<1>2. CASE /\ OneWorker(s, cached[s], "writing", number[s], details[s], block[s])
           /\ block[s] \in canon
  <2>1. ASSUME s = Executed PROVE GoesOn(cached[s], "writing", number[s], block[s], ExecutedRows)
    <3>1. /\ block[s] \in stored /\ Batch[block[s]] = number[s]
          /\ \A b \in stored : Batch[b] = number[s] /\ Number[b] > Number[block[s]] => b \in canon
      BY <2>1, CompareBlockIs DEF FinalInv, ExecutedWorkerInv, GoesOn
    <3>2. ASSUME NEW b \in stored, Number[b] <= Number[block[s]] PROVE b \in canon
      <4>1. 0 \in Nat /\ 0 <= 0 /\ Linked(stored, 0) /\ Linked(canon, 0)
            /\ stored \subseteq Blocks /\ canon \subseteq Blocks /\ block[s] \in stored \cap canon
        BY <1>2, <3>1 DEF SyncInv, BatchTypeOK, BranchInv
      <4> QED BY <3>2, <4>1, SharedBelow
    <3>3. \A b \in stored : Number[b] \in Nat /\ Number[block[s]] \in Nat
      BY <3>1, BlockTreeAssumption DEF SyncInv, BatchTypeOK
    <3>4. \A b \in stored : Batch[b] = number[s] => b \in canon
      BY <3>1, <3>2, <3>3
    <3> QED BY <2>1, <3>1, <3>4 DEF FinalInv, ExecutedWorkerInv, GoesOn
  <2> QED BY <1>2, <2>1, CompareBlockIs, SameRowsFinal DEF FinalInv, DetailsInv
<1> QED BY <1>1, <1>2, CompareBlockIs

LEMMA WriteFinal ==
    ASSUME SyncInv, FinalInv, NEW s \in States, pc[s] = "writing", WriteRow(s),
           NEW c \in {Null, number[s]}, OneWorker(s, c, "idle", 0, NoRow, NoBlock)
    PROVE  FinalInv'
<1>1. UNCHANGED <<canon, l1, stored>>
  BY DEF OneWorker
<1>2. /\ ExecutedRows' = ExecutedRows \cup (IF s = Executed THEN {number[s]} ELSE {})
      /\ RowsInv' /\ ExecutedRowsCorrect' /\ ExecutedContiguous'
  BY <1>1, WrittenRows
<1>3. handler # "deleting"
  BY DEF SyncInv, StopInv, BatchesStopped
<1>4. s = Executed => GoesOn(c, "idle", 0, NoBlock, ExecutedRows')
  <2> SUFFICES ASSUME s = Executed PROVE GoesOn(c, "idle", 0, NoBlock, ExecutedRows')
    OBVIOUS
  <2>1. number[s] \in Nat /\ \A m \in BatchNumbers : m < number[s] => m \in ExecutedRows
    BY DEF FinalInv, ExecutedWorkerInv, GoesOn, SyncInv, BatchTypeOK
  <2>2. \A m \in BatchNumbers : m <= number[s] => m \in ExecutedRows'
    BY <1>2, <2>1, NumbersAreNaturals
  <2> QED BY <2>2, NumbersAreNaturals DEF GoesOn
<1> QED BY <1>2, <1>3, <1>4, OneWorkerFinal

LEMMA BatchWorkerFinal ==
    ASSUME SyncInv, FinalInv, NEW s \in States, BatchWorker(s) \/ IterationFails(s)
    PROVE  FinalInv'
<1>1. CASE UpsertBatch(s)
  BY <1>1, UpsertBatchIs, WriteFinal
<1>2. CASE IterationFails(s)
  BY <1>2, IterationFailsIs, WriteFinal, NothingBelowZero, SameRowsFinal
<1>3. CASE WorkerStops(s)
  <2>1. s = Executed => GoesOn(cached[s], "stopped", number[s], block[s], ExecutedRows)
    BY DEF FinalInv, ExecutedWorkerInv, GoesOn
  <2> QED BY <1>3, <2>1, WorkerStopsIs, SameRowsFinal DEF FinalInv, DetailsInv
<1> QED BY <1>1, <1>2, <1>3, BeginFinal, GetDetailsFinal, GetLastBlockFinal, CompareBlockFinal
        DEF BatchWorker

(***************************************************************************)
(* The chain.                                                              *)
(***************************************************************************)
\* It keeps a batch that is executed, with all its blocks.
LEMMA ChainKeeps ==
    ASSUME SyncInv, Chain, NEW n \in BatchNumbers, ChainExecuted(n)
    PROVE  /\ ChainExecuted(n)' /\ ChainRoot(n)' = ChainRoot(n)
           /\ \A b \in Blocks : Batch[b] = n => (b \in canon' <=> b \in canon)
<1>1. l1[n] = Executed /\ Executed \in Nat /\ Executed > 0 /\ canon \subseteq Blocks
  BY BatchSyncAssumption DEF ChainExecuted, SyncInv, BatchTypeOK
<1>2. /\ l1'[n] = Executed
      /\ \A b \in Blocks : Batch[b] = n => (b \in canon' <=> b \in canon)
      /\ canon' \subseteq Blocks
  <2>1. ASSUME NEW b \in Blocks, ProduceBlock(b) PROVE <1>2!:
    BY <1>1, <2>1 DEF ProduceBlock
  <2>2. ASSUME NEW m \in {Number[b] : b \in Blocks}, RevertChain(m) PROVE <1>2!:
    <3>1. /\ \A b \in canon : Number[b] > m => l1[Batch[b]] # Executed
          /\ canon' = {b \in canon : Number[b] <= m}
          /\ l1' = [x \in BatchNumbers |->
                      IF \E b \in canon : Batch[b] = x /\ Number[b] > m THEN 0 ELSE l1[x]]
      BY <2>2 DEF RevertChain, ChainExecuted, UpTo
    <3>2. m \in Nat /\ \A b \in canon : Number[b] \in Nat
      BY <1>1, <2>2, NumbersAreNaturals
    <3>3. \A b \in canon : Batch[b] = n => Number[b] <= m
      BY <1>1, <3>1, <3>2
    <3>4. l1'[n] = l1[n]
      BY <1>1, <3>1, <3>2, <3>3
    <3> QED BY <1>1, <3>1, <3>3, <3>4
  <2>3. ASSUME NEW m \in BatchNumbers, AdvanceBatch(m) PROVE <1>2!:
    BY <1>1, <2>3 DEF AdvanceBatch, ChainExecuted, SyncInv, BatchTypeOK
  <2> QED BY <2>1, <2>2, <2>3 DEF Chain
<1>3. {b \in canon' : Batch[b] = n} = {b \in canon : Batch[b] = n}
  BY <1>1, <1>2
<1>4. ChainRoot(n) = Last({b \in canon : Batch[b] = n})
  BY <1>1 DEF ChainRoot
<1>5. ChainRoot(n)' = Last({b \in canon' : Batch[b] = n})
  BY <1>1, <1>2 DEF ChainRoot
<1>6. ChainExecuted(n)'
  BY <1>2 DEF ChainExecuted
<1> QED BY <1>2, <1>3, <1>4, <1>5, <1>6

\* It executes a batch only while every worker that holds details of it holds
\* the ones of the chain.
LEMMA ChainExecutes ==
    ASSUME SlowExecution, SyncInv, Chain, NEW n \in BatchNumbers, ~ChainExecuted(n), ChainExecuted(n)',
           NEW s \in States, details[s] # NoRow, number[s] = n
    PROVE  details[s].root = ChainRoot(n)'
<1>1. l1'[n] = Executed /\ l1[n] # Executed /\ l1[n] \in Nat /\ Executed > 0
  <2>1. l1[n] \in Nat
    BY RowFacts DEF SyncInv, BatchTypeOK
  <2>2. Executed > 0
    BY BatchSyncAssumption
  <2> QED BY <2>1, <2>2 DEF ChainExecuted
<1>2. PICK m \in BatchNumbers : AdvanceBatch(m)
  <2>1. ASSUME NEW b \in Blocks, ProduceBlock(b) PROVE FALSE
    BY <1>1, <2>1 DEF ProduceBlock
  <2>2. ASSUME NEW x \in {Number[b] : b \in Blocks}, RevertChain(x) PROVE FALSE
    BY <1>1, <2>2 DEF RevertChain
  <2> QED BY <2>1, <2>2 DEF Chain
<1>3. /\ canon' = canon /\ l1' = [l1 EXCEPT ![m] = l1[m] + 1]
      /\ ChainRoot(m) # NoBlock /\ (l1[m] + 1 = Executed => ~HoldsReverted)
  BY <1>2 DEF AdvanceBatch
<1>4. m = n /\ l1[n] + 1 = Executed
  BY <1>1, <1>3 DEF SyncInv, BatchTypeOK
<1>5. details[s].root = ChainRoot(n)
  BY <1>3, <1>4 DEF HoldsReverted
<1>6. ChainRoot(n) = Last({b \in canon : Batch[b] = n})
  BY <1>3, <1>4 DEF ChainRoot
<1>7. ChainRoot(n)' = Last({b \in canon : Batch[b] = n})
  BY <1>1, <1>3 DEF ChainRoot
<1> QED BY <1>5, <1>6, <1>7

LEMMA ChainFinal == ASSUME SlowExecution, SyncInv, FinalInv, Chain
                    PROVE  FinalInv'
<1>1. UNCHANGED <<stored, row, running, cached, pc, number, details, block, handler, keepBlock, keepBatch>>
  BY DEF Chain, ProduceBlock, RevertChain, AdvanceBatch, iterVars, handlerVars
<1>2. ExecutedRows' = ExecutedRows
  BY <1>1 DEF ExecutedRows
<1>3. ExecutedRows \subseteq BatchNumbers /\ \A n \in ExecutedRows : ChainExecuted(n)
  BY DEF ExecutedRows, FinalInv, RowsInv
<1>4. DetailsInv'
  <2> SUFFICES ASSUME NEW s \in States, details[s] # NoRow
               PROVE  /\ ChainExecuted(number[s])' => details[s].root = ChainRoot(number[s])'
                      /\ s = Executed => ChainExecuted(number[s])'
    BY <1>1 DEF DetailsInv, ChainExecuted, ChainRoot, Sealed
  <2>1. number[s] \in BatchNumbers
    BY DEF SyncInv, ReadInv
  <2>2. PICK n \in BatchNumbers : n = number[s]
    BY <2>1
  <2>3. number'[s] = n /\ details'[s] = details[s]
    BY <1>1, <2>2
  <2>4. CASE ChainExecuted(n)
    <3>1. ChainExecuted(n)' /\ ChainRoot(n)' = ChainRoot(n) /\ details[s].root = ChainRoot(n)
      BY <2>2, <2>4, ChainKeeps DEF FinalInv, DetailsInv
    <3> QED BY <2>2, <2>3, <3>1 DEF ChainExecuted, ChainRoot, Sealed
  <2>5. CASE ~ChainExecuted(n)
    <3>1. s # Executed
      BY <2>2, <2>5 DEF FinalInv, DetailsInv
    <3>2. ChainExecuted(n)' => details[s].root = ChainRoot(n)'
      BY <2>2, <2>5, ChainExecutes
    <3> QED BY <2>2, <2>3, <3>1, <3>2 DEF ChainExecuted, ChainRoot, Sealed
  <2> QED BY <2>4, <2>5
<1>5. RowsInv'
  <2>1. \A n \in ExecutedRows : ChainExecuted(n)'
    BY <1>3, ChainKeeps
  <2> QED BY <1>1, <1>2, <2>1 DEF FinalInv, RowsInv
<1>6. ExecutedRowsCorrect'
  <2>1. \A n \in ExecutedRows : ChainRoot(n)' = ChainRoot(n)
    BY <1>3, ChainKeeps
  <2>2. \A b \in stored : Batch[b] \in ExecutedRows => b \in canon'
    <3> TAKE b \in stored
    <3> HAVE Batch[b] \in ExecutedRows
    <3>1. b \in canon /\ b \in Blocks /\ Batch[b] \in BatchNumbers /\ ChainExecuted(Batch[b])
      BY <1>3 DEF FinalInv, ExecutedRowsCorrect, SyncInv, BatchTypeOK
    <3> QED BY <3>1, ChainKeeps
  <2> QED BY <1>1, <1>2, <2>1, <2>2 DEF FinalInv, ExecutedRowsCorrect
<1>7. ExecutedContiguous' /\ RevertInv'
  BY <1>1, <1>2 DEF FinalInv, ExecutedContiguous, RevertInv
<1>8. ExecutedWorkerInv'
  <2>1. ASSUME pc[Executed] \in {"comparing", "writing"}
        PROVE  \A b \in stored : Batch[b] = number[Executed] /\ b \in canon => b \in canon'
    <3>1. details[Executed] # NoRow /\ number[Executed] \in BatchNumbers
      BY <2>1, RowFacts DEF SyncInv, ReadInv
    <3>2. ChainExecuted(number[Executed])
      BY <3>1, RowFacts DEF FinalInv, DetailsInv
    <3> QED BY <3>1, <3>2, ChainKeeps DEF SyncInv, BatchTypeOK
  <2> QED BY <1>1, <1>2, <2>1 DEF FinalInv, ExecutedWorkerInv, GoesOn
<1> QED BY <1>4, <1>5, <1>6, <1>7, <1>8 DEF FinalInv

(***************************************************************************)
(* The block worker and the revert.                                        *)
(***************************************************************************)
LEMMA BlockWorkerFinal == ASSUME SyncInv, FinalInv, BlockWorker
                          PROVE  FinalInv'
<1>1. UNCHANGED <<canon, l1, row, pc, number, details, block, keepBlock, keepBatch>>
  BY DEF BlockWorker, StoreBlock, DetectRevert, chainVars, iterVars, handlerVars
<1>2. /\ ExecutedRows' = ExecutedRows
      /\ \A x : ChainRoot(x)' = ChainRoot(x) /\ ChainExecuted(x)' = ChainExecuted(x)
  BY <1>1 DEF ExecutedRows, ChainRoot, Sealed, ChainExecuted
<1>3. /\ stored \subseteq stored' /\ \A b \in stored' \ stored : b \in canon
      /\ handler' # "deleting"
      /\ cached'[Executed] \in {cached[Executed], Null}
  <2>1. ASSUME NEW b \in Blocks, StoreBlock(b) PROVE <1>3!:
    BY <2>1 DEF StoreBlock, SyncInv, StopInv, iterVars, handlerVars
  <2>2. CASE DetectRevert
    BY <2>2, RowFacts DEF DetectRevert
  <2> QED BY <2>1, <2>2 DEF BlockWorker
<1>4. DetailsInv' /\ RevertInv' /\ ExecutedContiguous' /\ RowsInv' /\ ExecutedRowsCorrect'
  BY <1>1, <1>2, <1>3
  DEF FinalInv, DetailsInv, RevertInv, ExecutedContiguous, RowsInv, ExecutedRowsCorrect
<1>5. ExecutedWorkerInv'
  BY <1>1, <1>2, <1>3 DEF FinalInv, ExecutedWorkerInv, GoesOn
<1> QED BY <1>4, <1>5 DEF FinalInv

LEMMA FindLastCorrectFinal == ASSUME SyncInv, FinalInv, FindLastCorrect
                              PROVE  FinalInv'
<1>1. /\ LastCorrect # NoBlock
      /\ keepBlock' = Number[LastCorrect]
      /\ keepBatch' = LastCorrectBatch(Batch[LastCorrect])
      /\ UNCHANGED <<canon, l1, stored, row, running, cached, pc, number, details, block>>
  BY DEF FindLastCorrect, chainVars, iterVars
<1>2. /\ ExecutedRows' = ExecutedRows
      /\ \A x : ChainRoot(x)' = ChainRoot(x) /\ ChainExecuted(x)' = ChainExecuted(x)
  BY <1>1 DEF ExecutedRows, ChainRoot, Sealed, ChainExecuted
<1>3. DetailsInv' /\ ExecutedContiguous' /\ RowsInv' /\ ExecutedRowsCorrect' /\ ExecutedWorkerInv'
  BY <1>1, <1>2
  DEF FinalInv, DetailsInv, ExecutedContiguous, RowsInv, ExecutedRowsCorrect, ExecutedWorkerInv, GoesOn
<1>4. PICK k \in stored : /\ k = LastCorrect
                          /\ \A b \in stored : Number[b] <= LastExecutedBlockNumber
                                               => Number[b] <= Number[k]
  BY <1>1, LastCorrectType
<1>5. \A b \in stored : Batch[b] \in ExecutedRows => Number[b] <= Number[k]
  BY <1>4, LastExecutedType DEF SyncInv
<1>6. ASSUME NEW n \in ExecutedRows PROVE n <= keepBatch'
  <2>1. PICK b \in stored : Batch[b] = n
    BY DEF FinalInv, RowsInv
  <2>2. Linked(stored, 0) /\ 0 \in Nat /\ stored \subseteq Blocks
    BY DEF SyncInv, BatchTypeOK, BranchInv
  <2>3. Batch[b] <= Batch[k]
    BY <1>5, <2>1, <2>2, BatchGrows
  <2>4. n \in Nat /\ Batch[k] \in Nat
    BY <2>1, <2>2, BlockTreeAssumption
  <2>5. CASE n = Batch[k]
    <3>1. LastCorrectBatch(n) = n
      BY DEF LastCorrectBatch, FinalInv, ExecutedRowsCorrect
    <3> QED BY <1>1, <1>4, <2>4, <2>5, <3>1
  <2>6. CASE n < Batch[k]
    <3>1. LastCorrectBatch(Batch[k]) \in {Batch[k] - 1, Batch[k]}
      BY DEF LastCorrectBatch
    <3> QED BY <1>1, <1>4, <2>4, <2>6, <3>1
  <2> QED BY <2>1, <2>3, <2>4, <2>5, <2>6
<1>7. RevertInv'
  BY <1>1, <1>2, <1>4, <1>5, <1>6 DEF RevertInv
<1> QED BY <1>3, <1>7 DEF FinalInv

\* The revert transaction deletes nothing that is executed.
LEMMA DeletedFinal ==
    ASSUME SyncInv, FinalInv, canon' = canon, l1' = l1,
           UNCHANGED <<stored, row>> \/ (handler = "deleting" /\ DeleteReverted)
    PROVE  /\ ExecutedRows' = ExecutedRows
           /\ \A b \in stored : Batch[b] \in ExecutedRows => b \in stored'
           /\ RowsInv' /\ ExecutedRowsCorrect' /\ ExecutedContiguous'
<1>1. /\ \A n \in BatchNumbers : row'[n] \in {row[n], NoRow}
      /\ stored' \subseteq stored
  BY DeletedTables
<1>2. /\ \A n \in ExecutedRows : row'[n] = row[n]
      /\ \A b \in stored : Batch[b] \in ExecutedRows => b \in stored'
  <2>1. CASE UNCHANGED <<stored, row>>
    BY <2>1
  <2>2. CASE handler = "deleting" /\ DeleteReverted
    <3>1. /\ \A n \in ExecutedRows : n <= keepBatch
          /\ \A b \in stored : Batch[b] \in ExecutedRows => Number[b] <= keepBlock
      BY <2>2 DEF FinalInv, RevertInv
    <3>2. \A n \in ExecutedRows : n \in BatchNumbers /\ n \in Nat /\ ~(n > keepBatch)
      BY <3>1, NumbersAreNaturals DEF ExecutedRows, SyncInv, BatchTypeOK
    <3>3. \A n \in ExecutedRows : row'[n] = row[n]
      BY <2>2, <3>2 DEF DeleteReverted
    <3>4. \A b \in stored : Batch[b] \in ExecutedRows => b \in stored'
      BY <2>2, <3>1 DEF DeleteReverted, UpTo
    <3> QED BY <3>3, <3>4
  <2> QED BY <2>1, <2>2
<1>3. NoRow.state # Executed
  BY RowFacts, BatchSyncAssumption
<1>4. ExecutedRows' = ExecutedRows
  BY <1>1, <1>2, <1>3 DEF ExecutedRows
<1>5. \A x : ChainRoot(x)' = ChainRoot(x) /\ ChainExecuted(x)' = ChainExecuted(x)
  BY DEF ChainRoot, Sealed, ChainExecuted
<1>6. RowsInv' /\ ExecutedContiguous'
  BY <1>2, <1>4, <1>5 DEF FinalInv, RowsInv, ExecutedContiguous
<1>7. ExecutedRowsCorrect'
  BY <1>1, <1>2, <1>4, <1>5 DEF FinalInv, ExecutedRowsCorrect
<1> QED BY <1>2, <1>4, <1>6, <1>7

LEMMA FinishRevertFinal == ASSUME SyncInv, FinalInv, FinishRevert
                           PROVE  FinalInv'
<1>1. /\ handler = "deleting" /\ DeleteReverted /\ handler' = "none"
      /\ pc'[Executed] = "idle"
      /\ UNCHANGED <<canon, l1, cached, number, details, block>>
  BY RowFacts DEF FinishRevert, EndRevert, chainVars
<1>2. ExecutedRows' = ExecutedRows /\ RowsInv' /\ ExecutedRowsCorrect' /\ ExecutedContiguous'
  BY <1>1, DeletedFinal
<1>3. DetailsInv' /\ RevertInv'
  BY <1>1 DEF FinalInv, DetailsInv, RevertInv, ChainRoot, Sealed, ChainExecuted
<1>4. ExecutedWorkerInv'
  BY <1>1, <1>2 DEF FinalInv, ExecutedWorkerInv, GoesOn
<1> QED BY <1>2, <1>3, <1>4 DEF FinalInv

LEMMA RestartFinal == ASSUME SyncInv, FinalInv, Restart
                      PROVE  FinalInv'
<1>1. /\ UNCHANGED <<stored, row>> \/ (handler = "deleting" /\ DeleteReverted)
      /\ handler' = "none" /\ details' = [s \in States |-> NoRow]
      /\ cached'[Executed] = Null /\ pc'[Executed] = "idle" /\ number'[Executed] = 0
      /\ UNCHANGED <<canon, l1>>
  BY RowFacts DEF Restart, FreshIterations, EndRevert, chainVars
<1>2. ExecutedRows' = ExecutedRows /\ RowsInv' /\ ExecutedRowsCorrect' /\ ExecutedContiguous'
  BY <1>1, DeletedFinal
<1>3. DetailsInv' /\ RevertInv'
  BY <1>1 DEF DetailsInv, RevertInv
<1>4. ExecutedWorkerInv'
  BY <1>1, NumbersAreNaturals DEF ExecutedWorkerInv, GoesOn
<1> QED BY <1>2, <1>3, <1>4 DEF FinalInv

LEMMA BatchNextFinal ==
    ASSUME SlowExecution, SyncInv, FinalInv, BatchNext \/ UNCHANGED batchVars
    PROVE  FinalInv'
<1>1. CASE UNCHANGED batchVars
  BY <1>1 DEF batchVars, chainVars, iterVars, handlerVars, FinalInv, DetailsInv, RowsInv,
              ExecutedRowsCorrect, ExecutedContiguous, ExecutedWorkerInv, GoesOn, RevertInv,
              ExecutedRows, ChainRoot, Sealed, ChainExecuted
<1>2. CASE BatchNext
  BY <1>2, ChainFinal, BlockWorkerFinal, BatchWorkerFinal, FindLastCorrectFinal, FinishRevertFinal,
     RestartFinal DEF BatchNext, Handler, BatchFault
<1> QED BY <1>1, <1>2

(***************************************************************************)
(* What a step leaves of the rows.                                         *)
(***************************************************************************)
\* The state of a row only grows while the row is there.
LEMMA RowsAdvance ==
    ASSUME SyncInv, BatchNext \/ UNCHANGED batchVars,
           NEW n \in BatchNumbers, row'[n] # NoRow
    PROVE  row'[n].state >= row[n].state
<1>1. row[n].state \in Int
  BY RowFacts DEF SyncInv, BatchTypeOK
<1>2. CASE row'[n] = row[n]
  BY <1>1, <1>2
<1>3. ASSUME NEW s \in States, pc[s] = "writing", WriteRow(s) PROVE row'[n].state >= row[n].state
  <2>1. number[s] \in BatchNumbers /\ details[s] \in Rows /\ details[s] # NoRow
    BY <1>3 DEF SyncInv, ReadInv, BatchTypeOK
  <2>2. row[number[s]] \in Rows
    BY <2>1 DEF SyncInv, BatchTypeOK
  <2>3. PICK r : r = Upsert(row[number[s]], details[s])
    OBVIOUS
  <2>4. r.state >= row[number[s]].state
    BY <2>1, <2>2, <2>3, UpsertType
  <2>5. row'[n] = IF n = number[s] THEN r ELSE row[n]
    BY <1>3, <2>3 DEF WriteRow, SyncInv, BatchTypeOK
  <2> QED BY <1>1, <2>4, <2>5
<1>4. row' = row \/ (\E s \in States : pc[s] = "writing" /\ WriteRow(s)) \/ row'[n] = row[n]
  <2>1. CASE UNCHANGED batchVars \/ Chain \/ BlockWorker \/ FindLastCorrect
    BY <2>1 DEF batchVars, Chain, ProduceBlock, RevertChain, AdvanceBatch, BlockWorker, StoreBlock,
                DetectRevert, FindLastCorrect
  <2>2. ASSUME NEW s \in States, BatchWorker(s) \/ IterationFails(s)
        PROVE  row' = row \/ (pc[s] = "writing" /\ WriteRow(s))
    BY <2>2 DEF BatchWorker, Begin, GetDetails, GetLastBlock, CompareBlock, UpsertBatch, WorkerStops,
                IterationFails
  <2>3. CASE FinishRevert \/ Restart
    <3>1. row' = row \/ DeleteReverted
      BY <2>3 DEF FinishRevert, Restart
    <3> QED BY <3>1 DEF DeleteReverted
  <2> QED BY <2>1, <2>2, <2>3 DEF BatchNext, Handler, BatchFault
<1> QED BY <1>2, <1>3, <1>4

\* No step takes back that a batch is executed, nor a stored block of it.
LEMMA ExecutedStays ==
    ASSUME SyncInv, FinalInv, BatchNext \/ UNCHANGED batchVars
    PROVE  /\ ExecutedRows \subseteq ExecutedRows'
           /\ \A b \in stored : Batch[b] \in ExecutedRows => b \in stored'
<1>1. CASE UNCHANGED batchVars \/ Chain \/ BlockWorker \/ FindLastCorrect
  <2>1. row' = row /\ stored \subseteq stored'
    BY <1>1 DEF batchVars, Chain, ProduceBlock, RevertChain, AdvanceBatch, BlockWorker, StoreBlock,
                DetectRevert, FindLastCorrect
  <2> QED BY <2>1 DEF ExecutedRows
<1>2. ASSUME NEW s \in States, BatchWorker(s) \/ IterationFails(s)
      PROVE  ExecutedRows \subseteq ExecutedRows' /\ stored' = stored
  <2>1. /\ UNCHANGED <<canon, l1, stored>>
        /\ row' = row \/ (pc[s] = "writing" /\ WriteRow(s))
    BY <1>2 DEF BatchWorker, Begin, GetDetails, GetLastBlock, CompareBlock, UpsertBatch, WorkerStops,
                IterationFails, chainVars
  <2>2. CASE row' = row
    BY <2>1, <2>2 DEF ExecutedRows
  <2>3. CASE pc[s] = "writing" /\ WriteRow(s)
    BY <2>1, <2>3, WrittenRows
  <2> QED BY <2>1, <2>2, <2>3
<1>3. CASE FinishRevert \/ Restart
  <2>1. /\ UNCHANGED <<canon, l1>>
        /\ UNCHANGED <<stored, row>> \/ (handler = "deleting" /\ DeleteReverted)
    BY <1>3 DEF FinishRevert, Restart, chainVars
  <2> QED BY <2>1, DeletedFinal
<1> QED BY <1>1, <1>2, <1>3 DEF BatchNext, Handler, BatchFault

LEMMA LastExecutedStays ==
    ASSUME SyncInv, FinalInv, BatchNext \/ UNCHANGED batchVars
    PROVE  /\ LastExecutedBlockNumber <= LastExecutedBlockNumber'
           /\ LastExecutedBlockNumber \in Nat /\ LastExecutedBlockNumber' \in Nat
<1>1. SyncInv'
  BY BatchNextSync
<1>2. LastExecutedBlockNumber \in Nat
  BY LastExecutedType DEF SyncInv
<1>3. /\ LastExecutedBlockNumber' \in Nat
      /\ \A b \in stored' : Batch[b] \in ExecutedRows' => Number[b] <= LastExecutedBlockNumber'
  <2> DEFINE S == {b \in stored' : Batch[b] \in ExecutedRows'}
  <2>1. stored' \subseteq Blocks /\ Bounded(stored')
    BY <1>1 DEF SyncInv, BatchTypeOK, BranchInv, Bounded
  <2>2. S \subseteq Blocks /\ Bounded(S)
    BY <2>1, BoundedSubset
  <2>3. Last(S) \in S \cup {NoBlock} /\ (Last(S) = NoBlock <=> S = {})
    BY <2>2, LastType
  <2>4. S # {} => \A c \in S : Number[c] <= Number[Last(S)]
    BY <2>2, LastIsGreatest
  <2>5. LastExecutedBlockNumber' = IF Last(S) = NoBlock THEN 0 ELSE Number[Last(S)]
    BY DEF LastExecutedBlockNumber
  <2> QED BY <2>2, <2>3, <2>4, <2>5, NumbersAreNaturals
<1>4. CASE LastExecutedBlockNumber = 0
  BY <1>2, <1>3, <1>4
<1>5. CASE \E b \in stored : Batch[b] \in ExecutedRows /\ Number[b] = LastExecutedBlockNumber
  <2>1. PICK b \in stored : Batch[b] \in ExecutedRows /\ Number[b] = LastExecutedBlockNumber
    BY <1>5
  <2>2. b \in stored' /\ Batch[b] \in ExecutedRows'
    BY <2>1, ExecutedStays
  <2> QED BY <1>2, <1>3, <2>1, <2>2
<1> QED BY <1>2, <1>3, <1>4, <1>5, LastExecutedType DEF SyncInv

-----------------------------------------------------------------------------
(***************************************************************************)
(* The refinement of ChainMirror.                                          *)
(***************************************************************************)
\* A segment has a block of every number below one of its blocks.
LEMMA NoHoles ==
    ASSUME NEW S \in SUBSET Blocks, Linked(S, 0), NEW n \in Nat,
           NEW b \in S, n < Number[b]
    PROVE  \E c \in S : Number[c] = n
<1> DEFINE Above == {x \in S : n < Number[x]}
<1>1. PICK x \in Above : \A y \in Above : Number[x] <= Number[y]
  BY LowestBlock
<1>2. /\ x \in S /\ n < Number[x] /\ Number[x] \in Nat
  BY <1>1, BlockTreeAssumption
<1>3. Parent[x] \in S /\ Number[x] = Number[Parent[x]] + 1 /\ Number[Parent[x]] \in Nat
  BY <1>2, BlockTreeAssumption DEF Linked
<1>4. ~(n < Number[Parent[x]])
  BY <1>1, <1>2, <1>3
<1>5. Number[Parent[x]] = n
  BY <1>2, <1>3, <1>4
<1> QED BY <1>3, <1>5

LEMMA StoreMirrored ==
    ASSUME SyncInv, NEW b \in Blocks, StoreBlock(b)
    PROVE  Mirror!Extend
<1>1. /\ stored' = stored \cup {b} /\ Parent[b] = Last(stored) /\ row' = row
  BY DEF StoreBlock
<1>2. stored \in SUBSET Blocks /\ Linked(stored, 0) /\ Bounded(stored)
  BY DEF SyncInv, BatchTypeOK, BranchInv
<1>3. Linked(stored \cup {b}, 0) /\ \A c \in stored : Number[c] < Number[b]
  BY <1>1, <1>2, OnTop
<1>4. Mirror!Linked(stored', 0)
  BY <1>1, <1>3 DEF Linked, Mirror!Linked
<1>5. \A x \in stored' \ stored, c \in stored : Number[c] < Number[x]
  BY <1>1, <1>3
<1>6. ExecutedRows' = ExecutedRows
  BY <1>1 DEF ExecutedRows
<1> QED BY <1>1, <1>2, <1>4, <1>5, <1>6 DEF Mirror!Extend

LEMMA DeleteMirrored ==
    ASSUME SyncInv, FinalInv, UNCHANGED <<canon, l1>>, handler = "deleting" /\ DeleteReverted
    PROVE  Mirror!Truncate \/ UNCHANGED <<stored, ExecutedRows>>
<1>1. /\ ExecutedRows' = ExecutedRows
      /\ \A b \in stored : Batch[b] \in ExecutedRows => b \in stored'
  BY DeletedFinal
<1>2. stored' = UpTo(stored, keepBlock)
  BY DEF DeleteReverted
<1>3. stored \in SUBSET Blocks /\ Linked(stored, 0) /\ keepBlock \in Nat
  BY DEF SyncInv, BatchTypeOK, BranchInv
<1>4. CASE stored' = stored
  BY <1>1, <1>4
<1>5. CASE stored' # stored
  <2>1. PICK b \in stored : ~(Number[b] <= keepBlock)
    BY <1>2, <1>5 DEF UpTo
  <2>2. keepBlock < Number[b]
    BY <1>3, <2>1, NumbersAreNaturals
  <2>3. \E c \in stored : Number[c] = keepBlock
    BY <1>3, <2>2, NoHoles
  <2>4. keepBlock \in {Number[c] : c \in Blocks}
    BY <1>3, <2>3
  <2>5. stored' = Mirror!UpTo(stored, keepBlock)
    BY <1>2 DEF UpTo, Mirror!UpTo
  <2>6. Mirror!FinalBlocks \subseteq stored'
    BY <1>1 DEF Mirror!FinalBlocks
  <2> QED BY <1>1, <2>4, <2>5, <2>6 DEF Mirror!Truncate
<1> QED BY <1>4, <1>5

LEMMA WriteMirrored ==
    ASSUME SyncInv, FinalInv, NEW s \in States, pc[s] = "writing", WriteRow(s),
           UNCHANGED <<canon, l1, stored>>
    PROVE  Mirror!Finalise(number[s]) \/ UNCHANGED <<stored, ExecutedRows>>
<1>1. ExecutedRows' = IF s = Executed THEN ExecutedRows \cup {number[s]} ELSE ExecutedRows
  BY WrittenRows
<1> QED BY <1>1 DEF Mirror!Finalise

\* Every step of the batch workers, the block worker and the handler is one of
\* ChainMirror, or is not seen by a reader of the two tables.
LEMMA BatchStepMirrored ==
    ASSUME SyncInv, FinalInv, BatchNext \/ UNCHANGED batchVars
    PROVE  [Mirror!MirrorNext]_(Mirror!mirrorVars)
<1> SUFFICES Mirror!MirrorNext \/ UNCHANGED <<stored, ExecutedRows>>
  BY DEF Mirror!mirrorVars
<1>1. CASE UNCHANGED batchVars \/ Chain \/ DetectRevert \/ FindLastCorrect
  <2>1. row' = row /\ stored' = stored
    BY <1>1 DEF batchVars, Chain, ProduceBlock, RevertChain, AdvanceBatch, DetectRevert, FindLastCorrect
  <2> QED BY <2>1 DEF ExecutedRows
<1>2. ASSUME NEW b \in Blocks, StoreBlock(b)
      PROVE  Mirror!MirrorNext
  BY <1>2, StoreMirrored DEF Mirror!MirrorNext
<1>3. ASSUME NEW s \in States, BatchWorker(s) \/ IterationFails(s)
      PROVE  Mirror!MirrorNext \/ UNCHANGED <<stored, ExecutedRows>>
  <2>1. /\ UNCHANGED <<canon, l1, stored>>
        /\ row' = row \/ (pc[s] = "writing" /\ WriteRow(s))
    BY <1>3 DEF BatchWorker, Begin, GetDetails, GetLastBlock, CompareBlock, UpsertBatch, WorkerStops,
                IterationFails, chainVars
  <2>2. CASE row' = row
    BY <2>1, <2>2 DEF ExecutedRows
  <2>3. CASE pc[s] = "writing" /\ WriteRow(s)
    <3>1. number[s] \in {Batch[b] : b \in Blocks}
      BY <2>3 DEF SyncInv, ReadInv, BatchNumbers
    <3> QED BY <2>1, <2>3, <3>1, WriteMirrored DEF Mirror!MirrorNext
  <2> QED BY <2>1, <2>2, <2>3
<1>4. CASE FinishRevert \/ Restart
  <2>1. /\ UNCHANGED <<canon, l1>>
        /\ UNCHANGED <<stored, row>> \/ (handler = "deleting" /\ DeleteReverted)
    BY <1>4 DEF FinishRevert, Restart, chainVars
  <2>2. CASE UNCHANGED <<stored, row>>
    BY <2>2 DEF ExecutedRows
  <2> QED BY <2>1, <2>2, DeleteMirrored DEF Mirror!MirrorNext
<1> QED BY <1>1, <1>2, <1>3, <1>4 DEF BatchNext, BlockWorker, Handler, BatchFault
=============================================================================
