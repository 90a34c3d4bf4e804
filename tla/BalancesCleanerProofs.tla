----------------------- MODULE BalancesCleanerProofs -----------------------
(***************************************************************************)
(* Proofs about BalancesCleaner and the batch workers it extends, for all  *)
(* trees of blocks, states of batches and balances.                        *)
(***************************************************************************)
EXTENDS BalancesCleaner, BatchSyncProofs

\* Later rows make the row of b useless for every reader and after every
\* revert: one of them is executed, or it is an executed zero itself and
\* nothing below it is left.
Superseded(b, a) ==
    \/ \E c \in stored : /\ BalanceOf[c][a] # "same" /\ Number[b] < Number[c]
                         /\ Number[c] <= LastExecutedBlockNumber
    \/ /\ BalanceOf[b][a] = "zero" /\ Number[b] <= LastExecutedBlockNumber
       /\ \A c \in Blocks : <<c, a>> \in balances => Number[b] < Number[c]

Cleaning == {"deletingOld", "deletingZero", "moving"}

\* The rows that are there are of stored blocks, the ones that are not there
\* are superseded, and the cleaner never gets above the last executed block.
BalancesInv ==
    /\ \A b \in Blocks, a \in Accounts :
         <<b, a>> \in balances => b \in stored /\ BalanceOf[b][a] # "same"
    /\ \A b \in stored, a \in Accounts :
         BalanceOf[b][a] # "same" /\ <<b, a>> \notin balances => Superseded(b, a)
    /\ cleaner \in Cleaning => to <= LastExecutedBlockNumber

TypeInv == TypeOK /\ SyncInv

IInv == TypeInv /\ FinalInv /\ BalancesInv

-----------------------------------------------------------------------------
(***************************************************************************)
(* The steps of the batch workers, and the types.                          *)
(***************************************************************************)
LEMMA StepsOfBatches == ASSUME Next \/ UNCHANGED vars
                        PROVE  BatchNext \/ UNCHANGED batchVars
<1>1. CASE Unrelated(Chain) \/ Fault
  BY <1>1 DEF Unrelated, Fault, RestartAll, BatchNext, BatchFault
<1>2. CASE Blockwise
  BY <1>2 DEF Blockwise, StoreBlockAndBalances, Unrelated, BatchNext, BlockWorker
<1>3. ASSUME NEW s \in States, Batches(s) PROVE BatchNext
  BY <1>3 DEF Batches, Unrelated, BatchNext
<1>4. CASE Cleaner
  BY <1>4 DEF Cleaner, StartCleaning, DeleteOld, DeleteZero, MoveWindow, CleanerStops
<1>5. CASE RevertHandler
  BY <1>5 DEF RevertHandler, StartRevert, EndOfRevert, BatchNext, Handler
<1> QED BY <1>1, <1>2, <1>3, <1>4, <1>5 DEF Next, vars

LEMMA TypeInit == Init => TypeInv
<1> SUFFICES ASSUME Init PROVE TypeInv
  OBVIOUS
<1>1. SyncInv
  BY BatchInitSync DEF Init
<1> QED BY <1>1 DEF Init, TypeInv, TypeOK, SyncInv

LEMMA TypeNext == TypeInv /\ [Next]_vars => TypeInv'
<1> SUFFICES ASSUME TypeInv, [Next]_vars PROVE TypeInv'
  OBVIOUS
<1>1. SyncInv'
  BY StepsOfBatches, BatchNextSync DEF TypeInv
<1>2. /\ balances' \subseteq Blocks \X Accounts
      /\ window' \in Nat \cup {-1}
      /\ cleaner' \in {"idle", "deletingOld", "deletingZero", "moving", "stopped"}
      /\ from' \in Int
      /\ to' \in Nat
  <2>1. TypeOK
    BY DEF TypeInv
  <2>2. CASE UNCHANGED <<balances, cleanerVars>>
    BY <2>1, <2>2 DEF TypeOK, cleanerVars
  <2>3. ASSUME NEW b \in Blocks, StoreBlockAndBalances(b) PROVE <1>2!:
    BY <2>1, <2>3 DEF TypeOK, StoreBlockAndBalances, Changes, cleanerVars
  <2>4. CASE Cleaner
    BY <2>1, <2>4, LastExecutedType
    DEF Cleaner, StartCleaning, DeleteOld, DeleteZero, MoveWindow, CleanerStops, EndCleaning, TypeInv,
        TypeOK, SyncInv
  <2>5. CASE EndOfRevert \/ RestartAll
    BY <2>1, <2>5 DEF EndOfRevert, RestartAll, Cascade, EndCleaning, TypeOK
  <2> QED BY <2>2, <2>3, <2>4, <2>5
          DEF Next, Unrelated, Blockwise, Batches, RevertHandler, StartRevert, Fault, vars
<1> QED BY <1>1, <1>2 DEF TypeInv, TypeOK, SyncInv

\* The types of every variable hold in every reachable state: the rows are
\* batches and balances of blocks, the numbers natural where the code has them.
THEOREM TypeCorrect == Spec => []TypeOK
<1>1. TypeInv => TypeOK
  BY DEF TypeInv
<1> QED BY <1>1, TypeInit, TypeNext, PTL DEF Spec

\* BaseRepository.upsert never takes back a status of a batch, whichever of
\* the workers writes its older details last.
THEOREM StatusesAdvance == Spec => StatesOnlyAdvance
<1>1. TypeInv /\ [Next]_vars
      => [\A n \in BatchNumbers : row[n] # NoRow /\ row'[n] # NoRow
                                  => row'[n].state >= row[n].state]_batchVars
  BY StepsOfBatches, RowsAdvance DEF TypeInv
<1> QED BY <1>1, TypeInit, TypeNext, PTL DEF Spec, StatesOnlyAdvance

-----------------------------------------------------------------------------
(***************************************************************************)
(* The balances.                                                           *)
(***************************************************************************)
LEMMA StoredBelowStays ==
    ASSUME SyncInv, FinalInv, BatchNext \/ UNCHANGED batchVars,
           NEW c \in stored, Number[c] <= LastExecutedBlockNumber
    PROVE  c \in stored'
<1>1. CASE stored \subseteq stored'
  BY <1>1
<1>2. CASE handler = "deleting" /\ DeleteReverted
  <2>1. keepBlock \in Nat /\ Number[c] \in Nat
    BY BlockTreeAssumption DEF SyncInv, BatchTypeOK
  <2>2. Number[c] <= keepBlock
    <3>1. CASE LastExecutedBlockNumber = 0
      BY <2>1, <3>1
    <3>2. CASE \E b \in stored : Batch[b] \in ExecutedRows /\ Number[b] = LastExecutedBlockNumber
      <4>1. PICK b \in stored : Batch[b] \in ExecutedRows /\ Number[b] = LastExecutedBlockNumber
        BY <3>2
      <4>2. Number[b] <= keepBlock /\ Number[b] \in Nat
        BY <1>2, <4>1, BlockTreeAssumption DEF FinalInv, RevertInv, SyncInv, BatchTypeOK
      <4> QED BY <2>1, <4>1, <4>2
    <3> QED BY <3>1, <3>2, LastExecutedType DEF SyncInv
  <2> QED BY <1>2, <2>2 DEF DeleteReverted, UpTo
<1>3. stored \subseteq stored' \/ (handler = "deleting" /\ DeleteReverted)
  BY DEF batchVars, chainVars, BatchNext, Chain, ProduceBlock, RevertChain, AdvanceBatch,
         BlockWorker, StoreBlock, DetectRevert, BatchWorker, Begin, GetDetails, GetLastBlock,
         CompareBlock, UpsertBatch, WorkerStops, Handler, FindLastCorrect, FinishRevert, BatchFault,
         IterationFails, Restart
<1> QED BY <1>1, <1>2, <1>3

LEMMA SupersededStays ==
    ASSUME SyncInv, FinalInv, BatchNext \/ UNCHANGED batchVars,
           NEW b \in Blocks, NEW a \in Accounts, Superseded(b, a),
           \A c \in Blocks : <<c, a>> \in balances' => <<c, a>> \in balances \/ Number[b] < Number[c]
    PROVE  Superseded(b, a)'
<1>1. /\ LastExecutedBlockNumber \in Nat /\ LastExecutedBlockNumber' \in Nat
      /\ LastExecutedBlockNumber <= LastExecutedBlockNumber'
  BY LastExecutedStays
<1>2. \A x \in Nat : x <= LastExecutedBlockNumber => x <= LastExecutedBlockNumber'
  BY <1>1
<1>3. CASE \E c \in stored : /\ BalanceOf[c][a] # "same" /\ Number[b] < Number[c]
                             /\ Number[c] <= LastExecutedBlockNumber
  <2>1. PICK c \in stored : /\ BalanceOf[c][a] # "same" /\ Number[b] < Number[c]
                            /\ Number[c] <= LastExecutedBlockNumber
    BY <1>3
  <2>2. c \in stored' /\ Number[c] \in Nat
    BY <2>1, StoredBelowStays, BlockTreeAssumption DEF SyncInv, BatchTypeOK
  <2> QED BY <1>2, <2>1, <2>2 DEF Superseded
<1>4. CASE /\ BalanceOf[b][a] = "zero" /\ Number[b] <= LastExecutedBlockNumber
           /\ \A c \in Blocks : <<c, a>> \in balances => Number[b] < Number[c]
  <2>1. Number[b] <= LastExecutedBlockNumber'
    BY <1>2, <1>4, BlockTreeAssumption
  <2> QED BY <1>4, <2>1 DEF Superseded
<1> QED BY <1>3, <1>4 DEF Superseded

\* A step that only takes the rows of deleted blocks away.
LEMMA BalancesStay ==
    ASSUME SyncInv, FinalInv, BalancesInv, BatchNext \/ UNCHANGED batchVars,
           stored' \subseteq stored,
           \A b \in Blocks, a \in Accounts :
               <<b, a>> \in balances' <=> <<b, a>> \in balances /\ b \in stored',
           cleaner' \in Cleaning => to' <= LastExecutedBlockNumber'
    PROVE  BalancesInv'
<1>1. \A b \in Blocks, a \in Accounts :
         <<b, a>> \in balances' => b \in stored' /\ BalanceOf[b][a] # "same"
  BY DEF BalancesInv
<1>2. ASSUME NEW b \in stored', NEW a \in Accounts, BalanceOf[b][a] # "same", <<b, a>> \notin balances'
      PROVE  Superseded(b, a)'
  <2>1. b \in stored /\ b \in Blocks /\ <<b, a>> \notin balances
    BY <1>2 DEF SyncInv, BatchTypeOK
  <2>2. Superseded(b, a)
    BY <1>2, <2>1 DEF BalancesInv
  <2> QED BY <2>1, <2>2, SupersededStays
<1> QED BY <1>1, <1>2 DEF BalancesInv
LEMMA SameBlocks == UNCHANGED batchVars => /\ stored' = stored
                                           /\ LastExecutedBlockNumber' = LastExecutedBlockNumber
  BY DEF batchVars, LastExecutedBlockNumber, ExecutedRows

LEMMA StoreFinal ==
    ASSUME TypeInv, FinalInv, BalancesInv, NEW x \in Blocks, StoreBlockAndBalances(x)
    PROVE  BalancesInv'
<1>1. /\ stored' = stored \cup {x} /\ Parent[x] = Last(stored) /\ BatchNext
      /\ balances' = balances \cup Changes(x) /\ UNCHANGED <<cleaner, to>>
  BY DEF StoreBlockAndBalances, StoreBlock, cleanerVars, BatchNext, BlockWorker
<1>2. \A c \in stored : Number[c] < Number[x] /\ c \in Blocks
  BY <1>1, OnTop DEF TypeInv, SyncInv, BatchTypeOK, BranchInv
<1>3. \A b \in Blocks, a \in Accounts :
         <<b, a>> \in balances' <=> <<b, a>> \in balances \/ (b = x /\ BalanceOf[x][a] # "same")
  BY <1>1 DEF Changes
<1>4. \A b \in Blocks, a \in Accounts :
         <<b, a>> \in balances' => b \in stored' /\ BalanceOf[b][a] # "same"
  BY <1>1, <1>3 DEF BalancesInv
<1>5. ASSUME NEW b \in stored', NEW a \in Accounts, BalanceOf[b][a] # "same", <<b, a>> \notin balances'
      PROVE  Superseded(b, a)'
  <2>1. b \in stored /\ b \in Blocks /\ <<b, a>> \notin balances
    BY <1>1, <1>2, <1>3, <1>5
  <2>2. Superseded(b, a)
    BY <1>5, <2>1 DEF BalancesInv
  <2>3. \A c \in Blocks : <<c, a>> \in balances' => <<c, a>> \in balances \/ Number[b] < Number[c]
    BY <1>2, <1>3, <2>1
  <2> QED BY <1>1, <2>1, <2>2, <2>3, SupersededStays DEF TypeInv
<1>6. cleaner' \in Cleaning => to' <= LastExecutedBlockNumber'
  <2>1. to \in Nat /\ SyncInv
    BY DEF TypeInv, TypeOK
  <2> QED BY <1>1, <2>1, LastExecutedStays DEF BalancesInv
<1> QED BY <1>4, <1>5, <1>6 DEF BalancesInv

\* A DELETE of the cleaner, which takes superseded rows away.
LEMMA DeleteFinal ==
    ASSUME TypeInv, FinalInv, BalancesInv, UNCHANGED <<batchVars, to>>, cleaner \in Cleaning,
           balances' \subseteq balances,
           \A b \in stored, a \in Accounts :
               <<b, a>> \in balances /\ <<b, a>> \notin balances' => Superseded(b, a)'
    PROVE  BalancesInv'
<1>1. stored' = stored /\ LastExecutedBlockNumber' = LastExecutedBlockNumber
  BY SameBlocks
<1>2. \A b \in Blocks, a \in Accounts :
         <<b, a>> \in balances' => b \in stored' /\ BalanceOf[b][a] # "same"
  BY <1>1 DEF BalancesInv
<1>3. ASSUME NEW b \in stored', NEW a \in Accounts, BalanceOf[b][a] # "same", <<b, a>> \notin balances'
      PROVE  Superseded(b, a)'
  <2>1. CASE <<b, a>> \in balances
    BY <1>1, <1>3, <2>1
  <2>2. CASE <<b, a>> \notin balances
    <3>1. b \in Blocks /\ SyncInv /\ Superseded(b, a)
      BY <1>1, <1>3, <2>2 DEF TypeInv, SyncInv, BatchTypeOK, BalancesInv
    <3> QED BY <3>1, SupersededStays
  <2> QED BY <2>1, <2>2
<1>4. to' <= LastExecutedBlockNumber'
  BY <1>1 DEF BalancesInv
<1> QED BY <1>2, <1>3, <1>4 DEF BalancesInv

\* The rows of a window.
LEMMA WindowType ==
    ASSUME TypeInv, BalancesInv, cleaner \in Cleaning, NEW a \in Accounts
    PROVE  /\ \A b \in InWindow(a) :
                /\ b \in stored /\ b \in Blocks /\ <<b, a>> \in balances /\ BalanceOf[b][a] # "same"
                /\ Number[b] <= LastExecutedBlockNumber
           /\ InWindow(a) # {} => Last(InWindow(a)) \in InWindow(a)
<1>1. to \in Nat /\ to <= LastExecutedBlockNumber /\ LastExecutedBlockNumber \in Nat
      /\ stored \subseteq Blocks /\ Bounded(stored)
  BY LastExecutedType DEF TypeInv, TypeOK, SyncInv, BatchTypeOK, BranchInv, BalancesInv
<1>2. \A b \in InWindow(a) : b \in Blocks /\ <<b, a>> \in balances /\ Number[b] <= to
  BY DEF InWindow
<1>3. \A b \in InWindow(a) : b \in stored /\ BalanceOf[b][a] # "same"
  BY <1>2 DEF BalancesInv
<1>4. \A b \in InWindow(a) : Number[b] <= LastExecutedBlockNumber
  <2> TAKE b \in InWindow(a)
  <2>1. Number[b] \in Nat /\ Number[b] <= to
    BY <1>2, NumbersAreNaturals
  <2> QED BY <1>1, <2>1
<1>5. InWindow(a) \subseteq Blocks /\ Bounded(InWindow(a))
  BY <1>1, <1>2, <1>3, BoundedSubset
<1> QED BY <1>2, <1>3, <1>4, <1>5, LastIsGreatest

LEMMA DeleteOldFinal == ASSUME TypeInv, FinalInv, BalancesInv, DeleteOld
                        PROVE  BalancesInv'
<1>1. cleaner \in Cleaning /\ balances' \in {balances, balances \ OldRows}
      /\ UNCHANGED <<batchVars, to>>
  BY DEF DeleteOld, Cleaning
<1>2. ASSUME NEW b \in stored, NEW a \in Accounts, <<b, a>> \in balances, <<b, a>> \notin balances'
      PROVE  Superseded(b, a)'
  <2>1. <<b, a>> \in OldRows
    BY <1>1, <1>2
  <2>2. PICK c : c = Last(InWindow(a))
    OBVIOUS
  <2>3. InWindow(a) # {} /\ Number[b] < Number[c]
    BY <2>1, <2>2 DEF OldRows
  <2>4. c \in stored /\ BalanceOf[c][a] # "same" /\ Number[c] <= LastExecutedBlockNumber
    BY <1>1, <2>2, <2>3, WindowType
  <2> QED BY <1>1, <2>3, <2>4, SameBlocks DEF Superseded
<1>3. balances' \subseteq balances
  BY <1>1
<1> QED BY <1>1, <1>2, <1>3, DeleteFinal

LEMMA DeleteZeroFinal == ASSUME TypeInv, FinalInv, BalancesInv, DeleteZero
                         PROVE  BalancesInv'
<1>1. cleaner \in Cleaning /\ balances' \in {balances, balances \ ZeroRows}
      /\ UNCHANGED <<batchVars, to>>
  BY DEF DeleteZero, Cleaning
<1>2. ASSUME NEW b \in stored, NEW a \in Accounts, <<b, a>> \in balances, <<b, a>> \notin balances'
      PROVE  Superseded(b, a)'
  <2>1. <<b, a>> \in ZeroRows /\ balances' = balances \ ZeroRows
    BY <1>1, <1>2
  <2>2. PICK z \in InWindow(a) : BalanceOf[z][a] = "zero" /\ Number[b] <= Number[z]
    BY <2>1 DEF ZeroRows
  <2>3. z \in stored /\ BalanceOf[z][a] # "same" /\ Number[z] <= LastExecutedBlockNumber
    BY <1>1, <2>2, WindowType
  <2>4. Number[b] \in Nat /\ Number[z] \in Nat
    BY <2>3, NumbersAreNaturals DEF TypeInv, SyncInv, BatchTypeOK
  <2>5. CASE Number[b] < Number[z]
    BY <1>1, <2>3, <2>5, SameBlocks DEF Superseded
  <2>6. CASE Number[b] = Number[z]
    <3>1. b = z
      BY <2>3, <2>6 DEF TypeInv, SyncInv, BranchInv, Linked
    <3>2. \A c \in Blocks : <<c, a>> \in balances' => Number[b] < Number[c]
      <4> TAKE c \in Blocks
      <4> HAVE <<c, a>> \in balances'
      <4>1. ~(Number[c] <= Number[z])
        BY <2>1, <2>2 DEF ZeroRows
      <4> QED BY <2>4, <2>6, <4>1, NumbersAreNaturals
    <3> QED BY <1>1, <2>2, <2>3, <3>1, <3>2, SameBlocks DEF Superseded
  <2> QED BY <2>2, <2>4, <2>5, <2>6
<1>3. balances' \subseteq balances
  BY <1>1
<1> QED BY <1>1, <1>2, <1>3, DeleteFinal

\* The other steps keep the rows of the blocks that stay.
LEMMA CleanerFinal ==
    ASSUME TypeInv, FinalInv, BalancesInv, StartCleaning \/ MoveWindow \/ CleanerStops
    PROVE  BalancesInv'
<1>1. UNCHANGED batchVars /\ balances' = balances
      /\ (to' = LastExecutedBlockNumber \/ cleaner' \notin Cleaning)
  BY DEF StartCleaning, MoveWindow, CleanerStops, EndCleaning, Cleaning
<1>2. LastExecutedBlockNumber \in Nat
  BY LastExecutedType DEF TypeInv, SyncInv
<1>3. stored' = stored /\ LastExecutedBlockNumber' = LastExecutedBlockNumber
  BY <1>1, SameBlocks
<1>4. \A b \in Blocks, a \in Accounts :
         <<b, a>> \in balances' <=> <<b, a>> \in balances /\ b \in stored'
  BY <1>1, <1>3 DEF BalancesInv
<1> QED BY <1>1, <1>2, <1>3, <1>4, BalancesStay DEF TypeInv

LEMMA UnrelatedFinal ==
    ASSUME TypeInv, FinalInv, BalancesInv, BatchNext \/ UNCHANGED batchVars, stored' = stored,
           UNCHANGED <<balances, cleaner, to>>
    PROVE  BalancesInv'
<1>1. \A b \in Blocks, a \in Accounts :
         <<b, a>> \in balances' <=> <<b, a>> \in balances /\ b \in stored'
  BY DEF BalancesInv
<1>2. to \in Nat /\ LastExecutedBlockNumber \in Nat /\ LastExecutedBlockNumber' \in Nat
      /\ LastExecutedBlockNumber <= LastExecutedBlockNumber'
  BY LastExecutedStays DEF TypeInv, TypeOK
<1>3. cleaner' \in Cleaning => to' <= LastExecutedBlockNumber'
  BY <1>2 DEF BalancesInv
<1> QED BY <1>1, <1>3, BalancesStay DEF TypeInv

LEMMA CascadeFinal ==
    ASSUME TypeInv, FinalInv, BalancesInv, BatchNext, Cascade, stored' \subseteq stored,
           cleaner' \notin Cleaning
    PROVE  BalancesInv'
<1>1. \A b \in Blocks, a \in Accounts :
         <<b, a>> \in balances' <=> <<b, a>> \in balances /\ b \in stored'
  BY DEF Cascade
<1> QED BY <1>1, BalancesStay DEF TypeInv

LEMMA BalancesInit == Init => BalancesInv
  BY DEF Init, BatchInit, BalancesInv, Cleaning

LEMMA BalancesNext == ASSUME TypeInv, FinalInv, BalancesInv, [Next]_vars
                      PROVE  BalancesInv'
<1>1. BatchNext \/ UNCHANGED batchVars
  BY StepsOfBatches
<1>2. CASE UNCHANGED vars
  BY <1>1, <1>2, UnrelatedFinal, SameBlocks DEF vars, cleanerVars
<1>3. CASE Unrelated(Chain) \/ Unrelated(DetectRevert) \/ StartRevert
  <2>1. stored' = stored /\ UNCHANGED <<balances, cleaner, to>>
    BY <1>3 DEF Unrelated, Chain, ProduceBlock, RevertChain, AdvanceBatch, DetectRevert, StartRevert,
                FindLastCorrect, cleanerVars
  <2> QED BY <1>1, <2>1, UnrelatedFinal
<1>4. ASSUME NEW s \in States, BatchWorker(s) \/ IterationFails(s), UNCHANGED <<balances, cleanerVars>>
      PROVE  BalancesInv'
  <2>1. stored' = stored /\ UNCHANGED <<balances, cleaner, to>>
    BY <1>4 DEF BatchWorker, Begin, GetDetails, GetLastBlock, CompareBlock, UpsertBatch, WorkerStops,
                IterationFails, cleanerVars
  <2> QED BY <1>1, <2>1, UnrelatedFinal
<1>5. CASE Cleaner
  BY <1>5, CleanerFinal, DeleteOldFinal, DeleteZeroFinal DEF Cleaner
<1>6. CASE EndOfRevert \/ RestartAll
  <2>1. /\ BatchNext /\ Cascade /\ canon' = canon
        /\ UNCHANGED <<stored, row>> \/ DeleteReverted
        /\ cleaner' = "idle"
    BY <1>6 DEF EndOfRevert, RestartAll, EndCleaning, BatchNext, Handler, BatchFault, FinishRevert,
                Restart, chainVars
  <2>2. stored' \subseteq stored
    BY <2>1, DeletedTables DEF TypeInv
  <2> QED BY <2>1, <2>2, CascadeFinal DEF Cleaning
<1> QED BY <1>2, <1>3, <1>4, <1>5, <1>6, StoreFinal
        DEF Next, Blockwise, Batches, RevertHandler, Fault, Unrelated

-----------------------------------------------------------------------------
(***************************************************************************)
(* The theorems of SlowExecution.                                          *)
(***************************************************************************)
LEMMA InvInit == Init => IInv
  BY TypeInit, BatchInitFinal, BalancesInit DEF Init, IInv

LEMMA InvNext == SlowExecution => (IInv /\ [Next]_vars => IInv')
<1> SUFFICES ASSUME SlowExecution, IInv, [Next]_vars PROVE IInv'
  OBVIOUS
<1>1. TypeInv' /\ BalancesInv'
  BY TypeNext, BalancesNext DEF IInv
<1>2. FinalInv'
  BY StepsOfBatches, BatchNextFinal DEF IInv, TypeInv
<1> QED BY <1>1, <1>2 DEF IInv

\* The latest row is the right one, for every k a revert may go back to.
LEMMA InvBalances == IInv => BalancesKept
<1> SUFFICES ASSUME IInv, NEW k \in {Number[b] : b \in Blocks}, NEW a \in Accounts,
                    k >= LastExecutedBlockNumber
             PROVE  SameBalance(Balance({r \in balances : Number[r[1]] <= k}, a),
                                Balance(UNION {Changes(b) : b \in UpTo(stored, k)}, a))
  BY DEF BalancesKept
<1> DEFINE Kept == {b \in Blocks : <<b, a>> \in {r \in balances : Number[r[1]] <= k}}
           Full == {b \in Blocks : <<b, a>> \in UNION {Changes(c) : c \in UpTo(stored, k)}}
<1>1. /\ stored \subseteq Blocks /\ Bounded(stored)
      /\ k \in Nat /\ LastExecutedBlockNumber \in Nat
      /\ \A b, c \in stored : Number[b] = Number[c] => b = c
      /\ \A b \in Blocks : Number[b] \in Nat
  BY LastExecutedType, NumbersAreNaturals DEF IInv, TypeInv, SyncInv, BatchTypeOK, BranchInv, Linked
<1>2. \A b : b \in Full <=> b \in stored /\ Number[b] <= k /\ BalanceOf[b][a] # "same"
  <2>1. \A b, c : <<b, a>> \in Changes(c) <=> b = c /\ BalanceOf[b][a] # "same"
    BY DEF Changes
  <2>2. \A b : b \in Full <=> b \in Blocks /\ \E c \in UpTo(stored, k) : <<b, a>> \in Changes(c)
    OBVIOUS
  <2>3. \A c : c \in UpTo(stored, k) <=> c \in stored /\ Number[c] <= k
    BY DEF UpTo
  <2> HIDE DEF Full
  <2> TAKE b
  <2>4. ASSUME b \in Full PROVE b \in stored /\ Number[b] <= k /\ BalanceOf[b][a] # "same"
    <3>1. PICK c \in UpTo(stored, k) : <<b, a>> \in Changes(c)
      BY <2>2, <2>4
    <3>2. b = c /\ BalanceOf[b][a] # "same"
      BY <2>1, <3>1
    <3>3. c \in stored /\ Number[c] <= k
      BY <2>3
    <3> QED BY <3>2, <3>3
  <2>5. ASSUME b \in stored, Number[b] <= k, BalanceOf[b][a] # "same" PROVE b \in Full
    BY <1>1, <2>1, <2>2, <2>3, <2>5
  <2> QED BY <2>4, <2>5
<1>3. \A b : b \in Kept <=> b \in Blocks /\ <<b, a>> \in balances /\ Number[b] <= k
  OBVIOUS
<1> HIDE DEF Kept, Full
<1>4. Kept \subseteq Full /\ Full \subseteq Blocks /\ Bounded(Full) /\ Bounded(Kept)
  <2>1. Kept \subseteq Full
    BY <1>2, <1>3 DEF IInv, BalancesInv
  <2> QED BY <1>1, <1>2, <2>1, BoundedSubset
<1>5. CASE Full = {}
  <2>1. Last(Full) = NoBlock /\ Last(Kept) = NoBlock
    BY <1>4, <1>5, LastType
  <2> QED BY <2>1 DEF SameBalance, Balance, Kept, Full
<1>6. CASE Full # {}
  <2>1. PICK f : f = Last(Full)
    OBVIOUS
  <2>2. f \in Full /\ f \in Blocks /\ f # NoBlock /\ \A c \in Full : Number[c] <= Number[f]
    BY <1>4, <1>6, <2>1, LastIsGreatest, BlockTreeAssumption
  <2>3. CASE <<f, a>> \in balances
    <3>1. f \in Kept
      BY <1>2, <1>3, <2>2, <2>3
    <3>2. Last(Kept) \in Kept /\ \A c \in Kept : Number[c] <= Number[Last(Kept)]
      BY <1>4, <3>1, LastIsGreatest
    <3>3. PICK l : l = Last(Kept)
      OBVIOUS
    <3>4. l \in Full /\ Number[l] <= Number[f] /\ Number[f] <= Number[l]
      BY <1>4, <2>2, <3>1, <3>2, <3>3
    <3>5. Number[l] = Number[f]
      BY <1>1, <1>4, <2>2, <3>4
    <3>6. l = f
      BY <1>1, <1>2, <2>2, <3>4, <3>5
    <3> QED BY <2>1, <3>3, <3>6 DEF SameBalance, Balance, Kept, Full
  <2>4. CASE <<f, a>> \notin balances
    <3>1. Superseded(f, a)
      BY <1>2, <2>2, <2>4 DEF IInv, BalancesInv
    <3>2. ~(\E c \in stored : /\ BalanceOf[c][a] # "same" /\ Number[f] < Number[c]
                              /\ Number[c] <= LastExecutedBlockNumber)
      <4> SUFFICES ASSUME NEW c \in stored, BalanceOf[c][a] # "same", Number[f] < Number[c],
                          Number[c] <= LastExecutedBlockNumber
                   PROVE  FALSE
        OBVIOUS
      <4>1. Number[c] \in Nat /\ Number[f] \in Nat
        BY <1>1, <2>2
      <4>2. Number[c] <= k
        BY <1>1, <4>1
      <4>3. Number[c] <= Number[f]
        BY <1>2, <2>2, <4>2
      <4> QED BY <4>1, <4>3
    <3>3. BalanceOf[f][a] = "zero" /\ \A c \in Blocks : <<c, a>> \in balances => Number[f] < Number[c]
      BY <3>1, <3>2 DEF Superseded
    <3>4. Kept = {}
      <4> SUFFICES ASSUME NEW c \in Kept PROVE FALSE
        OBVIOUS
      <4>1. c \in Blocks /\ Number[f] < Number[c] /\ Number[c] <= Number[f]
        BY <1>3, <1>4, <2>2, <3>3
      <4> QED BY <1>1, <2>2, <4>1
    <3>5. Last(Kept) = NoBlock
      BY <3>4 DEF Last
    <3> QED BY <2>1, <2>2, <3>3, <3>5 DEF SameBalance, Balance, Kept, Full
  <2> QED BY <2>3, <2>4
<1> QED BY <1>5, <1>6

\* The rows the database calls executed have the root hash of the chain, and
\* the stored blocks of their batches are canonical, as long as the chain
\* executes nothing while a worker holds details from before a revert.
THEOREM ExecutedIsFinal == ASSUME SlowExecution PROVE Spec => []ExecutedRowsCorrect
<1>1. IInv => ExecutedRowsCorrect
  BY DEF IInv, FinalInv
<1>2. IInv /\ [Next]_vars => IInv'
  BY InvNext
<1> QED BY <1>1, <1>2, InvInit, PTL DEF Spec

\* The worker for executed batches leaves no gap below a row it wrote.
THEOREM NoGaps == ASSUME SlowExecution PROVE Spec => []ExecutedContiguous
<1>1. IInv => ExecutedContiguous
  BY DEF IInv, FinalInv
<1>2. IInv /\ [Next]_vars => IInv'
  BY InvNext
<1> QED BY <1>1, <1>2, InvInit, PTL DEF Spec

\* Whatever the cleaner of old balances deletes, every account has the right
\* balance, also after any revert that can still come.
THEOREM BalancesRight == ASSUME SlowExecution PROVE Spec => []BalancesKept
<1>1. IInv /\ [Next]_vars => IInv'
  BY InvNext
<1> QED BY <1>1, InvBalances, InvInit, PTL DEF Spec

\* A reader of the tables of blocks and batches sees one branch of the chain
\* that grows at its end, loses only what is not final, and never loses a
\* batch that was executed: whatever the batch workers, the block worker, the
\* cleaner, the handler and restarts do is a step of ChainMirror or none.
THEOREM BatchesImplementMirror == ASSUME SlowExecution PROVE Spec => BatchesMirrorChain
<1>1. Init => Mirror!MirrorInit
  <2> SUFFICES ASSUME Init PROVE Mirror!MirrorInit
    OBVIOUS
  <2>1. stored = {} /\ \A n \in BatchNumbers : row[n] = NoRow
    BY DEF Init, BatchInit
  <2>2. ExecutedRows = {}
    BY <2>1, RowFacts DEF ExecutedRows
  <2> QED BY <2>1, <2>2 DEF Mirror!MirrorInit
<1>2. IInv /\ [Next]_vars => [Mirror!MirrorNext]_(Mirror!mirrorVars)
  BY StepsOfBatches, BatchStepMirrored DEF IInv, TypeInv
<1>3. IInv /\ [Next]_vars => IInv'
  BY InvNext
<1> QED BY <1>1, <1>2, <1>3, InvInit, PTL DEF Spec, BatchesMirrorChain, Mirror!MirrorSpec
=============================================================================
