-------------------------- MODULE BalancesCleaner ---------------------------
(***************************************************************************)
(* The `balances` table of packages/worker and BalancesCleanerService,     *)
(* composed with the batch workers and the revert of BatchSync.            *)
(*                                                                         *)
(* A block adds a row for every balance it changes, and a reader takes the *)
(* latest row of an account (the API's BalanceService).  The cleaner       *)
(* deletes rows that later rows make useless, three statements without a   *)
(* transaction, in a window of blocks that ends at the last executed one.  *)
(* A revert deletes the blocks it removes together with their rows: it     *)
(* must find the rows that were the latest before them.                    *)
(***************************************************************************)
EXTENDS BatchSync

CONSTANTS
    Accounts,    \* pairs of an address and a token
    BalanceOf    \* BalanceOf[b][a]: what block b makes of the balance of a

ASSUME BalancesAssumption ==
    BalanceOf \in [Blocks -> [Accounts -> {"same", "zero", "some"}]]

VARIABLES
    balances,    \* table `balances`: the pairs of a block and an account it changed
    window,      \* sequence `deleteBalances_fromBlockNumber`
    cleaner,     \* where BalancesCleanerService.runProcess is
    from, to     \* lastRunBlockNumber, lastVerifiedBlockNumber

cleanerVars == <<window, cleaner, from, to>>
vars == <<batchVars, balances, cleanerVars>>

Changes(b) == {<<b, a>> : a \in {x \in Accounts : BalanceOf[b][x] # "same"}}

TypeOK ==
    /\ BatchTypeOK
    /\ balances \subseteq Blocks \X Accounts
    /\ window \in Nat \cup {-1}
    /\ cleaner \in {"idle", "deletingOld", "deletingZero", "moving", "stopped"}
    /\ from \in Int
    /\ to \in Nat

Init ==
    /\ BatchInit
    /\ balances = {}
    /\ window = -1
    /\ cleaner = "idle"
    /\ from = 0
    /\ to = 0

-----------------------------------------------------------------------------
(***************************************************************************)
(* The cleaner.                                                            *)
(***************************************************************************)
\* The window of this run, from the last one to the last executed block.
StartCleaning ==
    /\ cleaner = "idle"
    /\ running
    /\ LastExecutedBlockNumber > window
    /\ cleaner' = "deletingOld"
    /\ from' = window
    /\ to' = LastExecutedBlockNumber
    /\ UNCHANGED <<batchVars, balances, window>>

InWindow(a) == {b \in Blocks : /\ <<b, a>> \in balances
                               /\ from < Number[b] /\ Number[b] <= to}

\* Mutant: the latest row of the whole table is the one to leave.
OldRowsOfAll ==
    {r \in balances : \E q \in balances : q[2] = r[2] /\ Number[r[1]] < Number[q[1]]}

\* deleteOldBalancesScript: below the latest row of the window.
OldRows == {r \in balances :
    InWindow(r[2]) # {} /\ Number[r[1]] < Number[Last(InWindow(r[2]))]}

\* deleteZeroBalancesScript: a zero row of the window, and all below it.
ZeroRows == {r \in balances :
    \E b \in InWindow(r[2]) : BalanceOf[b][r[2]] = "zero" /\ Number[r[1]] <= Number[b]}

\* An error of a DELETE is logged and the run goes on.
DeleteOld ==
    /\ cleaner = "deletingOld"
    /\ balances' \in {balances, balances \ OldRows}
    /\ cleaner' = "deletingZero"
    /\ UNCHANGED <<batchVars, window, from, to>>

DeleteZero ==
    /\ cleaner = "deletingZero"
    /\ balances' \in {balances, balances \ ZeroRows}
    /\ cleaner' = "moving"
    /\ UNCHANGED <<batchVars, window, from, to>>

EndCleaning == cleaner' = "idle" /\ from' = 0 /\ to' = 0

\* The next run starts where this one ended.
MoveWindow ==
    /\ cleaner = "moving"
    /\ window' = to
    /\ EndCleaning
    /\ UNCHANGED <<batchVars, balances>>

CleanerStops ==
    /\ cleaner = "idle"
    /\ ~running
    /\ cleaner' = "stopped"
    /\ UNCHANGED <<batchVars, balances, window, from, to>>

-----------------------------------------------------------------------------
(***************************************************************************)
(* The steps of BatchSync, with what they do to the balances.              *)
(***************************************************************************)
\* BalanceService.saveChangedBalances, in the transaction of the block.
StoreBlockAndBalances(b) ==
    /\ StoreBlock(b)
    /\ balances' = balances \cup Changes(b)
    /\ UNCHANGED cleanerVars

\* A row goes with its block (onDelete: CASCADE).
Cascade == balances' = {r \in balances : r[1] \in stored'}

\* stopWorkers waits for the cleaner as well.
StartRevert ==
    /\ cleaner = "stopped"
    /\ FindLastCorrect
    /\ UNCHANGED <<balances, cleanerVars>>

EndOfRevert ==
    /\ FinishRevert
    /\ Cascade
    /\ cleaner' = "idle"
    /\ UNCHANGED <<window, from, to>>

\* An error of the cleaner outside its two DELETEs ends the process too.
RestartAll ==
    /\ Restart
    /\ Cascade
    /\ EndCleaning
    /\ window' \in IF cleaner = "moving" THEN {window, to} ELSE {window}

Unrelated(A) == A /\ UNCHANGED <<balances, cleanerVars>>

-----------------------------------------------------------------------------
Cleaner == StartCleaning \/ DeleteOld \/ DeleteZero \/ MoveWindow \/ CleanerStops

Blockwise == (\E b \in Blocks : StoreBlockAndBalances(b)) \/ Unrelated(DetectRevert)

Batches(s) == Unrelated(BatchWorker(s))

RevertHandler == StartRevert \/ EndOfRevert

Fault == Unrelated(\E s \in States : IterationFails(s)) \/ RestartAll

Next == Unrelated(Chain) \/ Blockwise \/ (\E s \in States : Batches(s)) \/ Cleaner
        \/ RevertHandler \/ Fault

\* What the event loop keeps running.
Fairness ==
    /\ WF_vars(Blockwise)
    /\ \A s \in States : WF_vars(Batches(s))
    /\ WF_vars(Cleaner)
    /\ WF_vars(RevertHandler)

Spec == Init /\ [][Next]_vars /\ Fairness

-----------------------------------------------------------------------------
(***************************************************************************)
(* Properties.                                                             *)
(***************************************************************************)
\* What a reader gets for account a from the rows R: the latest one, and zero
\* without one (BalanceService.getBalance of the API).
Balance(R, a) ==
    LET last == Last({b \in Blocks : <<b, a>> \in R})
    IN  IF last # NoBlock THEN [block |-> last, is |-> BalanceOf[last][a]]
        ELSE [block |-> NoBlock, is |-> "zero"]

\* The same value; blocks differ only where one of them has no row for a zero.
SameBalance(x, y) == x.is = y.is /\ (x.is = "some" => x.block = y.block)

\* Whatever the cleaner deleted, and whichever of its statements failed, each
\* account has the right balance; and it still has it after any revert, which
\* goes back to the last executed block at most.
BalancesKept ==
    \A k \in {Number[b] : b \in Blocks}, a \in Accounts : k >= LastExecutedBlockNumber =>
        SameBalance(Balance({r \in balances : Number[r[1]] <= k}, a),
                    Balance(UNION {Changes(b) : b \in UpTo(stored, k)}, a))

\* The chain stands still at last, and faults have ended.
Settles == <>[][~(Unrelated(Chain) \/ Fault)]_vars

\* When things settle, every executed batch gets its row and the cleaner goes
\* over all executed blocks: no worker is stuck on a number from before a
\* revert, on a batch that was skipped or on details it could not use, and no
\* revert leaves one stopped.
CatchesUp == Settles => <>[](AllRecorded /\ window >= LastExecutedBlockNumber)
=============================================================================
