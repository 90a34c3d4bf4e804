----------------------------- MODULE BlockTree ------------------------------
(***************************************************************************)
(* The blocks that can ever exist on the L2 chain the explorer indexes,    *)
(* and the two tables of blocks the indexer relates: the canonical chain   *)
(* (what the RPC node answers now) and the `blocks` table of the worker's  *)
(* database.  Both are sets of blocks, as a table is a set of rows.        *)
(*                                                                         *)
(* A block stands for its hash: it determines its number, its parent and   *)
(* the L1 batch it is in.  Equality of blocks is equality of hashes.       *)
(***************************************************************************)
EXTENDS Integers

CONSTANTS
    Blocks,    \* every block (hash) that may ever be canonical
    NoBlock,   \* "null": no such block
    Number,    \* Number[b]: block.number
    Parent,    \* Parent[b]: block.parentHash, NoBlock for the genesis block
    Batch      \* Batch[b]: block.l1BatchNumber

ASSUME BlockTreeAssumption ==
    /\ NoBlock \notin Blocks
    /\ Number \in [Blocks -> Nat]
    /\ Parent \in [Blocks -> Blocks \cup {NoBlock}]
    /\ Batch \in [Blocks -> Nat]
    \* A block is one above its parent, in the same L1 batch or the next one.
    /\ \A b \in Blocks : Parent[b] = NoBlock <=> Number[b] = 0
    /\ \A b \in Blocks : Parent[b] \in Blocks =>
          /\ Number[b] = Number[Parent[b]] + 1
          /\ Batch[b] \in {Batch[Parent[b]], Batch[Parent[b]] + 1}
    \* One genesis block, which is batch 0.
    /\ \E b \in Blocks : Number[b] = 0
    /\ \A b, c \in Blocks : Number[b] = 0 /\ Number[c] = 0 => b = c
    /\ \A b \in Blocks : Number[b] = 0 => Batch[b] = 0

(***************************************************************************)
(* SELECT ... WHERE number = n: block.number is the primary key.           *)
(***************************************************************************)
At(S, n) == IF \E b \in S : Number[b] = n
            THEN CHOOSE b \in S : Number[b] = n
            ELSE NoBlock

(***************************************************************************)
(* SELECT ... ORDER BY number DESC LIMIT 1.                                *)
(***************************************************************************)
Last(S) == IF S = {} THEN NoBlock
           ELSE CHOOSE b \in S : \A c \in S : Number[c] <= Number[b]

\* What DELETE ... WHERE number > n leaves.
UpTo(S, n) == {b \in S : Number[b] <= n}

(***************************************************************************)
(* S is a segment of one branch that starts at block number n: no two      *)
(* blocks have a number, and the parent of every block but the first one   *)
(* is there too.                                                           *)
(***************************************************************************)
Linked(S, n) ==
    /\ \A b \in S : Number[b] >= n
    /\ \A b, c \in S : Number[b] = Number[c] => b = c
    /\ \A b \in S : Number[b] > n => Parent[b] \in S
=============================================================================
