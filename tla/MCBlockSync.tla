---------------------------- MODULE MCBlockSync -----------------------------
(***************************************************************************)
(* A small tree of blocks for TLC:                                         *)
(*                                                                         *)
(*    number      0     1     2     3     4                                *)
(*                g --- a1 -- a2 -- a3 -- a4                               *)
(*                 \     \                                                 *)
(*                  \     --- b2 -- b3                                     *)
(*                   ---- c1                                               *)
(*    batch       0     1     1     2     3                                *)
(***************************************************************************)
EXTENDS BlockSync

CONSTANTS g, a1, a2, a3, a4, b2, b3, c1

MCBlocks == {g, a1, a2, a3, a4, b2, b3, c1}

MCNumber == [b \in MCBlocks |->
    CASE b = g -> 0
      [] b \in {a1, c1} -> 1
      [] b \in {a2, b2} -> 2
      [] b \in {a3, b3} -> 3
      [] b = a4 -> 4]

MCBatch == [b \in MCBlocks |->
    CASE b = g -> 0
      [] b \in {a1, c1, a2, b2} -> 1
      [] b \in {a3, b3} -> 2
      [] b = a4 -> 3]

MCParent == [b \in MCBlocks |->
    CASE b = g -> NoBlock
      [] b \in {a1, c1} -> g
      [] b \in {a2, b2} -> a1
      [] b = a3 -> a2
      [] b = a4 -> a3
      [] b = b3 -> b2]
=============================================================================
