------------------------- MODULE MCBalancesCleaner --------------------------
(***************************************************************************)
(* Two branches that part inside a batch, and two accounts:                *)
(*                                                                         *)
(*    number      0     1     2     3                                      *)
(*                g --- a1 -- a2 -- a3                                     *)
(*                       \                                                 *)
(*                        --- b2 -- b3                                     *)
(*    batch       0     1     1     2                                      *)
(*    x          some  zero  some  zero    (a branch)                      *)
(*                           same  some    (b branch)                      *)
(*    y          zero  some  same  some                                    *)
(***************************************************************************)
EXTENDS BalancesCleaner

CONSTANTS g, a1, a2, a3, b2, b3, x, y

MCBlocks == {g, a1, a2, a3, b2, b3}

MCNumber == [b \in MCBlocks |->
    CASE b = g -> 0 [] b = a1 -> 1 [] b \in {a2, b2} -> 2 [] b \in {a3, b3} -> 3]

MCBatch == [b \in MCBlocks |->
    CASE b = g -> 0 [] b \in {a1, a2, b2} -> 1 [] b \in {a3, b3} -> 2]

MCParent == [b \in MCBlocks |->
    CASE b = g -> NoBlock [] b = a1 -> g [] b \in {a2, b2} -> a1
      [] b = a3 -> a2 [] b = b3 -> b2]

MCBalanceOf == [b \in MCBlocks |-> [a \in {x, y} |->
    CASE a = x -> (CASE b \in {g, a2, b3} -> "some" [] b \in {a1, a3} -> "zero"
                     [] b = b2 -> "same")
      [] a = y -> (CASE b = g -> "zero" [] b \in {a1, a3, b3} -> "some"
                     [] b \in {a2, b2} -> "same")]]
=============================================================================
