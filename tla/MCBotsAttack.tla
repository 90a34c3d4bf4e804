---------------------------- MODULE MCBotsAttack ----------------------------
(***************************************************************************)
(* Two players, two games, boards of three cells with two bots.          *)
(***************************************************************************)
EXTENDS BotsAttack, TLC

CONSTANTS alice, bob, a1, a2, b1

MCPlayer == {alice, bob}
MCCell == {a1, a2, b1}

Interchangeable == Permutations(MCPlayer) \cup Permutations(MCCell)
=============================================================================
