--------------------------- MODULE MCUnitOfWork ---------------------------
(***************************************************************************)
(* Ranges of two chunks of two blocks, then a range of one block.          *)
(***************************************************************************)
EXTENDS UnitOfWork

CONSTANT t1

\* One chunk adds the token twice, two chunks of a range add it, or one does.
MCTokenChoices == {[b \in Blocks |-> IF b \in adders THEN t1 ELSE NoToken] :
                     adders \in {{1, 2}, {2, 3}, {4}}}
============================================================================
