---------------------------- MODULE ChainMirror -----------------------------
(***************************************************************************)
(* What the block indexing promises to the readers of the database (the    *)
(* API and the counters): the table of blocks is always one unbroken       *)
(* branch.  It grows at its end by linked blocks, it shrinks only to a     *)
(* prefix of itself, and neither a batch recorded as executed nor a block  *)
(* of such a batch ever disappears.                                        *)
(***************************************************************************)
EXTENDS BlockTree

CONSTANT Lowest    \* number of the first block of the mirror

VARIABLES
    mirror,    \* the blocks a reader sees
    final      \* the batches a reader is told are executed

mirrorVars == <<mirror, final>>

FinalBlocks == {b \in mirror : Batch[b] \in final}

MirrorInit == mirror = {} /\ final = {}

\* Grow at the end of the branch.
Extend ==
    /\ mirror' \in SUBSET Blocks
    /\ mirror \subseteq mirror'
    /\ Linked(mirror', Lowest)
    /\ \A b \in mirror' \ mirror, c \in mirror : Number[c] < Number[b]
    /\ UNCHANGED final

\* Drop the end of the branch, and nothing that is final.
Truncate ==
    /\ \E n \in {Number[b] : b \in Blocks} : mirror' = UpTo(mirror, n)
    /\ FinalBlocks \subseteq mirror'
    /\ UNCHANGED final

Finalise(n) ==
    /\ final' = final \cup {n}
    /\ UNCHANGED mirror

MirrorNext == Extend \/ Truncate \/ \E n \in {Batch[b] : b \in Blocks} : Finalise(n)

MirrorSpec == MirrorInit /\ [][MirrorNext]_mirrorVars
=============================================================================
