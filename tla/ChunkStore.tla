---------------------------- MODULE ChunkStore ----------------------------
(***************************************************************************)
(* What the block worker promises of table `blocks`, and what BlockSync    *)
(* assumes of its commits.  A range is taken up right above the stored     *)
(* blocks and cut into chunks; its chunks become stored in order, each as  *)
(* a whole, as long as the range is under way; and nothing else happens to *)
(* the blocks.                                                             *)
(***************************************************************************)
EXTENDS Naturals

CONSTANTS MaxBlock, BatchSize, ChunkSize

VARIABLES stored, from, to    \* no range is under way when to < from

vars == <<stored, from, to>>

NoRange == from = 1 /\ to = 0

TypeOK ==
    /\ stored \subseteq 1 .. MaxBlock
    /\ from \in 1 .. MaxBlock + 1
    /\ to \in 0 .. MaxBlock

RangeEnds == from' = 1 /\ to' = 0

Init == stored = {} /\ NoRange

StartRange(m, n) ==
    /\ to < from
    /\ stored = 1 .. (m - 1)
    /\ m <= n /\ n < m + BatchSize
    /\ from' = m
    /\ to' = n
    /\ UNCHANGED stored

\* The chunks of the range that is under way, by their first block.
ChunkStarts == {c \in from .. to : (c - from) % ChunkSize = 0}

\* The last block of chunk c: only the last chunk of a range may be shorter.
EndOfChunk(c) == IF c + ChunkSize <= to THEN c + ChunkSize - 1 ELSE to

\* A chunk becomes stored; the process may die in that very step.
StoreChunk(c) ==
    /\ stored = 1 .. (c - 1)
    /\ stored' = 1 .. EndOfChunk(c)
    /\ UNCHANGED <<from, to>> \/ RangeEnds

\* The range is done, or has failed: what is left of it is taken up anew.
EndRange == RangeEnds /\ UNCHANGED stored

Next ==
    \/ \E m, n \in 1 .. MaxBlock : StartRange(m, n)
    \/ \E c \in ChunkStarts : StoreChunk(c)
    \/ EndRange

Spec == Init /\ [][Next]_vars
============================================================================
