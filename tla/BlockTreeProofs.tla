-------------------------- MODULE BlockTreeProofs ---------------------------
(***************************************************************************)
(* What the operators of BlockTree return, and two facts about a segment   *)
(* of one branch.  Where a fact needs an induction along the branch, it is *)
(* proved by taking the least counterexample (WFMin of the library).       *)
(***************************************************************************)
EXTENDS BlockTree, TLAPS, WellFoundedInduction

\* The numbers of the blocks of S have an upper bound.
Bounded(S) == \E n \in Nat : \A b \in S : Number[b] <= n

-----------------------------------------------------------------------------
\* A set of naturals that is not empty has a least element.
LEMMA LeastNatural ==
    ASSUME NEW T, T \subseteq Nat, T # {}
    PROVE  \E x \in T : \A y \in T : x <= y
<1>1. \E x \in T : \A y \in T : ~ (<<y, x>> \in OpToRel(<, Nat))
    BY NatLessThanWellFounded, WFMin
<1>2. \A x, y \in Nat : x < y => <<x, y>> \in OpToRel(<, Nat)
    BY DEF OpToRel
<1>3. PICK x \in T : \A y \in T : ~ (<<y, x>> \in OpToRel(<, Nat))
    BY <1>1
<1>4. ASSUME NEW y \in T PROVE x <= y
    <2>1. x \in Nat /\ y \in Nat
        OBVIOUS
    <2>2. ~(y < x)
        BY <1>2, <1>3, <2>1
    <2> QED
        BY <2>1, <2>2
<1> QED
    BY <1>4

\* A bounded set of naturals that is not empty has a greatest element.
LEMMA GreatestNatural ==
    ASSUME NEW T, T \subseteq Nat, T # {}, NEW n \in Nat, \A x \in T : x <= n
    PROVE  \E x \in T : \A y \in T : y <= x
<1> DEFINE Distances == {n - x : x \in T}
<1>1. Distances \subseteq Nat /\ Distances # {}
    <2>1. \A x \in T : n - x \in Nat
        OBVIOUS
    <2> QED
        BY <2>1
<1>2. PICK d \in Distances : \A e \in Distances : d <= e
    BY <1>1, LeastNatural
<1>3. PICK x \in T : d = n - x
    BY <1>2
<1>4. ASSUME NEW y \in T PROVE y <= x
    <2>1. n - y \in Distances
        OBVIOUS
    <2>2. n - x <= n - y
        BY <1>2, <1>3, <2>1
    <2>3. x \in Nat /\ y \in Nat
        OBVIOUS
    <2> QED
        BY <2>2, <2>3
<1> QED
    BY <1>4

\* Of some blocks, one has the least number.
LEMMA LowestBlock ==
    ASSUME NEW S, S \subseteq Blocks, S # {}
    PROVE  \E x \in S : \A y \in S : Number[x] <= Number[y]
<1> DEFINE T == {Number[x] : x \in S}
<1>1. T \subseteq Nat /\ T # {}
    BY BlockTreeAssumption
<1> HIDE DEF T
<1>2. PICK n \in T : \A m \in T : n <= m
    BY <1>1, LeastNatural
<1> QED
    BY <1>2 DEF T

-----------------------------------------------------------------------------
\* "ORDER BY number DESC LIMIT 1" returns a row with the greatest number.
LEMMA LastIsGreatest ==
    ASSUME NEW S, S \subseteq Blocks, S # {}, Bounded(S)
    PROVE  Last(S) \in S /\ \A c \in S : Number[c] <= Number[Last(S)]
<1> DEFINE T == {Number[b] : b \in S}
<1>1. T \subseteq Nat /\ T # {}
    BY BlockTreeAssumption
<1>2. PICK n \in Nat : \A x \in T : x <= n
    BY DEF Bounded
<1>3. PICK x \in T : \A y \in T : y <= x
    BY <1>1, <1>2, GreatestNatural
<1>4. \E b \in S : \A c \in S : Number[c] <= Number[b]
    BY <1>3
<1> QED
    BY <1>4 DEF Last

\* The last of no row is null, and of some rows is one of them.
LEMMA LastType ==
    ASSUME NEW S, S \subseteq Blocks, Bounded(S)
    PROVE  Last(S) \in S \cup {NoBlock} /\ (Last(S) = NoBlock <=> S = {})
<1>1. CASE S = {}
    BY <1>1 DEF Last
<1>2. CASE S # {}
    BY <1>2, LastIsGreatest, BlockTreeAssumption
<1> QED
    BY <1>1, <1>2

\* A part of a bounded set is bounded.
LEMMA BoundedSubset ==
    ASSUME NEW S, NEW T, S \subseteq T, Bounded(T)
    PROVE  Bounded(S)
BY DEF Bounded

\* "WHERE number = n" returns null, or a row with that number.
LEMMA AtType ==
    ASSUME NEW S, S \subseteq Blocks, NEW n
    PROVE  /\ At(S, n) \in S \cup {NoBlock}
           /\ At(S, n) # NoBlock => Number[At(S, n)] = n
           /\ At(S, n) = NoBlock <=> \A b \in S : Number[b] # n
<1>1. CASE \E b \in S : Number[b] = n
    BY <1>1, BlockTreeAssumption DEF At
<1>2. CASE ~ \E b \in S : Number[b] = n
    BY <1>2 DEF At
<1> QED
    BY <1>1, <1>2

-----------------------------------------------------------------------------
\* A number identifies a row of a segment.
LEMMA AtOwnNumber ==
    ASSUME NEW S, S \subseteq Blocks, NEW n \in Nat, Linked(S, n), NEW b \in S
    PROVE  At(S, Number[b]) = b
BY AtType, BlockTreeAssumption DEF Linked

\* What "DELETE ... WHERE number > m" leaves of a segment is a segment.
LEMMA UpToLinked ==
    ASSUME NEW S, S \subseteq Blocks, NEW n \in Nat, Linked(S, n), NEW m \in Int
    PROVE  Linked(UpTo(S, m), n)
BY BlockTreeAssumption DEF Linked, UpTo

\* The batch numbers do not go down along a segment.
LEMMA BatchGrows ==
    ASSUME NEW S, S \subseteq Blocks, NEW n \in Nat, Linked(S, n),
           NEW b \in S, NEW c \in S, Number[b] <= Number[c]
    PROVE  Batch[b] <= Batch[c]
<1> DEFINE Wrong == {x \in S : Number[b] <= Number[x] /\ ~(Batch[b] <= Batch[x])}
<1> SUFFICES ASSUME Wrong # {} PROVE FALSE
    OBVIOUS
<1>2. PICK x \in Wrong : \A y \in Wrong : Number[x] <= Number[y]
    BY LowestBlock
<1>3. Number[x] # Number[b]
    BY <1>2, BlockTreeAssumption DEF Linked
<1>4. Number[x] > Number[b] /\ Number[x] > n
    BY <1>2, <1>3, BlockTreeAssumption DEF Linked
<1>5. /\ Parent[x] \in S
      /\ Number[x] = Number[Parent[x]] + 1
      /\ Batch[Parent[x]] <= Batch[x]
    BY <1>4, BlockTreeAssumption DEF Linked
<1>6. Parent[x] \in Wrong
    BY <1>2, <1>4, <1>5, BlockTreeAssumption
<1> QED
    BY <1>2, <1>5, <1>6, BlockTreeAssumption

\* Two segments that share a block share what is below it, down to the start
\* of the one that starts later.
LEMMA SharedBelow ==
    ASSUME NEW S, S \subseteq Blocks, NEW n \in Nat, Linked(S, n),
           NEW T, T \subseteq Blocks, NEW m \in Nat, Linked(T, m), m <= n,
           NEW c \in S \cap T,
           NEW b \in S, Number[b] <= Number[c]
    PROVE  b \in T
<1> DEFINE Both == {x \in S \cap T : Number[b] <= Number[x]}
<1>1. c \in Both
    OBVIOUS
<1>2. PICK x \in Both : \A y \in Both : Number[x] <= Number[y]
    BY <1>1, LowestBlock
<1>3. CASE Number[x] = Number[b]
    BY <1>2, <1>3 DEF Linked
<1>4. CASE Number[x] # Number[b]
    <2>1. Number[x] > Number[b] /\ Number[x] > n /\ Number[x] > m
        BY <1>2, <1>4, BlockTreeAssumption DEF Linked
    <2>2. Parent[x] \in S \cap T /\ Number[x] = Number[Parent[x]] + 1
        BY <2>1, BlockTreeAssumption DEF Linked
    <2>3. Parent[x] \in Both
        BY <2>1, <2>2, BlockTreeAssumption
    <2> QED
        BY <1>2, <2>2, <2>3, BlockTreeAssumption
<1> QED
    BY <1>3, <1>4

\* A segment that is not empty has a block with its first number.
LEMMA SegmentStarts ==
    ASSUME NEW S, S \subseteq Blocks, S # {}, NEW n \in Nat, Linked(S, n)
    PROVE  \E b \in S : Number[b] = n
<1>2. PICK x \in S : \A y \in S : Number[x] <= Number[y]
    BY LowestBlock
<1>3. CASE Number[x] > n
    <2>1. Parent[x] \in S /\ Number[x] = Number[Parent[x]] + 1
        BY <1>3, BlockTreeAssumption DEF Linked
    <2> QED
        BY <1>2, <2>1, BlockTreeAssumption
<1> QED
    BY <1>3, BlockTreeAssumption DEF Linked
=============================================================================
