--------------------------- MODULE CountersProofs ---------------------------
(***************************************************************************)
(* The counters are exact, and implement RecordTally, as long as the block *)
(* worker has one transaction open at a time (Chunks = 1).                 *)
(***************************************************************************)
EXTENDS Counters, TLAPS, FiniteSetTheorems, SequenceTheorems

-----------------------------------------------------------------------------
(***************************************************************************)
(* Counting finite sets of records.                                        *)
(***************************************************************************)
\* A finite set has a natural number of records that belong to a query.
LEMMA CountIsNat ==
    ASSUME NEW S, IsFiniteSet(S), NEW q
    PROVE  CountIn(S, q) \in Nat
<1>1. IsFiniteSet({r \in S : q \in QueriesOf[r.kind]})  BY FS_Subset
<1> QED  BY <1>1, FS_CardinalityType DEF CountIn

\* Nothing is counted in an empty set.
LEMMA CountEmpty ==
    ASSUME NEW q
    PROVE  CountIn({}, q) = 0
<1>1. {r \in {} : q \in QueriesOf[r.kind]} = {}  OBVIOUS
<1> QED  BY <1>1, FS_EmptySet DEF CountIn

\* The sizes of two finite sets without a common element add up.
LEMMA SizesAddUp ==
    ASSUME NEW S, IsFiniteSet(S), NEW T, IsFiniteSet(T), S \cap T = {}
    PROVE  Cardinality(S \cup T) = Cardinality(S) + Cardinality(T)
<1>1. Cardinality(S \cup T) = Cardinality(S) + Cardinality(T) - Cardinality(S \cap T)
  BY FS_Union
<1>2. Cardinality(S) \in Nat /\ Cardinality(T) \in Nat  BY FS_CardinalityType
<1>3. Cardinality(S \cap T) = 0  BY FS_EmptySet
<1> QED  BY <1>1, <1>2, <1>3

\* Two sets without a common record are counted one after the other.
LEMMA CountDisjoint ==
    ASSUME NEW S, IsFiniteSet(S), NEW T, IsFiniteSet(T), S \cap T = {}, NEW q
    PROVE  CountIn(S \cup T, q) = CountIn(S, q) + CountIn(T, q)
<1> DEFINE In(X) == {r \in X : q \in QueriesOf[r.kind]}
<1>1. IsFiniteSet(In(S)) /\ IsFiniteSet(In(T))  BY FS_Subset
<1>2. In(S \cup T) = In(S) \cup In(T) /\ In(S) \cap In(T) = {}  OBVIOUS
<1>3. Cardinality(In(S) \cup In(T)) = Cardinality(In(S)) + Cardinality(In(T))
  BY <1>1, <1>2, SizesAddUp
<1> QED  BY <1>2, <1>3 DEF CountIn

\* A part is counted, and then the rest.
LEMMA CountParts ==
    ASSUME NEW S, IsFiniteSet(S), NEW T, T \subseteq S, NEW q
    PROVE  /\ CountIn(S, q) = CountIn(T, q) + CountIn(S \ T, q)
           /\ CountIn(S \ T, q) = CountIn(S, q) - CountIn(T, q)
<1>1. IsFiniteSet(T) /\ IsFiniteSet(S \ T)  BY FS_Subset
<1>2. S = T \cup (S \ T) /\ T \cap (S \ T) = {}  OBVIOUS
<1>3. CountIn(S, q) = CountIn(T, q) + CountIn(S \ T, q)
  BY <1>1, <1>2, CountDisjoint
<1>4. CountIn(T, q) \in Nat /\ CountIn(S \ T, q) \in Nat  BY <1>1, CountIsNat
<1> QED  BY <1>3, <1>4

-----------------------------------------------------------------------------
(***************************************************************************)
(* Pages.                                                                  *)
(***************************************************************************)
\* The last number of a set is the one that is not exceeded.
LEMMA LastNumberIs ==
    ASSUME NEW S \in SUBSET Record, NEW n \in Numbers(S), \A r \in S : r.number <= n
    PROVE  LastNumber(S) = n
<1>1. Numbers(S) \subseteq Int  BY DEF Numbers, Record
<1>2. ASSUME NEW m \in Numbers(S), \A r \in S : r.number <= m
      PROVE  m = n
  <2>1. PICK r \in S, s \in S : r.number = m /\ s.number = n  BY DEF Numbers
  <2>2. m <= n /\ n <= m  BY <1>2, <2>1
  <2> QED  BY <1>1, <2>2
<1> QED  BY <1>2 DEF LastNumber

\* A page ends at the number of one of its records and holds all the records
\* up to it; if it is not full, there are no others.
LEMMA PageIs ==
    ASSUME NEW S \in SUBSET Record, IsFiniteSet(S), NEW p \in Pages(S)
    PROVE  /\ p \subseteq S
           /\ p # {} => /\ LastNumber(p) \in Numbers(p)
                        /\ p = Upto(S, LastNumber(p))
           /\ Cardinality(p) # RecordsBatchSize => p = S
           /\ p = {} => S = {}
<1> USE CountersAssumption
<1>1. PICK n \in Numbers(S) \cup {0} : p = Upto(S, n)  BY DEF Pages
<1>2. p \subseteq S  BY <1>1 DEF Upto
<1>3. ASSUME p # {}
      PROVE  LastNumber(p) \in Numbers(p) /\ p = Upto(S, LastNumber(p))
  <2>1. n \in Numbers(S)
    BY <1>1, <1>3 DEF Upto, Numbers, Record
  <2>2. n \in Numbers(p) /\ \A r \in p : r.number <= n
    BY <1>1, <2>1 DEF Upto, Numbers, Record
  <2>3. LastNumber(p) = n  BY <1>2, <2>2, LastNumberIs
  <2> QED  BY <1>1, <2>2, <2>3
<1>4. Cardinality(p) # RecordsBatchSize => p = S  BY DEF Pages
<1>5. p = {} => S = {}  BY <1>4, FS_EmptySet
<1> QED  BY <1>2, <1>3, <1>4, <1>5

-----------------------------------------------------------------------------
(***************************************************************************)
(* The inductive invariant.                                                *)
(***************************************************************************)
\* The sets that are counted are finite.
FiniteInv ==
    /\ IsFiniteSet(rows)
    /\ \A i \in DOMAIN txns : IsFiniteSet(txns[i])

\* At most one transaction is open, its numbers are above all that is stored
\* or processed, and none is above the sequence.
NumbersInv ==
    /\ Len(txns) <= 1 /\ height + Len(txns) <= MaxBlock
    /\ lastProcessed <= sequence
    /\ \A r \in rows : r.number <= sequence
    /\ \A i \in DOMAIN txns : \A t \in txns[i] :
        /\ lastProcessed < t.number /\ t.number <= sequence
        /\ \A r \in rows : r.number < t.number

\* The records being counted are still those that follow the last number.
PageInv ==
    /\ cached \in {Null, lastProcessed}
    /\ page # {} =>
        /\ LastNumber(page) \in Numbers(page)
        /\ page = {r \in rows : lastProcessed < r.number /\ r.number <= LastNumber(page)}

\* The reverted records up to n.
Reverted(n) == {r \in rows : r.block > correct /\ r.number <= n}

\* While the revert subtracts, nobody counts or writes, and it has subtracted
\* what was counted up to where it is.
RevertInv ==
    /\ handler # "none" => txns = <<>>
    /\ handler \in {"reverting", "decremented"} => page = {}
    /\ handler = "reverting" =>
        /\ from <= lastProcessed
        /\ \A q \in Query : decrements[q] = CountIn(Reverted(from), q)
    /\ handler = "decremented" =>
        \A q \in Query : decrements[q] = CountIn(Reverted(lastProcessed), q)

IInv == TypeOK /\ FiniteInv /\ NumbersInv /\ PageInv /\ RevertInv /\ CountersExact

-----------------------------------------------------------------------------
(***************************************************************************)
(* Every step keeps the invariant, one lemma for each action.              *)
(***************************************************************************)
\* A conjunct speaks of some of the variables only.
LEMMA Stuttering ==
    ASSUME IInv, UNCHANGED vars
    PROVE  IInv'
BY DEF IInv, vars, blockVars, counterVars, revertVars, TypeOK, FiniteInv, NumbersInv,
       PageInv, RevertInv, Reverted, CountersExact, CountIn, Upto, Numbers, LastNumber

LEMMA InitKeeps ==
    ASSUME Init
    PROVE  IInv
<1> USE CountersAssumption DEF Init
<1>1. TypeOK
  <2>1. txns \in Seq(SUBSET Record) /\ rows \in SUBSET Record /\ page \in SUBSET Record
    OBVIOUS
  <2>2. counters \in [Query -> Nat] /\ decrements \in [Query -> Nat]
    BY DEF NoDecrements
  <2>3. /\ sequence \in 0..MaxNumber /\ height \in 0..MaxBlock /\ correct \in 0..MaxBlock
        /\ lastProcessed \in -1..MaxNumber /\ from \in -1..MaxNumber
    OBVIOUS
  <2> QED  BY <2>1, <2>2, <2>3 DEF TypeOK
<1>2. FiniteInv /\ NumbersInv /\ PageInv /\ RevertInv
  BY FS_EmptySet DEF FiniteInv, NumbersInv, PageInv, RevertInv
<1>3. CountersExact
  <2>1. Upto(rows, lastProcessed) = {}  BY DEF Upto
  <2> QED  BY <2>1, CountEmpty DEF CountersExact
<1> QED  BY <1>1, <1>2, <1>3 DEF IInv

\* What is open is one transaction.
LEMMA OneTransaction ==
    ASSUME TypeOK, NumbersInv, txns # <<>>
    PROVE  /\ Len(txns) = 1 /\ DOMAIN txns = {1}
           /\ Head(txns) = txns[1] /\ Tail(txns) = <<>>
           /\ txns[1] \in SUBSET Record
<1> DEFINE T == SUBSET Record
<1>1. txns \in Seq(T) /\ Len(txns) <= 1
  BY DEF TypeOK, NumbersInv
<1> HIDE DEF T
<1>2. Len(txns) = 1
  BY <1>1, EmptySeq
<1>3. DOMAIN txns = {1} /\ txns[1] \in T
  BY <1>1, <1>2, LenProperties, ElementOfSeq
<1>4. Head(txns) = txns[1]
  BY <1>1, <1>2
<1>5. Tail(txns) = <<>>
  <2>1. Tail(txns) \in Seq(T) /\ Len(Tail(txns)) = Len(txns) - 1
    BY <1>1, HeadTailProperties
  <2>2. Len(Tail(txns)) = 0
    BY <1>2, <2>1
  <2> QED  BY <2>1, <2>2, EmptySeq
<1> QED  BY <1>2, <1>3, <1>4, <1>5 DEF T

LEMMA StartChunksKeeps ==
    ASSUME Chunks = 1, IInv, StartChunks
    PROVE  IInv'
<1> USE CountersAssumption DEF IInv, StartChunks, counterVars, revertVars
<1>1. height + 1 <= MaxBlock /\ txns' = [i \in 1..1 |-> {}]
  OBVIOUS
<1>2. txns' \in Seq(SUBSET Record) /\ Len(txns') = 1
  BY <1>1
<1>3. TypeOK'
  BY <1>2 DEF TypeOK
<1>4. FiniteInv'
  BY <1>1, FS_EmptySet DEF FiniteInv
<1>5. NumbersInv'
  BY <1>1, <1>2 DEF NumbersInv, TypeOK
<1>6. PageInv' /\ RevertInv' /\ CountersExact'
  BY DEF PageInv, RevertInv, Reverted, CountersExact, CountIn, Upto, Numbers, LastNumber
<1> QED  BY <1>3, <1>4, <1>5, <1>6

LEMMA InsertKeeps ==
    ASSUME Chunks = 1, IInv, NEW i \in DOMAIN txns, NEW k \in Kind, Insert(i, k)
    PROVE  IInv'
<1> USE CountersAssumption DEF IInv, Insert, counterVars, revertVars
<1> DEFINE new == [number |-> sequence + 1, block |-> height + i, kind |-> k]
<1>0. txns # <<>>
  OBVIOUS
<1>1. i = 1 /\ Len(txns) = 1 /\ DOMAIN txns = {1} /\ txns[1] \in SUBSET Record
  BY <1>0, OneTransaction
<1>2. new \in Record
  BY <1>1 DEF TypeOK, NumbersInv, Record
<1>3. /\ txns' = [txns EXCEPT ![i] = @ \cup {new}]
      /\ txns' \in Seq(SUBSET Record) /\ Len(txns') = 1
      /\ DOMAIN txns' = {1}
      /\ txns'[1] = txns[1] \cup {new}
  <2>1. txns' = [txns EXCEPT ![i] = @ \cup {new}]
    OBVIOUS
  <2> DEFINE T == SUBSET Record
             e == txns[1] \cup {new}
  <2>2. e \in T /\ txns \in Seq(T)
    BY <1>1, <1>2 DEF TypeOK
  <2>3. txns' = [txns EXCEPT ![1] = e]
    BY <1>1, <2>1
  <2> HIDE DEF T, e
  <2>4. 1 \in 1..Len(txns)
    BY <1>1
  <2>5. txns' \in Seq(T) /\ Len(txns') = 1 /\ txns'[1] = e
    <3>1. /\ [txns EXCEPT ![1] = e] \in Seq(T)
          /\ Len([txns EXCEPT ![1] = e]) = Len(txns)
          /\ \A j \in 1..Len(txns) : [txns EXCEPT ![1] = e][j] = IF j = 1 THEN e ELSE txns[j]
      BY <2>2, <2>4, ExceptSeq
    <3> QED  BY <1>1, <2>3, <2>4, <3>1
  <2>6. DOMAIN txns' = {1}
    BY <2>5, LenProperties
  <2> QED  BY <2>1, <2>5, <2>6 DEF T, e
<1>4. TypeOK'
  BY <1>3 DEF TypeOK
<1>5. FiniteInv'
  <2>1. IsFiniteSet(txns[1])
    BY <1>1 DEF FiniteInv
  <2>2. IsFiniteSet(txns[1] \cup {new})
    BY <2>1, FS_AddElement
  <2> QED  BY <1>3, <2>2 DEF FiniteInv
<1>6. NumbersInv'
  <2>1. Len(txns') <= 1 /\ height' + Len(txns') <= MaxBlock
    BY <1>1, <1>3 DEF NumbersInv
  <2>3. lastProcessed' <= sequence' /\ \A r \in rows' : r.number <= sequence'
    BY DEF NumbersInv, TypeOK, Record
  <2>2. ASSUME NEW t \in txns'[1]
        PROVE  /\ lastProcessed < t.number /\ t.number <= sequence'
               /\ \A r \in rows : r.number < t.number
    <3>1. CASE t \in txns[1]
      BY <1>1, <3>1 DEF NumbersInv, TypeOK, Record
    <3>2. CASE t = new
      BY <3>2 DEF NumbersInv, TypeOK, Record
    <3> QED  BY <1>3, <3>1, <3>2
  <2> QED  BY <1>3, <2>1, <2>2, <2>3 DEF NumbersInv
<1>7. handler = "none"
  BY <1>0 DEF RevertInv
<1>8. PageInv' /\ RevertInv' /\ CountersExact'
  BY <1>7 DEF PageInv, RevertInv, CountersExact, CountIn, Upto, Numbers, LastNumber
<1> QED  BY <1>8, <1>4, <1>5, <1>6, <1>7

\* A commit adds records above all that a page or a counter is about.
LEMMA CommitKeeps ==
    ASSUME Chunks = 1, IInv, CommitFirst, txns' = <<>>, committing' = FALSE
    PROVE  IInv'
<1> USE CountersAssumption DEF IInv, CommitFirst, counterVars, revertVars
<1>1. /\ Len(txns) = 1 /\ Head(txns) = txns[1] /\ DOMAIN txns = {1}
      /\ Head(txns) \in SUBSET Record /\ handler = "none"
  BY OneTransaction DEF RevertInv
<1>2. TypeOK'
  <2>1. height' \in 0..MaxBlock
    BY <1>1 DEF TypeOK, NumbersInv
  <2>2. txns' \in Seq(SUBSET Record) /\ rows' \in SUBSET Record
    BY <1>1, EmptySeq DEF TypeOK
  <2> QED  BY <2>1, <2>2 DEF TypeOK
<1>3. FiniteInv'
  <2>1. IsFiniteSet(rows) /\ IsFiniteSet(Head(txns))
    BY <1>1 DEF FiniteInv
  <2>2. IsFiniteSet(rows \cup Head(txns))
    BY <2>1, FS_Union
  <2> QED  BY <2>2 DEF FiniteInv
<1>4. NumbersInv'
  BY <1>1 DEF NumbersInv, TypeOK
<1>5. ASSUME NEW t \in Head(txns)
      PROVE  /\ lastProcessed < t.number
             /\ \A r \in rows : r.number < t.number
  BY <1>1 DEF NumbersInv
<1>6. PageInv'
  <2>1. ASSUME page # {}
        PROVE  page = {r \in rows' : lastProcessed < r.number /\ r.number <= LastNumber(page)}
    <3>1. PICK s \in rows : s.number = LastNumber(page)
      BY <2>1 DEF PageInv, Numbers
    <3>2. \A t \in Head(txns) : ~ (t.number <= LastNumber(page))
      BY <1>1, <1>5, <3>1 DEF TypeOK, Record
    <3> QED  BY <2>1, <3>2 DEF PageInv
  <2> QED  BY <2>1 DEF PageInv, LastNumber, Numbers
<1>7. Upto(rows', lastProcessed) = Upto(rows, lastProcessed)
  BY <1>1, <1>5 DEF Upto, TypeOK, Record
<1>8. CountersExact'
  BY <1>7 DEF CountersExact, CountIn
<1>9. RevertInv'
  BY <1>1 DEF RevertInv
<1> QED  BY <1>2, <1>3, <1>4, <1>6, <1>8, <1>9

LEMMA CommitChunkKeeps ==
    ASSUME Chunks = 1, IInv, CommitChunk
    PROVE  IInv'
<1>1. TypeOK /\ NumbersInv /\ txns # <<>> /\ CommitFirst
  BY DEF IInv, CommitChunk, CommitFirst
<1>2. Len(txns) = 1 /\ Tail(txns) = <<>>
  BY <1>1, OneTransaction
<1>3. (Len(txns) > 1) = FALSE
  BY <1>2
<1>4. txns' = <<>> /\ committing' = FALSE
  BY <1>2, <1>3 DEF CommitChunk
<1> QED  BY <1>1, <1>4, CommitKeeps

\* Nothing is open, and nothing else has changed.
LEMMA RollBackKeeps ==
    ASSUME IInv, RollBackAll,
           UNCHANGED <<sequence, rows, height, counterVars, revertVars>>
    PROVE  IInv'
<1> USE DEF IInv, RollBackAll, counterVars, revertVars
<1>1. txns' \in Seq(SUBSET Record) /\ Len(txns') = 0 /\ DOMAIN txns' = {}
  BY EmptySeq
<1>2. TypeOK'
  BY <1>1 DEF TypeOK
<1>3. FiniteInv'
  BY <1>1 DEF FiniteInv
<1>4. NumbersInv'
  <2>1. height' + Len(txns') <= MaxBlock
    BY <1>1, CountersAssumption DEF TypeOK
  <2> QED  BY <1>1, <2>1 DEF NumbersInv
<1>5. PageInv' /\ RevertInv' /\ CountersExact'
  BY DEF PageInv, RevertInv, Reverted, CountersExact, CountIn, Upto, Numbers, LastNumber
<1> QED  BY <1>2, <1>3, <1>4, <1>5

LEMMA WriteFailsKeeps ==
    ASSUME Chunks = 1, IInv, WriteFails
    PROVE  IInv'
<1>1. CASE CommitFirst
  BY <1>1, CommitKeeps DEF WriteFails, RollBackAll
<1>2. CASE UNCHANGED <<sequence, rows, height, counterVars, revertVars>>
  BY <1>2, RollBackKeeps DEF WriteFails
<1> QED  BY <1>1, <1>2 DEF WriteFails

\* A page read from the table is what follows the last number.
LEMMA ReadRecordsKeeps ==
    ASSUME IInv, ReadRecords
    PROVE  IInv'
<1> USE DEF IInv, ReadRecords, blockVars, revertVars
<1>1. LastSeen = lastProcessed
  BY DEF LastSeen, PageInv
<1>2. RecordsToCount \in SUBSET Record /\ IsFiniteSet(RecordsToCount)
  BY FS_Subset DEF RecordsToCount, TypeOK, FiniteInv
<1>3. page' \in Pages(RecordsToCount)
  OBVIOUS
<1>4. /\ page' \subseteq RecordsToCount
      /\ page' # {} => /\ LastNumber(page') \in Numbers(page')
                       /\ page' = Upto(RecordsToCount, LastNumber(page'))
  BY <1>2, <1>3, PageIs
<1>5. TypeOK'
  BY <1>1, <1>2, <1>4 DEF TypeOK
<1>6. ASSUME page' # {}
      PROVE  page' = {r \in rows : lastProcessed < r.number /\ r.number <= LastNumber(page')}
  <2>1. \A r \in rows : r.number >= LastSeen + 1 <=> lastProcessed < r.number
    BY <1>1 DEF TypeOK, Record
  <2> QED  BY <1>4, <1>6, <2>1 DEF Upto, RecordsToCount
<1>7. PageInv'
  <2>1. cached' = lastProcessed /\ lastProcessed' = lastProcessed /\ rows' = rows
    BY <1>1
  <2>2. (LastNumber(page))' = LastNumber(page') /\ (Numbers(page))' = Numbers(page')
    BY DEF LastNumber, Numbers
  <2> QED  BY <1>4, <1>6, <2>1, <2>2 DEF PageInv
<1>8. FiniteInv' /\ NumbersInv' /\ CountersExact'
  BY DEF FiniteInv, NumbersInv, CountersExact, CountIn, Upto
<1>9. RevertInv'
  BY DEF RevertInv
<1> QED  BY <1>5, <1>7, <1>8, <1>9

\* The page being counted is what comes between the last number and its own.
LEMMA PageFollows ==
    ASSUME TypeOK, FiniteInv, PageInv, page # {},
           NEW n, n = LastNumber(page)
    PROVE  /\ \E s \in rows : s.number = n /\ lastProcessed < n
           /\ n \in 1..MaxNumber
           /\ page \subseteq rows /\ IsFiniteSet(page)
           /\ Upto(rows, n) = Upto(rows, lastProcessed) \cup page
           /\ Upto(rows, lastProcessed) \cap page = {}
           /\ IsFiniteSet(Upto(rows, lastProcessed))
<1>1. PICK s \in rows : s.number = n /\ lastProcessed < n
  BY DEF PageInv, Numbers
<1>2. n \in 1..MaxNumber
  BY <1>1 DEF TypeOK, Record
<1>3. page \subseteq rows /\ IsFiniteSet(page)
  BY FS_Subset DEF PageInv, FiniteInv
<1>4. page = {r \in rows : lastProcessed < r.number /\ r.number <= n}
  BY DEF PageInv
<1>5. \A r \in rows :
        /\ r.number <= n <=> \/ r.number <= lastProcessed
                             \/ lastProcessed < r.number /\ r.number <= n
        /\ ~ (r.number <= lastProcessed /\ lastProcessed < r.number)
  BY <1>1, <1>2 DEF TypeOK, Record
<1>6. IsFiniteSet(Upto(rows, lastProcessed))
  BY FS_Subset DEF Upto, FiniteInv
<1> QED  BY <1>1, <1>2, <1>3, <1>4, <1>5, <1>6 DEF Upto

\* The transaction of the counters moves the last number to the end of the page.
LEMMA IncrementKeeps ==
    ASSUME IInv, IncrementCounters, page' = {}, cached' \in {Null, lastProcessed'},
           UNCHANGED <<blockVars, revertVars>>
    PROVE  IInv'
<1> USE DEF IInv, IncrementCounters, blockVars, revertVars
<1> DEFINE n == LastNumber(page)
<1>1. PICK s \in rows : s.number = n /\ lastProcessed < n
  BY PageFollows
<1>2. n \in 1..MaxNumber /\ lastProcessed' = n
  BY PageFollows
<1>3. IsFiniteSet(page)
  BY PageFollows
<1>4. /\ Upto(rows, n) = Upto(rows, lastProcessed) \cup page
      /\ Upto(rows, lastProcessed) \cap page = {}
      /\ IsFiniteSet(Upto(rows, lastProcessed))
  BY PageFollows
<1>5. ASSUME NEW q \in Query
      PROVE  /\ counters'[q] = CountIn(Upto(rows, n), q)
             /\ counters'[q] \in Nat
  <2>1. CountIn(Upto(rows, n), q) = CountIn(Upto(rows, lastProcessed), q) + CountIn(page, q)
    BY <1>3, <1>4, CountDisjoint
  <2>2. CountIn(page, q) \in Nat
    BY <1>3, CountIsNat
  <2> QED  BY <2>1, <2>2 DEF CountersExact, TypeOK
<1>6. TypeOK'
  <2>1. counters' \in [Query -> Nat]
    BY <1>5
  <2> QED  BY <1>2, <2>1, EmptySeq DEF TypeOK
<1>7. CountersExact'
  BY <1>2, <1>5 DEF CountersExact, CountIn, Upto
<1>8. NumbersInv'
  <2>1. \A i \in DOMAIN txns : \A t \in txns[i] : n < t.number
    BY <1>1 DEF NumbersInv
  <2> QED  BY <1>1, <1>2, <2>1 DEF NumbersInv
<1>9. FiniteInv' /\ PageInv' /\ RevertInv'
  BY DEF FiniteInv, PageInv, RevertInv
<1> QED  BY <1>6, <1>7, <1>8, <1>9

LEMMA CountRecordsKeeps ==
    ASSUME IInv, CountRecords
    PROVE  IInv'
BY IncrementKeeps DEF CountRecords, IncrementCounters

LEMMA CountFailsKeeps ==
    ASSUME IInv, CountFails
    PROVE  IInv'
<1>1. CASE IncrementCounters
  BY <1>1, IncrementKeeps DEF CountFails
<1>2. CASE UNCHANGED <<counters, lastProcessed>>
  <2> USE <1>2 DEF IInv, CountFails, blockVars, revertVars
  <2>1. TypeOK' /\ FiniteInv' /\ NumbersInv' /\ PageInv' /\ RevertInv' /\ CountersExact'
    BY DEF TypeOK, FiniteInv, NumbersInv, PageInv, RevertInv, Reverted, CountersExact,
           CountIn, Upto
  <2> QED  BY <2>1
<1> QED  BY <1>1, <1>2 DEF CountFails

\* The search for reverted blocks begins: the workers are told to stop.
LEMMA RevertDetectedKeeps ==
    ASSUME IInv, RevertDetected
    PROVE  IInv'
<1> USE CountersAssumption DEF IInv, RevertDetected, blockVars, counterVars
<1>1. TypeOK'
  BY DEF TypeOK
<1>2. FiniteInv' /\ NumbersInv' /\ PageInv' /\ RevertInv' /\ CountersExact'
  BY DEF FiniteInv, NumbersInv, PageInv, RevertInv, CountersExact, CountIn, Upto, Numbers,
         LastNumber
<1> QED  BY <1>1, <1>2

LEMMA StartRevertKeeps ==
    ASSUME IInv, StartRevert
    PROVE  IInv'
<1> USE CountersAssumption DEF IInv, StartRevert, blockVars, counterVars
<1>1. TypeOK'
  BY DEF TypeOK, NoDecrements
<1>2. FiniteInv' /\ NumbersInv' /\ PageInv' /\ CountersExact'
  BY DEF FiniteInv, NumbersInv, PageInv, CountersExact, CountIn, Upto, Numbers, LastNumber
<1>3. (Reverted(from))' = {}
  BY DEF Reverted, TypeOK, Record
<1>4. RevertInv'
  <2>1. from' <= lastProcessed' /\ txns' = <<>> /\ page' = {}
    BY DEF RevertInv, TypeOK
  <2>2. \A q \in Query : decrements'[q] = CountIn({}, q)
    BY CountEmpty DEF NoDecrements
  <2>3. \A q \in Query : decrements'[q] = (CountIn(Reverted(from), q))'
    BY <1>3, <2>2 DEF CountIn
  <2> QED  BY <2>1, <2>3 DEF RevertInv
<1> QED  BY <1>1, <1>2, <1>4

\* A round of the revert loop subtracts the next page, or ends with the rest.
LEMMA RevertPageKeeps ==
    ASSUME IInv, RevertPage
    PROVE  IInv'
<1> USE CountersAssumption DEF IInv, RevertPage, blockVars, counterVars
<1>1. PICK p \in Pages(RecordsToRevert) :
        /\ decrements' = [q \in Query |-> decrements[q] + CountIn(p, q)]
        /\ from' = IF p = {} THEN from ELSE LastNumber(p)
        /\ handler' = IF Cardinality(p) = RecordsBatchSize THEN handler ELSE "decremented"
  OBVIOUS
<1>2. RecordsToRevert \in SUBSET Record /\ IsFiniteSet(RecordsToRevert)
  BY FS_Subset DEF RecordsToRevert, TypeOK, FiniteInv
<1>3. /\ p \subseteq RecordsToRevert
      /\ p # {} => /\ LastNumber(p) \in Numbers(p)
                   /\ p = Upto(RecordsToRevert, LastNumber(p))
      /\ Cardinality(p) # RecordsBatchSize => p = RecordsToRevert
      /\ p = {} => RecordsToRevert = {}
  BY <1>2, PageIs
<1>4. /\ IsFiniteSet(p) /\ IsFiniteSet(Reverted(from))
      /\ p \cap Reverted(from) = {}
  <2>1. IsFiniteSet(p) /\ IsFiniteSet(Reverted(from))
    BY <1>2, <1>3, FS_Subset DEF Reverted, FiniteInv
  <2> QED  BY <1>3, <2>1 DEF Reverted, RecordsToRevert, TypeOK, Record
<1>5. ASSUME NEW q \in Query
      PROVE  /\ decrements'[q] = CountIn(Reverted(from) \cup p, q)
             /\ decrements'[q] \in Nat
  <2>1. CountIn(Reverted(from) \cup p, q) = CountIn(Reverted(from), q) + CountIn(p, q)
    BY <1>4, CountDisjoint
  <2>2. CountIn(p, q) \in Nat
    BY <1>4, CountIsNat
  <2> QED  BY <1>1, <2>1, <2>2 DEF RevertInv, TypeOK
<1>6. from <= lastProcessed
  BY DEF RevertInv
<1>7. p # {} => /\ LastNumber(p) \in 1..MaxNumber
                /\ from < LastNumber(p) /\ LastNumber(p) <= lastProcessed
  BY <1>3 DEF Numbers, RecordsToRevert, TypeOK, Record
<1>8. TypeOK'
  <2>1. decrements' \in [Query -> Nat]
    BY <1>1, <1>5
  <2>2. from' \in -1..MaxNumber
    BY <1>1, <1>7 DEF TypeOK
  <2> QED  BY <1>1, <2>1, <2>2 DEF TypeOK
<1>9. RevertInv'
  <2>1. txns' = <<>> /\ page' = {}
    BY DEF RevertInv
  <2>2. from' <= lastProcessed'
    BY <1>1, <1>6, <1>7
  <2>3. ASSUME handler' = "reverting", NEW q \in Query
        PROVE  decrements'[q] = (CountIn(Reverted(from), q))'
    <3>1. p # {}
      BY <1>1, <2>3, FS_EmptySet
    <3>2. \A r \in rows : r.number <= LastNumber(p) <=>
            \/ r.number <= from
            \/ from + 1 <= r.number /\ r.number <= lastProcessed /\ r.number <= LastNumber(p)
      BY <1>7, <3>1 DEF TypeOK, Record
    <3>3. Reverted(LastNumber(p)) = Reverted(from) \cup p
      BY <1>3, <3>1, <3>2 DEF Reverted, RecordsToRevert, Upto
    <3>4. (Reverted(from))' = Reverted(LastNumber(p))
      BY <1>1, <3>1 DEF Reverted
    <3> QED  BY <1>5, <3>3, <3>4 DEF CountIn
  <2>4. ASSUME handler' = "decremented", NEW q \in Query
        PROVE  decrements'[q] = (CountIn(Reverted(lastProcessed), q))'
    <3>1. p = RecordsToRevert
      BY <1>1, <1>3, <2>4
    <3>2. \A r \in rows : r.number <= lastProcessed <=>
            \/ r.number <= from
            \/ from + 1 <= r.number /\ r.number <= lastProcessed
      BY <1>6 DEF TypeOK, Record
    <3>3. Reverted(lastProcessed) = Reverted(from) \cup p
      BY <3>1, <3>2 DEF Reverted, RecordsToRevert
    <3>4. (Reverted(lastProcessed))' = Reverted(lastProcessed)
      BY DEF Reverted
    <3> QED  BY <1>5, <3>3, <3>4 DEF CountIn
  <2> QED  BY <2>1, <2>2, <2>3, <2>4 DEF RevertInv
<1>10. FiniteInv' /\ NumbersInv'
  BY DEF FiniteInv, NumbersInv
<1>11. PageInv'
  BY DEF PageInv, RevertInv
<1>12. CountersExact'
  BY DEF CountersExact, CountIn, Upto
<1> QED  BY <1>8, <1>9, <1>10, <1>11, <1>12

\* What a revert subtracts is the counted part of what it deletes.
LEMMA RevertedPart ==
    ASSUME TypeOK, FiniteInv, FinishRevert
    PROVE  /\ Reverted(lastProcessed) \subseteq Upto(rows, lastProcessed)
           /\ IsFiniteSet(Upto(rows, lastProcessed))
           /\ (Upto(rows, lastProcessed))'
                = Upto(rows, lastProcessed) \ Reverted(lastProcessed)
<1>1. Reverted(lastProcessed) \subseteq Upto(rows, lastProcessed)
  BY DEF Reverted, Upto
<1>2. IsFiniteSet(Upto(rows, lastProcessed))
  BY FS_Subset DEF Upto, FiniteInv
<1>3. \A r \in rows : r.block <= correct <=> ~ (r.block > correct)
  BY DEF TypeOK, Record
<1> QED  BY <1>1, <1>2, <1>3 DEF Reverted, Upto, FinishRevert

\* The records that go are those that were subtracted, and some not counted yet.
LEMMA FinishRevertKeeps ==
    ASSUME IInv, FinishRevert
    PROVE  IInv'
<1> USE CountersAssumption DEF IInv, FinishRevert
<1> DEFINE before == Upto(rows, lastProcessed)
           gone == Reverted(lastProcessed)
<1>1. txns = <<>> /\ page = {}
  BY DEF RevertInv
<1>2. /\ gone \subseteq before /\ IsFiniteSet(before)
      /\ (Upto(rows, lastProcessed))' = before \ gone
  BY RevertedPart
<1>3. ASSUME NEW q \in Query
      PROVE  /\ counters'[q] = (CountIn(Upto(rows, lastProcessed), q))'
             /\ counters'[q] \in Nat
  <2>1. CountIn(before \ gone, q) = CountIn(before, q) - CountIn(gone, q)
    BY <1>2, CountParts
  <2>2. CountIn(before \ gone, q) \in Nat
    <3>1. IsFiniteSet(before \ gone)
      BY <1>2, FS_Subset
    <3> QED  BY <3>1, CountIsNat
  <2>3. counters'[q] = CountIn(before, q) - CountIn(gone, q)
    BY DEF CountersExact, RevertInv
  <2>4. (CountIn(Upto(rows, lastProcessed), q))' = CountIn(before \ gone, q)
    BY <1>2 DEF CountIn
  <2> QED  BY <2>1, <2>2, <2>3, <2>4
<1>4. TypeOK'
  <2>1. counters' \in [Query -> Nat]
    BY <1>3
  <2> QED  BY <2>1 DEF TypeOK
<1>5. FiniteInv'
  BY <1>1, FS_Subset DEF FiniteInv
<1>6. NumbersInv'
  <2>1. Len(txns') = 0 /\ DOMAIN txns' = {}
    BY <1>1, EmptySeq
  <2> QED  BY <2>1 DEF NumbersInv, TypeOK
<1>7. PageInv' /\ RevertInv'
  BY <1>1 DEF PageInv, RevertInv
<1>8. CountersExact'
  BY <1>3 DEF CountersExact
<1> QED  BY <1>4, <1>5, <1>6, <1>7, <1>8

LEMMA CrashKeeps ==
    ASSUME IInv, Crash
    PROVE  IInv'
<1> USE CountersAssumption DEF IInv, Crash, RollBackAll
<1>1. txns' \in Seq(SUBSET Record) /\ Len(txns') = 0 /\ DOMAIN txns' = {}
  BY EmptySeq
<1>2. TypeOK'
  <2>1. decrements' \in [Query -> Nat]
    BY DEF NoDecrements
  <2>2. correct' \in 0..MaxBlock /\ from' \in -1..MaxNumber /\ page' \in SUBSET Record
    OBVIOUS
  <2> QED  BY <1>1, <2>1, <2>2 DEF TypeOK
<1>3. NumbersInv'
  BY <1>1 DEF NumbersInv, TypeOK
<1>4. FiniteInv' /\ PageInv' /\ RevertInv' /\ CountersExact'
  BY <1>1 DEF FiniteInv, PageInv, RevertInv, CountersExact, CountIn, Upto
<1> QED  BY <1>2, <1>3, <1>4

LEMMA StepKeeps ==
    ASSUME Chunks = 1, IInv, [Next]_vars
    PROVE  IInv'
<1>1. CASE BlockWorker
  BY <1>1, StartChunksKeeps, InsertKeeps, CommitChunkKeeps DEF BlockWorker
<1>2. CASE CounterWorker
  BY <1>2, ReadRecordsKeeps, CountRecordsKeeps DEF CounterWorker
<1>3. CASE RevertDetected
  BY <1>3, RevertDetectedKeeps
<1>4. CASE Handler
  BY <1>4, StartRevertKeeps, RevertPageKeeps, FinishRevertKeeps DEF Handler
<1>5. CASE Fault
  BY <1>5, WriteFailsKeeps, CountFailsKeeps, CrashKeeps DEF Fault
<1>6. CASE UNCHANGED vars
  BY <1>6, Stuttering
<1> QED  BY <1>1, <1>2, <1>3, <1>4, <1>5, <1>6 DEF Next

\* The invariant holds with one transaction at a time.
THEOREM CountersInductive ==
    ASSUME Chunks = 1
    PROVE  Spec => []IInv
<1>1. IInv /\ [Next]_vars => IInv'
  BY StepKeeps
<1> QED  BY <1>1, InitKeeps, PTL DEF Spec

-----------------------------------------------------------------------------
(***************************************************************************)
(* The results.                                                            *)
(***************************************************************************)
\* With one transaction at a time, every variable keeps its type: no counter
\* becomes negative.
THEOREM CountersTyped ==
    ASSUME Chunks = 1
    PROVE  Spec => []TypeOK
<1>1. IInv => TypeOK
  BY DEF IInv
<1> QED  BY <1>1, CountersInductive, PTL

\* With one transaction at a time, a counter is always the number of stored
\* records up to the last processed number, through failures, restarts and
\* reverts.
THEOREM CountersAreExact ==
    ASSUME Chunks = 1
    PROVE  Spec => []CountersExact
<1>1. IInv => CountersExact
  BY DEF IInv
<1> QED  BY <1>1, CountersInductive, PTL

\* The claim of counter.repository.ts, "new records will have higher number",
\* holds when there is one transaction at a time.
THEOREM NumbersGrow ==
    ASSUME Chunks = 1
    PROVE  Spec => NewRecordsAreHigher
<1>1. ASSUME IInv, [Next]_vars
      PROVE  \A r \in rows' \ rows : r.number > lastProcessed
  <2>1. CASE rows' \subseteq rows
    BY <2>1
  <2>2. CASE CommitFirst
    <3>1. Head(txns) = txns[1] /\ 1 \in DOMAIN txns
      BY <1>1, <2>2, OneTransaction DEF IInv, CommitFirst
    <3>2. \A t \in txns[1] : lastProcessed < t.number
      BY <1>1, <3>1 DEF IInv, NumbersInv
    <3>3. \A t \in Head(txns) : t.number \in Int
      BY <1>1, <2>2, OneTransaction DEF IInv, CommitFirst, Record
    <3> QED  BY <1>1, <2>2, <3>1, <3>2, <3>3 DEF CommitFirst, IInv, TypeOK
  <2>3. rows' \subseteq rows \/ CommitFirst
    BY <1>1 DEF Next, BlockWorker, CounterWorker, Handler, Fault, StartChunks, Insert,
       CommitChunk, WriteFails, ReadRecords, CountRecords, CountFails, RevertDetected,
       StartRevert, RevertPage, FinishRevert, Crash, vars, blockVars
  <2> QED  BY <2>1, <2>2, <2>3
<1>2. IInv /\ [Next]_vars => [\A r \in rows' \ rows : r.number > lastProcessed]_vars
  BY <1>1
<1> QED  BY <1>2, CountersInductive, PTL DEF Spec, NewRecordsAreHigher

\* With one transaction at a time, every step is a step of RecordTally or
\* changes nothing that RecordTally speaks of.
THEOREM CountersImplementTally ==
    ASSUME Chunks = 1
    PROVE  Spec => CountersTally
<1> DEFINE done == Upto(rows, lastProcessed)
<1>1. Init => Tally!TallyInit
  BY DEF Init, Tally!TallyInit, Upto
<1>2. ASSUME NEW X, NEW q
      PROVE  Tally!CountIn(X, q) = CountIn(X, q)
  BY DEF CountIn, Tally!CountIn, Cardinality, Tally!Cardinality
<1>3. ASSUME IInv, IInv', [Next]_vars
      PROVE  [Tally!TallyNext]_Tally!tallyVars
  <2> USE <1>3 DEF IInv
  <2>1. CASE CommitFirst
    <3>1. rows \subseteq rows' /\ counters' = counters /\ lastProcessed' = lastProcessed
      BY <2>1 DEF CommitFirst, counterVars
    <3>2. Head(txns) = txns[1] /\ 1 \in DOMAIN txns /\ Head(txns) \in SUBSET Record
      BY <2>1, OneTransaction DEF CommitFirst
    <3>3. \A t \in Head(txns) : ~ (t.number <= lastProcessed)
      BY <3>2 DEF NumbersInv, TypeOK, Record
    <3>4. done' = done
      BY <2>1, <3>1, <3>3 DEF Upto, CommitFirst
    <3> QED  BY <3>1, <3>4 DEF Tally!TallyNext, Tally!Store
  <2>2. CASE IncrementCounters /\ rows' = rows
    <3>1. /\ Upto(rows, LastNumber(page)) = done \cup page
          /\ done \cap page = {} /\ page \subseteq rows
      BY <2>2, PageFollows DEF IncrementCounters
    <3>2. done' = Upto(rows, LastNumber(page))
      BY <2>2 DEF IncrementCounters, Upto
    <3>3. done \subseteq done' /\ done' \subseteq rows /\ done' \ done = page
      BY <3>1, <3>2 DEF Upto
    <3>4. counters' = [q \in Query |-> counters[q] + Tally!CountIn(done' \ done, q)]
      BY <1>2, <2>2, <3>3 DEF IncrementCounters
    <3> QED  BY <2>2, <3>3, <3>4 DEF Tally!TallyNext, Tally!Tally
  <2>3. CASE FinishRevert
    <3>1. rows' \subseteq rows /\ done' = done \ Reverted(lastProcessed)
      BY <2>3, RevertedPart DEF FinishRevert
    <3>2. done' = done \cap rows' /\ done \ rows' = Reverted(lastProcessed)
      BY <2>3, <3>1 DEF FinishRevert, Upto, Reverted, TypeOK, Record
    <3>3. counters' = [q \in Query |-> counters[q] - Tally!CountIn(done \ rows', q)]
      <4>1. \A q \in Query : decrements[q] = CountIn(Reverted(lastProcessed), q)
        BY <2>3 DEF FinishRevert, RevertInv
      <4> QED  BY <1>2, <2>3, <3>2, <4>1 DEF FinishRevert
    <3> QED  BY <3>1, <3>2, <3>3 DEF Tally!TallyNext, Tally!Remove
  <2>4. CASE UNCHANGED <<rows, counters, lastProcessed>>
    BY <2>4 DEF Tally!tallyVars, Upto
  <2>5. \/ CommitFirst
        \/ IncrementCounters /\ rows' = rows
        \/ FinishRevert
        \/ UNCHANGED <<rows, counters, lastProcessed>>
    <3>1. CASE BlockWorker
      BY <3>1 DEF BlockWorker, StartChunks, Insert, CommitChunk, counterVars
    <3>2. CASE CounterWorker
      BY <3>2 DEF CounterWorker, ReadRecords, CountRecords, blockVars
    <3>3. CASE RevertDetected \/ Handler
      BY <3>3 DEF RevertDetected, Handler, StartRevert, RevertPage, blockVars, counterVars
    <3>4. CASE Fault
      BY <3>4 DEF Fault, WriteFails, CountFails, Crash, blockVars, counterVars
    <3>5. CASE UNCHANGED vars
      BY <3>5 DEF vars, blockVars, counterVars
    <3> QED  BY <1>3, <3>1, <3>2, <3>3, <3>4, <3>5 DEF Next
  <2> QED  BY <2>1, <2>2, <2>3, <2>4, <2>5
<1> QED  BY <1>1, <1>3, CountersInductive, PTL DEF Spec, CountersTally, Tally!TallySpec
=============================================================================
