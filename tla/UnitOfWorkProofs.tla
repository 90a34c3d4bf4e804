------------------------- MODULE UnitOfWorkProofs --------------------------
(***************************************************************************)
(* Proofs about UnitOfWork.  They assume what the properties need: in a    *)
(* range of several chunks nothing fails before all of them have begun.    *)
(* With one chunk a range, as in the default configuration, everything may *)
(* fail anywhere.                                                          *)
(***************************************************************************)
EXTENDS UnitOfWork, FiniteSetTheorems, TLAPS

\* Either the faults spare the start of a range, or a range is one chunk.
Calm == EarlyFaults => BatchSize <= ChunkSize

(***************************************************************************)
(* The statements q that a connection has still to run.                    *)
(***************************************************************************)
IsEnd(s) == s \in {Commit, Rollback}

Closing == {"committing", "undoing", "rollingBack"}

Early == {"connecting", "beginning"}

Tasks == {"none", "block", "details", "calling", "token", "done", "failed"}

NoBegin(q) == \A i \in DOMAIN q : q[i] # Begin

NoBlock(q) == \A i \in DOMAIN q : q[i][1] # "block"

NoneFor(q, b) == \A i \in DOMAIN q : IsInsert(q[i]) => q[i][2] # b

\* While e says that the transaction is being ended, q has the statement that
\* ends it, and no block is inserted after that.
EndsWith(q, e) ==
    /\ \A i \in DOMAIN q : IsEnd(q[i]) =>
         e \in Closing /\ (q[i] = Commit <=> e = "committing")
    /\ \A i, j \in DOMAIN q : i < j /\ IsEnd(q[i]) =>
         ~IsEnd(q[j]) /\ q[j][1] # "block"
    /\ e \in Closing => \E i \in DOMAIN q : IsEnd(q[i])

\* The inserts of q are those that the tasks t of the blocks B wait for.
Awaited(q, t, B) ==
    /\ \A i \in DOMAIN q : IsInsert(q[i]) => q[i][2] \in B /\ t[q[i][2]] = q[i][1]
    /\ \A i, j \in DOMAIN q : IsInsert(q[i]) /\ q[i] = q[j] => i = j

(***************************************************************************)
(* What holds of a chunk.                                                  *)
(***************************************************************************)
\* Before its transaction has begun.
StartOk(c) ==
    /\ unit[c] # "none"
    /\ unit[c] = "connecting" =>
         queue[c] = << >> /\ c \notin conn /\ ending[c] = "open" /\ main = "executing"
    /\ unit[c] = "beginning" =>
         /\ queue[c] = <<Begin>> /\ c \in conn /\ ending[c] = "open"
         /\ main = "executing" /\ txn[c] \in {"none", "dead"}
    /\ unit[c] \notin Early => NoBegin(queue[c])

\* Who has a connection, and when it is given back.
EndOk(c) ==
    /\ EndsWith(queue[c], ending[c])
    /\ ending[c] \in Closing => c \in conn
    /\ Released(c) => c \notin conn
    /\ c \notin conn => NoBlock(queue[c])
    /\ ending[c] = "open" /\ unit[c] \in {"acting", "done"} => c \in conn
    /\ unit[c] = "failing" => ending[c] = "rollingBack"

\* How far processNextBlocksRange is.
MainOk(c) ==
    /\ ending[c] \in {"committing", "undoing"} => main = "committing" /\ c = next
    /\ main \in {"waiting", "rollingBack"} => ending[c] # "open"
    /\ main = "executing" /\ unit[c] \in Early \cup {"acting", "done"} => ending[c] = "open"
    /\ main = "committing" => /\ unit[c] = "done"
                              /\ c < next => ending[c] = "committed"
                              /\ c > next => ending[c] = "open"

\* Which statements its blocks wait for.
TaskOk(c) ==
    /\ unit[c] \in Early => \A b \in BlocksOf(c) : task[b] = "none"
    /\ unit[c] = "done" => \A b \in BlocksOf(c) : task[b] = "done"
    /\ Awaited(queue[c], task, BlocksOf(c))
    /\ \A b \in BlocksOf(c) : task[b] \in {"calling", "token"} => tokenOf[b] # NoToken

\* The rows its transaction has written.
TxnOk(c) ==
    /\ written[c] \subseteq ({"block", "details"} \X BlocksOf(c)) \cup ({"token"} \X Tokens)
    /\ txn[c] = "none" /\ unit[c] \notin Early => NoBlock(queue[c])
    /\ txn[c] \in {"none", "aborted"} =>
         /\ ~(unit[c] = "acting" /\ ending[c] = "open")
         /\ ~(unit[c] = "done" /\ ending[c] \in {"open", "committing"})
    /\ txn[c] = "active" => \A b \in BlocksOf(c) :
         /\ <<"block", b>> \in written[c] <=> task[b] \in {"details", "calling", "token", "done"}
         /\ <<"details", b>> \in written[c] <=> task[b] \in {"calling", "token", "done"}

\* None of its blocks is stored before its COMMIT.
RowsOk(c) ==
    \/ ending[c] = "open"
    \/ unit[c] # "done"
    \/ ending[c] = "committing" /\ txn[c] = "active"
    => BlocksOf(c) \cap Stored = {}

ChunkInv(c) == StartOk(c) /\ EndOk(c) /\ MainOk(c) /\ TaskOk(c) /\ TxnOk(c) /\ RowsOk(c)

(***************************************************************************)
(* What holds of all of them.                                              *)
(***************************************************************************)
RangeInv ==
    /\ first \in Nat \ {0}
    /\ last \in 0 .. MaxBlock
    /\ last - first < BatchSize
    /\ main # "waiting" => first <= last
    /\ next \in Int

IdleInv ==
    /\ \A c \in Blocks \ Chunks : unit[c] = "none" /\ queue[c] = << >> /\ c \notin conn
    /\ \A b \in Blocks : task[b] # "none" => \E c \in Chunks : b \in BlocksOf(c)

ActiveInv == \A c \in Blocks :
    /\ txn[c] = "active" => c \in conn /\ unit[c] \in {"acting", "done"}
    /\ written[c] # {} => txn[c] = "active"

StoredInv ==
    /\ \E m \in 0 .. MaxBlock : Stored = 1 .. m
    /\ WholeBlocks
    /\ main = "executing" => Stored = 1 .. (first - 1)
    /\ main = "committing" =>
         /\ next \in Chunks
         /\ ending[next] \in {"committing", "committed", "undoing", "rolledBack"}
         /\ ending[next] = "committing" /\ txn[next] # "dead" => Stored = 1 .. (next - 1)
         /\ ending[next] = "committed" => Stored = 1 .. EndOf(next)

\* Nothing has failed as long as a chunk has not begun.
HasFailed(c) == \/ unit[c] \in {"failing", "failed"}
                \/ c \in conn /\ txn[c] \in {"dead", "aborted"}

CalmInv == main = "executing" /\ (\E c \in Chunks : HasFailed(c)) => AllBegun \/ OneChunk

IInv == /\ TypeOK /\ PoolKept /\ RangeInv /\ IdleInv /\ ActiveInv /\ StoredInv /\ CalmInv
        /\ \A c \in Chunks : ChunkInv(c)

-----------------------------------------------------------------------------
(***************************************************************************)
(* Chunks.                                                                 *)
(***************************************************************************)
\* Multiples of d are at least d apart.
LEMMA Multiples == ASSUME NEW a \in Nat, NEW b \in Nat, NEW d \in Nat \ {0},
                          a % d = 0, b % d = 0, a < b
                   PROVE  a + d <= b
<1>1. a = d * (a \div d) /\ b = d * (b \div d)
  OBVIOUS
<1>2. a \div d \in Nat /\ b \div d \in Nat
  OBVIOUS
<1>3. PICK m \in Nat, n \in Nat : a = d * m /\ b = d * n
  BY <1>1, <1>2
<1>4. m < n
  <2>1. SUFFICES ASSUME n <= m PROVE FALSE
    BY <1>3
  <2>2. d * n <= d * m
    BY <2>1, <1>3
  <2> QED BY <2>2, <1>3
<1>5. d * (m + 1) <= d * n
  BY <1>4, <1>3
<1> QED BY <1>5, <1>3

LEMMA NextMultiple == ASSUME NEW a \in Nat, NEW d \in Nat \ {0}, a % d = 0
                      PROVE  (a + d) % d = 0
<1>1. a = d * (a \div d) /\ a \div d \in Nat
  OBVIOUS
<1>2. \A m \in Nat : m = d * (m \div d) + (m % d) /\ m \div d \in Nat /\ m % d \in 0 .. d - 1
  OBVIOUS
<1>3. PICK k \in Nat, j \in Nat, r \in 0 .. d - 1 :
        a = d * k /\ a + d = d * j + r /\ r = (a + d) % d
  <2>1. a + d \in Nat
    OBVIOUS
  <2> QED BY <1>1, <1>2, <2>1
<1>4. r = d * (k + 1 - j)
  BY <1>3
<1>5. CASE k + 1 <= j
  <2>1. d * (k + 1) <= d * j
    BY <1>3, <1>5
  <2> QED BY <2>1, <1>3
<1>6. CASE j + 1 <= k + 1
  <2>1. d * (j + 1) <= d * (k + 1)
    BY <1>3, <1>6
  <2> QED BY <2>1, <1>3
<1> QED BY <1>3, <1>5, <1>6

LEMMA SmallRest == ASSUME NEW a \in Nat, NEW r \in Nat, NEW d \in Nat \ {0}, a % d = 0, r < d
                   PROVE  (a + r) % d = r
  OBVIOUS

\* The chunks of a range are disjoint and follow each other.
LEMMA ChunksApart == ASSUME RangeInv, NEW c \in Chunks, NEW d \in Chunks, c < d
                     PROVE  c + ChunkSize <= d /\ EndOf(c) < d
<1> USE UnitOfWorkAssumption DEF RangeInv, Chunks, ChunksOf
<1>1. (c - first) + ChunkSize <= d - first
  <2>1. c - first \in Nat /\ d - first \in Nat /\ c - first < d - first
    OBVIOUS
  <2>2. (c - first) % ChunkSize = 0 /\ (d - first) % ChunkSize = 0
    OBVIOUS
  <2> HIDE DEF RangeInv, Chunks, ChunksOf
  <2> QED BY <2>1, <2>2, Multiples
<1> QED BY <1>1 DEF EndOf, Min2

LEMMA ChunkBounds == ASSUME RangeInv, NEW c \in Chunks
                     PROVE  /\ c \in Blocks /\ EndOf(c) \in Blocks
                            /\ first <= c /\ c <= EndOf(c) /\ EndOf(c) <= last
                            /\ EndOf(c) < c + ChunkSize
                            /\ BlocksOf(c) \subseteq Blocks /\ c \in BlocksOf(c)
                            /\ \A b \in BlocksOf(c) : c <= b /\ b <= EndOf(c)
  BY UnitOfWorkAssumption DEF RangeInv, Chunks, ChunksOf, EndOf, Min2, BlocksOf, Blocks

LEMMA BlocksApart == ASSUME RangeInv, NEW c \in Chunks, NEW d \in Chunks,
                            NEW b \in BlocksOf(c), b \in BlocksOf(d)
                     PROVE  c = d
<1>1. c \in Int /\ d \in Int /\ b \in Int
  BY ChunkBounds DEF Blocks
<1>2. ~(c < d) /\ ~(d < c)
  BY <1>1, ChunksApart, ChunkBounds DEF Blocks
<1> QED BY <1>1, <1>2

LEMMA NextChunk == ASSUME RangeInv, NEW c \in Chunks
                   PROVE  IF c + ChunkSize \in Chunks
                          THEN EndOf(c) = c + ChunkSize - 1 ELSE EndOf(c) = last
<1> USE UnitOfWorkAssumption DEF RangeInv, Chunks, ChunksOf
<1>1. c + ChunkSize <= last => c + ChunkSize \in Chunks
  <2>1. ((c - first) + ChunkSize) % ChunkSize = 0
    BY NextMultiple
  <2> QED BY <2>1
<1> QED BY <1>1 DEF EndOf, Min2

LEMMA FirstChunk == ASSUME RangeInv, first <= last
                    PROVE  first \in Chunks /\ \A c \in Chunks : first <= c
  BY UnitOfWorkAssumption, SmallRest DEF RangeInv, Chunks, ChunksOf

LEMMA ChunkOfBlock == ASSUME RangeInv, NEW c \in Chunks, NEW b \in BlocksOf(c)
                      PROVE  ChunkOf(b) = c
<1>1. c \in Nat /\ b \in Nat /\ first <= c /\ c <= b /\ b < c + ChunkSize
  BY ChunkBounds, UnitOfWorkAssumption DEF RangeInv, Blocks
<1>2. (b - first) % ChunkSize = b - c
  <2>1. c - first \in Nat /\ b - c \in Nat /\ b - c < ChunkSize
        /\ (c - first) + (b - c) = b - first
    BY <1>1, UnitOfWorkAssumption DEF RangeInv
  <2>2. (c - first) % ChunkSize = 0
    BY DEF Chunks, ChunksOf
  <2> QED BY <2>1, <2>2, SmallRest, UnitOfWorkAssumption
<1> QED BY <1>1, <1>2, UnitOfWorkAssumption DEF RangeInv, ChunkOf

LEMMA OneChunkIfCalm == ASSUME RangeInv, Calm, EarlyFaults
                        PROVE  OneChunk
<1> SUFFICES ASSUME NEW c \in Chunks, NEW d \in Chunks, c < d PROVE FALSE
  BY ChunkBounds DEF OneChunk, Blocks
<1>1. c + ChunkSize <= d
  BY ChunksApart
<1> QED BY <1>1, ChunkBounds, UnitOfWorkAssumption DEF RangeInv, Calm, Blocks

-----------------------------------------------------------------------------
(***************************************************************************)
(* Queues of statements.                                                   *)
(***************************************************************************)
LEMMA TailFacts == ASSUME NEW S, NEW q \in Seq(S), q # << >>
                   PROVE  /\ Tail(q) \in Seq(S) /\ Head(q) = q[1] /\ 1 \in DOMAIN q
                          /\ Head(q) \in S
                          /\ \A i \in DOMAIN Tail(q) :
                               i \in Nat /\ i + 1 \in DOMAIN q /\ Tail(q)[i] = q[i + 1]
                          /\ \A i \in DOMAIN q : i = 1 \/ i - 1 \in DOMAIN Tail(q)
  OBVIOUS

LEMMA AppendFacts == ASSUME NEW S, NEW q \in Seq(S), NEW s \in S
                     PROVE  /\ Append(q, s) \in Seq(S)
                            /\ Len(q) + 1 \in DOMAIN Append(q, s)
                            /\ \A i \in DOMAIN Append(q, s) :
                                 \/ i \in DOMAIN q /\ Append(q, s)[i] = q[i]
                                 \/ i = Len(q) + 1 /\ Append(q, s)[i] = s
                            /\ \A i \in DOMAIN q : i \in 1 .. Len(q) /\ i \in DOMAIN Append(q, s)
                                                   /\ Append(q, s)[i] = q[i]
  OBVIOUS

LEMMA StatementKinds ==
    /\ Begin # Commit /\ Begin # Rollback /\ Commit # Rollback
    /\ ~IsEnd(Begin) /\ IsEnd(Commit) /\ IsEnd(Rollback)
    /\ ~IsInsert(Begin) /\ ~IsInsert(Commit) /\ ~IsInsert(Rollback)
    /\ Begin[1] # "block" /\ Commit[1] # "block" /\ Rollback[1] # "block"
    /\ Begin \in Statements /\ Commit \in Statements /\ Rollback \in Statements
  BY DEF Begin, Commit, Rollback, IsEnd, IsInsert, Statements

LEMMA InsertKinds == ASSUME NEW s \in Statements
                     PROVE  /\ IsInsert(s) <=> s \notin {Begin, Commit, Rollback}
                            /\ IsInsert(s) => /\ s[1] \in {"block", "details", "token"}
                                              /\ s[2] \in Blocks /\ s = Insert(s[1], s[2])
  BY DEF Begin, Commit, Rollback, IsInsert, Statements, Insert

LEMMA InsertIs == ASSUME NEW k \in {"block", "details", "token"}, NEW b \in Blocks
                  PROVE  /\ Insert(k, b) \in Statements /\ IsInsert(Insert(k, b))
                         /\ Insert(k, b)[1] = k /\ Insert(k, b)[2] = b
                         /\ ~IsEnd(Insert(k, b)) /\ Insert(k, b) # Begin
  BY DEF Begin, Commit, Rollback, IsInsert, IsEnd, Statements, Insert

LEMMA TailKeeps == ASSUME NEW q \in Seq(Statements), q # << >>
                   PROVE  /\ NoBegin(q) => NoBegin(Tail(q))
                          /\ NoBlock(q) => NoBlock(Tail(q))
  BY TailFacts DEF NoBegin, NoBlock

LEMMA AppendKeeps == ASSUME NEW q \in Seq(Statements), NEW s \in Statements
                     PROVE  /\ NoBegin(q) /\ s # Begin => NoBegin(Append(q, s))
                            /\ NoBlock(q) /\ s[1] # "block" => NoBlock(Append(q, s))
  BY AppendFacts DEF NoBegin, NoBlock

LEMMA EndsTail == ASSUME NEW q \in Seq(Statements), q # << >>, NEW e, EndsWith(q, e),
                         ~IsEnd(Head(q))
                  PROVE  EndsWith(Tail(q), e)
<1> USE TailFacts
<1>1. \A i \in DOMAIN Tail(q) : IsEnd(Tail(q)[i]) =>
         e \in Closing /\ (Tail(q)[i] = Commit <=> e = "committing")
  BY DEF EndsWith
<1>2. ASSUME NEW i \in DOMAIN Tail(q), NEW j \in DOMAIN Tail(q), i < j, IsEnd(Tail(q)[i])
      PROVE  ~IsEnd(Tail(q)[j]) /\ Tail(q)[j][1] # "block"
  <2>1. i + 1 \in DOMAIN q /\ j + 1 \in DOMAIN q /\ i + 1 < j + 1
    BY <1>2
  <2> QED BY <2>1, <1>2 DEF EndsWith
<1>3. ASSUME e \in Closing PROVE \E i \in DOMAIN Tail(q) : IsEnd(Tail(q)[i])
  <2>1. PICK i \in DOMAIN q : IsEnd(q[i])
    BY <1>3 DEF EndsWith
  <2>2. i - 1 \in DOMAIN Tail(q) /\ Tail(q)[i - 1] = q[i]
    BY <2>1
  <2> QED BY <2>1, <2>2
<1> QED BY <1>1, <1>2, <1>3 DEF EndsWith

LEMMA EndsAtHead == ASSUME NEW q \in Seq(Statements), q # << >>, NEW e, EndsWith(q, e),
                           IsEnd(Head(q))
                    PROVE  /\ e \in Closing /\ (Head(q) = Commit <=> e = "committing")
                           /\ NoBlock(Tail(q))
                           /\ \A f : f \notin Closing => EndsWith(Tail(q), f)
<1> USE TailFacts
<1>1. e \in Closing /\ (Head(q) = Commit <=> e = "committing")
  BY DEF EndsWith
<1>2. ASSUME NEW i \in DOMAIN Tail(q) PROVE ~IsEnd(Tail(q)[i]) /\ Tail(q)[i][1] # "block"
  <2>1. i + 1 \in DOMAIN q /\ 1 < i + 1 /\ IsEnd(q[1]) /\ i \in DOMAIN q
    BY <1>2
  <2> QED BY <2>1 DEF EndsWith
<1> QED BY <1>1, <1>2 DEF EndsWith, NoBlock

LEMMA EndsAppend == ASSUME NEW q \in Seq(Statements), NEW s \in Statements, NEW e,
                           EndsWith(q, e), ~IsEnd(s), s[1] # "block"
                    PROVE  EndsWith(Append(q, s), e)
<1> USE AppendFacts
<1>1. ASSUME NEW i \in DOMAIN Append(q, s), IsEnd(Append(q, s)[i])
      PROVE  e \in Closing /\ (Append(q, s)[i] = Commit <=> e = "committing")
  BY <1>1 DEF EndsWith
<1>2. ASSUME NEW i \in DOMAIN Append(q, s), NEW j \in DOMAIN Append(q, s), i < j,
             IsEnd(Append(q, s)[i])
      PROVE  ~IsEnd(Append(q, s)[j]) /\ Append(q, s)[j][1] # "block"
  BY <1>2 DEF EndsWith
<1>3. ASSUME e \in Closing PROVE \E i \in DOMAIN Append(q, s) : IsEnd(Append(q, s)[i])
  BY <1>3 DEF EndsWith
<1> QED BY <1>1, <1>2, <1>3 DEF EndsWith

\* A transaction that is not being ended yet is sent its end.
LEMMA EndsIssued == ASSUME NEW q \in Seq(Statements), NEW s \in {Commit, Rollback},
                           NEW e, NEW f \in Closing, EndsWith(q, e), e \notin Closing,
                           s = Commit <=> f = "committing"
                    PROVE  EndsWith(Append(q, s), f)
<1> USE AppendFacts, StatementKinds
<1>1. \A i \in DOMAIN q : ~IsEnd(q[i])
  BY DEF EndsWith
<1>2. ASSUME NEW i \in DOMAIN Append(q, s), IsEnd(Append(q, s)[i])
      PROVE  i = Len(q) + 1 /\ Append(q, s)[i] = s
  BY <1>1, <1>2
<1>3. \A j \in DOMAIN Append(q, s) : ~(Len(q) + 1 < j)
  OBVIOUS
<1>4. IsEnd(Append(q, s)[Len(q) + 1])
  <2>1. Append(q, s)[Len(q) + 1] = s
    OBVIOUS
  <2> QED BY <2>1
<1> QED BY <1>2, <1>3, <1>4 DEF EndsWith

LEMMA AwaitedTail == ASSUME NEW q \in Seq(Statements), q # << >>, NEW t, NEW B, Awaited(q, t, B)
                     PROVE  Awaited(Tail(q), t, B)
<1> USE TailFacts
<1>1. ASSUME NEW i \in DOMAIN Tail(q), NEW j \in DOMAIN Tail(q), IsInsert(Tail(q)[i]),
             Tail(q)[i] = Tail(q)[j]
      PROVE  i = j
  <2>1. i + 1 \in DOMAIN q /\ j + 1 \in DOMAIN q /\ q[i + 1] = q[j + 1] /\ IsInsert(q[i + 1])
    BY <1>1
  <2>2. i + 1 = j + 1
    BY <2>1 DEF Awaited
  <2> QED BY <2>2
<1>2. \A i \in DOMAIN Tail(q) : IsInsert(Tail(q)[i]) =>
        Tail(q)[i][2] \in B /\ t[Tail(q)[i][2]] = Tail(q)[i][1]
  BY DEF Awaited
<1> QED BY <1>1, <1>2 DEF Awaited

\* The answered insert was the only one its block waits for.
LEMMA AnsweredOnce == ASSUME NEW q \in Seq(Statements), q # << >>, NEW t, NEW B,
                             Awaited(q, t, B), IsInsert(Head(q))
                      PROVE  NoneFor(Tail(q), Head(q)[2])
<1> USE TailFacts
<1> SUFFICES ASSUME NEW i \in DOMAIN Tail(q), IsInsert(Tail(q)[i]), Tail(q)[i][2] = Head(q)[2]
             PROVE  FALSE
  BY DEF NoneFor
<1>1. i + 1 \in DOMAIN q /\ q[i + 1] = Tail(q)[i] /\ i + 1 # 1
  OBVIOUS
<1>2. q[i + 1][1] = q[1][1]
  BY <1>1 DEF Awaited
<1>3. q[i + 1] \in Statements /\ q[1] \in Statements
  BY <1>1
<1>4. q[i + 1] = q[1]
  BY <1>1, <1>2, <1>3, InsertKinds
<1> QED BY <1>1, <1>4 DEF Awaited

\* A task nothing in q is sent for goes on to x.
LEMMA AwaitedOthers == ASSUME NEW q \in Seq(Statements), NEW t \in [Blocks -> Tasks], NEW B,
                              NEW b \in Blocks, NEW x,
                              Awaited(q, t, B), NoneFor(q, b)
                       PROVE  Awaited(q, [t EXCEPT ![b] = x], B)
  BY InsertKinds DEF Awaited, NoneFor

LEMMA AwaitedAppend == ASSUME NEW q \in Seq(Statements), NEW t \in [Blocks -> Tasks], NEW B,
                              NEW b \in Blocks \cap B, NEW k \in {"block", "details", "token"},
                              Awaited(q, t, B), NoneFor(q, b)
                       PROVE  Awaited(Append(q, Insert(k, b)), [t EXCEPT ![b] = k], B)
<1> DEFINE s == Insert(k, b)
           u == [t EXCEPT ![b] = k]
<1>1. Awaited(q, u, B)
  BY AwaitedOthers
<1>2. s \in Statements /\ IsInsert(s) /\ s[1] = k /\ s[2] = b
  BY InsertIs
<1>3. u[b] = k
  OBVIOUS
<1> HIDE DEF s, u
<1>4. ASSUME NEW i \in DOMAIN Append(q, s), IsInsert(Append(q, s)[i])
      PROVE  Append(q, s)[i][2] \in B /\ u[Append(q, s)[i][2]] = Append(q, s)[i][1]
  BY <1>1, <1>2, <1>3, <1>4, AppendFacts DEF Awaited
<1>5. \A i \in DOMAIN q : q[i] # s
  BY <1>2 DEF NoneFor
<1>6. ASSUME NEW i \in DOMAIN Append(q, s), NEW j \in DOMAIN Append(q, s),
             IsInsert(Append(q, s)[i]), Append(q, s)[i] = Append(q, s)[j]
      PROVE  i = j
  BY <1>1, <1>2, <1>5, <1>6, AppendFacts DEF Awaited
<1>7. Awaited(Append(q, s), u, B)
  BY <1>4, <1>6 DEF Awaited
<1> QED BY <1>7 DEF s, u

LEMMA AwaitedEnd == ASSUME NEW q \in Seq(Statements), NEW t, NEW B,
                           NEW s \in {Begin, Commit, Rollback}, Awaited(q, t, B)
                    PROVE  Awaited(Append(q, s), t, B)
<1>1. s \in Statements /\ ~IsInsert(s)
  BY StatementKinds
<1> QED BY <1>1, AppendFacts DEF Awaited

LEMMA TaskType == ASSUME IInv PROVE task \in [Blocks -> Tasks]
  BY DEF IInv, TypeOK, Tasks

\* Tasks of other blocks do not matter.
LEMMA AwaitedElsewhere == ASSUME NEW q, NEW t, NEW u, NEW B, Awaited(q, t, B),
                                 \A b \in B : u[b] = t[b]
                          PROVE  Awaited(q, u, B)
  BY DEF Awaited

-----------------------------------------------------------------------------
(***************************************************************************)
(* Steps of one chunk: what must be shown of one, and what then follows    *)
(* for the others.                                                         *)
(***************************************************************************)
SameChunk(d) ==
    /\ unit'[d] = unit[d] /\ ending'[d] = ending[d] /\ queue'[d] = queue[d]
    /\ txn'[d] = txn[d] /\ written'[d] = written[d]
    /\ d \in conn' <=> d \in conn

StepOf(c) ==
    /\ UNCHANGED <<main, first, last, next, tokenOf>>
    /\ \A d \in Blocks \ {c} : SameChunk(d)
    /\ \A b \in Blocks \ BlocksOf(c) : task'[b] = task[b]

ActiveOk(c) == /\ txn[c] = "active" => c \in conn /\ unit[c] \in {"acting", "done"}
               /\ written[c] # {} => txn[c] = "active"

\* c fails only when all have begun.
FailsCalmly(c) == HasFailed(c)' /\ main = "executing" => HasFailed(c) \/ AllBegun \/ OneChunk

LEMMA SameRange == ASSUME UNCHANGED <<first, last>>
                   PROVE  /\ Chunks' = Chunks
                          /\ \A c : EndOf(c)' = EndOf(c) /\ BlocksOf(c)' = BlocksOf(c)
  BY DEF Chunks, ChunksOf, EndOf, BlocksOf

LEMMA ChunkFrame == ASSUME NEW d \in Chunks, ChunkInv(d), SameChunk(d),
                           UNCHANGED <<main, first, last, next, tokenOf>>,
                           \A b \in BlocksOf(d) : task'[b] = task[b],
                           BlocksOf(d) \cap Stored' \subseteq Stored
                    PROVE  ChunkInv(d)'
<1> USE SameRange DEF SameChunk
<1>1. StartOk(d)' /\ EndOk(d)' /\ MainOk(d)'
  BY DEF ChunkInv, StartOk, EndOk, MainOk, Released
<1>2. TaskOk(d)'
  <2>1. Awaited(queue[d], task', BlocksOf(d))
    BY AwaitedElsewhere DEF ChunkInv, TaskOk
  <2> QED BY <2>1 DEF ChunkInv, TaskOk
<1>3. TxnOk(d)'
  <2>1. Tokens' = Tokens
    BY DEF Tokens
  <2> QED BY <2>1 DEF ChunkInv, TxnOk
<1>4. RowsOk(d)'
  BY DEF ChunkInv, RowsOk
<1> QED BY <1>1, <1>2, <1>3, <1>4 DEF ChunkInv

LEMMA ChunkStep == ASSUME IInv, NEW c \in Chunks, StepOf(c),
                          TypeOK', PoolKept', StoredInv',
                          ChunkInv(c)', ActiveOk(c)',
                          unit'[c] \in Early => unit[c] \in Early,
                          FailsCalmly(c),
                          \A d \in Chunks \ {c} : BlocksOf(d) \cap Stored' \subseteq Stored
                   PROVE  IInv'
<1> USE DEF StepOf
<1> c \in Blocks /\ Chunks \subseteq Blocks
  BY ChunkBounds DEF IInv
<1>0. Chunks' = Chunks /\ \A d : BlocksOf(d)' = BlocksOf(d)
  BY SameRange
<1>1. RangeInv'
  BY <1>0 DEF IInv, RangeInv
<1>2. IdleInv'
  BY <1>0 DEF IInv, IdleInv, SameChunk
<1>3. ActiveInv'
  <2> SUFFICES ASSUME NEW d \in Blocks, d # c PROVE ActiveOk(d)'
    BY DEF ActiveInv, ActiveOk
  <2> QED BY DEF IInv, ActiveInv, ActiveOk, SameChunk
<1>4. \A d \in Chunks' : ChunkInv(d)'
  <2> SUFFICES ASSUME NEW d \in Chunks, d # c PROVE ChunkInv(d)'
    BY <1>0
  <2>1. \A b \in BlocksOf(d) : b \in Blocks \ BlocksOf(c)
    BY BlocksApart, ChunkBounds DEF IInv
  <2> QED BY <2>1, ChunkFrame DEF IInv
<1>5. CalmInv'
  <2> SUFFICES ASSUME main = "executing", NEW d \in Chunks, HasFailed(d)'
               PROVE  AllBegun' \/ OneChunk'
    BY <1>0 DEF CalmInv
  <2>1. AllBegun => AllBegun'
    BY <1>0 DEF AllBegun, SameChunk, Early
  <2>2. OneChunk => OneChunk'
    BY <1>0 DEF OneChunk
  <2>3. AllBegun \/ OneChunk
    <3>1. CASE d = c
      BY <3>1 DEF FailsCalmly, IInv, CalmInv
    <3>2. CASE d # c
      BY <3>2 DEF HasFailed, SameChunk, IInv, CalmInv
    <3> QED BY <3>1, <3>2
  <2> QED BY <2>1, <2>2, <2>3
<1> QED BY <1>1, <1>2, <1>3, <1>4, <1>5 DEF IInv

\* A step that commits nothing: what is stored stays as it is.
LEMMA StoredFrame == ASSUME IInv, NEW c \in Chunks, StepOf(c), Stored' = Stored, WholeBlocks',
                            ending'[c] = ending[c] \/ main # "committing" \/ c # next,
                            txn'[c] # "dead" => txn[c] # "dead" \/ main # "committing" \/ c # next
                     PROVE  StoredInv'
<1>1. Chunks' = Chunks /\ \A d : EndOf(d)' = EndOf(d)
  BY SameRange DEF StepOf
<1>2. main = "committing" => next \in Chunks /\ next \in Blocks
  BY ChunkBounds DEF IInv, StoredInv
<1>3. main = "committing" /\ next # c => ending'[next] = ending[next] /\ txn'[next] = txn[next]
  BY <1>2 DEF StepOf, SameChunk
<1> QED BY <1>1, <1>2, <1>3 DEF IInv, StoredInv, StepOf

LEMMA SameRows == ASSUME IInv, rows' = rows PROVE Stored' = Stored /\ WholeBlocks'
  BY DEF IInv, StoredInv, Stored, WholeBlocks

LEMMA ConnFinite == ASSUME TypeOK
                    PROVE  IsFiniteSet(conn) /\ Cardinality(conn) \in Nat
<1>1. IsFiniteSet(Blocks)
  BY UnitOfWorkAssumption, FS_Interval DEF Blocks
<1>2. IsFiniteSet(conn)
  BY <1>1, FS_Subset DEF TypeOK
<1> QED BY <1>2, FS_CardinalityType

\* A chunk takes a connection from the pool, or gives it back.
LEMMA PoolSteps == ASSUME IInv, NEW c \in Blocks
                   PROVE  /\ c \notin conn /\ pool > 0 /\ pool' = pool - 1 /\ conn' = conn \cup {c}
                               => PoolKept' /\ pool' \in 0 .. PoolSize
                          /\ c \in conn /\ pool' = pool + 1 /\ conn' = conn \ {c}
                               => PoolKept' /\ pool' \in 0 .. PoolSize
<1>1. IsFiniteSet(conn) /\ Cardinality(conn) \in Nat /\ pool \in Nat /\ PoolSize \in Nat
  BY ConnFinite, UnitOfWorkAssumption DEF IInv, TypeOK
<1>2. Cardinality(conn \cup {c}) = IF c \in conn THEN Cardinality(conn) ELSE Cardinality(conn) + 1
  BY <1>1, FS_AddElement
<1>3. Cardinality(conn \ {c}) = IF c \in conn THEN Cardinality(conn) - 1 ELSE Cardinality(conn)
  BY <1>1, FS_RemoveElement
<1>4. c \in conn => Cardinality(conn \ {c}) \in Nat
  BY <1>1, FS_RemoveElement, FS_CardinalityType
<1>5. pool + Cardinality(conn) = PoolSize
  BY DEF IInv, PoolKept
<1>6. ASSUME c \notin conn, pool > 0, pool' = pool - 1, conn' = conn \cup {c}
      PROVE  PoolKept' /\ pool' \in 0 .. PoolSize
  <2>1. Cardinality(conn') = Cardinality(conn) + 1
    BY <1>2, <1>6
  <2> QED BY <1>1, <1>5, <1>6, <2>1 DEF PoolKept
<1>7. ASSUME c \in conn, pool' = pool + 1, conn' = conn \ {c}
      PROVE  PoolKept' /\ pool' \in 0 .. PoolSize
  <2>1. Cardinality(conn') = Cardinality(conn) - 1 /\ Cardinality(conn') \in Nat
    BY <1>3, <1>4, <1>7
  <2> QED BY <1>1, <1>5, <1>7, <2>1 DEF PoolKept
<1> QED BY <1>6, <1>7

LEMMA ConnectStep == ASSUME IInv, NEW c \in Blocks, Connect(c)
                     PROVE  IInv'
<1> USE DEF Connect
<1>1. c \in Chunks /\ unit[c] = "connecting"
  BY DEF IInv, IdleInv
<1>2. /\ queue[c] = << >> /\ c \notin conn /\ ending[c] = "open" /\ main = "executing"
      /\ written[c] = {} /\ \A b \in BlocksOf(c) : task[b] = "none"
  BY <1>1 DEF IInv, ChunkInv, StartOk, TaskOk, ActiveInv, Early
<1>3. /\ unit' = [unit EXCEPT ![c] = "beginning"] /\ conn' = conn \cup {c}
      /\ queue' = [queue EXCEPT ![c] = <<Begin>>] /\ txn' = [txn EXCEPT ![c] = "none"]
  <2>1. ~Released(c)
    BY <1>2 DEF Released
  <2>2. Append(<< >>, Begin) = <<Begin>>
    BY DEF Begin
  <2> QED BY <1>2, <2>1, <2>2
<1>4. /\ unit'[c] = "beginning" /\ c \in conn' /\ queue'[c] = <<Begin>> /\ txn'[c] = "none"
      /\ written'[c] = {} /\ ending'[c] = "open" /\ task' = task /\ main' = "executing"
  BY <1>2, <1>3 DEF IInv, TypeOK, mainVars
<1>5. StepOf(c)
  BY <1>3 DEF StepOf, SameChunk, IInv, TypeOK, mainVars
<1>6. TypeOK'
  <2>1. <<Begin>> \in Seq(Statements)
    BY StatementKinds
  <2> QED BY <1>1, <1>2, <1>3, <2>1, PoolSteps DEF IInv, TypeOK, mainVars, AllRows, Tokens
<1>7. PoolKept'
  BY <1>2, <1>3, PoolSteps
<1>8. Stored' = Stored /\ WholeBlocks'
  BY SameRows
<1>9. StoredInv'
  BY <1>1, <1>2, <1>5, <1>8, StoredFrame
<1>10. Chunks' = Chunks /\ BlocksOf(c)' = BlocksOf(c)
  BY <1>5, SameRange DEF StepOf
<1>11. ChunkInv(c)'
  <2>1. DOMAIN <<Begin>> = {1} /\ <<Begin>>[1] = Begin
    OBVIOUS
  <2>2. EndsWith(<<Begin>>, "open") /\ Awaited(<<Begin>>, task, BlocksOf(c))
    BY <2>1, StatementKinds DEF EndsWith, Awaited, Closing
  <2>3. RowsOk(c)'
    BY <1>1, <1>2, <1>8, <1>10 DEF RowsOk, IInv, ChunkInv
  <2> QED BY <1>2, <1>4, <1>10, <2>2, <2>3
          DEF ChunkInv, StartOk, EndOk, MainOk, TaskOk, TxnOk, Early, Closing, Released
<1>12. FailsCalmly(c) /\ ActiveOk(c)'
  BY <1>4 DEF FailsCalmly, HasFailed, ActiveOk
<1> QED BY <1>1, <1>5, <1>6, <1>7, <1>8, <1>9, <1>11, <1>12, ChunkStep DEF Early

LEMMA ConnectFailsStep == ASSUME IInv, Calm, NEW c \in Blocks, ConnectFails(c)
                          PROVE  IInv'
<1> USE DEF ConnectFails, connVars, serverVars, mainVars
<1>1. c \in Chunks /\ unit[c] = "connecting"
  BY DEF IInv, IdleInv
<1>2. /\ queue[c] = << >> /\ c \notin conn /\ ending[c] = "open" /\ main = "executing"
      /\ written[c] = {}
  BY <1>1 DEF IInv, ChunkInv, StartOk, ActiveInv
<1>3. unit'[c] = "failed" /\ faults' \in 0 .. MaxFaults
  BY UnitOfWorkAssumption DEF IInv, TypeOK, Fault, MayFail
<1>5. StepOf(c)
  BY DEF StepOf, SameChunk, IInv, TypeOK
<1>6. TypeOK' /\ PoolKept'
  BY <1>3, SameRange DEF IInv, TypeOK, PoolKept, AllRows, Tokens
<1>8. Stored' = Stored /\ WholeBlocks'
  BY SameRows
<1>9. StoredInv'
  BY <1>1, <1>2, <1>5, <1>8, StoredFrame
<1>10. Chunks' = Chunks /\ BlocksOf(c)' = BlocksOf(c)
  BY SameRange
<1>11. ChunkInv(c)'
  <2>1. EndsWith(<< >>, "open") /\ Awaited(<< >>, task, BlocksOf(c)) /\ NoBegin(<< >>)
        /\ NoBlock(<< >>)
    BY DEF EndsWith, Awaited, Closing, NoBegin, NoBlock
  <2>2. RowsOk(c)' /\ TxnOk(c)'
    BY <1>1, <1>2, <1>3, <1>8, <1>10, <2>1 DEF RowsOk, TxnOk, IInv, ChunkInv, Tokens, ActiveInv
  <2>3. TaskOk(c)'
    BY <1>1, <1>2, <1>3, <1>10, <2>1 DEF IInv, ChunkInv, TaskOk, Early
  <2> QED BY <1>2, <1>3, <2>1, <2>2, <2>3
          DEF ChunkInv, StartOk, EndOk, MainOk, Early, Closing, Released
<1>12. FailsCalmly(c) /\ ActiveOk(c)'
  <2>1. AllBegun \/ OneChunk
    BY OneChunkIfCalm DEF Fault, MayFail, IInv
  <2> QED BY <1>1, <1>2, <1>3, <2>1 DEF FailsCalmly, ActiveOk, IInv, ActiveInv
<1> QED BY <1>1, <1>3, <1>5, <1>6, <1>8, <1>9, <1>11, <1>12, ChunkStep DEF Early

\* The next statement of a connection.
LEMMA NextStatement == ASSUME IInv, NEW c \in Blocks, queue[c] # << >>
                       PROVE  /\ c \in Chunks /\ queue[c] \in Seq(Statements)
                              /\ Head(queue[c]) \in Statements /\ Tail(queue[c]) \in Seq(Statements)
                              /\ unit[c] \notin {"none", "connecting"}
                              /\ Head(queue[c]) = Begin <=> unit[c] = "beginning"
                              /\ unit[c] = "beginning" => Tail(queue[c]) = << >>
                              /\ NoBegin(Tail(queue[c]))
<1>1. c \in Chunks /\ queue[c] \in Seq(Statements)
  BY DEF IInv, IdleInv, TypeOK
<1>2. Head(queue[c]) \in Statements /\ Tail(queue[c]) \in Seq(Statements)
  BY <1>1, TailFacts
<1>3. StartOk(c)
  BY <1>1 DEF IInv, ChunkInv
<1>4. unit[c] \notin {"none", "connecting"}
  BY <1>3 DEF StartOk
<1>5. CASE unit[c] = "beginning"
  <2>1. queue[c] = <<Begin>> /\ Head(<<Begin>>) = Begin /\ Tail(<<Begin>>) = << >>
    BY <1>3, <1>5 DEF StartOk
  <2> QED BY <1>1, <1>2, <1>4, <1>5, <2>1 DEF NoBegin
<1>6. CASE unit[c] # "beginning"
  <2>1. NoBegin(queue[c])
    BY <1>3, <1>4, <1>6 DEF StartOk, Early
  <2>2. Head(queue[c]) # Begin
    BY <1>1, <2>1, TailFacts DEF NoBegin
  <2> QED BY <1>1, <1>2, <1>4, <1>6, <2>1, <2>2, TailKeeps
<1> QED BY <1>5, <1>6

\* A task of a chunk goes on, with p left to run on its connection.
LEMMA TaskStep ==
    ASSUME IInv, NEW c \in Chunks, NEW b \in BlocksOf(c), NEW p \in Seq(Statements),
           NEW x \in {"details", "calling", "token", "done"}, NEW u,
           NEW w \in SUBSET AllRows,
           unit[c] \notin Early \cup {"done"},
           task' = [task EXCEPT ![b] = x],
           queue' = [queue EXCEPT ![c] = p],
           unit' = [unit EXCEPT ![c] = u],
           u = unit[c] \/ (unit[c] = "acting" /\ u = "done"
                           /\ \A a \in BlocksOf(c) : task'[a] = "done"),
           written' = [written EXCEPT ![c] = w],
           w # {} => txn[c] = "active",
           UNCHANGED <<mainVars, ending, pool, conn, txn, tokenOf>>,
           rows' \subseteq AllRows, Stored' = Stored, WholeBlocks',
           faults' \in 0 .. MaxFaults,
           EndsWith(p, ending[c]), Awaited(p, task', BlocksOf(c)), NoBegin(p),
           NoBlock(queue[c]) => NoBlock(p),
           x \in {"calling", "token"} => tokenOf[b] # NoToken,
           TxnOk(c)'
    PROVE  IInv'
<1> USE DEF mainVars
<1> c \in Blocks /\ b \in Blocks /\ BlocksOf(c) \subseteq Blocks
  BY ChunkBounds DEF IInv
<1>1. /\ unit'[c] = u /\ queue'[c] = p /\ written'[c] = w /\ task'[b] = x
      /\ u \in {unit[c], "done"}
  BY DEF IInv, TypeOK
<1>2. StepOf(c)
  BY DEF StepOf, SameChunk, IInv, TypeOK
<1>3. TypeOK' /\ PoolKept'
  <2>1. AllRows' = AllRows /\ Chunks' = Chunks
    BY SameRange DEF AllRows, Tokens
  <2>2. u \in {"none", "connecting", "beginning", "acting", "failing", "done", "failed"}
    BY <1>1 DEF IInv, TypeOK
  <2> QED BY <2>1, <2>2 DEF IInv, TypeOK, PoolKept
<1>4. StoredInv'
  BY <1>2, StoredFrame
<1>5. Chunks' = Chunks /\ BlocksOf(c)' = BlocksOf(c)
  BY SameRange
<1>6. ChunkInv(c)
  BY DEF IInv
<1>7. ChunkInv(c)'
  <2>1. StartOk(c)'
    BY <1>1, <1>6 DEF ChunkInv, StartOk, Early
  <2>2. EndOk(c)'
    BY <1>1, <1>6 DEF ChunkInv, EndOk, Released
  <2>3. MainOk(c)'
    BY <1>1, <1>6 DEF ChunkInv, MainOk
  <2>4. TaskOk(c)'
    BY <1>1, <1>5, <1>6 DEF ChunkInv, TaskOk, Early
  <2>5. RowsOk(c)'
    BY <1>5, <1>6 DEF ChunkInv, RowsOk
  <2> QED BY <2>1, <2>2, <2>3, <2>4, <2>5 DEF ChunkInv
<1>8. FailsCalmly(c) /\ ActiveOk(c)'
  BY <1>1 DEF FailsCalmly, HasFailed, ActiveOk, IInv, ActiveInv
<1>9. unit'[c] \in Early => unit[c] \in Early
  BY <1>1 DEF Early
<1> QED BY <1>2, <1>3, <1>4, <1>7, <1>8, <1>9, ChunkStep

\* A task of a chunk fails, with q left to run before what the failure sends.
LEMMA TaskFailsStep ==
    ASSUME IInv, NEW c \in Chunks, NEW b \in BlocksOf(c), NEW q \in Seq(Statements), NEW x,
           unit[c] \notin Early \cup {"done"},
           TaskFails(c, b, q),
           txn' = [txn EXCEPT ![c] = x], x \in {"none", "aborted", "dead"},
           x = "none" => txn[c] = "none",
           txn[c] = "dead" => x = "dead",
           written' = [written EXCEPT ![c] = {}],
           UNCHANGED <<mainVars, pool, conn, rows, tokenOf>>,
           faults' \in 0 .. MaxFaults,
           EndsWith(q, ending[c]), Awaited(q, task, BlocksOf(c)), NoneFor(q, b), NoBegin(q),
           NoBlock(queue[c]) => NoBlock(q),
           FailsCalmly(c)
    PROVE  IInv'
<1> USE DEF mainVars
<1> DEFINE own == unit[c] = "acting" /\ ending[c] = "open"
<1> c \in Blocks /\ b \in Blocks /\ BlocksOf(c) \subseteq Blocks
  BY ChunkBounds DEF IInv
<1>1. /\ task' = [task EXCEPT ![b] = "failed"]
      /\ unit'[c] = IF own THEN "failing" ELSE IF unit[c] = "acting" THEN "failed" ELSE unit[c]
      /\ ending'[c] = IF own THEN "rollingBack" ELSE ending[c]
      /\ queue'[c] = IF own THEN Append(q, Rollback) ELSE q
      /\ written'[c] = {} /\ txn'[c] = x
  BY DEF IInv, TypeOK, TaskFails
<1>2. StepOf(c)
  BY DEF StepOf, SameChunk, IInv, TypeOK, TaskFails
<1>3. queue'[c] \in Seq(Statements)
  BY <1>1, StatementKinds, AppendFacts
<1>4. TypeOK' /\ PoolKept'
  <2>1. AllRows' = AllRows /\ Chunks' = Chunks
    BY SameRange DEF AllRows, Tokens
  <2>2. unit'[c] \in {"none", "connecting", "beginning", "acting", "failing", "done", "failed"}
    BY <1>1 DEF IInv, TypeOK
  <2>3. queue' \in [Blocks -> Seq(Statements)]
    <3>1. queue' = [queue EXCEPT ![c] = queue'[c]]
      BY DEF TaskFails, IInv, TypeOK
    <3> QED BY <1>3, <3>1 DEF IInv, TypeOK
  <2>4. unit' \in [Blocks -> {"none", "connecting", "beginning", "acting",
                              "failing", "done", "failed"}]
    <3>1. unit' = [unit EXCEPT ![c] = unit'[c]]
      BY DEF TaskFails, IInv, TypeOK
    <3> QED BY <2>2, <3>1 DEF IInv, TypeOK
  <2> QED BY <1>1, <2>1, <2>3, <2>4 DEF IInv, TypeOK, PoolKept, TaskFails
<1>5. ChunkInv(c)
  BY DEF IInv
<1>6. main # "committing"
  BY <1>5 DEF ChunkInv, MainOk
<1>7. Stored' = Stored /\ WholeBlocks'
  BY SameRows
<1>8. StoredInv'
  BY <1>2, <1>6, <1>7, StoredFrame
<1>9. Chunks' = Chunks /\ BlocksOf(c)' = BlocksOf(c)
  BY SameRange
<1>10. EndsWith(queue'[c], ending'[c])
  <2>1. CASE own
    <3>1. EndsWith(Append(q, Rollback), "rollingBack")
      BY <2>1, StatementKinds, EndsIssued DEF Closing
    <3> QED BY <1>1, <2>1, <3>1
  <2>2. CASE ~own
    BY <1>1, <2>2
  <2> QED BY <2>1, <2>2
<1>11. Awaited(queue'[c], task', BlocksOf(c))
  <2>1. Awaited(q, task', BlocksOf(c))
    BY <1>1, AwaitedOthers, TaskType
  <2> QED BY <1>1, <2>1, AwaitedEnd
<1>12. NoBegin(queue'[c]) /\ (NoBlock(queue[c]) => NoBlock(queue'[c]))
  BY <1>1, AppendKeeps, StatementKinds
<1>13. ChunkInv(c)'
  <2>1. StartOk(c)'
    BY <1>1, <1>5, <1>12 DEF ChunkInv, StartOk, Early
  <2>2. EndOk(c)'
    BY <1>1, <1>5, <1>10, <1>12 DEF ChunkInv, EndOk, Released, Closing
  <2>3. MainOk(c)'
    BY <1>1, <1>5, <1>6 DEF ChunkInv, MainOk, Early
  <2>4. TaskOk(c)'
    BY <1>1, <1>5, <1>9, <1>11 DEF ChunkInv, TaskOk, Early
  <2>5. TxnOk(c)'
    BY <1>1, <1>5, <1>12 DEF ChunkInv, TxnOk
  <2>6. RowsOk(c)'
    BY <1>1, <1>5, <1>7, <1>9 DEF ChunkInv, RowsOk
  <2> QED BY <2>1, <2>2, <2>3, <2>4, <2>5, <2>6 DEF ChunkInv
<1>14. ActiveOk(c)'
  BY <1>1 DEF ActiveOk
<1>15. unit'[c] \in Early => unit[c] \in Early
  BY <1>1 DEF Early
<1> QED BY <1>2, <1>4, <1>7, <1>8, <1>13, <1>14, <1>15, ChunkStep

\* What is known of an insert that is next on a connection.
LEMMA NextInsert ==
    ASSUME IInv, NEW c \in Blocks, queue[c] # << >>, IsInsert(Head(queue[c]))
    PROVE  LET s == Head(queue[c])  b == s[2]  q == Tail(queue[c])
           IN  /\ c \in Chunks /\ b \in BlocksOf(c) /\ b \in Blocks
               /\ s = Insert(s[1], b) /\ task[b] = s[1] /\ s[1] \in {"block", "details", "token"}
               /\ unit[c] \notin Early \cup {"done"}
               /\ EndsWith(q, ending[c]) /\ Awaited(q, task, BlocksOf(c)) /\ NoneFor(q, b)
               /\ NoBlock(queue[c]) => NoBlock(q) /\ s[1] # "block"
               /\ s[1] = "token" => tokenOf[b] # NoToken
<1> DEFINE s == Head(queue[c])
           b == s[2]
           q == Tail(queue[c])
<1>1. c \in Chunks /\ queue[c] \in Seq(Statements) /\ s \in Statements /\ q \in Seq(Statements)
  BY NextStatement
<1>2. s = queue[c][1] /\ 1 \in DOMAIN queue[c]
  BY <1>1, TailFacts
<1>3. ~IsEnd(s) /\ s # Begin /\ s = Insert(s[1], b) /\ s[1] \in {"block", "details", "token"}
  BY <1>1, InsertKinds, StatementKinds DEF IsEnd
<1>4. ChunkInv(c)
  BY <1>1 DEF IInv
<1>5. Awaited(queue[c], task, BlocksOf(c)) /\ EndsWith(queue[c], ending[c])
  BY <1>4 DEF ChunkInv, TaskOk, EndOk
<1>6. b \in BlocksOf(c) /\ task[b] = s[1]
  BY <1>2, <1>5 DEF Awaited
<1>7. b \in Blocks
  BY <1>1, <1>6, ChunkBounds DEF IInv
<1>8. unit[c] \notin Early \cup {"done"}
  BY <1>3, <1>4, <1>6 DEF ChunkInv, TaskOk
<1>9. EndsWith(q, ending[c]) /\ Awaited(q, task, BlocksOf(c)) /\ NoneFor(q, b)
  BY <1>1, <1>3, <1>5, EndsTail, AwaitedTail, AnsweredOnce
<1>10. NoBlock(queue[c]) => NoBlock(q) /\ s[1] # "block"
  BY <1>1, <1>2, TailKeeps DEF NoBlock
<1>11. s[1] = "token" => tokenOf[b] # NoToken
  BY <1>4, <1>6 DEF ChunkInv, TaskOk
<1> QED BY <1>1, <1>3, <1>6, <1>7, <1>8, <1>9, <1>10, <1>11

\* The rows an insert adds are those of its block, or a token.
LEMMA RowFacts == ASSUME IInv, NEW b \in Blocks, NEW k \in {"block", "details", "token"},
                         k = "token" => tokenOf[b] # NoToken
                  PROVE  LET r == RowOf(Insert(k, b))
                         IN  /\ r \in AllRows
                             /\ k # "token" => r = <<k, b>>
                             /\ k = "token" => r \in {"token"} \X Tokens
<1>1. Insert(k, b)[1] = k /\ Insert(k, b)[2] = b /\ Insert(k, b) = <<k, b>>
  BY DEF Insert
<1>2. CASE k = "token"
  <2>1. tokenOf[b] \in Tokens
    BY <1>2 DEF Tokens, IInv, TypeOK
  <2> QED BY <1>1, <1>2, <2>1 DEF RowOf, AllRows
<1>3. CASE k # "token"
  BY <1>1, <1>3 DEF RowOf, AllRows
<1> QED BY <1>2, <1>3

\* Rows of tokens do not matter for the blocks.
LEMMA TokenRows == ASSUME IInv, NEW T \in SUBSET ({"token"} \X Tokens), rows' = rows \cup T
                   PROVE  Stored' = Stored /\ WholeBlocks'
<1>1. \A b : <<"block", b>> \notin T /\ <<"details", b>> \notin T
  BY DEF Tokens
<1> QED BY <1>1 DEF IInv, StoredInv, Stored, WholeBlocks

\* An insert is accepted in a transaction, unless it is of a token.
LEMMA AcceptedInside ==
    ASSUME IInv, NEW c \in Blocks, queue[c] # << >>, IsInsert(Head(queue[c])),
           ~Refuses(c, Head(queue[c]))
    PROVE  /\ txn[c] \in {"active", "none"}
           /\ Head(queue[c])[1] # "token" => txn[c] = "active"
           /\ txn[c] = "active" => c \in conn /\ ~Released(c)
           /\ txn[c] = "none" => written[c] = {}
<1> DEFINE s == Head(queue[c])
           b == s[2]
<1>1. /\ c \in Chunks /\ b \in BlocksOf(c) /\ b \in Blocks
      /\ unit[c] \notin Early \cup {"done"}
      /\ NoBlock(queue[c]) => s[1] # "block"
      /\ s[1] \in {"block", "details", "token"}
  BY NextInsert
<1>2. ChunkInv(c)
  BY <1>1 DEF IInv
<1>3. txn[c] \in {"active", "none"} /\ Accepts(c, s)
  BY DEF Refuses, IInv, TypeOK
<1>4. txn[c] = "none" => written[c] = {} /\ NoBlock(queue[c])
  BY <1>1, <1>2 DEF ChunkInv, TxnOk, IInv, ActiveInv
<1>5. s[1] = "details" => txn[c] = "active"
  <2>1. SUFFICES ASSUME s[1] = "details", txn[c] = "none" PROVE FALSE
    BY <1>3
  <2>2. <<"block", b>> \in rows
    BY <2>1, <1>3, <1>4 DEF Accepts, Visible
  <2>3. b \in Stored
    BY <1>1, <2>2 DEF Stored
  <2>4. BlocksOf(c) \cap Stored = {}
    BY <1>1, <1>2 DEF ChunkInv, RowsOk
  <2> QED BY <1>1, <2>3, <2>4
<1>6. s[1] = "block" => txn[c] = "active"
  BY <1>1, <1>3, <1>4
<1>7. txn[c] = "active" => c \in conn /\ ~Released(c)
  BY <1>2 DEF IInv, ActiveInv, ChunkInv, EndOk
<1> QED BY <1>1, <1>3, <1>4, <1>5, <1>6, <1>7

LEMMA BlockAccepted ==
    ASSUME IInv, NEW c \in Blocks, queue[c] # << >>, NEW b, Head(queue[c]) = Insert("block", b),
           ~Refuses(c, Head(queue[c])), Apply(c, Head(queue[c])), Answered(c, Head(queue[c])),
           UNCHANGED <<mainVars, tokenOf, faults>>
    PROVE  IInv'
<1> DEFINE s == Head(queue[c])
           q == Tail(queue[c])
           p == Append(q, Insert("details", b))
           w == written[c] \cup {<<"block", b>>}
<1>1. IsInsert(s) /\ s[1] = "block" /\ s[2] = b
  BY DEF Insert, IsInsert
<1>2. /\ c \in Chunks /\ b \in BlocksOf(c) /\ b \in Blocks /\ task[b] = "block"
      /\ unit[c] \notin Early \cup {"done"}
      /\ EndsWith(q, ending[c]) /\ Awaited(q, task, BlocksOf(c)) /\ NoneFor(q, b)
      /\ NoBlock(queue[c]) => NoBlock(q)
  BY <1>1, NextInsert
<1>3. q \in Seq(Statements) /\ NoBegin(q)
  BY NextStatement
<1>4. txn[c] = "active" /\ ~Released(c)
  BY <1>1, AcceptedInside
<1>5. s # Begin /\ s # Commit /\ s # Rollback
  BY <1>1, StatementKinds DEF IsEnd
<1>6. RowOf(s) = <<"block", b>> /\ <<"block", b>> \in AllRows
  BY <1>2, RowFacts
<1>7. /\ task' = [task EXCEPT ![b] = "details"] /\ queue' = [queue EXCEPT ![c] = p]
      /\ UNCHANGED <<unit, ending, pool, conn>>
  BY <1>1, <1>4, <1>5 DEF Answered, InsertAnswered, TaskIssues
<1>8. rows' = rows /\ txn' = txn /\ written' = [written EXCEPT ![c] = w]
  BY <1>1, <1>4, <1>5, <1>6 DEF Apply, IInv, TypeOK
<1>9. Insert("details", b) \in Statements /\ ~IsEnd(Insert("details", b))
      /\ Insert("details", b) # Begin /\ Insert("details", b)[1] # "block"
  BY <1>2, InsertIs
<1>10. p \in Seq(Statements) /\ EndsWith(p, ending[c]) /\ NoBegin(p)
       /\ (NoBlock(queue[c]) => NoBlock(p))
  BY <1>2, <1>3, <1>9, AppendFacts, EndsAppend, AppendKeeps
<1>11. Awaited(p, task', BlocksOf(c))
  BY <1>2, <1>3, <1>7, AwaitedAppend, TaskType
<1>12. Stored' = Stored /\ WholeBlocks'
  BY <1>8, SameRows
<1>13. TxnOk(c)'
  <2>1. TxnOk(c)
    BY <1>2 DEF IInv, ChunkInv
  <2>2. BlocksOf(c)' = BlocksOf(c) /\ Tokens' = Tokens
    BY SameRange DEF mainVars, Tokens
  <2>3. written'[c] = w /\ txn'[c] = "active"
    BY <1>4, <1>8 DEF IInv, TypeOK
  <2>4. w \subseteq ({"block", "details"} \X BlocksOf(c)) \cup ({"token"} \X Tokens)
    BY <1>2, <2>1 DEF TxnOk
  <2>5. ASSUME NEW a \in BlocksOf(c)
        PROVE  /\ <<"block", a>> \in w <=> task'[a] \in {"details", "calling", "token", "done"}
               /\ <<"details", a>> \in w <=> task'[a] \in {"calling", "token", "done"}
    <3>1. /\ <<"block", a>> \in written[c] <=> task[a] \in {"details", "calling", "token", "done"}
          /\ <<"details", a>> \in written[c] <=> task[a] \in {"calling", "token", "done"}
      BY <1>4, <2>1 DEF TxnOk
    <3>2. a \in Blocks /\ task' = [task EXCEPT ![b] = "details"] /\ task \in [Blocks -> Tasks]
      BY <1>2, <1>7, ChunkBounds, TaskType DEF IInv
    <3>3. CASE a = b
      BY <1>2, <3>1, <3>2, <3>3
    <3>4. CASE a # b
      BY <3>1, <3>2, <3>4
    <3> QED BY <3>3, <3>4
  <2> QED BY <2>2, <2>3, <2>4, <2>5 DEF TxnOk
<1>14. w \in SUBSET AllRows /\ rows' \subseteq AllRows /\ faults' \in 0 .. MaxFaults
  BY <1>6, <1>8 DEF IInv, TypeOK
<1> HIDE DEF p, w
<1>15. unit' = [unit EXCEPT ![c] = unit[c]]
  BY <1>7 DEF IInv, TypeOK
<1> QED BY <1>2, <1>4, <1>7, <1>8, <1>10, <1>11, <1>12, <1>13, <1>14, <1>15, TaskStep

\* TaskDone, as TaskStep wants it.
LEMMA TaskDoneFacts ==
    ASSUME IInv, NEW c \in Chunks, NEW b \in BlocksOf(c), NEW q, unit[c] \notin Early \cup {"done"},
           TaskDone(c, b, q), UNCHANGED mainVars
    PROVE  \E u : /\ unit' = [unit EXCEPT ![c] = u]
                  /\ u = unit[c] \/ (unit[c] = "acting" /\ u = "done"
                                     /\ \A a \in BlocksOf(c) : task'[a] = "done")
<1> DEFINE u == IF unit[c] = "acting" /\ AllDone(c, b) THEN "done" ELSE unit[c]
<1> c \in Blocks /\ b \in Blocks /\ BlocksOf(c) \subseteq Blocks
  BY ChunkBounds DEF IInv
<1>1. unit' = [unit EXCEPT ![c] = u]
  BY DEF TaskDone
<1>2. AllDone(c, b) => \A a \in BlocksOf(c) : task'[a] = "done"
  BY DEF TaskDone, AllDone, IInv, TypeOK
<1> QED BY <1>1, <1>2

LEMMA DetailsAccepted ==
    ASSUME IInv, NEW c \in Blocks, queue[c] # << >>, NEW b, Head(queue[c]) = Insert("details", b),
           ~Refuses(c, Head(queue[c])), Apply(c, Head(queue[c])), Answered(c, Head(queue[c])),
           UNCHANGED <<mainVars, tokenOf, faults>>
    PROVE  IInv'
<1> DEFINE s == Head(queue[c])
           q == Tail(queue[c])
           w == written[c] \cup {<<"details", b>>}
<1>1. IsInsert(s) /\ s[1] = "details" /\ s[2] = b
  BY DEF Insert, IsInsert
<1>2. /\ c \in Chunks /\ b \in BlocksOf(c) /\ b \in Blocks /\ task[b] = "details"
      /\ unit[c] \notin Early \cup {"done"}
      /\ EndsWith(q, ending[c]) /\ Awaited(q, task, BlocksOf(c)) /\ NoneFor(q, b)
      /\ NoBlock(queue[c]) => NoBlock(q)
  BY <1>1, NextInsert
<1>3. q \in Seq(Statements) /\ NoBegin(q)
  BY NextStatement
<1>4. txn[c] = "active"
  BY <1>1, AcceptedInside
<1>5. s # Begin /\ s # Commit /\ s # Rollback
  BY <1>1, StatementKinds DEF IsEnd
<1>6. RowOf(s) = <<"details", b>> /\ <<"details", b>> \in AllRows
  BY <1>2, RowFacts
<1>7. rows' = rows /\ txn' = txn /\ written' = [written EXCEPT ![c] = w]
  BY <1>1, <1>4, <1>5, <1>6 DEF Apply, IInv, TypeOK
<1>8. queue' = [queue EXCEPT ![c] = q] /\ UNCHANGED <<ending, pool, conn>>
  BY <1>1, <1>5 DEF Answered, InsertAnswered, TaskDone
<1>9. ASSUME NeedsToken(c, b)
      PROVE  /\ task' = [task EXCEPT ![b] = "calling"] /\ tokenOf[b] # NoToken
             /\ unit' = [unit EXCEPT ![c] = unit[c]]
  <2>1. task' = [task EXCEPT ![b] = "calling"] /\ unit' = unit
    BY <1>1, <1>5, <1>9 DEF Answered, InsertAnswered
  <2> QED BY <1>9, <2>1 DEF NeedsToken, IInv, TypeOK
<1>10. ASSUME ~NeedsToken(c, b)
      PROVE  TaskDone(c, b, q)
  BY <1>1, <1>5, <1>10 DEF Answered, InsertAnswered
<1>11. ASSUME ~NeedsToken(c, b)
      PROVE  /\ task' = [task EXCEPT ![b] = "done"]
             /\ \E u : /\ unit' = [unit EXCEPT ![c] = u]
                       /\ u = unit[c] \/ (unit[c] = "acting" /\ u = "done"
                                          /\ \A a \in BlocksOf(c) : task'[a] = "done")
  <2>1. task' = [task EXCEPT ![b] = "done"]
    BY <1>10, <1>11 DEF TaskDone
  <2>2. \E u : /\ unit' = [unit EXCEPT ![c] = u]
               /\ u = unit[c] \/ (unit[c] = "acting" /\ u = "done"
                                  /\ \A a \in BlocksOf(c) : task'[a] = "done")
    BY <1>2, <1>10, <1>11, TaskDoneFacts
  <2> QED BY <2>1, <2>2
<1>12. /\ task' = [task EXCEPT ![b] = task'[b]] /\ task'[b] \in {"calling", "done"}
       /\ task'[b] = "calling" => tokenOf[b] # NoToken
  BY <1>2, <1>9, <1>11, TaskType
<1>13. PICK u : /\ unit' = [unit EXCEPT ![c] = u]
                /\ u = unit[c] \/ (unit[c] = "acting" /\ u = "done"
                                   /\ \A a \in BlocksOf(c) : task'[a] = "done")
  BY <1>9, <1>11
<1>14. Awaited(q, task', BlocksOf(c))
  <2>1. \A x : Awaited(q, [task EXCEPT ![b] = x], BlocksOf(c))
    BY <1>2, <1>3, AwaitedOthers, TaskType
  <2> HIDE DEF q
  <2> QED BY <2>1, <1>12
<1>15. Stored' = Stored /\ WholeBlocks'
  BY <1>7, SameRows
<1>16. TxnOk(c)'
  <2>1. TxnOk(c)
    BY <1>2 DEF IInv, ChunkInv
  <2>2. BlocksOf(c)' = BlocksOf(c) /\ Tokens' = Tokens
    BY SameRange DEF mainVars, Tokens
  <2>3. written'[c] = w /\ txn'[c] = "active"
    BY <1>4, <1>7 DEF IInv, TypeOK
  <2>4. w \subseteq ({"block", "details"} \X BlocksOf(c)) \cup ({"token"} \X Tokens)
    BY <1>2, <2>1 DEF TxnOk
  <2>5. ASSUME NEW a \in BlocksOf(c)
        PROVE  /\ <<"block", a>> \in w <=> task'[a] \in {"details", "calling", "token", "done"}
               /\ <<"details", a>> \in w <=> task'[a] \in {"calling", "token", "done"}
    <3>1. /\ <<"block", a>> \in written[c] <=> task[a] \in {"details", "calling", "token", "done"}
          /\ <<"details", a>> \in written[c] <=> task[a] \in {"calling", "token", "done"}
      BY <1>4, <2>1 DEF TxnOk
    <3>2. a \in Blocks /\ task' = [task EXCEPT ![b] = task'[b]] /\ task \in [Blocks -> Tasks]
          /\ task'[b] \in {"calling", "done"}
      <4>1. a \in Blocks /\ task \in [Blocks -> Tasks]
        BY <1>2, ChunkBounds, TaskType DEF IInv
      <4> QED BY <4>1, <1>2, <1>12, <1>13
    <3>3. CASE a = b
      BY <1>2, <3>1, <3>2, <3>3
    <3>4. CASE a # b
      BY <3>1, <3>2, <3>4
    <3> QED BY <3>3, <3>4
  <2> QED BY <2>2, <2>3, <2>4, <2>5 DEF TxnOk
<1>17. w \in SUBSET AllRows /\ rows' \subseteq AllRows /\ faults' \in 0 .. MaxFaults
  BY <1>6, <1>7 DEF IInv, TypeOK
<1> HIDE DEF q, w
<1>18. PICK x \in {"details", "calling", "token", "done"} :
          /\ task' = [task EXCEPT ![b] = x]
          /\ x \in {"calling", "token"} => tokenOf[b] # NoToken
  BY <1>12
<1> QED BY <1>2, <1>3, <1>4, <1>7, <1>8, <1>12, <1>13, <1>14, <1>15, <1>16, <1>17, <1>18, TaskStep

LEMMA TokenAccepted ==
    ASSUME IInv, NEW c \in Blocks, queue[c] # << >>, NEW b, Head(queue[c]) = Insert("token", b),
           ~Refuses(c, Head(queue[c])), Apply(c, Head(queue[c])), Answered(c, Head(queue[c])),
           UNCHANGED <<mainVars, tokenOf, faults>>
    PROVE  IInv'
<1> DEFINE s == Head(queue[c])
           q == Tail(queue[c])
           r == RowOf(s)
           w == IF txn[c] = "active" THEN written[c] \cup {r} ELSE written[c]
<1>1. IsInsert(s) /\ s[1] = "token" /\ s[2] = b
  BY DEF Insert, IsInsert
<1>2. /\ c \in Chunks /\ b \in BlocksOf(c) /\ b \in Blocks /\ task[b] = "token"
      /\ unit[c] \notin Early \cup {"done"}
      /\ EndsWith(q, ending[c]) /\ Awaited(q, task, BlocksOf(c)) /\ NoneFor(q, b)
      /\ NoBlock(queue[c]) => NoBlock(q)
      /\ tokenOf[b] # NoToken
  BY <1>1, NextInsert
<1>3. q \in Seq(Statements) /\ NoBegin(q)
  BY NextStatement
<1>4. txn[c] \in {"active", "none"} /\ (txn[c] = "none" => written[c] = {})
  BY <1>1, AcceptedInside
<1>5. s # Begin /\ s # Commit /\ s # Rollback
  BY <1>1, StatementKinds DEF IsEnd
<1>6. r \in AllRows /\ r \in {"token"} \X Tokens
  BY <1>2, RowFacts
<1>7. /\ txn' = txn /\ written' = [written EXCEPT ![c] = w]
      /\ \E T \in SUBSET {r} : rows' = rows \cup T
  <2>1. txn' = txn /\ written' = [written EXCEPT ![c] = w]
    BY <1>1, <1>4, <1>5 DEF Apply, IInv, TypeOK
  <2>2. rows' = rows \cup {r} \/ rows' = rows \cup {}
    BY <1>1, <1>5 DEF Apply
  <2> QED BY <2>1, <2>2
<1>8. TaskDone(c, b, q) /\ UNCHANGED <<pool, conn>>
  BY <1>1, <1>5 DEF Answered, InsertAnswered
<1>9. queue' = [queue EXCEPT ![c] = q] /\ ending' = ending /\ task' = [task EXCEPT ![b] = "done"]
  BY <1>8 DEF TaskDone
<1>10. PICK u : /\ unit' = [unit EXCEPT ![c] = u]
                /\ u = unit[c] \/ (unit[c] = "acting" /\ u = "done"
                                   /\ \A a \in BlocksOf(c) : task'[a] = "done")
  BY <1>2, <1>8, TaskDoneFacts
<1>11. Awaited(q, task', BlocksOf(c))
  BY <1>2, <1>3, <1>9, AwaitedOthers, TaskType
<1>12. Stored' = Stored /\ WholeBlocks'
  <2>1. PICK T \in SUBSET {r} : rows' = rows \cup T
    BY <1>7
  <2>2. T \in SUBSET ({"token"} \X Tokens)
    BY <1>6
  <2> QED BY <2>1, <2>2, TokenRows
<1>13. TxnOk(c)'
  <2>1. TxnOk(c)
    BY <1>2 DEF IInv, ChunkInv
  <2>2. BlocksOf(c)' = BlocksOf(c) /\ Tokens' = Tokens
    BY SameRange DEF mainVars, Tokens
  <2>3. written'[c] = w /\ txn'[c] = txn[c] /\ queue'[c] = q /\ unit'[c] = u /\ ending'[c] = ending[c]
    BY <1>7, <1>9, <1>10 DEF IInv, TypeOK
  <2>4. w \subseteq ({"block", "details"} \X BlocksOf(c)) \cup ({"token"} \X Tokens)
    BY <1>6, <2>1 DEF TxnOk
  <2>5. ASSUME NEW a \in BlocksOf(c), txn[c] = "active"
        PROVE  /\ <<"block", a>> \in w <=> task'[a] \in {"details", "calling", "token", "done"}
               /\ <<"details", a>> \in w <=> task'[a] \in {"calling", "token", "done"}
    <3>1. /\ <<"block", a>> \in written[c] <=> task[a] \in {"details", "calling", "token", "done"}
          /\ <<"details", a>> \in written[c] <=> task[a] \in {"calling", "token", "done"}
      BY <2>1, <2>5 DEF TxnOk
    <3>2. a \in Blocks /\ task \in [Blocks -> Tasks]
      BY <1>2, ChunkBounds, TaskType DEF IInv
    <3>3. <<"block", a>> # r /\ <<"details", a>> # r
      BY <1>6 DEF Tokens
    <3>4. CASE a = b
      BY <1>2, <1>9, <3>1, <3>2, <3>3, <3>4
    <3>5. CASE a # b
      BY <1>9, <3>1, <3>2, <3>3, <3>5
    <3> QED BY <3>4, <3>5
  <2>6. txn[c] = "none" => NoBlock(q)
    BY <1>2, <2>1 DEF TxnOk
  <2>7. txn[c] = "none" => ~(u = "done" /\ ending[c] = "open") /\ ~(u = "acting" /\ ending[c] = "open")
                           /\ ~(u = "done" /\ ending[c] = "committing")
    <3>1. u = "done" => unit[c] = "acting"
      BY <1>2, <1>10
    <3>2. unit[c] = "acting" => ending[c] # "committing"
      BY <1>2 DEF IInv, ChunkInv, MainOk
    <3> QED BY <1>10, <2>1, <3>1, <3>2 DEF TxnOk
  <2> QED BY <1>4, <2>2, <2>3, <2>4, <2>5, <2>6, <2>7 DEF TxnOk
<1>14. /\ w \in SUBSET AllRows /\ rows' \subseteq AllRows /\ faults' \in 0 .. MaxFaults
       /\ w # {} => txn[c] = "active"
  BY <1>4, <1>6, <1>7 DEF IInv, TypeOK
<1> HIDE DEF q, w, r
<1> QED BY <1>2, <1>3, <1>7, <1>8, <1>9, <1>10, <1>11, <1>12, <1>13, <1>14, TaskStep

\* The first inserts of a chunk.
LEMMA FirstInserts ==
    ASSUME IInv, NEW c \in Chunks
    PROVE  LET F == << >> \o [i \in 1 .. EndOf(c) - c + 1 |-> Insert("block", c + i - 1)]
           IN  /\ F \in Seq(Statements) /\ NoBegin(F)
               /\ \A i \in DOMAIN F : ~IsEnd(F[i]) /\ F[i][1] = "block" /\ F[i][2] \in BlocksOf(c)
               /\ \A i, j \in DOMAIN F : F[i] = F[j] => i = j
<1> DEFINE n == EndOf(c) - c + 1
           G == [i \in 1 .. n |-> Insert("block", c + i - 1)]
           F == << >> \o G
<1>1. c \in Nat /\ EndOf(c) \in Nat /\ c <= EndOf(c) /\ n \in Nat /\ BlocksOf(c) \subseteq Blocks
  BY ChunkBounds DEF IInv, Blocks
<1>2. ASSUME NEW i \in 1 .. n
      PROVE  /\ c + i - 1 \in BlocksOf(c) /\ c + i - 1 \in Blocks
             /\ Insert("block", c + i - 1) \in Statements
             /\ ~IsEnd(Insert("block", c + i - 1)) /\ Insert("block", c + i - 1) # Begin
             /\ Insert("block", c + i - 1)[1] = "block"
             /\ Insert("block", c + i - 1)[2] = c + i - 1
  <2>1. c + i - 1 \in BlocksOf(c)
    BY <1>1 DEF BlocksOf
  <2>2. c + i - 1 \in Blocks
    BY <1>1, <2>1
  <2> QED BY <2>1, <2>2, InsertIs
<1>3. G \in Seq(Statements) /\ DOMAIN G = 1 .. n /\ \A i \in 1 .. n : G[i] = Insert("block", c + i - 1)
  <2>1. DOMAIN G = 1 .. n /\ \A i \in 1 .. n : G[i] = Insert("block", c + i - 1)
    OBVIOUS
  <2> HIDE DEF n
  <2>2. \A i \in 1 .. n : Insert("block", c + i - 1) \in Statements
    BY <1>2
  <2>3. G \in [1 .. n -> Statements]
    BY <2>2
  <2>4. G \in Seq(Statements)
    BY <1>1, <2>3
  <2> QED BY <2>1, <2>4
<1> HIDE DEF G
<1>4. F = G
  BY <1>3
<1>5. \A i, j \in 1 .. n : G[i] = G[j] => i = j
  <2> SUFFICES ASSUME NEW i \in 1 .. n, NEW j \in 1 .. n, G[i] = G[j] PROVE i = j
    OBVIOUS
  <2>1. c + i - 1 = c + j - 1
    BY <1>2, <1>3
  <2> QED BY <1>1, <2>1
<1>6. /\ F \in Seq(Statements) /\ NoBegin(F)
      /\ \A i \in DOMAIN F : ~IsEnd(F[i]) /\ F[i][1] = "block" /\ F[i][2] \in BlocksOf(c)
      /\ \A i, j \in DOMAIN F : F[i] = F[j] => i = j
  BY <1>2, <1>3, <1>4, <1>5 DEF NoBegin
<1> QED BY <1>6 DEF G

LEMMA BeginAccepted ==
    ASSUME IInv, NEW c \in Blocks, queue[c] # << >>, Head(queue[c]) = Begin,
           ~Refuses(c, Begin), Apply(c, Begin), Answered(c, Begin),
           UNCHANGED <<mainVars, tokenOf, faults>>
    PROVE  IInv'
<1> USE DEF mainVars
<1>1. c \in Chunks /\ unit[c] = "beginning" /\ Tail(queue[c]) = << >>
  BY NextStatement
<1>2. ChunkInv(c)
  BY <1>1 DEF IInv
<1>3. c \in conn /\ ending[c] = "open" /\ main = "executing" /\ written[c] = {}
  BY <1>1, <1>2 DEF ChunkInv, StartOk, IInv, ActiveInv
<1>4. BlocksOf(c) \subseteq Blocks
  BY <1>1, ChunkBounds DEF IInv
<1>5. PICK F \in Seq(Statements) :
        /\ queue' = [queue EXCEPT ![c] = F] /\ NoBegin(F)
        /\ \A i \in DOMAIN F : ~IsEnd(F[i]) /\ F[i][1] = "block" /\ F[i][2] \in BlocksOf(c)
        /\ \A i, j \in DOMAIN F : F[i] = F[j] => i = j
  <2> DEFINE G == << >> \o [i \in 1 .. EndOf(c) - c + 1 |-> Insert("block", c + i - 1)]
  <2>1. /\ G \in Seq(Statements) /\ NoBegin(G)
        /\ \A i \in DOMAIN G : ~IsEnd(G[i]) /\ G[i][1] = "block" /\ G[i][2] \in BlocksOf(c)
        /\ \A i, j \in DOMAIN G : G[i] = G[j] => i = j
    BY <1>1, FirstInserts
  <2>2. queue' = [queue EXCEPT ![c] = G]
    BY <1>1, StatementKinds DEF Answered, ActionStarts
  <2> HIDE DEF G
  <2> QED BY <2>1, <2>2
<1>6. /\ unit' = [unit EXCEPT ![c] = "acting"]
      /\ task' = [b \in Blocks |-> IF b \in BlocksOf(c) THEN "block" ELSE task[b]]
      /\ UNCHANGED <<ending, pool, conn>>
  BY StatementKinds DEF Answered, ActionStarts
<1>7. /\ txn' = [txn EXCEPT ![c] = "active"] /\ written' = [written EXCEPT ![c] = {}]
      /\ rows' = rows
  BY StatementKinds DEF Apply
<1>8. /\ unit'[c] = "acting" /\ queue'[c] = F /\ txn'[c] = "active" /\ written'[c] = {}
      /\ \A b \in BlocksOf(c) : task'[b] = "block"
  BY <1>4, <1>5, <1>6, <1>7 DEF IInv, TypeOK
<1>9. StepOf(c)
  BY <1>5, <1>6, <1>7 DEF StepOf, SameChunk, IInv, TypeOK
<1>10. TypeOK' /\ PoolKept'
  <2>1. AllRows' = AllRows /\ Chunks' = Chunks
    BY SameRange DEF AllRows, Tokens
  <2>2. task' \in [Blocks -> Tasks]
    BY <1>6, TaskType DEF Tasks
  <2> QED BY <1>5, <1>6, <1>7, <2>1, <2>2 DEF IInv, TypeOK, PoolKept, Tasks
<1>11. Stored' = Stored /\ WholeBlocks'
  BY <1>7, SameRows
<1>12. StoredInv'
  BY <1>1, <1>3, <1>9, <1>11, StoredFrame
<1>13. Chunks' = Chunks /\ BlocksOf(c)' = BlocksOf(c)
  BY SameRange
<1>14. ChunkInv(c)'
  <2>1. EndsWith(F, "open")
    BY <1>5 DEF EndsWith, Closing
  <2>2. Awaited(F, task', BlocksOf(c))
    BY <1>5, <1>8 DEF Awaited
  <2>3. StartOk(c)' /\ EndOk(c)' /\ MainOk(c)'
    BY <1>3, <1>5, <1>6, <1>8, <2>1 DEF StartOk, EndOk, MainOk, Early, Closing, Released
  <2>4. TaskOk(c)'
    BY <1>8, <1>13, <2>2 DEF TaskOk, Early
  <2>5. TxnOk(c)'
    BY <1>8, <1>13 DEF TxnOk, Early
  <2>6. RowsOk(c)'
    BY <1>1, <1>2, <1>11, <1>13 DEF ChunkInv, RowsOk
  <2> QED BY <2>3, <2>4, <2>5, <2>6 DEF ChunkInv
<1>15. FailsCalmly(c) /\ ActiveOk(c)'
  BY <1>3, <1>6, <1>8 DEF FailsCalmly, HasFailed, ActiveOk
<1> QED BY <1>1, <1>8, <1>9, <1>10, <1>11, <1>12, <1>14, <1>15, ChunkStep DEF Early

LEMMA BeginRejected ==
    ASSUME IInv, NEW c \in Blocks, queue[c] # << >>, Head(queue[c]) = Begin,
           Refuse(c, Begin), Rejected(c, Begin), FailsCalmly(c),
           UNCHANGED <<mainVars, tokenOf>>, faults' \in 0 .. MaxFaults
    PROVE  IInv'
<1> USE DEF mainVars
<1>1. c \in Chunks /\ unit[c] = "beginning" /\ Tail(queue[c]) = << >>
  BY NextStatement
<1>2. ChunkInv(c)
  BY <1>1 DEF IInv
<1>3. c \in conn /\ ending[c] = "open" /\ main = "executing" /\ txn[c] \in {"none", "dead"}
  BY <1>1, <1>2 DEF ChunkInv, StartOk
<1>4. /\ unit' = [unit EXCEPT ![c] = "failed"] /\ queue' = [queue EXCEPT ![c] = << >>]
      /\ UNCHANGED <<ending, task, pool, conn>>
  BY <1>1, StatementKinds DEF Rejected
<1>5. txn' = [txn EXCEPT ![c] = txn[c]] /\ written' = [written EXCEPT ![c] = {}] /\ rows' = rows
  BY <1>3, StatementKinds DEF Refuse
<1>6. unit'[c] = "failed" /\ queue'[c] = << >> /\ txn'[c] = txn[c] /\ written'[c] = {}
  BY <1>4, <1>5 DEF IInv, TypeOK
<1>7. StepOf(c)
  BY <1>4, <1>5 DEF StepOf, SameChunk, IInv, TypeOK
<1>8. TypeOK' /\ PoolKept'
  <2>1. AllRows' = AllRows /\ Chunks' = Chunks
    BY SameRange DEF AllRows, Tokens
  <2>2. << >> \in Seq(Statements)
    OBVIOUS
  <2> QED BY <1>4, <1>5, <2>1, <2>2 DEF IInv, TypeOK, PoolKept
<1>9. Stored' = Stored /\ WholeBlocks'
  BY <1>5, SameRows
<1>10. StoredInv'
  BY <1>1, <1>3, <1>7, <1>9, StoredFrame
<1>11. Chunks' = Chunks /\ BlocksOf(c)' = BlocksOf(c)
  BY SameRange
<1>12. ChunkInv(c)'
  <2>1. EndsWith(<< >>, "open") /\ Awaited(<< >>, task, BlocksOf(c)) /\ NoBegin(<< >>)
        /\ NoBlock(<< >>)
    BY DEF EndsWith, Awaited, Closing, NoBegin, NoBlock
  <2>2. RowsOk(c)' /\ TxnOk(c)'
    BY <1>1, <1>2, <1>3, <1>6, <1>9, <1>11, <2>1 DEF RowsOk, TxnOk, ChunkInv
  <2>3. TaskOk(c)'
    BY <1>1, <1>2, <1>4, <1>6, <1>11, <2>1 DEF ChunkInv, TaskOk, Early
  <2> QED BY <1>3, <1>4, <1>6, <2>1, <2>2, <2>3
          DEF ChunkInv, StartOk, EndOk, MainOk, Early, Closing, Released
<1>13. ActiveOk(c)'
  BY <1>3, <1>6 DEF ActiveOk
<1> QED BY <1>1, <1>6, <1>7, <1>8, <1>9, <1>10, <1>12, <1>13, ChunkStep DEF Early

LEMMA InsertRejected ==
    ASSUME IInv, NEW c \in Blocks, queue[c] # << >>, NEW s, s = Head(queue[c]), IsInsert(s),
           Refuse(c, s), Rejected(c, s), FailsCalmly(c),
           UNCHANGED <<mainVars, tokenOf>>, faults' \in 0 .. MaxFaults
    PROVE  IInv'
<1> DEFINE b == s[2]
           q == Tail(queue[c])
<1>1. /\ c \in Chunks /\ b \in BlocksOf(c)
      /\ unit[c] \notin Early \cup {"done"}
      /\ EndsWith(q, ending[c]) /\ Awaited(q, task, BlocksOf(c)) /\ NoneFor(q, b)
      /\ NoBlock(queue[c]) => NoBlock(q)
  BY NextInsert
<1>2. q \in Seq(Statements) /\ NoBegin(q)
  BY NextStatement
<1>3. s # Begin /\ s # Commit /\ s # Rollback
  BY StatementKinds
<1>4. TaskFails(c, b, q) /\ UNCHANGED <<pool, conn>>
  BY <1>3 DEF Rejected
<1>5. rows' = rows /\ written' = [written EXCEPT ![c] = {}]
  BY DEF Refuse
<1>6. PICK x \in {"none", "aborted", "dead"} :
        /\ txn' = [txn EXCEPT ![c] = x] /\ (x = "none" => txn[c] = "none")
        /\ txn[c] = "dead" => x = "dead"
  BY DEF Refuse, IInv, TypeOK
<1> HIDE DEF b, q
<1> QED BY <1>1, <1>2, <1>4, <1>5, <1>6, TaskFailsStep

\* Only a chunk that has failed has an insert refused, while the others run.
LEMMA RefusedCalmly ==
    ASSUME IInv, NEW c \in Blocks, queue[c] # << >>, NEW s, s = Head(queue[c]), IsInsert(s),
           Refuses(c, s)
    PROVE  FailsCalmly(c)
<1> SUFFICES ASSUME main = "executing" PROVE HasFailed(c)
  BY DEF FailsCalmly
<1> DEFINE b == s[2]
<1>1. /\ c \in Chunks /\ b \in BlocksOf(c) /\ b \in Blocks /\ task[b] = s[1]
      /\ s = Insert(s[1], b) /\ s[1] \in {"block", "details", "token"}
      /\ unit[c] \notin Early \cup {"done"}
  BY NextInsert
<1>2. ChunkInv(c)
  BY <1>1 DEF IInv
<1>3. unit[c] = "acting" => ending[c] = "open" /\ c \in conn
  BY <1>2 DEF ChunkInv, MainOk, EndOk
<1>4. unit[c] \in {"acting", "failing", "failed"}
  BY <1>1, <1>2 DEF ChunkInv, StartOk, Early, IInv, TypeOK
<1>5. txn[c] = "none" => unit[c] # "acting"
  BY <1>2, <1>3 DEF ChunkInv, TxnOk
<1>6. ASSUME txn[c] = "active" PROVE Accepts(c, s)
  <2>1. /\ <<"block", b>> \in written[c] <=> task[b] \in {"details", "calling", "token", "done"}
        /\ <<"details", b>> \in written[c] <=> task[b] \in {"calling", "token", "done"}
    BY <1>1, <1>2, <1>6 DEF ChunkInv, TxnOk
  <2>2. <<"block", b>> \notin rows /\ <<"details", b>> \notin rows
    <3>1. b \notin Stored
      BY <1>1, <1>2 DEF ChunkInv, RowsOk
    <3> QED BY <1>1, <3>1 DEF Stored, IInv, StoredInv, WholeBlocks
  <2>3. s[1] # "token" => RowOf(s) = <<s[1], b>>
    BY <1>1 DEF RowOf, Insert
  <2>4. CASE s[1] = "block"
    BY <1>1, <2>1, <2>2, <2>3, <2>4 DEF Accepts, Visible
  <2>5. CASE s[1] = "details"
    BY <1>1, <2>1, <2>2, <2>3, <2>5 DEF Accepts, Visible
  <2>6. CASE s[1] = "token"
    BY <2>6 DEF Accepts
  <2> QED BY <1>1, <2>4, <2>5, <2>6
<1>7. txn[c] # "active"
  BY <1>6 DEF Refuses
<1>8. txn[c] \in {"none", "aborted", "dead"}
  BY <1>7 DEF IInv, TypeOK
<1> QED BY <1>3, <1>4, <1>5, <1>8 DEF HasFailed

\* What is known when the end of a transaction is next on its connection.
LEMMA NextEnd ==
    ASSUME IInv, NEW c \in Blocks, queue[c] # << >>, IsEnd(Head(queue[c]))
    PROVE  LET q == Tail(queue[c])
           IN  /\ c \in Chunks /\ c \in conn /\ q \in Seq(Statements)
               /\ ending[c] \in Closing /\ (Head(queue[c]) = Commit <=> ending[c] = "committing")
               /\ NoBegin(q) /\ NoBlock(q) /\ Awaited(q, task, BlocksOf(c))
               /\ \A f : f \notin Closing => EndsWith(q, f)
               /\ unit[c] \notin Early
<1> DEFINE q == Tail(queue[c])
<1>1. c \in Chunks /\ queue[c] \in Seq(Statements) /\ q \in Seq(Statements) /\ NoBegin(q)
  BY NextStatement
<1>2. ChunkInv(c)
  BY <1>1 DEF IInv
<1>3. EndsWith(queue[c], ending[c]) /\ Awaited(queue[c], task, BlocksOf(c))
  BY <1>2 DEF ChunkInv, EndOk, TaskOk
<1>4. /\ ending[c] \in Closing /\ (Head(queue[c]) = Commit <=> ending[c] = "committing")
      /\ NoBlock(q) /\ \A f : f \notin Closing => EndsWith(q, f)
  BY <1>1, <1>3, EndsAtHead
<1>5. Awaited(q, task, BlocksOf(c))
  BY <1>1, <1>3, AwaitedTail
<1>6. c \in conn
  BY <1>2, <1>4 DEF ChunkInv, EndOk
<1>7. unit[c] \notin Early
  BY <1>2, <1>4 DEF ChunkInv, StartOk, Early, Closing
<1> QED BY <1>1, <1>4, <1>5, <1>6, <1>7

LEMMA CommitNextOnly ==
    ASSUME IInv, NEW c \in Chunks, ending[c] = "committing"
    PROVE  /\ main = "committing" /\ c = next /\ unit[c] = "done"
           /\ txn[c] \in {"active", "dead"}
           /\ txn[c] # "dead" => Stored = 1 .. (c - 1)
           /\ \A b \in BlocksOf(c) : task[b] = "done"
<1> c \in Blocks
  BY ChunkBounds DEF IInv
<1>1. ChunkInv(c)
  BY DEF IInv
<1>2. main = "committing" /\ c = next
  BY <1>1 DEF ChunkInv, MainOk
<1>3. unit[c] = "done"
  BY <1>1, <1>2 DEF ChunkInv, MainOk
<1>4. txn[c] \in {"active", "dead"}
  BY <1>1, <1>3 DEF ChunkInv, TxnOk, IInv, TypeOK
<1>5. \A b \in BlocksOf(c) : task[b] = "done"
  BY <1>1, <1>3 DEF ChunkInv, TaskOk
<1> QED BY <1>2, <1>3, <1>4, <1>5 DEF IInv, StoredInv

\* The rows of a chunk are stored at once.
LEMMA ChunkStored ==
    ASSUME IInv, NEW c \in Chunks, ending[c] = "committing", txn[c] = "active",
           rows' = rows \cup written[c]
    PROVE  /\ Stored' = 1 .. EndOf(c) /\ Stored' = Stored \cup BlocksOf(c)
           /\ WholeBlocks' /\ rows' \subseteq AllRows
<1> c \in Blocks /\ BlocksOf(c) \subseteq Blocks
  BY ChunkBounds DEF IInv
<1>1. Stored = 1 .. (c - 1) /\ \A b \in BlocksOf(c) : task[b] = "done"
  BY CommitNextOnly
<1>2. TxnOk(c)
  BY DEF IInv, ChunkInv
<1>3. \A b \in BlocksOf(c) : <<"block", b>> \in written[c] /\ <<"details", b>> \in written[c]
  BY <1>1, <1>2 DEF TxnOk
<1>4. \A b \in Blocks \ BlocksOf(c) : <<"block", b>> \notin written[c]
                                      /\ <<"details", b>> \notin written[c]
  BY <1>2 DEF TxnOk
<1>5. Stored' = Stored \cup BlocksOf(c)
  BY <1>3, <1>4 DEF Stored
<1>6. WholeBlocks'
  BY <1>3, <1>4 DEF WholeBlocks, IInv, StoredInv
<1>7. Stored' = 1 .. EndOf(c)
  <2>1. c \in Nat /\ EndOf(c) \in Nat /\ 1 <= c /\ c <= EndOf(c)
    BY ChunkBounds DEF IInv, Blocks
  <2> QED BY <1>1, <1>5, <2>1 DEF BlocksOf
<1>8. rows' \subseteq AllRows
  BY DEF IInv, TypeOK
<1> QED BY <1>5, <1>6, <1>7, <1>8

\* A chunk releases its connection, with its rows stored or none of them.
LEMMA ReleaseStep ==
    ASSUME IInv, NEW c \in Blocks, queue[c] # << >>, IsEnd(Head(queue[c])),
           NEW how \in {"committed", "rolledBack"}, Release(c, how, Tail(queue[c])),
           how = "committed" <=> ending[c] = "committing",
           NEW x \in {"none", "dead"}, txn' = [txn EXCEPT ![c] = x],
           written' = [written EXCEPT ![c] = {}],
           how = "committed" => Stored' = 1 .. EndOf(c) /\ Stored' = Stored \cup BlocksOf(c),
           how = "rolledBack" => Stored' = Stored,
           WholeBlocks', rows' \subseteq AllRows,
           UNCHANGED <<mainVars, tokenOf, faults>>
    PROVE  IInv'
<1> USE DEF mainVars
<1> DEFINE q == Tail(queue[c])
<1>1. /\ c \in Chunks /\ c \in conn /\ q \in Seq(Statements)
      /\ ending[c] \in Closing
      /\ NoBegin(q) /\ NoBlock(q) /\ Awaited(q, task, BlocksOf(c))
      /\ \A f : f \notin Closing => EndsWith(q, f)
      /\ unit[c] \notin Early
  BY NextEnd
<1> HIDE DEF q
<1>2. /\ ending' = [ending EXCEPT ![c] = how] /\ queue' = [queue EXCEPT ![c] = q]
      /\ unit' = [unit EXCEPT ![c] = IF @ = "failing" THEN "failed" ELSE @]
      /\ conn' = conn \ {c} /\ pool' = pool + 1 /\ task' = task
  BY DEF Release, q
<1>3. /\ ending'[c] = how /\ queue'[c] = q /\ c \notin conn' /\ txn'[c] = x /\ written'[c] = {}
      /\ unit'[c] = IF unit[c] = "failing" THEN "failed" ELSE unit[c]
  BY <1>2 DEF IInv, TypeOK
<1>4. ChunkInv(c) /\ EndOf(c) \in 0 .. MaxBlock
  BY <1>1, ChunkBounds DEF IInv, Blocks
<1>5. main = "committing" => c = next
  BY <1>1, <1>4 DEF ChunkInv, MainOk, Closing, IInv, StoredInv, RangeInv, Blocks
<1>6. StepOf(c)
  BY <1>2 DEF StepOf, SameChunk, IInv, TypeOK
<1>7. TypeOK'
  <2>1. AllRows' = AllRows /\ Chunks' = Chunks
    BY SameRange DEF AllRows, Tokens
  <2>2. pool' \in 0 .. PoolSize
    BY <1>1, <1>2, PoolSteps
  <2>3. queue' \in [Blocks -> Seq(Statements)]
    BY <1>1, <1>2 DEF IInv, TypeOK
  <2> QED BY <1>2, <2>1, <2>2, <2>3 DEF IInv, TypeOK
<1>8. PoolKept'
  BY <1>1, <1>2, PoolSteps
<1>9. Chunks' = Chunks /\ EndOf(c)' = EndOf(c) /\ BlocksOf(c)' = BlocksOf(c)
  BY SameRange
<1>10. StoredInv'
  <2>1. \E m \in 0 .. MaxBlock : Stored' = 1 .. m
    BY <1>4 DEF IInv, StoredInv
  <2>2. CASE main = "committing"
    <3>1. c = next /\ next \in Chunks'
      BY <1>1, <1>5, <1>9, <2>2
    <3>2. how = "committed" => Stored' = 1 .. EndOf(c)'
      BY <1>9
    <3> QED BY <1>3, <2>1, <2>2, <3>1, <3>2 DEF StoredInv
  <2>3. CASE main # "committing"
    <3>1. how = "rolledBack"
      BY <1>1, <2>3, CommitNextOnly
    <3> QED BY <2>1, <2>3, <3>1 DEF IInv, StoredInv
  <2> QED BY <2>2, <2>3
<1>11. ChunkInv(c)'
  <2>1. EndsWith(q, how) /\ Released(c)'
    BY <1>1, <1>3 DEF Closing, Released
  <2>2. StartOk(c)'
    BY <1>1, <1>3, <1>4 DEF ChunkInv, StartOk, Early
  <2>3. EndOk(c)'
    BY <1>1, <1>3, <2>1 DEF EndOk, Closing
  <2>4. MainOk(c)'
    <3>1. main = "executing" => unit'[c] \notin Early \cup {"acting", "done"}
      BY <1>1, <1>3, <1>4 DEF ChunkInv, MainOk, Early, Closing
    <3>2. main = "committing" => unit'[c] = "done" /\ c = next
      BY <1>3, <1>4, <1>5 DEF ChunkInv, MainOk
    <3>3. c \in Int
      BY DEF Blocks
    <3> QED BY <1>3, <3>1, <3>2, <3>3 DEF MainOk
  <2>5. TaskOk(c)'
    BY <1>1, <1>2, <1>3, <1>4, <1>9 DEF ChunkInv, TaskOk, Early
  <2>6. TxnOk(c)'
    BY <1>1, <1>3, <1>9 DEF TxnOk
  <2>7. RowsOk(c)'
    <3>1. CASE how = "committed"
      <4>1. unit'[c] = "done"
        BY <1>1, <1>3, <3>1, CommitNextOnly
      <4> QED BY <1>3, <3>1, <4>1 DEF RowsOk
    <3>2. CASE how = "rolledBack"
      BY <1>3, <1>4, <1>9, <3>2 DEF ChunkInv, RowsOk
    <3> QED BY <3>1, <3>2
  <2> QED BY <2>2, <2>3, <2>4, <2>5, <2>6, <2>7 DEF ChunkInv
<1>12. ActiveOk(c)' /\ FailsCalmly(c)
  BY <1>3 DEF ActiveOk, FailsCalmly, HasFailed
<1>13. unit'[c] \in Early => unit[c] \in Early
  BY <1>3 DEF Early
<1>14. \A d \in Chunks \ {c} : BlocksOf(d) \cap Stored' \subseteq Stored
  BY <1>1, BlocksApart DEF IInv
<1> QED BY <1>1, <1>6, <1>7, <1>8, <1>10, <1>11, <1>12, <1>13, <1>14, ChunkStep

LEMMA CommitAccepted ==
    ASSUME IInv, NEW c \in Blocks, queue[c] # << >>, Head(queue[c]) = Commit,
           ~Refuses(c, Commit), Apply(c, Commit), Answered(c, Commit),
           UNCHANGED <<mainVars, tokenOf, faults>>
    PROVE  IInv'
<1>1. c \in Chunks /\ ending[c] = "committing"
  BY NextEnd, StatementKinds
<1>2. txn[c] = "active"
  BY <1>1, CommitNextOnly DEF Refuses
<1>3. /\ rows' = rows \cup written[c] /\ txn' = [txn EXCEPT ![c] = "none"]
      /\ written' = [written EXCEPT ![c] = {}]
  BY StatementKinds DEF Apply
<1>4. Release(c, "committed", Tail(queue[c]))
  BY DEF Answered
<1>5. /\ Stored' = 1 .. EndOf(c) /\ Stored' = Stored \cup BlocksOf(c)
      /\ WholeBlocks' /\ rows' \subseteq AllRows
  BY <1>1, <1>2, <1>3, ChunkStored
<1> QED BY <1>1, <1>3, <1>4, <1>5, ReleaseStep, StatementKinds

LEMMA RollbackRun ==
    ASSUME IInv, NEW c \in Blocks, queue[c] # << >>, Head(queue[c]) = Rollback,
           \/ ~Refuses(c, Rollback) /\ Apply(c, Rollback) /\ Answered(c, Rollback)
           \/ Refuses(c, Rollback) /\ Refuse(c, Rollback) /\ Rejected(c, Rollback),
           UNCHANGED <<mainVars, tokenOf, faults>>
    PROVE  IInv'
<1>1. c \in Chunks /\ ending[c] # "committing"
  BY NextEnd, StatementKinds
<1>2. rows' = rows /\ written' = [written EXCEPT ![c] = {}]
  BY StatementKinds DEF Apply, Refuse
<1>3. PICK x \in {"none", "dead"} : txn' = [txn EXCEPT ![c] = x]
  BY StatementKinds DEF Apply, Refuse
<1>4. Release(c, "rolledBack", Tail(queue[c]))
  BY StatementKinds DEF Answered, Rejected
<1>5. Stored' = Stored /\ WholeBlocks' /\ rows' \subseteq AllRows
  BY <1>2, SameRows DEF IInv, TypeOK
<1> QED BY <1>1, <1>2, <1>3, <1>4, <1>5, ReleaseStep, StatementKinds

LEMMA CommitRejected ==
    ASSUME IInv, NEW c \in Blocks, queue[c] # << >>, Head(queue[c]) = Commit,
           Refuse(c, Commit), Rejected(c, Commit),
           UNCHANGED <<mainVars, tokenOf>>, faults' \in 0 .. MaxFaults
    PROVE  IInv'
<1> USE DEF mainVars
<1> DEFINE q == Tail(queue[c])
<1>1. /\ c \in Chunks /\ c \in conn /\ q \in Seq(Statements) /\ ending[c] = "committing"
      /\ NoBegin(q) /\ NoBlock(q) /\ Awaited(q, task, BlocksOf(c))
      /\ EndsWith(q, "open") /\ unit[c] \notin Early
  <2>1. /\ c \in Chunks /\ c \in conn /\ q \in Seq(Statements) /\ ending[c] = "committing"
        /\ NoBegin(q) /\ NoBlock(q) /\ Awaited(q, task, BlocksOf(c))
        /\ unit[c] \notin Early
    BY NextEnd, StatementKinds
  <2>2. \A f : f \notin Closing => EndsWith(q, f)
    BY NextEnd, StatementKinds
  <2>3. "open" \notin Closing
    BY DEF Closing
  <2> QED BY <2>1, <2>2, <2>3
<1>2. /\ ending' = [ending EXCEPT ![c] = "undoing"]
      /\ queue' = [queue EXCEPT ![c] = Append(q, Rollback)]
      /\ UNCHANGED <<unit, task, pool, conn>>
  BY StatementKinds DEF Rejected
<1>3. PICK x \in {"none", "dead"} : txn' = [txn EXCEPT ![c] = x]
  BY StatementKinds DEF Refuse
<1>4. rows' = rows /\ written' = [written EXCEPT ![c] = {}]
  BY DEF Refuse
<1> HIDE DEF q
<1>5. main = "committing" /\ c = next /\ unit[c] = "done"
  BY <1>1, CommitNextOnly
<1>6. PICK p \in Seq(Statements) :
        /\ queue' = [queue EXCEPT ![c] = p]
        /\ NoBegin(p) /\ NoBlock(p) /\ Awaited(p, task, BlocksOf(c)) /\ EndsWith(p, "undoing")
  <2>1. Append(q, Rollback) \in Seq(Statements)
    BY <1>1, AppendFacts, StatementKinds
  <2>2. NoBegin(Append(q, Rollback)) /\ NoBlock(Append(q, Rollback))
    BY <1>1, AppendKeeps, StatementKinds
  <2>3. Awaited(Append(q, Rollback), task, BlocksOf(c))
    BY <1>1, AwaitedEnd
  <2>4. EndsWith(Append(q, Rollback), "undoing")
    BY <1>1, EndsIssued, StatementKinds DEF Closing
  <2> QED BY <1>2, <2>1, <2>2, <2>3, <2>4
<1>7. ending'[c] = "undoing" /\ queue'[c] = p /\ txn'[c] = x /\ written'[c] = {}
  BY <1>2, <1>3, <1>4, <1>6 DEF IInv, TypeOK
<1>8. ChunkInv(c)
  BY <1>1 DEF IInv
<1>9. StepOf(c)
  BY <1>2, <1>3, <1>4 DEF StepOf, SameChunk, IInv, TypeOK
<1>10. TypeOK' /\ PoolKept'
  <2>1. AllRows' = AllRows /\ Chunks' = Chunks
    BY SameRange DEF AllRows, Tokens
  <2>2. queue' \in [Blocks -> Seq(Statements)]
    BY <1>6 DEF IInv, TypeOK
  <2>3. PoolKept'
    BY <1>2 DEF IInv, PoolKept
  <2> QED BY <1>2, <1>3, <1>4, <2>1, <2>2, <2>3 DEF IInv, TypeOK
<1>11. Stored' = Stored /\ WholeBlocks'
  BY <1>4, SameRows
<1>12. Chunks' = Chunks /\ BlocksOf(c)' = BlocksOf(c)
  BY SameRange
<1>13. StoredInv'
  BY <1>1, <1>5, <1>7, <1>11, <1>12 DEF IInv, StoredInv
<1>14. ChunkInv(c)'
  <2>1. StartOk(c)' /\ EndOk(c)'
    BY <1>1, <1>2, <1>5, <1>6, <1>7, <1>8 DEF ChunkInv, StartOk, EndOk, Early, Closing, Released
  <2>2. MainOk(c)'
    BY <1>2, <1>5, <1>7, <1>8 DEF ChunkInv, MainOk
  <2>3. TaskOk(c)'
    BY <1>2, <1>6, <1>7, <1>8, <1>12 DEF ChunkInv, TaskOk
  <2>4. TxnOk(c)'
    BY <1>6, <1>7, <1>12 DEF TxnOk
  <2>5. RowsOk(c)'
    BY <1>2, <1>5, <1>7 DEF RowsOk
  <2> QED BY <2>1, <2>2, <2>3, <2>4, <2>5 DEF ChunkInv
<1>15. ActiveOk(c)' /\ FailsCalmly(c)
  BY <1>5, <1>7 DEF ActiveOk, FailsCalmly
<1> QED BY <1>1, <1>2, <1>9, <1>10, <1>11, <1>13, <1>14, <1>15, ChunkStep

\* A failure is calm.
LEMMA FaultIsCalm == ASSUME IInv, Calm, NEW c \in Blocks, Fault
                     PROVE  FailsCalmly(c) /\ faults' \in 0 .. MaxFaults
<1>1. AllBegun \/ OneChunk
  BY OneChunkIfCalm DEF Fault, MayFail, IInv
<1>2. faults' \in 0 .. MaxFaults
  BY UnitOfWorkAssumption DEF Fault, MayFail, IInv, TypeOK
<1> QED BY <1>1, <1>2 DEF FailsCalmly

LEMMA ExecuteStep == ASSUME IInv, NEW c \in Blocks, Execute(c)
                     PROVE  IInv'
<1> DEFINE s == Head(queue[c])
<1>1. /\ queue[c] # << >> /\ UNCHANGED <<mainVars, tokenOf, faults>>
      /\ \/ Refuses(c, s) /\ Refuse(c, s) /\ Rejected(c, s)
         \/ ~Refuses(c, s) /\ Apply(c, s) /\ Answered(c, s)
  BY DEF Execute
<1>2. s \in Statements /\ faults' \in 0 .. MaxFaults
  BY <1>1, NextStatement DEF IInv, TypeOK
<1>3. CASE s = Begin
  <2>1. ASSUME Refuses(c, Begin) PROVE FailsCalmly(c)
    <3>1. c \in Chunks /\ unit[c] = "beginning"
      BY <1>1, <1>3, NextStatement
    <3>2. c \in conn
      BY <3>1 DEF IInv, ChunkInv, StartOk
    <3>3. txn[c] = "dead"
      BY <2>1, StatementKinds DEF Refuses
    <3> QED BY <3>2, <3>3 DEF FailsCalmly, HasFailed
  <2> QED BY <1>1, <1>2, <1>3, <2>1, BeginAccepted, BeginRejected
<1>4. CASE s = Commit
  BY <1>1, <1>2, <1>4, CommitAccepted, CommitRejected
<1>5. CASE s = Rollback
  BY <1>1, <1>5, RollbackRun
<1>6. CASE IsInsert(s)
  <2>1. ASSUME Refuses(c, s), Refuse(c, s), Rejected(c, s) PROVE IInv'
    <3>1. FailsCalmly(c)
      BY <1>1, <1>6, <2>1, RefusedCalmly
    <3> HIDE DEF s
    <3>2. s = Head(queue[c])
      BY DEF s
    <3> QED BY <1>1, <1>2, <1>6, <2>1, <3>1, <3>2, InsertRejected
  <2>2. ASSUME ~Refuses(c, s), Apply(c, s), Answered(c, s) PROVE IInv'
    <3>1. PICK k \in {"block", "details", "token"}, b \in Blocks : s = Insert(k, b)
      BY <1>2, <1>6, InsertKinds
    <3> QED BY <1>1, <2>2, <3>1, BlockAccepted, DetailsAccepted, TokenAccepted
  <2> QED BY <1>1, <2>1, <2>2
<1> QED BY <1>2, <1>3, <1>4, <1>5, <1>6, InsertKinds

LEMMA StatementFailsStep == ASSUME IInv, Calm, NEW c \in Blocks, StatementFails(c)
                            PROVE  IInv'
<1>1. PICK s : s = Head(queue[c])
  OBVIOUS
<1>2. /\ queue[c] # << >> /\ s # Rollback /\ Refuse(c, s) /\ Rejected(c, s) /\ Fault
      /\ UNCHANGED <<mainVars, tokenOf>>
  BY <1>1 DEF StatementFails
<1>3. FailsCalmly(c) /\ faults' \in 0 .. MaxFaults
  BY <1>2, FaultIsCalm
<1>4. s \in Statements
  BY <1>1, <1>2, NextStatement
<1>5. CASE s = Begin
  BY <1>1, <1>2, <1>3, <1>5, BeginRejected
<1>6. CASE s = Commit
  BY <1>1, <1>2, <1>3, <1>6, CommitRejected
<1>7. CASE IsInsert(s)
  BY <1>1, <1>2, <1>3, <1>7, InsertRejected
<1> QED BY <1>2, <1>4, <1>5, <1>6, <1>7, InsertKinds

LEMMA LoseConnectionStep == ASSUME IInv, Calm, NEW c \in Blocks, LoseConnection(c)
                            PROVE  IInv'
<1> USE DEF mainVars, chunkVars, connVars
<1>1. /\ c \in conn /\ txn[c] # "dead" /\ Fault
      /\ txn' = [txn EXCEPT ![c] = "dead"] /\ written' = [written EXCEPT ![c] = {}]
      /\ UNCHANGED <<mainVars, chunkVars, connVars, tokenOf>>
  BY DEF LoseConnection
<1>2. c \in Chunks
  BY <1>1 DEF IInv, IdleInv
<1>3. ChunkInv(c)
  BY <1>2 DEF IInv
<1>4. txn'[c] = "dead" /\ written'[c] = {}
  BY <1>1 DEF IInv, TypeOK
<1>5. ASSUME NEW d \in Chunks, CommitLands(d)
      PROVE  ending[d] = "committing" /\ d = next
  <2>1. d \in Blocks
    BY ChunkBounds DEF IInv
  <2>2. ending[d] = "committing"
    BY <2>1, <1>5, NextEnd, StatementKinds DEF CommitLands
  <2> QED BY <2>2, CommitNextOnly
<1>6. \/ rows' = rows
      \/ /\ ending[c] = "committing" /\ txn[c] = "active" /\ c = next
         /\ rows' = rows \cup written[c]
  <2>1. CASE CommitLands(c)
    <3>1. rows' \in LandedRows
      BY <2>1 DEF LoseConnection
    <3>2. \A d \in Chunks : CommitLands(d) => d = c
      BY <1>2, <1>5, <2>1
    <3>3. rows' = rows \/ rows' = rows \cup written[c]
      BY <3>1, <3>2 DEF LandedRows
    <3> QED BY <1>2, <1>5, <2>1, <3>3 DEF CommitLands
  <2>2. CASE ~CommitLands(c)
    BY <2>2 DEF LoseConnection
  <2> QED BY <2>1, <2>2
<1>7. StepOf(c)
  BY <1>1 DEF StepOf, SameChunk, IInv, TypeOK
<1>8. FailsCalmly(c) /\ faults' \in 0 .. MaxFaults
  BY <1>1, FaultIsCalm
<1>9. Chunks' = Chunks /\ EndOf(c)' = EndOf(c) /\ BlocksOf(c)' = BlocksOf(c)
  BY <1>1, SameRange
<1>10. /\ rows' \subseteq AllRows /\ WholeBlocks'
       /\ Stored' = Stored
          \/ (/\ ending[c] = "committing" /\ c = next
              /\ Stored' = 1 .. EndOf(c) /\ Stored' = Stored \cup BlocksOf(c))
  <2>1. CASE rows' = rows
    BY <2>1, SameRows DEF IInv, TypeOK
  <2>2. CASE rows' # rows
    BY <1>2, <1>6, <2>2, ChunkStored
  <2> QED BY <2>1, <2>2
<1>11. TypeOK' /\ PoolKept'
  <2>1. AllRows' = AllRows
    BY <1>1 DEF AllRows, Tokens
  <2>2. PoolKept'
    BY <1>1 DEF IInv, PoolKept
  <2> QED BY <1>1, <1>8, <1>9, <1>10, <2>1, <2>2 DEF IInv, TypeOK
<1>12. StoredInv'
  <2>1. CASE Stored' = Stored
    BY <1>2, <1>4, <1>7, <1>10, <1>1, <2>1, StoredFrame
  <2>2. CASE Stored' # Stored
    <3>1. ending[c] = "committing" /\ c = next /\ Stored' = 1 .. EndOf(c)
      BY <1>10, <2>2
    <3>2. main = "committing" /\ EndOf(c) \in 0 .. MaxBlock
      BY <1>2, <3>1, CommitNextOnly, ChunkBounds DEF IInv, Blocks
    <3> QED BY <1>1, <1>2, <1>4, <1>9, <1>10, <3>1, <3>2 DEF StoredInv
  <2> QED BY <2>1, <2>2
<1>13. ChunkInv(c)'
  <2>1. StartOk(c)' /\ EndOk(c)' /\ MainOk(c)'
    BY <1>1, <1>3, <1>4 DEF ChunkInv, StartOk, EndOk, MainOk, Released
  <2>2. TaskOk(c)'
    BY <1>1, <1>3, <1>9 DEF ChunkInv, TaskOk
  <2>3. TxnOk(c)'
    BY <1>4 DEF TxnOk
  <2>4. RowsOk(c)'
    <3>1. CASE Stored' = Stored
      BY <1>1, <1>3, <1>4, <1>9, <3>1 DEF ChunkInv, RowsOk
    <3>2. CASE Stored' # Stored
      <4>1. ending[c] = "committing" /\ unit[c] = "done"
        BY <1>2, <1>10, <3>2, CommitNextOnly
      <4> QED BY <1>1, <1>4, <4>1 DEF RowsOk
    <3> QED BY <3>1, <3>2
  <2> QED BY <2>1, <2>2, <2>3, <2>4 DEF ChunkInv
<1>14. ActiveOk(c)'
  BY <1>4 DEF ActiveOk
<1>15. \A d \in Chunks \ {c} : BlocksOf(d) \cap Stored' \subseteq Stored
  BY <1>2, <1>10, BlocksApart DEF IInv
<1>16. unit' = unit
  BY <1>1
<1> QED BY <1>2, <1>7, <1>8, <1>11, <1>12, <1>13, <1>14, <1>15, <1>16, ChunkStep

\* A block that calls the chain has nothing to run on its connection.
LEMMA CallingFacts ==
    ASSUME IInv, NEW b \in Blocks, task[b] = "calling"
    PROVE  \E c \in Chunks : /\ b \in BlocksOf(c) /\ ChunkOf(b) = c
                             /\ unit[c] \notin Early \cup {"none", "done"}
                             /\ queue[c] \in Seq(Statements) /\ NoneFor(queue[c], b)
                             /\ NoBegin(queue[c]) /\ EndsWith(queue[c], ending[c])
                             /\ Awaited(queue[c], task, BlocksOf(c)) /\ tokenOf[b] # NoToken
<1>1. PICK c \in Chunks : b \in BlocksOf(c)
  BY DEF IInv, IdleInv
<1>2. ChunkInv(c) /\ c \in Blocks
  BY ChunkBounds DEF IInv
<1>3. ChunkOf(b) = c
  BY <1>1, ChunkOfBlock DEF IInv
<1>4. unit[c] \notin Early \cup {"none", "done"}
  BY <1>1, <1>2 DEF ChunkInv, StartOk, TaskOk
<1>5. queue[c] \in Seq(Statements)
  BY <1>2 DEF IInv, TypeOK
<1>6. /\ Awaited(queue[c], task, BlocksOf(c)) /\ tokenOf[b] # NoToken
      /\ NoBegin(queue[c]) /\ EndsWith(queue[c], ending[c])
  BY <1>1, <1>2, <1>4 DEF ChunkInv, StartOk, EndOk, TaskOk
<1>7. NoneFor(queue[c], b)
  <2> SUFFICES ASSUME NEW i \in DOMAIN queue[c], IsInsert(queue[c][i]), queue[c][i][2] = b
               PROVE  FALSE
    BY DEF NoneFor
  <2>1. queue[c][i] \in Statements
    BY <1>5
  <2>2. queue[c][i][1] \in {"block", "details", "token"}
    BY <2>1, InsertKinds
  <2>3. task[b] = queue[c][i][1]
    BY <1>6 DEF Awaited
  <2> QED BY <2>2, <2>3
<1> QED BY <1>1, <1>3, <1>4, <1>5, <1>6, <1>7

\* What the transaction has written, when a block goes on after its details.
LEMMA WrittenKept ==
    ASSUME IInv, NEW c \in Chunks, NEW b \in BlocksOf(c), task[b] = "calling",
           unit[c] \notin Early \cup {"none", "done"},
           NEW x \in {"token", "done"}, NEW p, NEW u,
           task' = [task EXCEPT ![b] = x], queue' = [queue EXCEPT ![c] = p],
           unit' = [unit EXCEPT ![c] = u],
           u = unit[c] \/ (unit[c] = "acting" /\ u = "done"),
           NoBlock(queue[c]) => NoBlock(p),
           UNCHANGED <<mainVars, ending, txn, written, tokenOf>>
    PROVE  TxnOk(c)'
<1> c \in Blocks /\ b \in Blocks /\ BlocksOf(c) \subseteq Blocks
  BY ChunkBounds DEF IInv
<1>1. TxnOk(c) /\ MainOk(c)
  BY DEF IInv, ChunkInv
<1>2. BlocksOf(c)' = BlocksOf(c) /\ Tokens' = Tokens
  BY SameRange DEF mainVars, Tokens
<1>3. queue'[c] = p /\ unit'[c] = u
  BY DEF IInv, TypeOK
<1>4. ASSUME NEW a \in BlocksOf(c), txn[c] = "active"
      PROVE  /\ <<"block", a>> \in written[c] <=> task'[a] \in {"details", "calling", "token", "done"}
             /\ <<"details", a>> \in written[c] <=> task'[a] \in {"calling", "token", "done"}
  <2>1. /\ <<"block", a>> \in written[c] <=> task[a] \in {"details", "calling", "token", "done"}
        /\ <<"details", a>> \in written[c] <=> task[a] \in {"calling", "token", "done"}
    BY <1>1, <1>4 DEF TxnOk
  <2>2. a \in Blocks /\ task \in [Blocks -> Tasks]
    BY TaskType
  <2>3. CASE a = b
    BY <2>1, <2>2, <2>3
  <2>4. CASE a # b
    BY <2>1, <2>2, <2>4
  <2> QED BY <2>3, <2>4
<1>5. txn[c] = "none" => NoBlock(p)
  BY <1>1 DEF TxnOk
<1>6. txn[c] \in {"none", "aborted"} => /\ ~(u = "acting" /\ ending[c] = "open")
                                        /\ ~(u = "done" /\ ending[c] \in {"open", "committing"})
  <2>1. u = "done" => unit[c] = "acting"
    OBVIOUS
  <2>2. unit[c] = "acting" => ending[c] # "committing"
    BY <1>1 DEF MainOk
  <2> QED BY <1>1, <2>1, <2>2 DEF TxnOk
<1> QED BY <1>1, <1>2, <1>3, <1>4, <1>5, <1>6 DEF TxnOk

LEMMA TokenCalledStep == ASSUME IInv, NEW b \in Blocks, TokenCalled(b)
                         PROVE  IInv'
<1>1. /\ task[b] = "calling" /\ TaskIssues(ChunkOf(b), b, "token", queue[ChunkOf(b)])
      /\ UNCHANGED <<mainVars, pool, conn, rows, txn, written, tokenOf>>
      /\ faults' \in 0 .. MaxFaults
  BY DEF TokenCalled, serverVars, IInv, TypeOK
<1>2. PICK c \in Chunks : /\ b \in BlocksOf(c) /\ ChunkOf(b) = c
                          /\ unit[c] \notin Early \cup {"none", "done"}
                          /\ queue[c] \in Seq(Statements) /\ NoneFor(queue[c], b)
                          /\ NoBegin(queue[c]) /\ EndsWith(queue[c], ending[c])
                          /\ Awaited(queue[c], task, BlocksOf(c)) /\ tokenOf[b] # NoToken
  BY <1>1, CallingFacts
<1>3. ChunkInv(c) /\ c \in Blocks
  BY ChunkBounds DEF IInv
<1>4. CASE Released(c)
  <2>1. TaskFails(c, b, queue[c])
    BY <1>1, <1>2, <1>4 DEF TaskIssues
  <2>2. c \notin conn /\ txn[c] # "active" /\ written[c] = {}
    BY <1>3, <1>4 DEF ChunkInv, EndOk, IInv, ActiveInv
  <2>3. /\ txn[c] \in {"none", "aborted", "dead"} /\ txn' = [txn EXCEPT ![c] = txn[c]]
        /\ written' = [written EXCEPT ![c] = {}]
    BY <1>1, <1>3, <2>2 DEF IInv, TypeOK
  <2>4. FailsCalmly(c)
    <3>1. SUFFICES ASSUME main = "executing" PROVE HasFailed(c)
      BY DEF FailsCalmly
    <3>2. unit[c] # "acting"
      BY <1>3, <1>4, <3>1 DEF ChunkInv, MainOk, Released
    <3> QED BY <1>2, <1>3, <3>2 DEF HasFailed, Early, IInv, TypeOK
  <2> QED BY <1>1, <1>2, <2>1, <2>3, <2>4, TaskFailsStep
<1>5. CASE ~Released(c)
  <2> DEFINE p == Append(queue[c], Insert("token", b))
  <2>1. /\ task' = [task EXCEPT ![b] = "token"] /\ queue' = [queue EXCEPT ![c] = p]
        /\ UNCHANGED <<unit, ending>>
    BY <1>1, <1>2, <1>5 DEF TaskIssues
  <2>2. /\ Insert("token", b) \in Statements /\ ~IsEnd(Insert("token", b))
        /\ Insert("token", b) # Begin /\ Insert("token", b)[1] # "block"
    BY InsertIs
  <2>3. p \in Seq(Statements) /\ EndsWith(p, ending[c]) /\ NoBegin(p)
        /\ (NoBlock(queue[c]) => NoBlock(p))
    BY <1>2, <2>2, AppendFacts, EndsAppend, AppendKeeps
  <2>4. Awaited(p, task', BlocksOf(c))
    BY <1>2, <2>1, AwaitedAppend, TaskType
  <2> HIDE DEF p
  <2>5. unit' = [unit EXCEPT ![c] = unit[c]] /\ written' = [written EXCEPT ![c] = written[c]]
    BY <1>1, <2>1 DEF IInv, TypeOK
  <2>6. written[c] \in SUBSET AllRows /\ rows' \subseteq AllRows
        /\ (written[c] # {} => txn[c] = "active")
    BY <1>1, <1>3 DEF IInv, TypeOK, ActiveInv
  <2>7. Stored' = Stored /\ WholeBlocks'
    BY <1>1, SameRows
  <2>8. TxnOk(c)'
    BY <1>1, <1>2, <2>1, <2>3, <2>5, WrittenKept
  <2> QED BY <1>1, <1>2, <2>1, <2>3, <2>4, <2>5, <2>6, <2>7, <2>8, TaskStep
<1> QED BY <1>4, <1>5

LEMMA TokenCallFailsStep == ASSUME IInv, Calm, NEW b \in Blocks, TokenCallFails(b)
                            PROVE  IInv'
<1>1. /\ task[b] = "calling" /\ TaskDone(ChunkOf(b), b, queue[ChunkOf(b)]) /\ Fault
      /\ UNCHANGED <<mainVars, pool, conn, rows, txn, written, tokenOf>>
  BY DEF TokenCallFails, serverVars
<1>2. PICK c \in Chunks : /\ b \in BlocksOf(c) /\ ChunkOf(b) = c
                          /\ unit[c] \notin Early \cup {"none", "done"}
                          /\ queue[c] \in Seq(Statements) /\ NoneFor(queue[c], b)
                          /\ NoBegin(queue[c]) /\ EndsWith(queue[c], ending[c])
                          /\ Awaited(queue[c], task, BlocksOf(c)) /\ tokenOf[b] # NoToken
  BY <1>1, CallingFacts
<1>3. TaskDone(c, b, queue[c]) /\ c \in Blocks
  BY <1>1, <1>2, ChunkBounds DEF IInv
<1>4. faults' \in 0 .. MaxFaults
  BY <1>1, <1>3, FaultIsCalm
<1>5. /\ task' = [task EXCEPT ![b] = "done"] /\ queue' = [queue EXCEPT ![c] = queue[c]]
      /\ ending' = ending
  BY <1>3 DEF TaskDone
<1>6. Awaited(queue[c], task', BlocksOf(c))
  BY <1>2, <1>5, AwaitedOthers, TaskType
<1>7. PICK u : /\ unit' = [unit EXCEPT ![c] = u]
               /\ u = unit[c] \/ (unit[c] = "acting" /\ u = "done"
                                  /\ \A a \in BlocksOf(c) : task'[a] = "done")
  BY <1>1, <1>2, <1>3, TaskDoneFacts
<1>8. written' = [written EXCEPT ![c] = written[c]]
  BY <1>1 DEF IInv, TypeOK
<1>9. written[c] \in SUBSET AllRows /\ rows' \subseteq AllRows
      /\ (written[c] # {} => txn[c] = "active")
  BY <1>1, <1>3 DEF IInv, TypeOK, ActiveInv
<1>10. Stored' = Stored /\ WholeBlocks'
  BY <1>1, SameRows
<1>11. TxnOk(c)'
  BY <1>1, <1>2, <1>5, <1>7, WrittenKept
<1> QED BY <1>1, <1>2, <1>4, <1>5, <1>6, <1>7, <1>8, <1>9, <1>10, <1>11, TaskStep

-----------------------------------------------------------------------------
(***************************************************************************)
(* Steps of processNextBlocksRange.                                        *)
(***************************************************************************)
LEMMA LastStoredIs == ASSUME NEW m \in 0 .. MaxBlock, Stored = 1 .. m
                      PROVE  LastStored = m
<1>1. CASE m = 0
  BY <1>1 DEF LastStored
<1>2. CASE m # 0
  <2>1. m \in Stored /\ \A a \in Stored : a <= m
    BY <1>2
  <2>2. \A b \in Stored : (\A a \in Stored : a <= b) => b = m
    BY <2>1
  <2> QED BY <2>1, <2>2 DEF LastStored
<1> QED BY <1>1, <1>2

\* When the last range has settled, no chunk holds anything.
LEMMA SettledFacts == ASSUME IInv, main = "waiting", Settled
                      PROVE  /\ conn = {}
                             /\ \A c \in Blocks : queue[c] = << >> /\ written[c] = {}
                                                  /\ txn[c] # "active"
<1>1. ASSUME NEW c \in Blocks PROVE queue[c] = << >> /\ c \notin conn
  <2>1. CASE c \in Chunks
    <3>1. ChunkInv(c) /\ queue[c] = << >>
      BY <2>1 DEF IInv, Settled
    <3>2. ending[c] \notin Closing
      BY <3>1 DEF ChunkInv, EndOk, EndsWith
    <3>3. ending[c] # "open"
      BY <3>1 DEF ChunkInv, MainOk
    <3>4. Released(c)
      BY <3>2, <3>3 DEF Closing, Released, IInv, TypeOK
    <3> QED BY <3>1, <3>4 DEF ChunkInv, EndOk
  <2>2. CASE c \notin Chunks
    BY <2>2 DEF IInv, IdleInv
  <2> QED BY <2>1, <2>2
<1>2. conn = {}
  BY <1>1 DEF IInv, TypeOK
<1> QED BY <1>1, <1>2 DEF IInv, ActiveInv

LEMMA StartRangeStep == ASSUME IInv, StartRange
                        PROVE  IInv'
<1>1. PICK m \in 0 .. MaxBlock : Stored = 1 .. m
  BY DEF IInv, StoredInv
<1>2. LastStored = m
  BY <1>1, LastStoredIs
<1>3. PICK from, to :
        /\ from = m + 1 /\ to = Min2(MaxBlock, from + BatchSize - 1) /\ from <= to
        /\ main = "waiting" /\ Settled
        /\ main' = "executing" /\ first' = from /\ last' = to
        /\ unit' = [c \in Blocks |-> IF c \in ChunksOf(from, to) THEN "connecting" ELSE "none"]
        /\ ending' = Each("ending") /\ task' = Each("task")
        /\ UNCHANGED <<next, connVars, serverVars, tokenOf, faults>>
  BY <1>2 DEF StartRange
<1>4. UNCHANGED <<next, pool, conn, queue, rows, txn, written, tokenOf, faults>>
  BY <1>3 DEF connVars, serverVars
<1>5. /\ conn = {}
      /\ \A c \in Blocks : queue[c] = << >> /\ written[c] = {} /\ txn[c] # "active"
  BY <1>3, SettledFacts
<1>6. /\ from \in Nat \ {0} /\ to \in 0 .. MaxBlock /\ to - from < BatchSize /\ from <= to
  BY <1>3, UnitOfWorkAssumption DEF Min2
<1>7. Chunks' = ChunksOf(from, to) /\ Chunks' \subseteq Blocks
      /\ \A c \in Chunks' : from <= c
  <2>1. Chunks' = ChunksOf(from, to)
    BY <1>3 DEF Chunks, ChunksOf
  <2>2. \A c \in ChunksOf(from, to) : c \in Int /\ from <= c /\ c <= to
    BY <1>6 DEF ChunksOf
  <2>3. from \in Int /\ 1 <= from /\ to \in Int /\ to <= MaxBlock /\ MaxBlock \in Int
    BY <1>6, UnitOfWorkAssumption
  <2> QED BY <2>1, <2>2, <2>3 DEF Blocks
<1>8. RangeInv'
  BY <1>3, <1>4, <1>6 DEF RangeInv, IInv
<1>9. /\ \A c \in Blocks : ending'[c] = "open" /\ task'[c] = "none"
      /\ ending' = [c \in Blocks |-> "open"] /\ task' = [c \in Blocks |-> "none"]
  BY <1>3 DEF Each, NoChunk
<1>10. \A c \in Chunks' : unit'[c] = "connecting"
  BY <1>3, <1>7
<1>11. TypeOK' /\ PoolKept'
  <2>1. AllRows' = AllRows
    BY <1>4 DEF AllRows, Tokens
  <2>2. unit' \in [Blocks -> {"none", "connecting", "beginning", "acting",
                              "failing", "done", "failed"}]
    BY <1>3
  <2>3. first' \in Nat /\ last' \in Nat
    BY <1>3, <1>6
  <2>4. PoolKept'
    BY <1>4 DEF IInv, PoolKept
  <2> QED BY <1>3, <1>4, <1>9, <2>1, <2>2, <2>3, <2>4 DEF IInv, TypeOK
<1>12. IdleInv'
  BY <1>3, <1>4, <1>5, <1>7, <1>9 DEF IdleInv
<1>13. ActiveInv'
  BY <1>4, <1>5 DEF ActiveInv
<1>14. Stored' = Stored /\ WholeBlocks'
  BY <1>4, SameRows
<1>15. StoredInv'
  BY <1>1, <1>3, <1>14 DEF StoredInv
<1>16. CalmInv'
  BY <1>4, <1>5, <1>10 DEF CalmInv, HasFailed
<1>17. ASSUME NEW c \in Chunks' PROVE ChunkInv(c)'
  <2>1. c \in Blocks /\ queue'[c] = << >> /\ c \notin conn' /\ written'[c] = {}
        /\ txn'[c] # "active" /\ unit'[c] = "connecting" /\ ending'[c] = "open"
    BY <1>4, <1>5, <1>7, <1>9, <1>10, <1>17
  <2>2. EndsWith(<< >>, "open") /\ NoBlock(<< >>) /\ \A t, B : Awaited(<< >>, t, B)
    BY DEF EndsWith, Awaited, Closing, NoBlock
  <2>3. BlocksOf(c)' \subseteq Blocks /\ \A b \in BlocksOf(c)' : from <= b
    <3>1. \A b \in BlocksOf(c)' : b \in Int /\ c <= b /\ b <= to
      BY <1>3, <1>6, <2>1, UnitOfWorkAssumption DEF BlocksOf, EndOf, Min2, Blocks
    <3>2. from \in Int /\ 1 <= from /\ to \in Int /\ to <= MaxBlock /\ MaxBlock \in Int
          /\ c \in Int /\ from <= c
      BY <1>6, <1>7, <1>17, <2>1, UnitOfWorkAssumption DEF Blocks
    <3> QED BY <3>1, <3>2 DEF Blocks
  <2>4. TaskOk(c)'
    BY <1>9, <2>1, <2>2, <2>3 DEF TaskOk
  <2>5. BlocksOf(c)' \cap Stored' = {}
    BY <1>1, <1>3, <1>14, <2>3 DEF Blocks
  <2> QED BY <1>3, <2>1, <2>2, <2>4, <2>5
          DEF ChunkInv, StartOk, EndOk, MainOk, TxnOk, RowsOk, Early, Closing, Released
<1> QED BY <1>8, <1>11, <1>12, <1>13, <1>15, <1>16, <1>17 DEF IInv

\* The range is done with: all its chunks are ended.
LEMMA MainWaits ==
    ASSUME IInv, main' = "waiting", \A c \in Chunks : ending[c] \notin {"open", "committing", "undoing"},
           UNCHANGED <<first, last, next, chunkVars, connVars, serverVars, tokenOf, faults>>
    PROVE  IInv'
<1>1. UNCHANGED <<first, last, next, unit, ending, task, pool, conn, queue, rows, txn,
                  written, tokenOf, faults>>
  BY DEF chunkVars, connVars, serverVars
<1>2. Chunks' = Chunks /\ \A c : BlocksOf(c)' = BlocksOf(c)
  BY <1>1, SameRange
<1>3. AllRows' = AllRows /\ Tokens' = Tokens
  BY <1>1 DEF AllRows, Tokens
<1>4. TypeOK' /\ PoolKept'
  BY <1>1, <1>2, <1>3 DEF IInv, TypeOK, PoolKept
<1>5. Stored' = Stored /\ WholeBlocks'
  BY <1>1, SameRows
<1>6. RangeInv' /\ IdleInv' /\ ActiveInv' /\ CalmInv'
  BY <1>1, <1>2 DEF IInv, RangeInv, IdleInv, ActiveInv, CalmInv
<1>7. StoredInv'
  BY <1>5 DEF IInv, StoredInv
<1>8. ASSUME NEW c \in Chunks PROVE ChunkInv(c)'
  <2>1. ChunkInv(c) /\ ending[c] \notin {"open", "committing", "undoing"}
    BY <1>8 DEF IInv
  <2>2. StartOk(c)' /\ EndOk(c)' /\ MainOk(c)'
    BY <1>1, <2>1 DEF ChunkInv, StartOk, EndOk, MainOk, Released
  <2>3. TaskOk(c)' /\ TxnOk(c)' /\ RowsOk(c)'
    BY <1>1, <1>2, <1>3, <1>5, <2>1 DEF ChunkInv, TaskOk, TxnOk, RowsOk
  <2> QED BY <2>2, <2>3 DEF ChunkInv
<1> QED BY <1>2, <1>4, <1>6, <1>7, <1>8 DEF IInv

\* The commit of the next chunk.
LEMMA IssueStep ==
    ASSUME IInv, NEW c \in Chunks, main # "waiting", ending[c] = "open",
           \A d \in Chunks : /\ unit[d] = "done"
                             /\ d < c => ending[d] = "committed"
                             /\ d > c => ending[d] = "open",
           Stored = 1 .. (c - 1),
           main' = "committing", next' = c, IssueCommit(c),
           UNCHANGED <<first, last, unit, task, pool, conn, serverVars, tokenOf, faults>>
    PROVE  IInv'
<1> c \in Blocks
  BY ChunkBounds DEF IInv
<1>1. UNCHANGED <<first, last, unit, task, pool, conn, rows, txn, written, tokenOf, faults>>
  BY DEF serverVars
<1>2. Chunks' = Chunks /\ \A d : BlocksOf(d)' = BlocksOf(d) /\ EndOf(d)' = EndOf(d)
  BY <1>1, SameRange
<1>3. AllRows' = AllRows /\ Tokens' = Tokens
  BY <1>1 DEF AllRows, Tokens
<1>4. ChunkInv(c) /\ queue[c] \in Seq(Statements)
  BY DEF IInv, TypeOK
<1>5. PICK p \in Seq(Statements) :
        /\ queue' = [queue EXCEPT ![c] = p] /\ EndsWith(p, "committing")
        /\ (NoBegin(queue[c]) => NoBegin(p)) /\ (NoBlock(queue[c]) => NoBlock(p))
        /\ Awaited(p, task, BlocksOf(c))
  <2> DEFINE p == Append(queue[c], Commit)
  <2>1. queue' = [queue EXCEPT ![c] = p]
    BY DEF IssueCommit
  <2>2. p \in Seq(Statements) /\ (NoBegin(queue[c]) => NoBegin(p)) /\ (NoBlock(queue[c]) => NoBlock(p))
    BY <1>4, AppendFacts, AppendKeeps, StatementKinds
  <2>3. EndsWith(p, "committing")
    BY <1>4, EndsIssued DEF ChunkInv, EndOk, Closing
  <2>4. Awaited(p, task, BlocksOf(c))
    BY <1>4, AwaitedEnd DEF ChunkInv, TaskOk
  <2> HIDE DEF p
  <2> QED BY <2>1, <2>2, <2>3, <2>4
<1>6. /\ ending' = [ending EXCEPT ![c] = "committing"]
      /\ ending'[c] = "committing" /\ queue'[c] = p
      /\ \A d \in Blocks \ {c} : ending'[d] = ending[d] /\ queue'[d] = queue[d]
  BY <1>5 DEF IssueCommit, IInv, TypeOK
<1>7. TypeOK' /\ PoolKept'
  <2>1. queue' \in [Blocks -> Seq(Statements)]
    BY <1>5 DEF IInv, TypeOK
  <2>2. PoolKept'
    BY <1>1 DEF IInv, PoolKept
  <2> QED BY <1>1, <1>2, <1>3, <1>6, <2>1, <2>2 DEF IInv, TypeOK
<1>8. Stored' = Stored /\ WholeBlocks'
  BY <1>1, SameRows
<1>9. RangeInv'
  BY <1>1, <1>2 DEF IInv, RangeInv, Blocks
<1>10. IdleInv'
  BY <1>1, <1>2, <1>6 DEF IInv, IdleInv
<1>11. ActiveInv' /\ CalmInv'
  BY <1>1 DEF IInv, ActiveInv, CalmInv
<1>12. StoredInv'
  BY <1>2, <1>6, <1>8 DEF IInv, StoredInv
<1>13. ASSUME NEW d \in Chunks PROVE ChunkInv(d)'
  <2>1. ChunkInv(d) /\ d \in Blocks /\ unit[d] = "done"
    BY <1>13, ChunkBounds DEF IInv
  <2>2. CASE d = c
    <3>1. c \in conn
      BY <1>4, <2>1, <2>2 DEF ChunkInv, EndOk
    <3>2. StartOk(c)' /\ EndOk(c)'
      BY <1>1, <1>4, <1>5, <1>6, <2>1, <2>2, <3>1
         DEF ChunkInv, StartOk, EndOk, Early, Closing, Released
    <3>3. MainOk(c)'
      BY <1>1, <1>6, <2>1, <2>2 DEF MainOk, Blocks
    <3>4. TaskOk(c)'
      BY <1>1, <1>2, <1>4, <1>5, <1>6 DEF ChunkInv, TaskOk
    <3>5. TxnOk(c)'
      BY <1>1, <1>2, <1>3, <1>4, <1>5, <1>6, <2>1, <2>2 DEF ChunkInv, TxnOk, Early
    <3>6. RowsOk(c)'
      BY <1>2, <1>4, <1>8 DEF ChunkInv, RowsOk
    <3> QED BY <2>2, <3>2, <3>3, <3>4, <3>5, <3>6 DEF ChunkInv
  <2>3. CASE d # c
    <3>1. ending'[d] = ending[d] /\ queue'[d] = queue[d] /\ ending[d] \in {"open", "committed"}
      BY <1>6, <2>1, <2>3 DEF Blocks
    <3>2. StartOk(d)' /\ EndOk(d)'
      BY <1>1, <2>1, <3>1 DEF ChunkInv, StartOk, EndOk, Released
    <3>3. MainOk(d)'
      BY <1>1, <2>1, <3>1 DEF MainOk
    <3>4. TaskOk(d)' /\ TxnOk(d)' /\ RowsOk(d)'
      BY <1>1, <1>2, <1>3, <1>8, <2>1, <3>1 DEF ChunkInv, TaskOk, TxnOk, RowsOk
    <3> QED BY <3>2, <3>3, <3>4 DEF ChunkInv
  <2> QED BY <2>2, <2>3
<1> QED BY <1>2, <1>7, <1>9, <1>10, <1>11, <1>12, <1>13 DEF IInv

LEMMA RangeExecutedStep == ASSUME IInv, RangeExecuted
                           PROVE  IInv'
<1>1. /\ main = "executing" /\ \A c \in Chunks : unit[c] = "done"
      /\ main' = "committing" /\ next' = first /\ IssueCommit(first)
      /\ UNCHANGED <<first, last, unit, task, pool, conn, serverVars, tokenOf, faults>>
  BY DEF RangeExecuted
<1>2. first \in Chunks /\ \A c \in Chunks : first <= c
  BY <1>1, FirstChunk DEF IInv, RangeInv
<1>3. \A c \in Chunks : ending[c] = "open"
  BY <1>1 DEF IInv, ChunkInv, MainOk
<1>4. Stored = 1 .. (first - 1)
  BY <1>1 DEF IInv, StoredInv
<1>5. \A d \in Chunks : ~(d < first)
  BY <1>2, ChunkBounds DEF IInv, Blocks
<1> QED BY <1>1, <1>2, <1>3, <1>4, <1>5, IssueStep

LEMMA CommitNextStep == ASSUME IInv, CommitNext
                        PROVE  IInv'
<1>1. PICK c : c = next + ChunkSize
  OBVIOUS
<1>2. /\ main = "committing" /\ ending[next] = "committed" /\ c \in Chunks
      /\ main' = "committing" /\ next' = c /\ IssueCommit(c)
      /\ UNCHANGED <<first, last, unit, task, pool, conn, serverVars, tokenOf, faults>>
  BY <1>1 DEF CommitNext
<1>3. next \in Chunks /\ Stored = 1 .. EndOf(next)
  BY <1>2 DEF IInv, StoredInv
<1>4. next \in Nat /\ c \in Nat /\ next < c /\ ChunkSize \in Nat
  BY <1>1, <1>3, ChunkBounds, UnitOfWorkAssumption DEF IInv, Blocks
<1>5. EndOf(next) = c - 1
  <2>1. next + ChunkSize \in Chunks
    BY <1>1, <1>2
  <2>2. EndOf(next) = next + ChunkSize - 1
    BY <1>3, <2>1, NextChunk DEF IInv
  <2>3. EndOf(next) = (next + ChunkSize) - 1
    BY <1>4, <2>2
  <2> QED BY <1>1, <2>3
<1>6. ASSUME NEW d \in Chunks
      PROVE  /\ unit[d] = "done"
             /\ d < c => ending[d] = "committed"
             /\ d > next => ending[d] = "open"
  <2>1. MainOk(d) /\ d \in Int
    BY ChunkBounds DEF IInv, ChunkInv, Blocks
  <2>2. d < c => d <= next
    <3>1. next < d => next + ChunkSize <= d
      BY <1>3, ChunksApart DEF IInv
    <3> QED BY <1>1, <1>4, <2>1, <3>1
  <2> QED BY <1>2, <1>4, <2>1, <2>2 DEF MainOk
<1>7. \A d \in Chunks : d > c => ending[d] = "open"
  <2>1. \A d \in Chunks : d \in Int
    BY ChunkBounds DEF IInv, Blocks
  <2> QED BY <1>4, <1>6, <2>1
<1>8. ending[c] = "open"
  BY <1>2, <1>4, <1>6
<1> QED BY <1>2, <1>3, <1>5, <1>6, <1>7, <1>8, IssueStep

LEMMA RangeDoneStep == ASSUME IInv, RangeDone
                       PROVE  IInv'
<1>1. /\ main = "committing" /\ ending[next] = "committed" /\ next + ChunkSize \notin Chunks
      /\ main' = "waiting"
      /\ UNCHANGED <<first, last, next, chunkVars, connVars, serverVars, tokenOf, faults>>
  BY DEF RangeDone
<1>2. next \in Chunks
  BY <1>1 DEF IInv, StoredInv
<1>3. EndOf(next) = last
  BY <1>1, <1>2, NextChunk DEF IInv
<1>4. ASSUME NEW d \in Chunks PROVE ending[d] = "committed"
  <2>1. MainOk(d) /\ d \in Int /\ next \in Int /\ d <= last
    BY <1>2, ChunkBounds DEF IInv, ChunkInv, Chunks, ChunksOf, Blocks
  <2>2. ~(next < d)
    <3>1. next < d => EndOf(next) < d
      BY <1>2, ChunksApart DEF IInv
    <3> QED BY <1>3, <2>1, <3>1 DEF IInv, RangeInv
  <2> QED BY <1>1, <2>1, <2>2 DEF MainOk
<1> QED BY <1>1, <1>4, MainWaits

LEMMA RangeThrownStep == ASSUME IInv, RangeThrown
                         PROVE  IInv'
<1>1. /\ \A c \in Chunks : Released(c)
      /\ main' = "waiting"
      /\ UNCHANGED <<first, last, next, chunkVars, connVars, serverVars, tokenOf, faults>>
  BY DEF RangeThrown
<1>2. \A c \in Chunks : ending[c] \notin {"open", "committing", "undoing"}
  BY <1>1 DEF Released
<1> QED BY <1>1, <1>2, MainWaits

\* When the range fails, all its chunks have begun and none is being committed.
LEMMA RangeFailsFacts ==
    ASSUME IInv, RangeFails
    PROVE  /\ main \in {"executing", "committing"}
           /\ \A c \in Chunks : unit[c] \notin Early /\ ending[c] \notin {"committing", "undoing"}
<1>1. \/ main = "executing" /\ \E c \in Chunks : unit[c] = "failed"
      \/ main = "committing" /\ ending[next] = "rolledBack"
  BY DEF RangeFails
<1>2. CASE main = "executing"
  <2>1. PICK e \in Chunks : unit[e] = "failed"
    BY <1>1, <1>2
  <2>2. AllBegun \/ OneChunk
    BY <1>2, <2>1 DEF IInv, CalmInv, HasFailed
  <2>3. \A c \in Chunks : unit[c] \notin Early
    BY <2>1, <2>2 DEF AllBegun, OneChunk, Early
  <2>4. \A c \in Chunks : ending[c] \notin {"committing", "undoing"}
    BY <1>2 DEF IInv, ChunkInv, MainOk
  <2> QED BY <1>2, <2>3, <2>4
<1>3. CASE main = "committing"
  <2>1. \A c \in Chunks : MainOk(c)
    BY DEF IInv, ChunkInv
  <2> QED BY <1>1, <1>3, <2>1 DEF MainOk, Early
<1> QED BY <1>1, <1>2, <1>3

LEMMA RangeFailsStep == ASSUME IInv, RangeFails
                        PROVE  IInv'
<1>1. PICK open : open = {c \in Chunks : ending[c] = "open"}
  OBVIOUS
<1>2. /\ main' \in {"rollingBack", "waiting"}
      /\ ending' = [c \in Blocks |-> IF c \notin open THEN ending[c]
                                     ELSE IF c \in conn THEN "rollingBack" ELSE "rolledBack"]
      /\ queue' = [c \in Blocks |-> IF c \in open \cap conn
                                    THEN Append(queue[c], Rollback) ELSE queue[c]]
      /\ UNCHANGED <<first, last, next, unit, task, pool, conn, serverVars, tokenOf, faults>>
  BY <1>1 DEF RangeFails
<1>3. UNCHANGED <<first, last, next, unit, task, pool, conn, rows, txn, written, tokenOf, faults>>
  BY <1>2 DEF serverVars
<1>4. /\ main \in {"executing", "committing"}
      /\ \A c \in Chunks : unit[c] \notin Early /\ ending[c] \notin {"committing", "undoing"}
  BY RangeFailsFacts
<1>5. Chunks' = Chunks /\ Chunks \subseteq Blocks /\ \A d : BlocksOf(d)' = BlocksOf(d)
  BY <1>3, SameRange, ChunkBounds DEF IInv
<1>6. AllRows' = AllRows /\ Tokens' = Tokens
  BY <1>3 DEF AllRows, Tokens
<1>7. \A c \in Blocks : queue[c] \in Seq(Statements) /\ Append(queue[c], Rollback) \in Seq(Statements)
  BY StatementKinds, AppendFacts DEF IInv, TypeOK
<1>8. TypeOK' /\ PoolKept'
  <2>1. queue' \in [Blocks -> Seq(Statements)]
    BY <1>2, <1>7
  <2>2. ending' \in [Blocks -> {"open", "committing", "undoing", "rollingBack",
                                "committed", "rolledBack"}]
    BY <1>2 DEF IInv, TypeOK
  <2>3. PoolKept'
    BY <1>3 DEF IInv, PoolKept
  <2> QED BY <1>2, <1>3, <1>5, <1>6, <2>1, <2>2, <2>3 DEF IInv, TypeOK
<1>9. Stored' = Stored /\ WholeBlocks'
  BY <1>3, SameRows
<1>10. RangeInv'
  BY <1>3, <1>4, <1>5 DEF IInv, RangeInv
<1>11. IdleInv'
  BY <1>1, <1>2, <1>3, <1>5 DEF IInv, IdleInv
<1>12. ActiveInv' /\ CalmInv' /\ StoredInv'
  BY <1>2, <1>3, <1>9 DEF IInv, ActiveInv, CalmInv, StoredInv
<1>13. ASSUME NEW c \in Chunks PROVE ChunkInv(c)'
  <2>1. ChunkInv(c) /\ c \in Blocks /\ unit[c] \notin Early
        /\ ending[c] \notin {"committing", "undoing"}
    BY <1>4, <1>5, <1>13 DEF IInv
  <2>2. CASE ending[c] # "open"
    <3>1. ending'[c] = ending[c] /\ queue'[c] = queue[c]
      BY <1>1, <1>2, <2>1, <2>2
    <3>2. StartOk(c)' /\ EndOk(c)' /\ MainOk(c)'
      BY <1>2, <1>3, <2>1, <2>2, <3>1 DEF ChunkInv, StartOk, EndOk, MainOk, Released, Early
    <3>3. TaskOk(c)' /\ TxnOk(c)' /\ RowsOk(c)'
      BY <1>3, <1>5, <1>6, <1>9, <2>1, <3>1 DEF ChunkInv, TaskOk, TxnOk, RowsOk
    <3> QED BY <3>2, <3>3 DEF ChunkInv
  <2>3. CASE ending[c] = "open" /\ c \in conn
    <3>1. ending'[c] = "rollingBack" /\ queue'[c] = Append(queue[c], Rollback)
      BY <1>1, <1>2, <1>13, <2>1, <2>3
    <3>2. /\ NoBegin(queue'[c]) /\ (NoBlock(queue[c]) => NoBlock(queue'[c]))
          /\ Awaited(queue'[c], task, BlocksOf(c)) /\ EndsWith(queue'[c], "rollingBack")
      <4>1. NoBegin(queue[c]) /\ Awaited(queue[c], task, BlocksOf(c)) /\ EndsWith(queue[c], "open")
        BY <2>1, <2>3 DEF ChunkInv, StartOk, TaskOk, EndOk
      <4>2. NoBegin(queue'[c]) /\ (NoBlock(queue[c]) => NoBlock(queue'[c]))
        BY <1>7, <2>1, <3>1, <4>1, AppendKeeps, StatementKinds
      <4>3. Awaited(queue'[c], task, BlocksOf(c))
        BY <1>7, <2>1, <3>1, <4>1, AwaitedEnd
      <4>4. EndsWith(queue'[c], "rollingBack")
        BY <1>7, <2>1, <3>1, <4>1, EndsIssued, StatementKinds DEF Closing
      <4> QED BY <4>2, <4>3, <4>4
    <3>3. StartOk(c)' /\ EndOk(c)' /\ MainOk(c)'
      BY <1>2, <1>3, <2>1, <2>3, <3>1, <3>2
         DEF ChunkInv, StartOk, EndOk, MainOk, Released, Early, Closing
    <3>4. TaskOk(c)'
      BY <1>3, <1>5, <2>1, <3>2 DEF ChunkInv, TaskOk
    <3>5. TxnOk(c)'
      BY <1>3, <1>5, <1>6, <2>1, <3>1, <3>2 DEF ChunkInv, TxnOk
    <3>6. RowsOk(c)'
      BY <1>3, <1>5, <1>9, <2>1, <2>3 DEF ChunkInv, RowsOk
    <3> QED BY <3>3, <3>4, <3>5, <3>6 DEF ChunkInv
  <2>4. CASE ending[c] = "open" /\ c \notin conn
    <3>1. ending'[c] = "rolledBack" /\ queue'[c] = queue[c]
      BY <1>1, <1>2, <1>13, <2>1, <2>4
    <3>2. EndsWith(queue[c], "rolledBack")
      BY <2>1, <2>4 DEF ChunkInv, EndOk, EndsWith, Closing
    <3>3. StartOk(c)' /\ EndOk(c)' /\ MainOk(c)'
      BY <1>2, <1>3, <2>1, <2>4, <3>1, <3>2
         DEF ChunkInv, StartOk, EndOk, MainOk, Released, Early, Closing
    <3>4. TaskOk(c)' /\ TxnOk(c)'
      BY <1>3, <1>5, <1>6, <2>1, <3>1 DEF ChunkInv, TaskOk, TxnOk
    <3>5. RowsOk(c)'
      BY <1>3, <1>5, <1>9, <2>1, <2>4 DEF ChunkInv, RowsOk
    <3> QED BY <3>3, <3>4, <3>5 DEF ChunkInv
  <2> QED BY <2>2, <2>3, <2>4
<1> QED BY <1>5, <1>8, <1>10, <1>11, <1>12, <1>13 DEF IInv

-----------------------------------------------------------------------------
(***************************************************************************)
(* What a step stores, and the crash.                                      *)
(***************************************************************************)
\* The commit that lands is that of the next chunk.
LEMMA LandsNext ==
    ASSUME IInv, NEW c \in Chunks, CommitLands(c)
    PROVE  ending[c] = "committing" /\ txn[c] = "active"
<1>1. c \in Blocks
  BY ChunkBounds DEF IInv
<1>2. ending[c] = "committing"
  BY <1>1, NextEnd, StatementKinds DEF CommitLands
<1> QED BY <1>2 DEF CommitLands

\* The rows of the next chunk are stored, or those of a token, or none.
StoresRows ==
    \/ \E T \in SUBSET ({"token"} \X Tokens) : rows' = rows \cup T
    \/ \E c \in Chunks : /\ ending[c] = "committing" /\ txn[c] = "active"
                         /\ rows' = rows \cup written[c]

LEMMA SameStores == ASSUME rows' = rows PROVE StoresRows
<1>1. {} \in SUBSET ({"token"} \X Tokens) /\ rows' = rows \cup {}
  OBVIOUS
<1> QED BY <1>1 DEF StoresRows

LEMMA LandedStores == ASSUME IInv, rows' \in LandedRows PROVE StoresRows
<1>1. CASE rows' = rows
  BY <1>1, SameStores
<1>2. CASE \E c \in Chunks : CommitLands(c) /\ rows' = rows \cup written[c]
  BY <1>2, LandsNext DEF StoresRows
<1> QED BY <1>1, <1>2 DEF LandedRows

LEMMA ExecuteStores == ASSUME IInv, NEW c \in Blocks, Execute(c)
                       PROVE  StoresRows
<1>1. PICK s : s = Head(queue[c])
  OBVIOUS
<1>2. /\ queue[c] # << >> /\ \/ Refuses(c, s) /\ Refuse(c, s)
                             \/ ~Refuses(c, s) /\ Apply(c, s)
  BY <1>1 DEF Execute
<1>3. s \in Statements
  BY <1>1, <1>2, NextStatement
<1>4. CASE Refuses(c, s)
  <2>1. rows' = rows
    BY <1>2, <1>4 DEF Refuse
  <2> QED BY <2>1, SameStores
<1>5. CASE ~Refuses(c, s) /\ s = Commit
  <2>1. c \in Chunks /\ ending[c] = "committing"
    BY <1>1, <1>2, <1>5, NextEnd, StatementKinds
  <2>2. txn[c] = "active"
    BY <1>5, <2>1, CommitNextOnly DEF Refuses
  <2>3. rows' = rows \cup written[c]
    BY <1>2, <1>5 DEF Apply
  <2> QED BY <2>1, <2>2, <2>3 DEF StoresRows
<1>6. CASE ~Refuses(c, s) /\ IsInsert(s) /\ txn[c] = "none"
  <2>1. s[1] = "token"
    BY <1>1, <1>2, <1>6, AcceptedInside
  <2>2. s = Insert("token", s[2]) /\ s[2] \in Blocks /\ tokenOf[s[2]] # NoToken
    BY <1>1, <1>2, <1>6, <2>1, NextInsert
  <2>3. RowOf(s) \in {"token"} \X Tokens
    BY <2>2, RowFacts
  <2>4. rows' = rows \cup {RowOf(s)}
    BY <1>2, <1>6, StatementKinds DEF Apply
  <2>5. {RowOf(s)} \in SUBSET ({"token"} \X Tokens)
    BY <2>3
  <2> QED BY <2>4, <2>5 DEF StoresRows
<1>7. CASE ~Refuses(c, s) /\ s # Commit /\ ~(IsInsert(s) /\ txn[c] = "none")
  <2>1. rows' = rows
    BY <1>2, <1>7 DEF Apply
  <2> QED BY <2>1, SameStores
<1> QED BY <1>4, <1>5, <1>6, <1>7

LEMMA StepStores == ASSUME IInv, Next
                    PROVE  StoresRows
<1>1. CASE Main
  <2>1. rows' = rows
    BY <1>1 DEF Main, StartRange, RangeExecuted, CommitNext, RangeDone, RangeFails, RangeThrown,
                serverVars
  <2> QED BY <2>1, SameStores
<1>2. ASSUME NEW c \in Blocks, Connect(c) \/ ConnectFails(c) \/ StatementFails(c)
      PROVE  StoresRows
  <2>1. rows' = rows
    BY <1>2 DEF Connect, ConnectFails, StatementFails, Refuse, serverVars
  <2> QED BY <2>1, SameStores
<1>3. ASSUME NEW c \in Blocks, LoseConnection(c) PROVE StoresRows
  <2>1. rows' = rows \/ rows' \in LandedRows
    BY <1>3 DEF LoseConnection
  <2> QED BY <2>1, SameStores, LandedStores
<1>4. ASSUME NEW b \in Blocks, TokenCalled(b) \/ TokenCallFails(b)
      PROVE  StoresRows
  <2>1. rows' = rows
    BY <1>4 DEF TokenCalled, TokenCallFails, serverVars
  <2> QED BY <2>1, SameStores
<1>5. CASE Crash
  BY <1>5, LandedStores DEF Crash
<1> QED BY <1>1, <1>2, <1>3, <1>4, <1>5, ExecuteStores DEF Next

LEMMA StoresWhole ==
    ASSUME IInv, StoresRows
    PROVE  /\ WholeBlocks' /\ rows' \subseteq AllRows
           /\ \/ Stored' = Stored
              \/ /\ main = "committing"
                 /\ \E c \in Chunks : Stored = 1 .. (c - 1) /\ Stored' = 1 .. EndOf(c)
<1>1. ASSUME NEW T \in SUBSET ({"token"} \X Tokens), rows' = rows \cup T
      PROVE  Stored' = Stored /\ WholeBlocks' /\ rows' \subseteq AllRows
  <2>1. Stored' = Stored /\ WholeBlocks'
    BY <1>1, TokenRows
  <2>2. rows' \subseteq AllRows
    BY <1>1 DEF IInv, TypeOK, AllRows
  <2> QED BY <2>1, <2>2
<1>2. ASSUME NEW c \in Chunks, ending[c] = "committing", txn[c] = "active",
             rows' = rows \cup written[c]
      PROVE  /\ WholeBlocks' /\ rows' \subseteq AllRows
             /\ main = "committing" /\ Stored = 1 .. (c - 1) /\ Stored' = 1 .. EndOf(c)
  BY <1>2, ChunkStored, CommitNextOnly
<1> QED BY <1>1, <1>2 DEF StoresRows

\* No range, nothing on the way, and all connections free.
LEMMA NothingRuns ==
    ASSUME first = 1, last = 0, next = 1, main = "waiting", pool = PoolSize, conn = {},
           unit = Each("unit"), ending = Each("ending"), task = Each("task"),
           queue = Each("queue"), txn = Each("txn"), written = Each("written"),
           tokenOf \in TokenChoices, faults \in 0 .. MaxFaults,
           rows \subseteq AllRows, WholeBlocks, \E m \in 0 .. MaxBlock : Stored = 1 .. m
    PROVE  IInv
<1>1. /\ unit = [c \in Blocks |-> "none"] /\ ending = [c \in Blocks |-> "open"]
      /\ task = [c \in Blocks |-> "none"] /\ queue = [c \in Blocks |-> << >>]
      /\ txn = [c \in Blocks |-> "none"] /\ written = [c \in Blocks |-> {}]
  BY DEF Each, NoChunk
<1>2. Chunks = {}
  BY DEF Chunks, ChunksOf
<1>3. << >> \in Seq(Statements)
  OBVIOUS
<1>4. TypeOK
  <2>1. /\ first \in Nat /\ last \in Nat /\ pool \in 0 .. PoolSize /\ conn \subseteq Blocks
        /\ main \in {"waiting", "executing", "committing", "rollingBack"}
        /\ main = "committing" => next \in Chunks
    BY UnitOfWorkAssumption
  <2>2. /\ unit \in [Blocks -> {"none", "connecting", "beginning", "acting",
                                "failing", "done", "failed"}]
        /\ ending \in [Blocks -> {"open", "committing", "undoing", "rollingBack",
                                  "committed", "rolledBack"}]
        /\ task \in [Blocks -> {"none", "block", "details", "calling", "token",
                                "done", "failed"}]
        /\ txn \in [Blocks -> {"none", "active", "aborted", "dead"}]
    BY <1>1
  <2>3. queue \in [Blocks -> Seq(Statements)]
    BY <1>1, <1>3
  <2>4. written \in [Blocks -> SUBSET AllRows]
    BY <1>1
  <2> QED BY <2>1, <2>2, <2>3, <2>4 DEF TypeOK
<1>5. PoolKept
  BY FS_EmptySet, UnitOfWorkAssumption DEF PoolKept
<1>6. RangeInv
  BY UnitOfWorkAssumption DEF RangeInv
<1>7. IdleInv /\ ActiveInv /\ StoredInv /\ CalmInv
  BY <1>1, <1>2 DEF IdleInv, ActiveInv, StoredInv, CalmInv
<1> QED BY <1>2, <1>4, <1>5, <1>6, <1>7 DEF IInv

LEMMA CrashStep == ASSUME IInv, Crash
                   PROVE  IInv'
<1>1. StoresRows
  BY LandedStores DEF Crash
<1>2. WholeBlocks' /\ rows' \subseteq AllRows
  BY <1>1, StoresWhole
<1>3. \E m \in 0 .. MaxBlock : Stored' = 1 .. m
  <2>1. \A c \in Chunks : EndOf(c) \in 0 .. MaxBlock
    BY ChunkBounds DEF IInv, Blocks
  <2>2. \E m \in 0 .. MaxBlock : Stored = 1 .. m
    BY DEF IInv, StoredInv
  <2> QED BY <1>1, <2>1, <2>2, StoresWhole
<1>4. tokenOf' \in TokenChoices /\ faults' \in 0 .. MaxFaults /\ AllRows' = AllRows
  BY UnitOfWorkAssumption DEF Crash, IInv, TypeOK, AllRows, Tokens
<1>5. /\ first' = 1 /\ last' = 0 /\ next' = 1 /\ main' = "waiting" /\ pool' = PoolSize
      /\ conn' = {} /\ unit' = Each("unit") /\ ending' = Each("ending") /\ task' = Each("task")
      /\ queue' = Each("queue") /\ txn' = Each("txn") /\ written' = Each("written")
  BY DEF Crash
<1>6. /\ unit' = [c \in Blocks |-> "none"] /\ ending' = [c \in Blocks |-> "open"]
      /\ task' = [c \in Blocks |-> "none"] /\ queue' = [c \in Blocks |-> << >>]
      /\ txn' = [c \in Blocks |-> "none"] /\ written' = [c \in Blocks |-> {}]
  BY <1>5 DEF Each, NoChunk
<1>7. Chunks' = {}
  BY <1>5 DEF Chunks, ChunksOf
<1>8. << >> \in Seq(Statements)
  OBVIOUS
<1>9. TypeOK'
  <2>1. /\ first' \in Nat /\ last' \in Nat /\ pool' \in 0 .. PoolSize /\ conn' \subseteq Blocks
        /\ main' \in {"waiting", "executing", "committing", "rollingBack"}
        /\ main' = "committing" => (next \in Chunks)'
    BY <1>5, UnitOfWorkAssumption
  <2>2. /\ unit' \in [Blocks -> {"none", "connecting", "beginning", "acting",
                                 "failing", "done", "failed"}]
        /\ ending' \in [Blocks -> {"open", "committing", "undoing", "rollingBack",
                                   "committed", "rolledBack"}]
        /\ task' \in [Blocks -> {"none", "block", "details", "calling", "token",
                                 "done", "failed"}]
        /\ txn' \in [Blocks -> {"none", "active", "aborted", "dead"}]
    BY <1>6
  <2>3. queue' \in [Blocks -> Seq(Statements)]
    BY <1>6, <1>8
  <2>4. written' \in [Blocks -> SUBSET AllRows]
    BY <1>6
  <2>5. rows' \subseteq AllRows
    BY <1>2, <1>4
  <2>6. tokenOf' \in TokenChoices /\ faults' \in 0 .. MaxFaults
    BY <1>4
  <2>7. AllRows' = AllRows
    BY <1>4
  <2> QED BY <2>1, <2>2, <2>3, <2>4, <2>5, <2>6, <2>7 DEF TypeOK
<1>10. PoolKept'
  BY <1>5, FS_EmptySet, UnitOfWorkAssumption DEF PoolKept
<1>11. RangeInv'
  BY <1>5, UnitOfWorkAssumption DEF RangeInv
<1>12. IdleInv' /\ ActiveInv' /\ StoredInv' /\ CalmInv'
  BY <1>2, <1>3, <1>5, <1>6, <1>7 DEF IdleInv, ActiveInv, StoredInv, CalmInv
<1> QED BY <1>7, <1>9, <1>10, <1>11, <1>12 DEF IInv

-----------------------------------------------------------------------------
(***************************************************************************)
(* The theorems.                                                           *)
(***************************************************************************)
LEMMA InitInv == Init => IInv
<1> SUFFICES ASSUME Init PROVE IInv
  OBVIOUS
<1>1. rows \subseteq AllRows /\ WholeBlocks /\ Stored = {} /\ faults \in 0 .. MaxFaults
  BY UnitOfWorkAssumption DEF Init, WholeBlocks, Stored
<1>2. \E m \in 0 .. MaxBlock : Stored = 1 .. m
  <2>1. 0 \in 0 .. MaxBlock /\ 1 .. 0 = {}
    BY UnitOfWorkAssumption
  <2> QED BY <1>1, <2>1
<1> QED BY <1>1, <1>2, NothingRuns DEF Init

LEMMA StepInv == ASSUME Calm PROVE IInv /\ [Next]_vars => IInv'
<1> SUFFICES ASSUME IInv, [Next]_vars PROVE IInv'
  OBVIOUS
<1>1. CASE Main
  BY <1>1, StartRangeStep, RangeExecutedStep, CommitNextStep, RangeDoneStep, RangeFailsStep,
     RangeThrownStep DEF Main
<1>2. ASSUME NEW c \in Blocks, \/ Connect(c) \/ ConnectFails(c) \/ Execute(c)
                               \/ StatementFails(c) \/ LoseConnection(c)
      PROVE  IInv'
  BY <1>2, ConnectStep, ConnectFailsStep, ExecuteStep, StatementFailsStep, LoseConnectionStep
<1>3. ASSUME NEW b \in Blocks, TokenCalled(b) \/ TokenCallFails(b) PROVE IInv'
  BY <1>3, TokenCalledStep, TokenCallFailsStep
<1>4. CASE Crash
  BY <1>4, CrashStep
<1>5. CASE UNCHANGED vars
  <2>1. UNCHANGED <<rows, main, first, last, next, unit, ending, task, pool, conn, queue, txn,
                    written, tokenOf, faults>>
    BY <1>5 DEF vars, chunkVars, connVars, serverVars, mainVars
  <2>2. Chunks' = Chunks /\ \A c : BlocksOf(c)' = BlocksOf(c) /\ EndOf(c)' = EndOf(c)
    BY <2>1, SameRange
  <2>3. AllRows' = AllRows /\ Stored' = Stored /\ WholeBlocks'
    BY <2>1, SameRows DEF AllRows, Tokens
  <2>4. TypeOK' /\ PoolKept' /\ RangeInv' /\ IdleInv' /\ ActiveInv' /\ StoredInv' /\ CalmInv'
    <3>1. TypeOK' /\ PoolKept'
      BY <2>1, <2>2, <2>3 DEF IInv, TypeOK, PoolKept
    <3>2. AllBegun' = AllBegun /\ OneChunk' = OneChunk
      BY <2>1, <2>2 DEF AllBegun, OneChunk
    <3>3. RangeInv' /\ IdleInv' /\ ActiveInv' /\ CalmInv'
      BY <2>1, <2>2, <3>2 DEF IInv, RangeInv, IdleInv, ActiveInv, CalmInv, HasFailed
    <3>4. StoredInv'
      BY <2>1, <2>2, <2>3 DEF IInv, StoredInv
    <3> QED BY <3>1, <3>3, <3>4
  <2>5. ASSUME NEW c \in Chunks PROVE ChunkInv(c)'
    <3>1. ChunkInv(c) /\ SameChunk(c)
      BY <2>1, <2>5 DEF IInv, SameChunk
    <3> QED BY <2>1, <2>3, <2>5, <3>1, ChunkFrame
  <2> QED BY <2>2, <2>4, <2>5 DEF IInv
<1> QED BY <1>1, <1>2, <1>3, <1>4, <1>5 DEF Next

\* The invariant that the theorems below rest on: every step of the main
\* promise, of a chunk, of a block and of the database, and every failure and
\* crash, preserves what is said of the range and of each of its chunks.
THEOREM Inductive == ASSUME Calm PROVE Spec => []IInv
<1>1. Init => IInv
  BY InitInv
<1>2. IInv /\ [Next]_vars => IInv'
  BY StepInv
<1> QED BY <1>1, <1>2, PTL DEF Spec

\* Every variable keeps its type, whatever fails: in particular no release
\* gives the pool more connections than it has.
THEOREM TypeCorrect == ASSUME Calm PROVE Spec => []TypeOK
<1>1. IInv => TypeOK
  BY DEF IInv
<1> QED BY <1>1, Inductive, PTL

\* A query runner that has a connection gives it back once, through the
\* finally blocks of commit and rollback (unitOfWork.provider.ts:44-78).
THEOREM ConnectionsKept == ASSUME Calm PROVE Spec => []PoolKept
<1>1. IInv => PoolKept
  BY DEF IInv
<1> QED BY <1>1, Inductive, PTL

\* No failure, rollback or crash leaves a part of a block in the database,
\* for any chain, range, chunk and pool size.
THEOREM BlocksWhole == ASSUME Calm PROVE Spec => []WholeBlocks
<1>1. IInv => WholeBlocks
  BY DEF IInv, StoredInv
<1> QED BY <1>1, Inductive, PTL

\* The range of ChunkStore is the range of the worker as long as its chunks
\* execute and commit.
LEMMA StoreRange ==
    /\ UnderWay /\ UnderWay' /\ first' = first /\ last' = last /\ Stored' = Stored
         => UNCHANGED Store!vars
    /\ ~UnderWay' /\ Stored' = Stored => Store!EndRange
  BY DEF Store!vars, Store!EndRange, Store!RangeEnds

\* A chunk is stored while its range is under way, and the range is as before
\* or has come to its end with the process.
LEMMA StoreChunkStep ==
    ASSUME IInv, NEW c \in Chunks, main = "committing",
           Stored = 1 .. (c - 1), Stored' = 1 .. EndOf(c),
           UNCHANGED mainVars \/ main' = "waiting"
    PROVE  Store!Next
<1>1. UnderWay
  BY DEF UnderWay
<1>2. c \in Store!ChunkStarts
  BY <1>1 DEF Store!ChunkStarts, Chunks, ChunksOf
<1>3. Store!EndOfChunk(c) = EndOf(c)
  <2>1. c \in Int /\ last \in Int /\ ChunkSize \in Nat \ {0}
    BY ChunkBounds, UnitOfWorkAssumption DEF IInv, RangeInv, Blocks
  <2> QED BY <1>1, <2>1 DEF Store!EndOfChunk, EndOf, Min2
<1>4. CASE main' = "waiting"
  <2>1. Store!RangeEnds
    BY <1>4 DEF UnderWay, Store!RangeEnds
  <2> QED BY <1>2, <1>3, <2>1 DEF Store!StoreChunk, Store!Next
<1>5. CASE UNCHANGED mainVars
  <2>1. UnderWay' /\ first' = first /\ last' = last
    BY <1>1, <1>5 DEF mainVars, UnderWay
  <2> QED BY <1>1, <1>2, <1>3, <2>1 DEF Store!StoreChunk, Store!Next
<1> QED BY <1>4, <1>5

\* A range is taken up right above the stored blocks, when none is under way.
LEMMA StoreRangeStarts == ASSUME IInv, StartRange PROVE Store!Next
<1>1. PICK m \in 0 .. MaxBlock : Stored = 1 .. m
  BY DEF IInv, StoredInv
<1>2. /\ main = "waiting" /\ main' = "executing"
      /\ first' = m + 1 /\ last' = Min2(MaxBlock, m + 1 + BatchSize - 1) /\ first' <= last'
      /\ rows' = rows
  BY <1>1, LastStoredIs DEF StartRange, serverVars
<1>3. ~UnderWay /\ UnderWay' /\ Stored' = Stored
  BY <1>2, SameRows DEF UnderWay
<1>4. /\ first' \in 1 .. MaxBlock /\ last' \in 1 .. MaxBlock
      /\ last' < first' + BatchSize /\ Stored = 1 .. (first' - 1)
  BY <1>1, <1>2, UnitOfWorkAssumption DEF Min2
<1>5. Store!StartRange(first', last')
  BY <1>2, <1>3, <1>4 DEF Store!StartRange
<1> QED BY <1>4, <1>5 DEF Store!Next

\* Every step of the transactions of a range is a step of ChunkStore.
LEMMA StoreSteps == IInv /\ [Next]_vars => [Store!Next]_(Store!vars)
<1> SUFFICES ASSUME IInv, [Next]_vars PROVE Store!Next \/ UNCHANGED Store!vars
  OBVIOUS
<1>1. CASE UNCHANGED vars
  BY <1>1 DEF vars, serverVars, mainVars, Stored, UnderWay, Store!vars
<1>2. CASE StartRange
  BY <1>2, StoreRangeStarts
<1>3. CASE RangeExecuted \/ CommitNext
  <2>1. UnderWay /\ UnderWay' /\ first' = first /\ last' = last /\ Stored' = Stored
    BY <1>3, SameRows DEF RangeExecuted, CommitNext, serverVars, UnderWay
  <2> QED BY <2>1, StoreRange
<1>4. CASE RangeDone \/ RangeFails \/ RangeThrown
  <2>1. ~UnderWay' /\ Stored' = Stored
    BY <1>4, SameRows DEF RangeDone, RangeFails, RangeThrown, serverVars, UnderWay
  <2> QED BY <2>1, StoreRange DEF Store!Next
<1>5. CASE \/ \E c \in Blocks : \/ Connect(c) \/ ConnectFails(c) \/ Execute(c)
                                \/ StatementFails(c) \/ LoseConnection(c)
           \/ \E b \in Blocks : TokenCalled(b) \/ TokenCallFails(b)
           \/ Crash
  <2>1. UNCHANGED mainVars \/ main' = "waiting"
    BY <1>5 DEF Connect, ConnectFails, Execute, StatementFails, LoseConnection, TokenCalled,
                TokenCallFails, Crash
  <2>2. CASE Stored' = Stored
    BY <2>1, <2>2, StoreRange DEF mainVars, UnderWay, Store!Next, Store!vars
  <2>3. CASE Stored' # Stored
    <3>1. main = "committing" /\ \E c \in Chunks : Stored = 1 .. (c - 1) /\ Stored' = 1 .. EndOf(c)
      BY <1>5, <2>3, StepStores, StoresWhole DEF Next
    <3> QED BY <2>1, <3>1, StoreChunkStep
  <2> QED BY <2>2, <2>3
<1> QED BY <1>1, <1>2, <1>3, <1>4, <1>5 DEF Next, Main

\* The chunks are committed in the order of their blocks, each as a whole, and
\* none once its range has failed, although they run side by side
\* (block.processor.ts, "sequentially commit").
THEOREM ChunksInOrder == ASSUME Calm PROVE Spec => StoredByChunks
<1>1. Init => Store!Init
  BY DEF Init, Store!Init, Store!NoRange, Stored, UnderWay
<1>2. IInv /\ [Next]_vars => [Store!Next]_(Store!vars)
  BY StoreSteps
<1> QED BY <1>1, <1>2, Inductive, PTL DEF Spec, StoredByChunks, Store!Spec

-----------------------------------------------------------------------------
(***************************************************************************)
(* No state hangs, when a range never has more chunks than the pool has    *)
(* connections: a chunk keeps its own until all have run.                  *)
(***************************************************************************)
EnoughConnections == BatchSize <= ChunkSize * PoolSize

Sent(q, s) == \E i \in DOMAIN q : q[i] = s

\* An action that runs has a block that is not done, and none that failed.
ActingOk(c) == unit[c] = "acting" => /\ \A b \in BlocksOf(c) : task[b] \notin {"none", "failed"}
                                     /\ \E b \in BlocksOf(c) : task[b] # "done"

\* What a block waits for has been sent.
SentOk(c) == \A b \in BlocksOf(c) :
    task[b] \in {"block", "details", "token"} => Sent(queue[c], Insert(task[b], b))

\* A token was written for a block of the chunk.
TokensOk(c) == \A t \in Tokens : <<"token", t>> \in written[c] => \E b \in BlocksOf(c) : tokenOf[b] = t

LiveOk(c) == ActingOk(c) /\ SentOk(c) /\ TokensOk(c)

LiveInv == \A c \in Chunks : LiveOk(c)

LEMMA SentTail == ASSUME NEW q \in Seq(Statements), q # << >>, NEW s, Sent(q, s), s # Head(q)
                  PROVE  Sent(Tail(q), s)
<1>1. PICK i \in DOMAIN q : q[i] = s
  BY DEF Sent
<1>2. i - 1 \in DOMAIN Tail(q) /\ Tail(q)[i - 1] = s
  BY <1>1, TailFacts
<1> QED BY <1>2 DEF Sent

LEMMA SentAppend == ASSUME NEW q \in Seq(Statements), NEW x \in Statements
                    PROVE  Sent(Append(q, x), x) /\ \A s : Sent(q, s) => Sent(Append(q, x), s)
  BY AppendFacts DEF Sent

\* The blocks of a chunk wait for what they waited for.
LEMMA LiveKept ==
    ASSUME NEW d, LiveOk(d), UNCHANGED <<first, last, tokenOf>>,
           unit'[d] # "acting" \/ unit'[d] = unit[d],
           \A b \in BlocksOf(d) : task'[b] = task[b],
           \A b \in BlocksOf(d), k \in {"block", "details", "token"} :
               Sent(queue[d], Insert(k, b)) => Sent(queue'[d], Insert(k, b)),
           written'[d] \subseteq written[d]
    PROVE  LiveOk(d)'
<1>1. BlocksOf(d)' = BlocksOf(d) /\ Tokens' = Tokens
  BY SameRange DEF Tokens
<1>2. ActingOk(d)'
  BY <1>1 DEF LiveOk, ActingOk
<1>3. SentOk(d)'
  <2> SUFFICES ASSUME NEW b \in BlocksOf(d), task[b] \in {"block", "details", "token"}
               PROVE  Sent(queue'[d], Insert(task[b], b))
    BY <1>1 DEF SentOk, Sent, Insert
  <2> QED BY DEF LiveOk, SentOk
<1>4. TokensOk(d)'
  BY <1>1 DEF LiveOk, TokensOk
<1> QED BY <1>2, <1>3, <1>4 DEF LiveOk

\* A step of one chunk.
LEMMA LiveStep ==
    ASSUME IInv, LiveInv, NEW c \in Chunks, UNCHANGED <<first, last, tokenOf>>,
           \A d \in Blocks \ {c} : /\ unit'[d] = unit[d] /\ queue'[d] = queue[d]
                                   /\ written'[d] = written[d],
           \A b \in Blocks \ BlocksOf(c) : task'[b] = task[b],
           LiveOk(c)'
    PROVE  LiveInv'
<1>1. Chunks' = Chunks
  BY SameRange
<1>2. ASSUME NEW d \in Chunks, d # c PROVE LiveOk(d)'
  <2>1. d \in Blocks \ {c} /\ \A b \in BlocksOf(d) : b \in Blocks \ BlocksOf(c)
    BY <1>2, BlocksApart, ChunkBounds DEF IInv
  <2>2. LiveOk(d)
    BY DEF LiveInv
  <2> QED BY <2>1, <2>2, LiveKept
<1> QED BY <1>1, <1>2 DEF LiveInv

\* Task b of chunk c goes on to x, with q left to run before what that sends.
GoesTo(c, b, q, x) ==
    /\ task' = [task EXCEPT ![b] = x]
    /\ \/ x \in {"done", "failed", "calling"}
       \/ x \in {"details", "token"} /\ queue'[c] = Append(q, Insert(x, b))
    /\ queue'[c] \in {q, Append(q, Rollback), Append(q, Insert("details", b)),
                      Append(q, Insert("token", b))}
    /\ unit'[c] = "acting" => /\ unit[c] = "acting" /\ x # "failed"
                              /\ x = "done" => \E a \in BlocksOf(c) \ {b} : task[a] # "done"
    /\ \A d \in Blocks \ {c} : unit'[d] = unit[d] /\ queue'[d] = queue[d]

\* Block b goes on, waits for the chain, is done or fails.
LEMMA LiveTask ==
    ASSUME IInv, LiveInv, NEW c \in Chunks, NEW b \in BlocksOf(c), NEW q \in Seq(Statements),
           \A a \in BlocksOf(c) \ {b}, k \in {"block", "details", "token"} :
               Sent(queue[c], Insert(k, a)) => Sent(q, Insert(k, a)),
           UNCHANGED <<first, last, tokenOf>>,
           \/ TaskDone(c, b, q)
           \/ TaskFails(c, b, q)
           \/ \E k \in {"details", "token"} : TaskIssues(c, b, k, q)
           \/ /\ task' = [task EXCEPT ![b] = "calling"] /\ queue' = [queue EXCEPT ![c] = q]
              /\ UNCHANGED <<unit, ending>>,
           \A d \in Blocks \ {c} : written'[d] = written[d],
           TokensOk(c)'
    PROVE  LiveInv'
<1> c \in Blocks /\ b \in Blocks /\ BlocksOf(c) \subseteq Blocks
  BY ChunkBounds DEF IInv
<1>1. /\ task \in [Blocks -> Tasks] /\ queue \in [Blocks -> Seq(Statements)]
      /\ unit \in [Blocks -> {"none", "connecting", "beginning", "acting",
                              "failing", "done", "failed"}]
  BY TaskType DEF IInv, TypeOK
<1>2. BlocksOf(c)' = BlocksOf(c) /\ LiveOk(c)
  BY SameRange DEF LiveInv
<1>3. PICK x : GoesTo(c, b, q, x)
  <2>1. TaskDone(c, b, q) => GoesTo(c, b, q, "done")
    BY <1>1 DEF TaskDone, AllDone, GoesTo
  <2>2. TaskFails(c, b, q) => GoesTo(c, b, q, "failed")
    BY <1>1 DEF TaskFails, GoesTo
  <2>3. ASSUME NEW k \in {"details", "token"}, TaskIssues(c, b, k, q), ~Released(c)
        PROVE  GoesTo(c, b, q, k)
    BY <1>1, <2>3 DEF TaskIssues, GoesTo
  <2>4. ASSUME NEW k \in {"details", "token"}, TaskIssues(c, b, k, q), Released(c)
        PROVE  TaskFails(c, b, q)
    BY <2>4 DEF TaskIssues
  <2>5. /\ task' = [task EXCEPT ![b] = "calling"] /\ queue' = [queue EXCEPT ![c] = q]
        /\ UNCHANGED <<unit, ending>>
        => GoesTo(c, b, q, "calling")
    BY <1>1 DEF GoesTo
  <2> QED BY <2>1, <2>2, <2>3, <2>4, <2>5
<1> USE DEF GoesTo
<1>4. \A a \in BlocksOf(c) \ {b} : task'[a] = task[a]
  BY <1>3
<1>5. task'[b] = x
  BY <1>1, <1>3
<1>6. ActingOk(c)'
  BY <1>2, <1>3, <1>4, <1>5 DEF LiveOk, ActingOk
<1>7. SentOk(c)'
  <2>1. \A k \in {"details", "token"} : Insert(k, b) \in Statements
    BY InsertIs
  <2>2. Rollback \in Statements
    BY StatementKinds
  <2>3. \A s : Sent(q, s) => Sent(queue'[c], s)
    <3>1. \A y \in Statements : \A s : Sent(q, s) => Sent(Append(q, y), s)
      BY SentAppend
    <3>2. queue'[c] = q \/ \E y \in Statements : queue'[c] = Append(q, y)
      BY <1>3, <2>1, <2>2
    <3> QED BY <3>1, <3>2
  <2>4. ASSUME NEW a \in BlocksOf(c), task'[a] \in {"block", "details", "token"}
        PROVE  Sent(queue'[c], Insert(task'[a], a))
    <3>1. CASE a = b
      <4>1. task'[a] = x /\ x \in {"details", "token"} /\ queue'[c] = Append(q, Insert(x, b))
        BY <1>3, <1>5, <2>4, <3>1
      <4>2. Sent(Append(q, Insert(x, b)), Insert(x, b))
        BY <2>1, <4>1, SentAppend
      <4> QED BY <3>1, <4>1, <4>2
    <3>2. CASE a # b
      BY <1>2, <1>4, <2>3, <2>4, <3>2 DEF LiveOk, SentOk
    <3> QED BY <3>1, <3>2
  <2> QED BY <1>2, <2>4 DEF SentOk, Sent, Insert
<1>8. LiveOk(c)'
  BY <1>6, <1>7 DEF LiveOk
<1>9. \A a \in Blocks \ BlocksOf(c) : task'[a] = task[a]
  BY <1>3
<1> QED BY <1>3, <1>8, <1>9, LiveStep

\* The next statement of a chunk was an insert, and is answered or refused.
LEMMA LiveInsert ==
    ASSUME IInv, LiveInv, NEW c \in Blocks, queue[c] # << >>, NEW s, s = Head(queue[c]), IsInsert(s),
           InsertAnswered(c, s, Tail(queue[c])) \/ TaskFails(c, s[2], Tail(queue[c])),
           UNCHANGED <<first, last, tokenOf>>,
           \A d \in Blocks \ {c} : written'[d] = written[d],
           TokensOk(c)'
    PROVE  LiveInv'
<1> DEFINE q == Tail(queue[c])
           b == s[2]
<1>1. c \in Chunks /\ b \in BlocksOf(c) /\ b \in Blocks /\ s = Insert(s[1], b)
  BY NextInsert
<1>2. queue[c] \in Seq(Statements) /\ q \in Seq(Statements)
  BY NextStatement
<1>3. ASSUME NEW a \in BlocksOf(c) \ {b}, NEW k \in {"block", "details", "token"},
             Sent(queue[c], Insert(k, a))
      PROVE  Sent(q, Insert(k, a))
  <2>1. Insert(k, a) # s
    BY <1>1 DEF Insert
  <2> QED BY <1>2, <1>3, <2>1, SentTail
<1>4. \/ TaskDone(c, b, q)
      \/ TaskFails(c, b, q)
      \/ \E k \in {"details", "token"} : TaskIssues(c, b, k, q)
      \/ /\ task' = [task EXCEPT ![b] = "calling"] /\ queue' = [queue EXCEPT ![c] = q]
         /\ UNCHANGED <<unit, ending>>
  BY DEF InsertAnswered
<1> HIDE DEF q, b
<1> QED BY <1>1, <1>2, <1>3, <1>4, LiveTask

\* It was another one, and the blocks wait for what they waited for.
LEMMA LiveEnd ==
    ASSUME IInv, LiveInv, NEW c \in Blocks, queue[c] # << >>, ~IsInsert(Head(queue[c])),
           queue' = [queue EXCEPT ![c] = Tail(queue[c])]
             \/ queue' = [queue EXCEPT ![c] = Append(Tail(queue[c]), Rollback)],
           \A d \in Blocks : unit'[d] = unit[d] \/ (d = c /\ unit'[d] # "acting"),
           \A d \in Blocks \ {c} : written'[d] = written[d],
           written'[c] \subseteq written[c],
           UNCHANGED <<task, first, last, tokenOf>>
    PROVE  LiveInv'
<1>1. c \in Chunks /\ queue[c] \in Seq(Statements) /\ Tail(queue[c]) \in Seq(Statements)
  BY NextStatement
<1>2. LiveOk(c) /\ BlocksOf(c) \subseteq Blocks /\ queue \in [Blocks -> Seq(Statements)]
  BY <1>1, ChunkBounds DEF LiveInv, IInv, TypeOK
<1>3. ASSUME NEW b \in BlocksOf(c), NEW k \in {"block", "details", "token"},
             Sent(queue[c], Insert(k, b))
      PROVE  Sent(queue'[c], Insert(k, b))
  <2>1. IsInsert(Insert(k, b))
    BY <1>2, InsertIs
  <2>2. Sent(Tail(queue[c]), Insert(k, b))
    BY <1>1, <1>3, <2>1, SentTail
  <2>3. queue'[c] \in {Tail(queue[c]), Append(Tail(queue[c]), Rollback)}
    BY <1>2
  <2>4. Sent(Append(Tail(queue[c]), Rollback), Insert(k, b))
    BY <1>1, <2>2, SentAppend, StatementKinds
  <2> QED BY <2>2, <2>3, <2>4
<1>4. LiveOk(c)'
  <2>1. unit'[c] # "acting" \/ unit'[c] = unit[c]
    OBVIOUS
  <2>2. \A b \in BlocksOf(c) : task'[b] = task[b]
    OBVIOUS
  <2> QED BY <1>2, <1>3, <2>1, <2>2, LiveKept
<1>5. \A d \in Blocks \ {c} : unit'[d] = unit[d]
  OBVIOUS
<1>6. \A d \in Blocks \ {c} : queue'[d] = queue[d]
  BY <1>2
<1> QED BY <1>1, <1>4, <1>5, <1>6, LiveStep

LEMMA FirstSent ==
    ASSUME IInv, NEW c \in Chunks, NEW b \in BlocksOf(c)
    PROVE  Sent(<< >> \o [i \in 1 .. EndOf(c) - c + 1 |-> Insert("block", c + i - 1)],
                Insert("block", b))
<1> DEFINE n == EndOf(c) - c + 1
           G == [i \in 1 .. n |-> Insert("block", c + i - 1)]
<1>1. /\ c \in Nat /\ EndOf(c) \in Nat /\ b \in Nat /\ n \in Nat
      /\ c <= b /\ b <= EndOf(c) /\ BlocksOf(c) \subseteq Blocks
  BY ChunkBounds DEF IInv, Blocks
<1>2. b - c + 1 \in 1 .. n /\ c + (b - c + 1) - 1 = b
  BY <1>1
<1>3. G[b - c + 1] = Insert("block", b)
  BY <1>2
<1>4. \A i \in 1 .. n : Insert("block", c + i - 1) \in Statements
  <2> TAKE i \in 1 .. n
  <2>1. c + i - 1 \in BlocksOf(c)
    BY <1>1 DEF BlocksOf
  <2> QED BY <1>1, <2>1, InsertIs
<1>5. G \in Seq(Statements) /\ DOMAIN G = 1 .. n
  <2>1. DOMAIN G = 1 .. n
    OBVIOUS
  <2> HIDE DEF n
  <2>2. G \in [1 .. n -> Statements]
    BY <1>4
  <2> QED BY <1>1, <2>1, <2>2
<1> HIDE DEF G
<1>6. << >> \o G = G
  BY <1>5
<1>7. Sent(<< >> \o G, Insert("block", b))
  BY <1>2, <1>3, <1>5, <1>6 DEF Sent
<1> QED BY <1>7 DEF G

\* The rows of tokens that a transaction has after its next statement.
LEMMA TokensStay ==
    ASSUME IInv, LiveInv, NEW c \in Blocks, queue[c] # << >>, NEW s, s = Head(queue[c]),
           Apply(c, s) \/ Refuse(c, s), UNCHANGED <<first, last, tokenOf>>
    PROVE  /\ TokensOk(c)'
           /\ \A d \in Blocks \ {c} : written'[d] = written[d]
           /\ ~IsInsert(s) => written'[c] \subseteq written[c]
<1>1. c \in Chunks /\ TokensOk(c) /\ s \in Statements
  BY NextStatement DEF LiveInv, LiveOk
<1>2. BlocksOf(c)' = BlocksOf(c) /\ Tokens' = Tokens
  BY SameRange DEF Tokens
<1>3. /\ written'[c] \subseteq written[c] \/ (IsInsert(s) /\ written'[c] = written[c] \cup {RowOf(s)})
      /\ \A d \in Blocks \ {c} : written'[d] = written[d]
  BY DEF Apply, Refuse, IInv, TypeOK
<1>4. CASE written'[c] \subseteq written[c]
  BY <1>1, <1>2, <1>3, <1>4 DEF TokensOk
<1>5. CASE IsInsert(s) /\ written'[c] = written[c] \cup {RowOf(s)}
  <2>1. s[2] \in BlocksOf(c) /\ s = Insert(s[1], s[2])
    BY <1>5, NextInsert
  <2>2. \A t : <<"token", t>> = RowOf(s) => tokenOf[s[2]] = t
    BY <2>1 DEF RowOf, Insert
  <2> QED BY <1>1, <1>2, <1>3, <1>5, <2>1, <2>2 DEF TokensOk
<1> QED BY <1>3, <1>4, <1>5

LEMMA AnsweredLive ==
    ASSUME IInv, LiveInv, NEW c \in Blocks, queue[c] # << >>, NEW s, s = Head(queue[c]),
           Apply(c, s), Answered(c, s), UNCHANGED <<mainVars, tokenOf>>
    PROVE  LiveInv'
<1> USE DEF mainVars
<1>1. c \in Chunks /\ queue[c] \in Seq(Statements) /\ s \in Statements
  BY NextStatement
<1>2. /\ TokensOk(c)' /\ \A d \in Blocks \ {c} : written'[d] = written[d]
      /\ ~IsInsert(s) => written'[c] \subseteq written[c]
  BY TokensStay
<1>3. CASE s = Begin
  <2>1. unit[c] = "beginning" /\ Tail(queue[c]) = << >>
    BY <1>3, NextStatement
  <2>2. /\ unit' = [unit EXCEPT ![c] = "acting"]
        /\ task' = [b \in Blocks |-> IF b \in BlocksOf(c) THEN "block" ELSE task[b]]
        /\ queue' = [queue EXCEPT ![c] = << >> \o [i \in 1 .. EndOf(c) - c + 1 |->
                                                    Insert("block", c + i - 1)]]
    BY <1>3, <2>1, StatementKinds DEF Answered, ActionStarts
  <2>3. BlocksOf(c)' = BlocksOf(c) /\ BlocksOf(c) \subseteq Blocks /\ c \in BlocksOf(c)
    BY <1>1, SameRange, ChunkBounds DEF IInv
  <2>4. \A b \in BlocksOf(c) : task'[b] = "block"
    BY <2>2, <2>3
  <2>5. ActingOk(c)'
    BY <2>3, <2>4 DEF ActingOk
  <2>6. SentOk(c)'
    <3>1. ASSUME NEW b \in BlocksOf(c) PROVE Sent(queue'[c], Insert("block", b))
      BY <1>1, <2>2, FirstSent DEF IInv, TypeOK
    <3> QED BY <2>3, <2>4, <3>1 DEF SentOk, Sent, Insert
  <2>7. /\ \A d \in Blocks \ {c} : unit'[d] = unit[d] /\ queue'[d] = queue[d]
        /\ \A b \in Blocks \ BlocksOf(c) : task'[b] = task[b]
    BY <2>2 DEF IInv, TypeOK
  <2> QED BY <1>1, <1>2, <2>5, <2>6, <2>7, LiveStep DEF LiveOk
<1>4. CASE s \in {Commit, Rollback}
  <2>1. /\ ~IsInsert(Head(queue[c])) /\ queue' = [queue EXCEPT ![c] = Tail(queue[c])]
        /\ \A d \in Blocks : unit'[d] = unit[d] \/ (d = c /\ unit'[d] # "acting")
        /\ task' = task
    BY <1>4, StatementKinds DEF Answered, Release, IInv, TypeOK
  <2> QED BY <1>2, <1>4, <2>1, LiveEnd, StatementKinds
<1>5. CASE IsInsert(s)
  <2>1. InsertAnswered(c, s, Tail(queue[c]))
    BY <1>5, StatementKinds DEF Answered
  <2> QED BY <1>2, <1>5, <2>1, LiveInsert
<1> QED BY <1>1, <1>3, <1>4, <1>5, InsertKinds

LEMMA RejectedLive ==
    ASSUME IInv, LiveInv, NEW c \in Blocks, queue[c] # << >>, NEW s, s = Head(queue[c]),
           Refuse(c, s), Rejected(c, s), UNCHANGED <<mainVars, tokenOf>>
    PROVE  LiveInv'
<1> USE DEF mainVars
<1>1. c \in Chunks /\ queue[c] \in Seq(Statements) /\ s \in Statements
  BY NextStatement
<1>2. /\ TokensOk(c)' /\ \A d \in Blocks \ {c} : written'[d] = written[d]
      /\ ~IsInsert(s) => written'[c] \subseteq written[c]
  BY TokensStay
<1>3. CASE s \in {Begin, Commit, Rollback}
  <2>1. /\ ~IsInsert(Head(queue[c])) /\ task' = task
        /\ \/ queue' = [queue EXCEPT ![c] = Tail(queue[c])]
           \/ queue' = [queue EXCEPT ![c] = Append(Tail(queue[c]), Rollback)]
        /\ \A d \in Blocks : unit'[d] = unit[d] \/ (d = c /\ unit'[d] # "acting")
    <3>1. CASE s = Begin
      BY <3>1, StatementKinds DEF Rejected, IInv, TypeOK
    <3>2. CASE s = Commit
      BY <3>2, StatementKinds DEF Rejected, IInv, TypeOK
    <3>3. CASE s = Rollback
      BY <3>3, StatementKinds DEF Rejected, Release, IInv, TypeOK
    <3> QED BY <1>3, <3>1, <3>2, <3>3
  <2> QED BY <1>2, <1>3, <2>1, LiveEnd, StatementKinds
<1>4. CASE IsInsert(s)
  <2>1. TaskFails(c, s[2], Tail(queue[c]))
    BY <1>4, StatementKinds DEF Rejected
  <2> QED BY <1>2, <1>4, <2>1, LiveInsert
<1> QED BY <1>1, <1>3, <1>4, InsertKinds

\* A step that no block takes: statements may be added to the queues.
LEMMA LiveSame ==
    ASSUME IInv, LiveInv, UNCHANGED <<first, last, tokenOf, task>>,
           \A d \in Chunks : /\ unit'[d] # "acting" \/ unit'[d] = unit[d]
                             /\ \/ queue'[d] = queue[d]
                                \/ \E x \in Statements : queue'[d] = Append(queue[d], x)
                             /\ written'[d] \subseteq written[d]
    PROVE  LiveInv'
<1>1. Chunks' = Chunks
  BY SameRange
<1>2. ASSUME NEW d \in Chunks PROVE LiveOk(d)'
  <2>1. LiveOk(d) /\ queue[d] \in Seq(Statements)
    BY ChunkBounds DEF LiveInv, IInv, TypeOK
  <2>2. \A s : Sent(queue[d], s) => Sent(queue'[d], s)
    BY <2>1, SentAppend
  <2> QED BY <2>1, <2>2, LiveKept
<1> QED BY <1>1, <1>2 DEF LiveInv

LEMMA StartRangeLive == ASSUME IInv, StartRange
                        PROVE  LiveInv'
<1>1. IInv' /\ \A c \in Blocks : written'[c] = {}
  BY StartRangeStep, SettledFacts DEF StartRange, serverVars
<1>2. ASSUME NEW c \in Chunks' PROVE LiveOk(c)'
  <2>1. c \in Blocks /\ unit'[c] \in {"connecting", "none"}
    <3>1. RangeInv'
      BY <1>1 DEF IInv
    <3>2. c \in Blocks
      BY <1>2, <3>1, UnitOfWorkAssumption DEF RangeInv, Chunks, ChunksOf, Blocks
    <3> QED BY <3>2 DEF StartRange
  <2>2. unit'[c] = "connecting" /\ \A b \in BlocksOf(c)' : task'[b] = "none"
    BY <1>1, <2>1 DEF IInv, ChunkInv, StartOk, TaskOk, Early
  <2> QED BY <1>1, <2>1, <2>2 DEF LiveOk, ActingOk, SentOk, TokensOk
<1> QED BY <1>2 DEF LiveInv

LEMMA MainLive == ASSUME IInv, LiveInv, Main
                  PROVE  LiveInv'
<1> USE DEF mainVars, chunkVars, connVars, serverVars
<1>1. Chunks \subseteq Blocks
  BY ChunkBounds DEF IInv
<1>2. CASE StartRange
  BY <1>2, StartRangeLive
<1>3. ASSUME NEW c \in Chunks, IssueCommit(c), UNCHANGED <<first, last, unit, task, serverVars, tokenOf>>
      PROVE  LiveInv'
  <2>1. \A d \in Chunks : queue'[d] = queue[d] \/ queue'[d] = Append(queue[d], Commit)
    BY <1>1, <1>3 DEF IssueCommit, IInv, TypeOK
  <2> QED BY <1>3, <2>1, LiveSame, StatementKinds
<1>4. CASE RangeExecuted
  BY <1>3, <1>4, FirstChunk DEF RangeExecuted, IInv, RangeInv
<1>5. CASE CommitNext
  BY <1>3, <1>5 DEF CommitNext
<1>6. CASE RangeDone \/ RangeThrown
  BY <1>6, LiveSame DEF RangeDone, RangeThrown
<1>7. CASE RangeFails
  <2>1. UNCHANGED <<first, last, unit, task, written, tokenOf>>
    BY <1>7 DEF RangeFails
  <2>2. \A d \in Chunks : queue'[d] = queue[d] \/ queue'[d] = Append(queue[d], Rollback)
    BY <1>1, <1>7 DEF RangeFails
  <2> QED BY <2>1, <2>2, LiveSame, StatementKinds
<1> QED BY <1>2, <1>4, <1>5, <1>6, <1>7 DEF Main

LEMMA ChunkLive ==
    ASSUME IInv, LiveInv, NEW c \in Blocks,
           \/ Connect(c) \/ ConnectFails(c) \/ Execute(c) \/ StatementFails(c) \/ LoseConnection(c)
    PROVE  LiveInv'
<1> USE DEF mainVars, chunkVars, connVars, serverVars
<1>1. Chunks \subseteq Blocks
  BY ChunkBounds DEF IInv
<1>2. CASE Connect(c)
  <2>1. UNCHANGED <<first, last, task, written, tokenOf>>
    BY <1>2 DEF Connect
  <2>2. \A d \in Chunks : /\ unit'[d] # "acting" \/ unit'[d] = unit[d]
                          /\ queue'[d] = queue[d] \/ queue'[d] = Append(queue[d], Begin)
    BY <1>1, <1>2 DEF Connect, IInv, TypeOK
  <2> QED BY <2>1, <2>2, LiveSame, StatementKinds
<1>3. CASE ConnectFails(c)
  BY <1>1, <1>3, LiveSame DEF ConnectFails, IInv, TypeOK
<1>4. CASE Execute(c)
  BY <1>4, AnsweredLive, RejectedLive DEF Execute
<1>5. CASE StatementFails(c)
  BY <1>5, RejectedLive DEF StatementFails
<1>6. CASE LoseConnection(c)
  <2>1. UNCHANGED <<first, last, task, unit, queue, tokenOf>>
    BY <1>6 DEF LoseConnection
  <2>2. \A d \in Chunks : written'[d] \subseteq written[d]
    BY <1>1, <1>6 DEF LoseConnection, IInv, TypeOK
  <2> QED BY <2>1, <2>2, LiveSame
<1> QED BY <1>2, <1>3, <1>4, <1>5, <1>6

LEMMA TokenLive == ASSUME IInv, LiveInv, NEW b \in Blocks, TokenCalled(b) \/ TokenCallFails(b)
                   PROVE  LiveInv'
<1>1. task[b] = "calling"
  BY DEF TokenCalled, TokenCallFails
<1>2. PICK c \in Chunks : b \in BlocksOf(c) /\ ChunkOf(b) = c /\ queue[c] \in Seq(Statements)
  BY <1>1, CallingFacts
<1>3. UNCHANGED <<first, last, tokenOf, written>>
  BY DEF TokenCalled, TokenCallFails, mainVars, serverVars
<1>4. \/ TaskIssues(c, b, "token", queue[c])
      \/ TaskDone(c, b, queue[c])
  BY <1>2 DEF TokenCalled, TokenCallFails
<1>5. TokensOk(c)'
  <2>1. BlocksOf(c)' = BlocksOf(c) /\ Tokens' = Tokens
    BY <1>3, SameRange DEF Tokens
  <2> QED BY <1>2, <1>3, <2>1 DEF LiveInv, LiveOk, TokensOk
<1> QED BY <1>2, <1>3, <1>4, <1>5, LiveTask

LEMMA LiveNext == IInv /\ LiveInv /\ [Next]_vars => LiveInv'
<1> SUFFICES ASSUME IInv, LiveInv, [Next]_vars PROVE LiveInv'
  OBVIOUS
<1>1. CASE Crash
  <2>1. first' = 1 /\ last' = 0
    BY <1>1 DEF Crash
  <2>2. Chunks' = {}
    BY <2>1 DEF Chunks, ChunksOf
  <2> QED BY <2>2 DEF LiveInv
<1>2. CASE UNCHANGED vars
  BY <1>2, LiveSame DEF vars, mainVars, chunkVars, connVars, serverVars
<1> QED BY <1>1, <1>2, MainLive, ChunkLive, TokenLive DEF Next

LEMMA InitLive == Init => LiveInv
<1>1. Init => Chunks = {}
  BY DEF Init, Chunks, ChunksOf
<1> QED BY <1>1 DEF LiveInv

\* The n-th chunk of a range is the chunk n of at most PoolSize.
LEMMA ChunkNumber ==
    ASSUME RangeInv, EnoughConnections, NEW c \in Chunks
    PROVE  \E n \in 0 .. PoolSize - 1 : c = first + ChunkSize * n
<1>1. /\ c - first \in Nat /\ c - first < BatchSize /\ (c - first) % ChunkSize = 0
      /\ c \in Int /\ first \in Int
  BY UnitOfWorkAssumption DEF RangeInv, Chunks, ChunksOf
<1>2. PICK n \in Nat : c - first = ChunkSize * n
  <2>1. \A a \in Nat, d \in Nat \ {0} : a % d = 0 => a \div d \in Nat /\ a = d * (a \div d)
    OBVIOUS
  <2> QED BY <1>1, <2>1, UnitOfWorkAssumption
<1>3. ChunkSize * n < ChunkSize * PoolSize
  BY <1>1, <1>2, UnitOfWorkAssumption DEF EnoughConnections
<1>4. n < PoolSize
  <2>1. \A a, b, d \in Nat : a <= b => d * a <= d * b
    OBVIOUS
  <2>2. PoolSize <= n => ChunkSize * PoolSize <= ChunkSize * n
    BY <2>1, UnitOfWorkAssumption
  <2>3. ChunkSize * n \in Int /\ ChunkSize * PoolSize \in Int
    BY UnitOfWorkAssumption
  <2> QED BY <1>3, <2>2, <2>3, UnitOfWorkAssumption
<1>5. c = first + ChunkSize * n
  BY <1>1, <1>2, UnitOfWorkAssumption
<1>6. n \in 0 .. PoolSize - 1
  BY <1>4, UnitOfWorkAssumption
<1> QED BY <1>5, <1>6

\* There is a connection for every chunk that has none.
LEMMA ConnectionLeft == ASSUME IInv, EnoughConnections, NEW c \in Chunks, c \notin conn
                        PROVE  pool > 0
<1> DEFINE f == [d \in Chunks |-> CHOOSE n \in 0 .. PoolSize - 1 : d = first + ChunkSize * n]
           N == 0 .. PoolSize - 1
<1>1. IsFiniteSet(N) /\ Cardinality(N) = PoolSize
  BY FS_Interval, UnitOfWorkAssumption
<1>2. \A d \in Chunks : f[d] \in N /\ d = first + ChunkSize * f[d]
  BY ChunkNumber DEF IInv
<1> HIDE DEF N
<1>3. f \in [Chunks -> N]
  BY <1>2
<1>4. \A d, e \in Chunks : f[d] = f[e] => d = e
  BY <1>2
<1> HIDE DEF f
<1>5. f \in Injection(Chunks, N)
  BY <1>3, <1>4 DEF Injection, IsInjective
<1>6. IsFiniteSet(Chunks) /\ Cardinality(Chunks) <= PoolSize
  BY <1>1, <1>5, FS_Injection
<1>7. conn \subseteq Chunks /\ conn # Chunks
  BY DEF IInv, IdleInv, TypeOK
<1>8. Cardinality(conn) <= Cardinality(Chunks) /\ Cardinality(conn) # Cardinality(Chunks)
  BY <1>6, <1>7, FS_Subset
<1>9. Cardinality(conn) \in Nat /\ Cardinality(Chunks) \in Nat
  BY <1>6, ConnFinite, FS_CardinalityType DEF IInv
<1> QED BY <1>6, <1>8, <1>9, UnitOfWorkAssumption DEF IInv, PoolKept, TypeOK

\* Only the token of another chunk keeps a statement waiting.
LEMMA WhatWaits == ASSUME IInv, LiveInv, NEW c \in Blocks, queue[c] # << >>, Waits(c, Head(queue[c]))
                   PROVE  WaitsForToken
<1> DEFINE s == Head(queue[c])
           a == s[2]
<1>1. c \in Chunks /\ a \in BlocksOf(c) /\ a \in Blocks /\ s = Insert(s[1], a)
      /\ s[1] \in {"block", "details", "token"}
  BY NextInsert, NextStatement, InsertKinds DEF Waits
<1>2. PICK d \in Blocks \ {c} : RowOf(s) \in written[d]
  BY DEF Waits
<1>3. d \in Chunks
  BY <1>2 DEF IInv, ActiveInv, IdleInv
<1>4. RowOf(s) \in ({"block", "details"} \X BlocksOf(d)) \cup ({"token"} \X Tokens)
  BY <1>2, <1>3 DEF IInv, ChunkInv, TxnOk
<1>5. s[1] = "token"
  <2> SUFFICES ASSUME s[1] # "token" PROVE FALSE
    OBVIOUS
  <2>1. RowOf(s) = <<s[1], a>>
    BY <1>1 DEF RowOf, Insert
  <2>2. a \in BlocksOf(d)
    BY <1>1, <1>4, <2>1
  <2> QED BY <1>1, <1>2, <1>3, <2>2, BlocksApart DEF IInv
<1>6. RowOf(s) = <<"token", tokenOf[a]>>
  BY <1>5 DEF RowOf
<1>7. tokenOf[a] \in Tokens
  BY <1>4, <1>6
<1>8. PICK b \in BlocksOf(d) : tokenOf[b] = tokenOf[a]
  BY <1>2, <1>3, <1>6, <1>7 DEF LiveInv, LiveOk, TokensOk
<1>9. tokenOf[a] # NoToken
  BY <1>7 DEF Tokens
<1> HIDE DEF a
<1>10. s = Insert("token", a)
  BY <1>1, <1>5
<1> QED BY <1>1, <1>2, <1>3, <1>6, <1>8, <1>9, <1>10 DEF WaitsForToken

LEMMA NeverStuck == ASSUME IInv, LiveInv, EnoughConnections
                    PROVE  NobodyStuck
<1> SUFFICES ASSUME Stored # Blocks, ~SomebodyGoesOn, ~WaitsForToken PROVE FALSE
  BY DEF NobodyStuck
<1>1. \A c \in Blocks : queue[c] = << >>
  BY WhatWaits DEF SomebodyGoesOn
<1>2. \A b \in Blocks : task[b] # "calling"
  BY DEF SomebodyGoesOn
<1>3. ASSUME NEW c \in Chunks
      PROVE  unit[c] \in {"done", "failed"} /\ ending[c] \notin Closing
  <2>1. c \in Blocks /\ BlocksOf(c) \subseteq Blocks /\ queue[c] = << >>
    BY <1>1, ChunkBounds DEF IInv
  <2>2. ChunkInv(c) /\ LiveOk(c)
    BY DEF IInv, LiveInv
  <2>3. ending[c] \notin Closing
    BY <2>1, <2>2 DEF ChunkInv, EndOk, EndsWith
  <2>4. unit[c] \notin {"none", "beginning", "failing"}
    BY <2>1, <2>2, <2>3 DEF ChunkInv, StartOk, EndOk, Closing
  <2>5. unit[c] # "acting"
    <3> SUFFICES ASSUME unit[c] = "acting" PROVE FALSE
      OBVIOUS
    <3>1. PICK b \in BlocksOf(c) : task[b] \notin {"none", "failed", "done"}
      BY <2>2 DEF LiveOk, ActingOk
    <3>2. task[b] \in {"block", "details", "token"}
      BY <1>2, <2>1, <3>1, TaskType DEF Tasks
    <3> QED BY <2>1, <2>2, <3>2 DEF LiveOk, SentOk, Sent
  <2>6. unit[c] # "connecting"
    BY <2>1, <2>2, ConnectionLeft DEF ChunkInv, StartOk, SomebodyGoesOn
  <2> QED BY <2>1, <2>3, <2>4, <2>5, <2>6 DEF IInv, TypeOK
<1>4. \A c \in Chunks : ending[c] # "open" => Released(c)
  BY <1>3, ChunkBounds DEF Closing, Released, IInv, TypeOK
<1>5. CASE main = "waiting"
  <2>1. PICK m \in 0 .. MaxBlock : Stored = 1 .. m
    BY DEF IInv, StoredInv
  <2>2. LastStored < MaxBlock
    BY <2>1, LastStoredIs, UnitOfWorkAssumption DEF Blocks
  <2>3. Settled
    BY <1>1, <1>2, <1>3, ChunkBounds DEF Settled, IInv
  <2> QED BY <1>5, <2>2, <2>3 DEF SomebodyGoesOn, MainGoesOn
<1>6. CASE main = "executing"
  BY <1>3, <1>6 DEF SomebodyGoesOn, MainGoesOn
<1>7. CASE main = "committing"
  <2>1. next \in Chunks /\ ending[next] # "open"
    BY <1>7 DEF IInv, StoredInv
  <2> QED BY <1>4, <1>7, <2>1 DEF SomebodyGoesOn, MainGoesOn
<1>8. CASE main = "rollingBack"
  BY <1>4, <1>8 DEF SomebodyGoesOn, MainGoesOn, IInv, ChunkInv, MainOk
<1> QED BY <1>5, <1>6, <1>7, <1>8 DEF IInv, TypeOK

\* As long as a block is missing, the worker, a chunk, the database or the
\* chain can go on, or a chunk waits for a token of another one: no failure,
\* rollback or release leaves the chunks waiting for each other otherwise.
THEOREM NothingHangs == ASSUME Calm, EnoughConnections PROVE Spec => []NobodyStuck
<1>1. Init => LiveInv
  BY InitLive
<1>2. IInv /\ LiveInv /\ [Next]_vars => LiveInv'
  BY LiveNext
<1>3. IInv /\ LiveInv => NobodyStuck
  BY NeverStuck
<1> QED BY <1>1, <1>2, <1>3, Inductive, PTL DEF Spec
============================================================================
