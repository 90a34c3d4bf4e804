---------------------------- MODULE UnitOfWork ----------------------------
(***************************************************************************)
(* How packages/worker writes a range of blocks: BlockProcessor splits the *)
(* range into chunks, UnitOfWork.useTransaction runs one database          *)
(* transaction per chunk, all of them at once, and the chunks are          *)
(* committed one after the other once all have run.                        *)
(*                                                                         *)
(* One statement is one step.  A connection runs its statements in the     *)
(* order they were issued, each when the one before it is answered; the    *)
(* answer runs what awaits it, up to the next statement, in that step.     *)
(* Statements of different connections interleave, wait for each other's   *)
(* row locks, and fail; connections break; the process may die.            *)
(*                                                                         *)
(* Of a block, the row of `blocks` is one statement, the rows that refer   *)
(* to it are a second, and the token that saveERC20Tokens adds, when its   *)
(* contract is known and the token is not, a third, after a call to the    *)
(* chain.  Blocks of a chunk share a connection and are written side by    *)
(* side.                                                                   *)
(***************************************************************************)
EXTENDS Integers, FiniteSets, Sequences

CONSTANTS
    MaxBlock,     \* the height of the chain
    BatchSize,    \* config blocks.blocksProcessingBatchSize
    ChunkSize,    \* config blocks.numberOfBlocksPerDbTransaction
    PoolSize,     \* poolSize of the data source
    NoToken,      \* a block whose balances need no new token
    TokenChoices, \* the functions from blocks to the token they add, or NoToken
    EarlyFaults,  \* a range of several chunks may fail before all have begun
    MaxFaults     \* bound on the failures

Blocks == 1 .. MaxBlock

ASSUME UnitOfWorkAssumption ==
    /\ MaxBlock \in Nat
    /\ BatchSize \in Nat \ {0}
    /\ ChunkSize \in Nat \ {0}
    /\ PoolSize \in Nat \ {0}
    /\ \A f \in TokenChoices : DOMAIN f = Blocks
    /\ EarlyFaults \in BOOLEAN
    /\ MaxFaults \in Nat

VARIABLES
    rows,     \* the committed rows
    main,     \* where processNextBlocksRange is
    first, last, \* the range; empty when last < first
    next,     \* the chunk being committed
    unit,     \* chunk -> where its executionPromise is
    ending,   \* chunk -> what commit or rollback has done
    task,     \* block -> where its addBlock is
    pool,     \* the free connections
    conn,     \* the chunks whose query runner holds a connection
    queue,    \* chunk -> the statements its connection has still to run
    txn,      \* chunk -> the transaction of its connection
    written,  \* chunk -> the rows of that transaction
    tokenOf,  \* block -> the token its balances need
    faults

chunkVars  == <<unit, ending, task>>
connVars   == <<pool, conn, queue>>
serverVars == <<rows, txn, written>>
mainVars   == <<main, first, last, next>>
vars == <<chunkVars, connVars, serverVars, mainVars, tokenOf, faults>>

Min2(a, b) == IF a <= b THEN a ELSE b

Begin    == <<"BEGIN", 0>>
Commit   == <<"COMMIT", 0>>
Rollback == <<"ROLLBACK", 0>>
Insert(kind, b) == <<kind, b>>
IsInsert(s) == s[1] \in {"block", "details", "token"}

Statements == {Begin, Commit, Rollback} \cup ({"block", "details", "token"} \X Blocks)

Tokens == {f[b] : f \in TokenChoices, b \in Blocks} \ {NoToken}

\* The row an insert writes: a token's row is shared by all who add it.
RowOf(s) == IF s[1] = "token" THEN <<"token", tokenOf[s[2]]>> ELSE s

AllRows == ({"block", "details"} \X Blocks) \cup ({"token"} \X Tokens)

(***************************************************************************)
(* splitIntoChunks: a chunk is known by its first block.                   *)
(***************************************************************************)
ChunksOf(from, to) == {n \in from .. to : (n - from) % ChunkSize = 0}
Chunks == ChunksOf(first, last)

\* Mutant: the slice of a chunk leaves out its last block.
EndOfOneShort(c) == Min2(c + ChunkSize - 2, last)

EndOf(c) == Min2(c + ChunkSize - 1, last)
BlocksOf(c) == c .. EndOf(c)
ChunkOf(b) == b - ((b - first) % ChunkSize)

Stored == {b \in Blocks : <<"block", b>> \in rows}
LastStored == IF Stored = {} THEN 0 ELSE CHOOSE b \in Stored : \A a \in Stored : a <= b

\* typeorm: the query runner was released and takes no more queries.
Released(c) == ending[c] \in {"committed", "rolledBack"}

(***************************************************************************)
(* The failures.  With EarlyFaults FALSE nothing fails between the start   *)
(* of a range of several chunks and the moment all have begun; a range of  *)
(* one chunk, which is what the default configuration makes, fails         *)
(* anywhere.                                                               *)
(***************************************************************************)
AllBegun == \A c \in Chunks : unit[c] \notin {"connecting", "beginning"}

OneChunk == \A c, d \in Chunks : c = d

MayFail == /\ faults < MaxFaults
           /\ EarlyFaults \/ AllBegun \/ OneChunk

Fault == MayFail /\ faults' = faults + 1

-----------------------------------------------------------------------------
TypeOK ==
    /\ rows \subseteq AllRows
    /\ main \in {"waiting", "executing", "committing", "rollingBack"}
    /\ first \in Nat
    /\ last \in Nat
    /\ main = "committing" => next \in Chunks
    /\ unit \in [Blocks -> {"none", "connecting", "beginning", "acting",
                            "failing", "done", "failed"}]
    /\ ending \in [Blocks -> {"open", "committing", "undoing", "rollingBack",
                              "committed", "rolledBack"}]
    /\ task \in [Blocks -> {"none", "block", "details", "calling", "token",
                            "done", "failed"}]
    /\ pool \in 0 .. PoolSize
    /\ conn \subseteq Blocks
    /\ queue \in [Blocks -> Seq(Statements)]
    /\ txn \in [Blocks -> {"none", "active", "aborted", "dead"}]
    /\ written \in [Blocks -> SUBSET AllRows]
    /\ tokenOf \in TokenChoices
    /\ faults \in 0 .. MaxFaults

\* No chunk holds a connection or has work to do.
NoChunk == [unit |-> "none", ending |-> "open", queue |-> << >>, txn |-> "none",
            written |-> {}, task |-> "none"]

Each(field) == [c \in Blocks |-> NoChunk[field]]

Init ==
    /\ rows = {}
    /\ main = "waiting"
    /\ first = 1
    /\ last = 0
    /\ next = 1
    /\ unit = Each("unit")
    /\ ending = Each("ending")
    /\ task = Each("task")
    /\ pool = PoolSize
    /\ conn = {}
    /\ queue = Each("queue")
    /\ txn = Each("txn")
    /\ written = Each("written")
    /\ tokenOf \in TokenChoices
    /\ faults = 0

-----------------------------------------------------------------------------
(***************************************************************************)
(* processNextBlocksRange.                                                 *)
(***************************************************************************)
\* Nothing of the last range is under way.  After a failure the worker waits
\* for seconds, and more each time: what was left behind has ended by then.
Settled == /\ \A c \in Chunks : unit[c] \in {"done", "failed"} /\ queue[c] = << >>
           /\ \A b \in Blocks : task[b] # "calling"

StartRange ==
    LET from == LastStored + 1
        to == Min2(MaxBlock, from + BatchSize - 1)
    IN  /\ main = "waiting"
        /\ Settled
        /\ from <= to
        /\ main' = "executing"
        /\ first' = from
        /\ last' = to
        /\ unit' = [c \in Blocks |-> IF c \in ChunksOf(from, to) THEN "connecting" ELSE "none"]
        /\ ending' = Each("ending")
        /\ task' = Each("task")
        /\ UNCHANGED <<next, connVars, serverVars, tokenOf, faults>>

\* commit of chunk c: the flag isReleased is set and COMMIT is issued.
IssueCommit(c) ==
    /\ ending' = [ending EXCEPT ![c] = "committing"]
    /\ queue' = [queue EXCEPT ![c] = Append(@, Commit)]

\* Mutant: Promise.all of the commits, as that of the executions.
RangeExecutedCommitAll ==
    /\ main = "executing"
    /\ \A c \in Chunks : unit[c] = "done"
    /\ main' = "committing"
    /\ next' = first
    /\ ending' = [c \in Blocks |-> IF c \in Chunks THEN "committing" ELSE ending[c]]
    /\ queue' = [c \in Blocks |-> IF c \in Chunks THEN Append(queue[c], Commit) ELSE queue[c]]
    /\ UNCHANGED <<first, last, unit, task, pool, conn, serverVars, tokenOf, faults>>

RangeExecuted ==
    /\ main = "executing"
    /\ \A c \in Chunks : unit[c] = "done"
    /\ main' = "committing"
    /\ next' = first
    /\ IssueCommit(first)
    /\ UNCHANGED <<first, last, unit, task, pool, conn, serverVars, tokenOf, faults>>

\* Mutant: the last chunk is not recognised.
CommitNextPastEnd ==
    /\ main = "committing"
    /\ ending[next] = "committed"
    /\ next' = next + ChunkSize
    /\ ending' = ending
    /\ UNCHANGED <<main, first, last, unit, task, connVars, serverVars, tokenOf, faults>>

CommitNext ==
    /\ main = "committing"
    /\ ending[next] = "committed"
    /\ next + ChunkSize \in Chunks
    /\ next' = next + ChunkSize
    /\ IssueCommit(next + ChunkSize)
    /\ UNCHANGED <<main, first, last, unit, task, pool, conn, serverVars, tokenOf, faults>>

RangeDone ==
    /\ main = "committing"
    /\ ending[next] = "committed"
    /\ next + ChunkSize \notin Chunks
    /\ main' = "waiting"
    /\ UNCHANGED <<first, last, next, chunkVars, connVars, serverVars, tokenOf, faults>>

\* Mutant: the catch of processNextBlocksRange only throws.
RangeFailsNoRollback ==
    /\ \/ main = "executing" /\ \E c \in Chunks : unit[c] = "failed"
       \/ main = "committing" /\ ending[next] = "rolledBack"
    /\ main' = "waiting"
    /\ UNCHANGED <<first, last, next, chunkVars, connVars, serverVars, tokenOf, faults>>

\* The catch: ensureRollbackIfNotCommitted of every chunk.  A chunk that has
\* no transaction yet throws, and releases a runner that may be connecting.
RangeFails ==
    LET open == {c \in Chunks : ending[c] = "open"}
    IN  /\ \/ main = "executing" /\ \E c \in Chunks : unit[c] = "failed"
           \/ main = "committing" /\ ending[next] = "rolledBack"
        /\ main' = IF open \subseteq conn THEN "rollingBack" ELSE "waiting"
        /\ ending' = [c \in Blocks |->
                        IF c \notin open THEN ending[c]
                        ELSE IF c \in conn THEN "rollingBack" ELSE "rolledBack"]
        /\ queue' = [c \in Blocks |-> IF c \in open \cap conn
                                      THEN Append(queue[c], Rollback) ELSE queue[c]]
        /\ UNCHANGED <<first, last, next, unit, task, pool, conn, serverVars, tokenOf, faults>>

RangeThrown ==
    /\ main = "rollingBack"
    /\ \A c \in Chunks : Released(c)
    /\ main' = "waiting"
    /\ UNCHANGED <<first, last, next, chunkVars, connVars, serverVars, tokenOf, faults>>

-----------------------------------------------------------------------------
(***************************************************************************)
(* useTransaction: connect and startTransaction, outside the try.          *)
(***************************************************************************)
\* A runner that was released meanwhile keeps its connection for ever.
Connect(c) ==
    /\ unit[c] = "connecting"
    /\ pool > 0
    /\ pool' = pool - 1
    /\ unit' = [unit EXCEPT ![c] = IF Released(c) THEN "failed" ELSE "beginning"]
    /\ conn' = IF Released(c) THEN conn ELSE conn \cup {c}
    /\ queue' = [queue EXCEPT ![c] = IF Released(c) THEN @ ELSE Append(@, Begin)]
    /\ txn' = [txn EXCEPT ![c] = "none"]
    /\ UNCHANGED <<mainVars, ending, task, rows, written, tokenOf, faults>>

ConnectFails(c) ==
    /\ unit[c] = "connecting"
    /\ Fault
    /\ unit' = [unit EXCEPT ![c] = "failed"]
    /\ UNCHANGED <<mainVars, ending, task, connVars, serverVars, tokenOf>>

-----------------------------------------------------------------------------
(***************************************************************************)
(* The database runs the first statement of a connection.                  *)
(***************************************************************************)
Visible(c) == rows \cup written[c]

\* Mutant: transactions, logs and transfers without a foreign key to the block.
AcceptsNoForeignKey(c, s) == s[1] # "token" => RowOf(s) \notin Visible(c)

\* The foreign key of what refers to a block; the primary keys.
Accepts(c, s) ==
    /\ s[1] = "details" => <<"block", s[2]>> \in Visible(c)
    /\ s[1] # "token" => RowOf(s) \notin Visible(c)

\* A row that another open transaction has written.
Waits(c, s) == IsInsert(s) /\ \E d \in Blocks \ {c} : RowOf(s) \in written[d]

Refuses(c, s) ==
    \/ txn[c] = "dead"
    \/ IsInsert(s) /\ (txn[c] = "aborted" \/ ~Accepts(c, s))

\* COMMIT ends an aborted transaction without an error; without a transaction
\* a statement commits by itself.
Apply(c, s) ==
    /\ txn' = [txn EXCEPT ![c] = IF s = Begin THEN "active"
                                 ELSE IF IsInsert(s) THEN @ ELSE "none"]
    /\ written' = [written EXCEPT ![c] =
                     IF ~IsInsert(s) THEN {}
                     ELSE IF txn[c] = "active" THEN @ \cup {RowOf(s)} ELSE @]
    /\ rows' = IF s = Commit THEN rows \cup written[c]
               ELSE IF IsInsert(s) /\ txn[c] = "none" THEN rows \cup {RowOf(s)}
               ELSE rows

\* An error aborts the transaction, and its locks are gone.
Refuse(c, s) ==
    /\ txn' = [txn EXCEPT ![c] = IF @ = "dead" THEN @
                                 ELSE IF IsInsert(s) /\ @ # "none" THEN "aborted"
                                 ELSE "none"]
    /\ written' = [written EXCEPT ![c] = {}]
    /\ UNCHANGED rows

-----------------------------------------------------------------------------
(***************************************************************************)
(* What awaits the answer.                                                 *)
(***************************************************************************)
\* Block b of chunk c has failed: the action fails, and rolls back unless that
\* was done, or is being done, from outside.  q is the rest of the queue.
TaskFails(c, b, q) ==
    LET own == unit[c] = "acting" /\ ending[c] = "open"
    IN  /\ task' = [task EXCEPT ![b] = "failed"]
        /\ unit' = [unit EXCEPT ![c] = IF own THEN "failing"
                                       ELSE IF @ = "acting" THEN "failed" ELSE @]
        /\ ending' = [ending EXCEPT ![c] = IF own THEN "rollingBack" ELSE @]
        /\ queue' = [queue EXCEPT ![c] = IF own THEN Append(q, Rollback) ELSE q]

\* addBlock(b) goes on to step t, which issues a statement or ends it.
TaskIssues(c, b, t, q) ==
    IF Released(c) THEN TaskFails(c, b, q)
    ELSE /\ task' = [task EXCEPT ![b] = t]
         /\ queue' = [queue EXCEPT ![c] = Append(q, Insert(t, b))]
         /\ UNCHANGED <<unit, ending>>

\* Promise.all over the blocks of the chunk, once b is done.
AllDone(c, b) == \A a \in BlocksOf(c) \ {b} : task[a] = "done"

TaskDone(c, b, q) ==
    /\ task' = [task EXCEPT ![b] = "done"]
    /\ unit' = [unit EXCEPT ![c] = IF @ = "acting" /\ AllDone(c, b) THEN "done" ELSE @]
    /\ queue' = [queue EXCEPT ![c] = q]
    /\ UNCHANGED ending

\* saveERC20Tokens finds no row of the token.
NeedsToken(c, b) == /\ tokenOf[b] # NoToken
                    /\ <<"token", tokenOf[b]>> \notin Visible(c)

InsertAnswered(c, s, q) ==
    LET b == s[2]
    IN  CASE s[1] = "block"   -> TaskIssues(c, b, "details", q)
          [] s[1] = "details" /\ NeedsToken(c, b) ->
               /\ task' = [task EXCEPT ![b] = "calling"]
               /\ queue' = [queue EXCEPT ![c] = q]
               /\ UNCHANGED <<unit, ending>>
          [] OTHER            -> TaskDone(c, b, q)

\* startTransaction is done: every addBlock of the chunk issues its first insert.
ActionStarts(c, q) ==
    /\ unit' = [unit EXCEPT ![c] = "acting"]
    /\ task' = [b \in Blocks |-> IF b \in BlocksOf(c) THEN "block" ELSE task[b]]
    /\ queue' = [queue EXCEPT ![c] =
                   q \o [i \in 1 .. EndOf(c) - c + 1 |-> Insert("block", c + i - 1)]]
    /\ UNCHANGED ending

\* Mutant: release is in the try of commit, not in a finally.
ReleaseNotFinally(c, how, q) ==
    /\ ending' = [ending EXCEPT ![c] = how]
    /\ unit' = [unit EXCEPT ![c] = IF @ = "failing" THEN "failed" ELSE @]
    /\ conn' = conn \ {c}
    /\ pool' = IF how = "committed" THEN pool + 1 ELSE pool
    /\ queue' = [queue EXCEPT ![c] = q]
    /\ UNCHANGED task

\* release, after COMMIT or ROLLBACK.
Release(c, how, q) ==
    /\ ending' = [ending EXCEPT ![c] = how]
    /\ unit' = [unit EXCEPT ![c] = IF @ = "failing" THEN "failed" ELSE @]
    /\ conn' = conn \ {c}
    /\ pool' = pool + 1
    /\ queue' = [queue EXCEPT ![c] = q]
    /\ UNCHANGED task

Answered(c, s) ==
    LET q == Tail(queue[c])
    IN  IF s = Commit THEN Release(c, "committed", q)
        ELSE IF s = Rollback THEN Release(c, "rolledBack", q)
        ELSE /\ IF s = Begin THEN ActionStarts(c, q) ELSE InsertAnswered(c, s, q)
             /\ UNCHANGED <<pool, conn>>

\* The error of COMMIT makes commit roll back; that of ROLLBACK still releases.
Rejected(c, s) ==
    LET q == Tail(queue[c])
    IN  IF s = Rollback THEN Release(c, "rolledBack", q)
        ELSE /\ CASE s = Begin -> /\ unit' = [unit EXCEPT ![c] = "failed"]
                                  /\ queue' = [queue EXCEPT ![c] = q]
                                  /\ UNCHANGED <<ending, task>>
                  [] s = Commit -> /\ ending' = [ending EXCEPT ![c] = "undoing"]
                                   /\ queue' = [queue EXCEPT ![c] = Append(q, Rollback)]
                                   /\ UNCHANGED <<unit, task>>
                  [] OTHER -> TaskFails(c, s[2], q)
             /\ UNCHANGED <<pool, conn>>

-----------------------------------------------------------------------------
Execute(c) ==
    /\ queue[c] # << >>
    /\ LET s == Head(queue[c])
       IN  /\ ~Waits(c, s)
           /\ IF Refuses(c, s) THEN Refuse(c, s) /\ Rejected(c, s)
              ELSE Apply(c, s) /\ Answered(c, s)
    /\ UNCHANGED <<mainVars, tokenOf, faults>>

\* The database answers a statement with an error.
StatementFails(c) ==
    /\ queue[c] # << >>
    /\ Head(queue[c]) # Rollback
    /\ txn[c] # "dead"
    /\ Fault
    /\ Refuse(c, Head(queue[c]))
    /\ Rejected(c, Head(queue[c]))
    /\ UNCHANGED <<mainVars, tokenOf>>

\* A COMMIT that is under way when its connection breaks took effect or not.
CommitLands(c) == /\ queue[c] # << >>
                  /\ Head(queue[c]) = Commit
                  /\ txn[c] = "active"

LandedRows == {rows} \cup {rows \cup written[c] : c \in {d \in Chunks : CommitLands(d)}}

LoseConnection(c) ==
    /\ c \in conn
    /\ txn[c] # "dead"
    /\ Fault
    /\ rows' \in IF CommitLands(c) THEN LandedRows ELSE {rows}
    /\ txn' = [txn EXCEPT ![c] = "dead"]
    /\ written' = [written EXCEPT ![c] = {}]
    /\ UNCHANGED <<mainVars, chunkVars, connVars, tokenOf>>

\* The chain answers getERC20TokenData.  A call that fails, or whose answer is
\* no token, saves nothing: getERC20Token catches it.
TokenCalled(b) ==
    /\ task[b] = "calling"
    /\ TaskIssues(ChunkOf(b), b, "token", queue[ChunkOf(b)])
    /\ UNCHANGED <<mainVars, pool, conn, serverVars, tokenOf, faults>>

TokenCallFails(b) ==
    /\ task[b] = "calling"
    /\ Fault
    /\ TaskDone(ChunkOf(b), b, queue[ChunkOf(b)])
    /\ UNCHANGED <<mainVars, pool, conn, serverVars, tokenOf>>

\* The process dies and starts again.
Crash ==
    /\ main # "waiting"
    /\ faults < MaxFaults
    /\ faults' = faults + 1
    /\ rows' \in LandedRows
    /\ main' = "waiting"
    /\ first' = 1
    /\ last' = 0
    /\ next' = 1
    /\ unit' = Each("unit")
    /\ ending' = Each("ending")
    /\ task' = Each("task")
    /\ pool' = PoolSize
    /\ conn' = {}
    /\ queue' = Each("queue")
    /\ txn' = Each("txn")
    /\ written' = Each("written")
    /\ UNCHANGED tokenOf

-----------------------------------------------------------------------------
Main == StartRange \/ RangeExecuted \/ CommitNext \/ RangeDone \/ RangeFails \/ RangeThrown

Next ==
    \/ Main
    \/ \E c \in Blocks : \/ Connect(c) \/ ConnectFails(c) \/ Execute(c)
                         \/ StatementFails(c) \/ LoseConnection(c)
    \/ \E b \in Blocks : TokenCalled(b) \/ TokenCallFails(b)
    \/ Crash

(***************************************************************************)
(* The event loop runs what is ready, the pool serves who waits for it,    *)
(* the database runs what it was sent and the chain answers.               *)
(***************************************************************************)
Fairness ==
    /\ WF_vars(Main)
    /\ \A c \in Blocks : WF_vars(Connect(c)) /\ WF_vars(Execute(c))
    /\ \A b \in Blocks : WF_vars(TokenCalled(b))

Spec == Init /\ [][Next]_vars /\ Fairness

-----------------------------------------------------------------------------
(***************************************************************************)
(* A block is in the database with everything that refers to it or not at  *)
(* all, whatever failed while its chunk, or a sibling chunk, was running:  *)
(* no statement that outlives a ROLLBACK on its connection leaves a part.  *)
(***************************************************************************)
WholeBlocks == \A b \in Blocks : <<"block", b>> \in rows <=> <<"details", b>> \in rows

(***************************************************************************)
(* Every connection of the pool is free or in use by one chunk: neither a  *)
(* failing COMMIT, nor a broken connection, nor a rollback from outside    *)
(* while the chunk runs loses one or gives one back twice.                 *)
(***************************************************************************)
PoolKept == pool + Cardinality(conn) = PoolSize

(***************************************************************************)
(* "sequentially commit transactions to preserve blocks order in DB": the  *)
(* statements, failures and crashes of all chunks together add blocks only *)
(* at the end, one whole chunk of the range under way at a time, and none  *)
(* once the range has failed, until the next one is planned from what is   *)
(* stored.                                                                 *)
(***************************************************************************)
UnderWay == main \in {"executing", "committing"}

Store == INSTANCE ChunkStore WITH
    stored <- Stored,
    from <- IF UnderWay THEN first ELSE 1,
    to <- IF UnderWay THEN last ELSE 0

StoredByChunks == Store!Spec

(***************************************************************************)
(* No state hangs.  As long as a block is missing, somebody can go on: the *)
(* worker, a chunk that gets a connection, the database or the chain; but  *)
(* for one reason.  A chunk waits for the token that a block of another    *)
(* chunk of the range has added: "Promise.all" of the chunks and the       *)
(* commits after it make the second chunk wait for the first one's COMMIT, *)
(* and that COMMIT for the second chunk.  It takes a connection for every  *)
(* chunk of a range: a chunk keeps its own until all of them have run.     *)
(***************************************************************************)
MainGoesOn ==
    \/ main = "waiting" /\ Settled /\ LastStored < MaxBlock
    \/ main = "executing" /\ (\A c \in Chunks : unit[c] = "done")
    \/ main = "executing" /\ (\E c \in Chunks : unit[c] = "failed")
    \/ main = "committing" /\ Released(next)
    \/ main = "rollingBack" /\ (\A c \in Chunks : Released(c))

SomebodyGoesOn ==
    \/ MainGoesOn
    \/ \E c \in Blocks : unit[c] = "connecting" /\ pool > 0
    \/ \E c \in Blocks : queue[c] # << >> /\ ~Waits(c, Head(queue[c]))
    \/ \E b \in Blocks : task[b] = "calling"

WaitsForToken ==
    \E c, d \in Chunks : \E a \in BlocksOf(c), b \in BlocksOf(d) :
        /\ c # d
        /\ queue[c] # << >> /\ Head(queue[c]) = Insert("token", a)
        /\ tokenOf[a] # NoToken /\ tokenOf[a] = tokenOf[b]
        /\ <<"token", tokenOf[b]>> \in written[d]

NobodyStuck == Stored = Blocks \/ SomebodyGoesOn \/ WaitsForToken

(***************************************************************************)
(* Once failures end, every block of the chain is stored, unless blocks of *)
(* different chunks add the same token: then the second chunk waits for    *)
(* the row lock of the first, whose COMMIT waits for the second to run.    *)
(***************************************************************************)
SharesToken ==
    \E a, b \in Blocks : /\ tokenOf[a] # NoToken
                         /\ tokenOf[a] = tokenOf[b]
                         /\ (a - 1) \div ChunkSize # (b - 1) \div ChunkSize

CatchesUp == ~SharesToken => <>(Stored = Blocks)
============================================================================
