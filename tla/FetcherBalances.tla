--------------------------- MODULE FetcherBalances --------------------------
(***************************************************************************)
(* How the data fetcher collects the balances a block has changed.         *)
(*                                                                         *)
(* A request for a block reads its transactions at the same time.  Each    *)
(* adds the balances it touches to BalanceService.changedBalances, a map   *)
(* by block number that all requests share; when all have been read, the   *)
(* request asks for these balances, and deletes the entry of the block.    *)
(* A transaction that throws fails its request at once, while the others   *)
(* are still being read.                                                   *)
(*                                                                         *)
(* Entries of different blocks do not touch: there is one block here, and  *)
(* the worker that asks for it until it gets an answer.  The block is the  *)
(* same whenever it is read.                                               *)
(***************************************************************************)
EXTENDS Integers, FiniteSets

CONSTANTS
    Request,      \* slots of requests that may be under way at the same time
    Tx,           \* transactions
    Balance,      \* (address, token) pairs
    Scenario,     \* blocks with how they are asked for, see below
    Unreadable,   \* balances for which balanceOf fails for good
    Object,       \* identities of entries of the map (JavaScript objects)
    None          \* no request, no object

\* touches: the balances that the transfers of each transaction of the block
\* change; slots: the requests that may be under way; overlap: whether the
\* worker may give up a request that is still under way.  There are always
\* more objects than requests that can hold one.
ASSUME FetcherAssumption ==
    /\ \A s \in Scenario :
        /\ DOMAIN s.touches \subseteq Tx
        /\ \A t \in DOMAIN s.touches : s.touches[t] \subseteq Balance
        /\ s.slots \subseteq Request
        /\ s.overlap \in BOOLEAN
    /\ Unreadable \subseteq Balance
    /\ None \notin Request /\ None \notin Object
    /\ \A f \in [Request -> Object \cup {None}] : \E o \in Object : \A r \in Request : f[r] # o

VARIABLES
    scenario,     \* the block and how it is asked for, never changes
    state,        \* of a request: free, reading, asking, over
    stage,        \* of the transactions of a request: reading, tracked, ended
    entry,        \* changedBalances.get(blockNumber)
    content,      \* what an object maps to a balance, or to undefined
    ref,          \* blockChangedBalances of a request that awaits the balances
    keys,         \* the balances it asks for
    waiting,      \* the request the worker waits for
    answer        \* changedBalances of the answer the worker got, None before

vars == <<scenario, state, stage, entry, content, ref, keys, waiting, answer>>

-----------------------------------------------------------------------------
Read == "read"
Undefined == "undefined"

NoBalances == [b \in {} |-> Read]

\* f with the value v for all of S.
Put(f, S, v) == [b \in DOMAIN f \cup S |-> IF b \in S THEN v ELSE f[b]]

Without(f, S) == [b \in DOMAIN f \ S |-> f[b]]

BlockTx == DOMAIN scenario.touches

Init ==
    /\ scenario \in Scenario
    /\ state = [r \in Request |-> "free"]
    /\ stage = [r \in Request |-> [t \in Tx |-> "ended"]]
    /\ entry = None
    /\ content = [o \in Object |-> NoBalances]
    /\ ref = [r \in Request |-> None]
    /\ keys = [r \in Request |-> {}]
    /\ waiting = None
    /\ answer = None

-----------------------------------------------------------------------------
(***************************************************************************)
(* The worker: one request at a time, retried until it is answered.        *)
(***************************************************************************)
Send(r) ==
    /\ r \in scenario.slots
    /\ waiting = None /\ answer = None
    /\ state[r] = "free"
    /\ waiting' = r
    /\ state' = [state EXCEPT ![r] = "reading"]
    /\ stage' = [stage EXCEPT ![r] = [t \in Tx |-> IF t \in BlockTx THEN "reading" ELSE "ended"]]
    /\ UNCHANGED <<entry, content, ref, keys, answer>>

\* Mutant: the request has no timeout of its own.
GiveUpRunning ==
    /\ waiting # None
    /\ state[waiting] # "over" /\ scenario.overlap
    /\ waiting' = None
    /\ UNCHANGED <<state, stage, entry, content, ref, keys, answer>>

\* The request timeout of the worker, which the data fetcher does not notice:
\* the response was lost, or the request is still under way.
GiveUp ==
    /\ waiting # None
    /\ state[waiting] = "over" \/ scenario.overlap
    /\ waiting' = None
    /\ UNCHANGED <<state, stage, entry, content, ref, keys, answer>>

\* A slot is free again when nothing of its request is left running.
Release(r) ==
    /\ state[r] = "over" /\ waiting # r
    /\ \A t \in Tx : stage[r][t] = "ended"
    /\ state' = [state EXCEPT ![r] = "free"]
    /\ UNCHANGED <<stage, entry, content, ref, keys, waiting, answer>>

-----------------------------------------------------------------------------
(***************************************************************************)
(* The data fetcher.                                                       *)
(***************************************************************************)
\* An object that nothing refers to.
Unused == Object \ ({entry} \cup {ref[r] : r \in Request})

\* trackChangedBalances for the transfers of t, into the entry or a new one.
\* A request that has failed does not keep its transactions from doing this.
Track(r, t) ==
    /\ stage[r][t] = "reading"
    /\ stage' = [stage EXCEPT ![r][t] = "tracked"]
    /\ IF scenario.touches[t] = {}
       THEN UNCHANGED <<entry, content>>
       ELSE LET o == IF entry = None THEN CHOOSE u \in Unused : TRUE ELSE entry
                old == IF entry = None THEN NoBalances ELSE content[entry]
            IN  /\ entry' = o
                /\ content' = [content EXCEPT ![o] = Put(old, scenario.touches[t], Undefined)]
    /\ UNCHANGED <<state, ref, keys, waiting, answer>>

\* The rest of reading t: its contracts and tokens.
EndTx(r, t) ==
    /\ stage[r][t] = "tracked"
    /\ stage' = [stage EXCEPT ![r][t] = "ended"]
    /\ UNCHANGED <<state, entry, content, ref, keys, waiting, answer>>

\* The finally clause of getData, and the response, if anybody waits for it.
Respond(r, balances) ==
    /\ entry' = None
    /\ state' = [state EXCEPT ![r] = "over"]
    /\ IF waiting = r
       THEN waiting' = None /\ answer' = balances
       ELSE UNCHANGED <<waiting, answer>>

\* The response of r, an error or an answer, is on the way when the connection
\* breaks without notice: it does not arrive.
Unanswered(r) ==
    /\ entry' = None
    /\ state' = [state EXCEPT ![r] = "over"]
    /\ UNCHANGED <<waiting, answer>>

\* Reading t throws, and the request with it.
FailTx(r, t) ==
    /\ state[r] = "reading"
    /\ stage[r][t] # "ended"
    /\ stage' = [stage EXCEPT ![r][t] = "ended"]
    /\ Respond(r, answer) \/ Unanswered(r)
    /\ UNCHANGED <<content, ref, keys>>

\* t throws after its request has failed: nobody notices.
FailLate(r, t) ==
    /\ state[r] = "over"
    /\ stage[r][t] # "ended"
    /\ stage' = [stage EXCEPT ![r][t] = "ended"]
    /\ UNCHANGED <<state, entry, content, ref, keys, waiting, answer>>

\* Mutant: getData does not wait for all of the transactions.
AllEndedSome(r) == \E t \in Tx : stage[r][t] = "ended"

AllEnded(r) == \A t \in Tx : stage[r][t] = "ended"

\* getChangedBalances: without an entry the answer has no balances.
NoChanges(r) ==
    /\ state[r] = "reading" /\ AllEnded(r)
    /\ entry = None
    /\ Respond(r, NoBalances)
    /\ UNCHANGED <<stage, content, ref, keys>>

\* getChangedBalances: ask for all the balances of the entry.
AskBalances(r) ==
    /\ state[r] = "reading" /\ AllEnded(r)
    /\ entry # None
    /\ state' = [state EXCEPT ![r] = "asking"]
    /\ ref' = [ref EXCEPT ![r] = entry]
    /\ keys' = [keys EXCEPT ![r] = DOMAIN content[entry]]
    /\ UNCHANGED <<stage, entry, content, waiting, answer>>

\* Mutant: the request keeps the entry after it has responded.
BalancesReadKept(r) ==
    /\ state[r] = "asking"
    /\ LET new == Without(Put(content[ref[r]], keys[r], Read), Unreadable)
       IN  /\ content' = [content EXCEPT ![ref[r]] = new]
           /\ Respond(r, new)
    /\ UNCHANGED <<stage, ref, keys>>

\* All of them have settled: the object gets the balances that could be read,
\* loses the others, and is the answer.
BalancesRead(r) ==
    /\ state[r] = "asking"
    /\ LET new == Without(Put(content[ref[r]], keys[r], Read), Unreadable)
       IN  /\ content' = [content EXCEPT ![ref[r]] = new]
           /\ Respond(r, new)
    /\ ref' = [ref EXCEPT ![r] = None]
    /\ keys' = [keys EXCEPT ![r] = {}]
    /\ UNCHANGED stage

LoseResponse(r) ==
    /\ waiting = r
    /\ Unanswered(r)
    /\ \/ /\ state[r] = "reading" /\ AllEnded(r)
          /\ entry = None
          /\ UNCHANGED <<content, ref, keys>>
       \/ /\ state[r] = "asking"
          /\ content' = [content EXCEPT ![ref[r]] =
                          Without(Put(@, keys[r], Read), Unreadable)]
          /\ ref' = [ref EXCEPT ![r] = None]
          /\ keys' = [keys EXCEPT ![r] = {}]
    /\ UNCHANGED stage

\* The data fetcher restarts: the connection of the worker breaks.
Crash ==
    /\ state' = [r \in Request |-> "free"]
    /\ stage' = [r \in Request |-> [t \in Tx |-> "ended"]]
    /\ entry' = None
    /\ content' = [o \in Object |-> NoBalances]
    /\ ref' = [r \in Request |-> None]
    /\ keys' = [r \in Request |-> {}]
    /\ waiting' = None
    /\ UNCHANGED answer

-----------------------------------------------------------------------------
Worker == GiveUp \/ \E r \in Request : Send(r)

Fetch(r) ==
    \/ \E t \in Tx : Track(r, t) \/ EndTx(r, t)
    \/ NoChanges(r)
    \/ AskBalances(r)
    \/ BalancesRead(r)
    \/ Release(r)

Fault ==
    \/ Crash
    \/ \E r \in Request :
        \/ LoseResponse(r)
        \/ \E t \in Tx : FailTx(r, t) \/ FailLate(r, t)

Next ==
    /\ Worker \/ (\E r \in Request : Fetch(r)) \/ Fault
    /\ UNCHANGED scenario

\* The worker retries for ever, and calls to the chain are retried until they
\* are answered or fail for good.
Fairness ==
    /\ WF_vars(Worker /\ UNCHANGED scenario)
    /\ \A r \in Request : WF_vars(Fetch(r) /\ UNCHANGED scenario)

Spec == Init /\ [][Next]_vars /\ Fairness

-----------------------------------------------------------------------------
(***************************************************************************)
(* Properties.                                                             *)
(***************************************************************************)
\* A request holds an object exactly while it awaits its balances.
TypeOK ==
    /\ state \in [Request -> {"free", "reading", "asking", "over"}]
    /\ stage \in [Request -> [Tx -> {"reading", "tracked", "ended"}]]
    /\ entry \in Object \cup {None}
    /\ \A o \in Object :
        DOMAIN content[o] \subseteq Balance
        /\ \A b \in DOMAIN content[o] : content[o][b] \in {Read, Undefined}
    /\ keys \in [Request -> SUBSET Balance]
    /\ \A r \in Request :
        IF state[r] = "asking" THEN ref[r] \in Object ELSE ref[r] = None
    /\ waiting \in Request \cup {None}

\* All that the block changes and that can be read.
Changed == (UNION {scenario.touches[t] : t \in BlockTx}) \ Unreadable

Complete == answer # None => answer = [b \in Changed |-> Read]

\* The answer the worker gets has a value for every balance the block changed,
\* and none without a value, whatever a request that failed before has left
\* behind or still adds.  It needs requests that do not overlap.
AnswerComplete == ~scenario.overlap => Complete

\* "returns changed balances" (block.service.spec.ts), for all requests.
EveryAnswerComplete == Complete

\* When faults have ended and the worker gives up no request that is still
\* under way, it gets an answer.
Impatient == GiveUp /\ state[waiting] # "over"
Answered == (<>[][~Fault /\ ~Impatient]_vars) => <>(answer # None)
=============================================================================
