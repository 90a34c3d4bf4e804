----------------------- MODULE FetcherBalancesProofs -----------------------
(***************************************************************************)
(* Proofs about FetcherBalances, for all blocks, balances and numbers of   *)
(* requests that are under way at the same time.                           *)
(***************************************************************************)
EXTENDS FetcherBalances, TLAPS

\* What the block changes, readable or not.
Touched == UNION {scenario.touches[t] : t \in BlockTx}

\* The balances the next transaction finds tracked already.
Tracked == IF entry = None THEN {} ELSE DOMAIN content[entry]

Maps == UNION {[S -> {Read, Undefined}] : S \in SUBSET Balance}

(***************************************************************************)
(* The inductive invariant.                                                *)
(***************************************************************************)
TypeInv ==
    /\ TypeOK
    /\ scenario \in Scenario
    /\ content \in [Object -> Maps]
    /\ ref \in [Request -> Object \cup {None}]

\* Nothing but balances of the block is in the map, whoever added it.
BlockInv ==
    /\ \A o \in Object : DOMAIN content[o] \subseteq Touched
    /\ \A r \in Request : /\ keys[r] \subseteq Touched
                          /\ \A t \in Tx : stage[r][t] # "ended" => t \in BlockTx

\* Requests that do not overlap: the one that may still answer is awaited, and
\* the entry has what its transactions have tracked, until it asks for that.
AloneInv ==
    ~scenario.overlap => \A r \in Request :
      /\ state[r] \in {"reading", "asking"} => waiting = r
      /\ state[r] = "reading" =>
           \A t \in BlockTx : stage[r][t] # "reading" => scenario.touches[t] \subseteq Tracked
      /\ state[r] = "asking" => keys[r] = Touched

IInv == TypeInv /\ BlockInv /\ AloneInv /\ AnswerComplete

-----------------------------------------------------------------------------
(***************************************************************************)
(* Facts about the operators.                                              *)
(***************************************************************************)
LEMMA ScenarioType ==
    ASSUME scenario \in Scenario
    PROVE  /\ BlockTx \subseteq Tx /\ scenario.slots \subseteq Request
           /\ scenario.overlap \in BOOLEAN
           /\ \A t \in BlockTx : scenario.touches[t] \subseteq Touched
           /\ Touched \subseteq Balance
  BY FetcherAssumption DEF BlockTx, Touched

LEMMA PutIsMap ==
    ASSUME NEW f \in Maps, NEW S \in SUBSET Balance, NEW v \in {Read, Undefined}
    PROVE  /\ Put(f, S, v) \in Maps /\ DOMAIN Put(f, S, v) = DOMAIN f \cup S
           /\ \A b \in S : Put(f, S, v)[b] = v
<1>1. PICK D \in SUBSET Balance : f \in [D -> {Read, Undefined}]
  BY DEF Maps
<1>2. Put(f, S, v) \in [D \cup S -> {Read, Undefined}]
  BY <1>1 DEF Put
<1>3. D \cup S \in SUBSET Balance
  OBVIOUS
<1>4. Put(f, S, v) \in Maps
  BY <1>2, <1>3 DEF Maps
<1> QED BY <1>4 DEF Put

LEMMA WithoutIsMap ==
    ASSUME NEW f \in Maps, NEW S
    PROVE  Without(f, S) \in Maps /\ DOMAIN Without(f, S) = DOMAIN f \ S
<1>1. PICK D \in SUBSET Balance : f \in [D -> {Read, Undefined}]
  BY DEF Maps
<1>2. Without(f, S) \in [D \ S -> {Read, Undefined}]
  BY <1>1 DEF Without
<1>3. D \ S \in SUBSET Balance
  OBVIOUS
<1>4. Without(f, S) \in Maps
  BY <1>2, <1>3 DEF Maps
<1> QED BY <1>4 DEF Without

LEMMA EmptyIsMap == NoBalances \in Maps /\ DOMAIN NoBalances = {}
<1>1. NoBalances \in [{} -> {Read, Undefined}]
  BY DEF NoBalances
<1>2. {} \in SUBSET Balance
  OBVIOUS
<1> QED BY <1>1, <1>2 DEF Maps, NoBalances

LEMMA MapType == ASSUME NEW f \in Maps
                 PROVE  /\ DOMAIN f \subseteq Balance
                        /\ \A b \in DOMAIN f : f[b] \in {Read, Undefined}
<1>1. PICK D \in SUBSET Balance : f \in [D -> {Read, Undefined}]
  BY DEF Maps
<1> QED BY <1>1

\* A transaction that finds no entry gets an object nobody uses.
LEMMA UnusedExists == ASSUME TypeInv, entry = None
                      PROVE  (CHOOSE u \in Unused : TRUE) \in Object
<1>1. [r \in Request |-> ref[r]] \in [Request -> Object \cup {None}]
  BY DEF TypeInv
<1>2. PICK o \in Object : \A r \in Request : ref[r] # o
  BY <1>1, FetcherAssumption
<1>3. o \in Unused
  BY <1>2, FetcherAssumption DEF Unused
<1> QED BY <1>3 DEF Unused

\* What BalancesRead and LoseResponse put into the object of r.
Settle(r) == Without(Put(content[ref[r]], keys[r], Read), Unreadable)

LEMMA SettleIsMap ==
    ASSUME IInv, NEW r \in Request, state[r] = "asking"
    PROVE  /\ ref[r] \in Object /\ Settle(r) \in Maps
           /\ DOMAIN Settle(r) = (DOMAIN content[ref[r]] \cup keys[r]) \ Unreadable
           /\ \A b \in DOMAIN Settle(r) \cap keys[r] : Settle(r)[b] = Read
<1>1. ref[r] \in Object /\ content[ref[r]] \in Maps /\ keys[r] \in SUBSET Balance
  BY DEF IInv, TypeInv, TypeOK
<1>2. Put(content[ref[r]], keys[r], Read) \in Maps
  BY <1>1, PutIsMap
<1>3. /\ DOMAIN Put(content[ref[r]], keys[r], Read) = DOMAIN content[ref[r]] \cup keys[r]
      /\ \A b \in keys[r] : Put(content[ref[r]], keys[r], Read)[b] = Read
  BY <1>1, PutIsMap
<1> QED BY <1>1, <1>2, <1>3, WithoutIsMap DEF Settle, Without

LEMMA SameBlock ==
    ASSUME scenario' = scenario
    PROVE  /\ Touched' = Touched /\ BlockTx' = BlockTx /\ Changed' = Changed
  BY DEF Touched, BlockTx, Changed

-----------------------------------------------------------------------------
(***************************************************************************)
(* The steps.                                                              *)
(***************************************************************************)
LEMMA InitInv == Init => IInv
<1> SUFFICES ASSUME Init PROVE IInv
  OBVIOUS
<1>1. TypeInv
  <2>1. \A o \in Object : content[o] = NoBalances
    BY DEF Init
  <2>2. content \in [Object -> Maps]
    BY EmptyIsMap DEF Init
  <2> QED BY <2>1, <2>2, EmptyIsMap DEF Init, TypeInv, TypeOK
<1>2. BlockInv
  BY EmptyIsMap DEF Init, BlockInv
<1>3. AloneInv /\ AnswerComplete
  BY DEF Init, AloneInv, AnswerComplete, Complete
<1> QED BY <1>1, <1>2, <1>3 DEF IInv

LEMMA SendStep == ASSUME IInv, NEW r \in Request, Send(r), scenario' = scenario
                  PROVE  IInv'
<1> USE DEF IInv
<1>1. Touched' = Touched /\ BlockTx' = BlockTx /\ Changed' = Changed
  BY SameBlock
<1>2. TypeInv'
  BY <1>1 DEF Send, TypeInv, TypeOK
<1>3. BlockInv'
  BY <1>1 DEF Send, BlockInv, TypeInv, TypeOK
<1>4. AloneInv'
  <2> SUFFICES ASSUME ~scenario.overlap, NEW q \in Request
               PROVE  /\ state'[q] \in {"reading", "asking"} => waiting' = q
                      /\ state'[q] = "reading" => \A t \in BlockTx : stage'[q][t] = "reading"
                      /\ state'[q] # "asking"
    BY <1>1 DEF Send, AloneInv
  <2>1. waiting = None /\ None \notin Request
    BY FetcherAssumption DEF Send
  <2>2. q # r => state[q] \notin {"reading", "asking"}
    BY <2>1 DEF AloneInv
  <2>3. BlockTx \subseteq Tx
    BY ScenarioType DEF TypeInv
  <2> QED BY <2>2, <2>3 DEF Send, TypeInv, TypeOK
<1>5. AnswerComplete'
  BY <1>1 DEF Send, AnswerComplete, Complete
<1> QED BY <1>2, <1>3, <1>4, <1>5

LEMMA GiveUpStep == ASSUME IInv, GiveUp, scenario' = scenario
                    PROVE  IInv'
<1> USE DEF IInv
<1>1. Touched' = Touched /\ BlockTx' = BlockTx /\ Changed' = Changed
  BY SameBlock
<1>2. TypeInv'
  BY <1>1 DEF GiveUp, TypeInv, TypeOK
<1>3. BlockInv'
  BY <1>1 DEF GiveUp, BlockInv
<1>4. AloneInv'
  <2> SUFFICES ASSUME ~scenario.overlap, NEW q \in Request
               PROVE  state[q] \notin {"reading", "asking"}
    BY <1>1 DEF GiveUp, AloneInv
  <2> QED BY DEF GiveUp, AloneInv
<1>5. AnswerComplete'
  BY <1>1 DEF GiveUp, AnswerComplete, Complete
<1> QED BY <1>2, <1>3, <1>4, <1>5

LEMMA ReleaseStep == ASSUME IInv, NEW r \in Request, Release(r), scenario' = scenario
                     PROVE  IInv'
<1> USE DEF IInv
<1>1. Touched' = Touched /\ BlockTx' = BlockTx /\ Changed' = Changed
  BY SameBlock
<1>2. TypeInv'
  BY <1>1 DEF Release, TypeInv, TypeOK
<1>3. BlockInv'
  BY <1>1 DEF Release, BlockInv
<1>4. AloneInv'
  BY <1>1 DEF Release, AloneInv, Tracked, TypeInv, TypeOK
<1>5. AnswerComplete'
  BY <1>1 DEF Release, AnswerComplete, Complete
<1> QED BY <1>2, <1>3, <1>4, <1>5

LEMMA TrackStep == ASSUME IInv, NEW r \in Request, NEW t \in Tx, Track(r, t), scenario' = scenario
                   PROVE  IInv'
<1> USE DEF IInv
<1>1. Touched' = Touched /\ BlockTx' = BlockTx /\ Changed' = Changed
  BY SameBlock
<1>2. t \in BlockTx /\ scenario.touches[t] \subseteq Touched /\ Touched \subseteq Balance
      /\ BlockTx \subseteq Tx
  BY ScenarioType DEF Track, BlockInv, TypeInv
<1>3. /\ stage' = [stage EXCEPT ![r][t] = "tracked"]
      /\ UNCHANGED <<state, ref, keys, waiting, answer>>
  BY DEF Track
<1>4. /\ entry' \in Object \cup {None} /\ content' \in [Object -> Maps]
      /\ \A o \in Object : DOMAIN content'[o] \subseteq Touched
      /\ Tracked \cup scenario.touches[t] \subseteq Tracked'
  <2>1. CASE scenario.touches[t] = {}
    BY <2>1 DEF Track, TypeInv, TypeOK, BlockInv, Tracked
  <2>2. CASE scenario.touches[t] # {}
    <3>1. PICK o \in Object, old \in Maps :
            /\ DOMAIN old = Tracked
            /\ entry' = o /\ content' = [content EXCEPT ![o] = Put(old, scenario.touches[t], Undefined)]
      <4>1. CASE entry = None
        BY <2>2, <4>1, UnusedExists, EmptyIsMap DEF Track, Tracked
      <4>2. CASE entry # None
        BY <2>2, <4>2 DEF Track, Tracked, TypeInv, TypeOK
      <4> QED BY <4>1, <4>2
    <3>2. /\ Put(old, scenario.touches[t], Undefined) \in Maps
          /\ DOMAIN Put(old, scenario.touches[t], Undefined) = Tracked \cup scenario.touches[t]
      BY <1>2, <3>1, PutIsMap
    <3>3. Tracked \subseteq Touched
      BY DEF Tracked, BlockInv, TypeInv, TypeOK
    <3>4. content' \in [Object -> Maps] /\ content'[o] = Put(old, scenario.touches[t], Undefined)
      BY <3>1, <3>2 DEF TypeInv
    <3>5. entry' # None
      BY <3>1, FetcherAssumption
    <3>6. \A p \in Object : DOMAIN content'[p] \subseteq Touched
      <4> TAKE p \in Object
      <4>1. CASE p = o
        BY <1>2, <3>2, <3>3, <3>4, <4>1
      <4>2. CASE p # o
        BY <3>1, <4>2 DEF BlockInv, TypeInv
      <4> QED BY <4>1, <4>2
    <3> QED BY <3>1, <3>2, <3>4, <3>5, <3>6 DEF Tracked
  <2> QED BY <2>1, <2>2
<1>5. TypeInv'
  <2>1. stage' \in [Request -> [Tx -> {"reading", "tracked", "ended"}]]
    BY <1>3 DEF TypeInv, TypeOK
  <2>2. \A o \in Object : /\ DOMAIN content'[o] \subseteq Balance
                          /\ \A b \in DOMAIN content'[o] : content'[o][b] \in {Read, Undefined}
    BY <1>4, MapType
  <2> QED BY <1>3, <1>4, <2>1, <2>2 DEF TypeInv, TypeOK
<1>6. BlockInv'
  BY <1>1, <1>2, <1>3, <1>4 DEF BlockInv, TypeInv, TypeOK
<1>7. AloneInv'
  <2> SUFFICES ASSUME ~scenario.overlap, NEW q \in Request, state[q] = "reading",
                      NEW s \in BlockTx, stage'[q][s] # "reading"
               PROVE  scenario.touches[s] \subseteq Tracked'
    BY <1>1, <1>3 DEF AloneInv
  <2>1. CASE q = r /\ s = t
    BY <1>4, <2>1
  <2>2. CASE ~(q = r /\ s = t)
    <3>1. stage[q][s] # "reading"
      BY <1>2, <1>3, <2>2 DEF TypeInv, TypeOK
    <3> QED BY <1>4, <3>1 DEF AloneInv
  <2> QED BY <2>1, <2>2
<1>8. AnswerComplete'
  BY <1>1, <1>3 DEF AnswerComplete, Complete
<1> QED BY <1>5, <1>6, <1>7, <1>8

\* A transaction has been read, or throws when nobody notices any more.
LEMMA EndTxStep == ASSUME IInv, NEW r \in Request, NEW t \in Tx, EndTx(r, t) \/ FailLate(r, t),
                          scenario' = scenario
                   PROVE  IInv'
<1> USE DEF IInv
<1>1. Touched' = Touched /\ BlockTx' = BlockTx /\ Changed' = Changed
  BY SameBlock
<1>2. /\ stage[r][t] = "tracked" \/ state[r] = "over"
      /\ stage' = [stage EXCEPT ![r][t] = "ended"]
      /\ UNCHANGED <<state, entry, content, ref, keys, waiting, answer>>
  BY DEF EndTx, FailLate
<1>3. TypeInv'
  BY <1>2 DEF TypeInv, TypeOK
<1>4. BlockInv'
  BY <1>1, <1>2 DEF BlockInv, TypeInv, TypeOK
<1>5. AloneInv'
  <2>1. BlockTx \subseteq Tx
    BY ScenarioType DEF TypeInv
  <2> QED BY <1>1, <1>2, <2>1 DEF AloneInv, Tracked, TypeInv, TypeOK
<1>6. AnswerComplete'
  BY <1>1, <1>2 DEF AnswerComplete, Complete
<1> QED BY <1>3, <1>4, <1>5, <1>6

\* When a request ends, no other one reads or asks, unless requests overlap.
LEMMA OverAlone ==
    ASSUME IInv, NEW r \in Request, state[r] \in {"reading", "asking"}, scenario' = scenario,
           state' = [state EXCEPT ![r] = "over"]
    PROVE  AloneInv'
<1> SUFFICES ASSUME ~scenario.overlap, NEW q \in Request
             PROVE  state'[q] \notin {"reading", "asking"}
  BY DEF AloneInv
<1>1. waiting = r
  BY DEF IInv, AloneInv
<1> QED BY <1>1 DEF IInv, AloneInv, TypeInv, TypeOK

LEMMA FailTxStep == ASSUME IInv, NEW r \in Request, NEW t \in Tx, FailTx(r, t), scenario' = scenario
                    PROVE  IInv'
<1> USE DEF IInv
<1>1. Touched' = Touched /\ BlockTx' = BlockTx /\ Changed' = Changed
  BY SameBlock
<1>2. /\ state[r] = "reading" /\ stage' = [stage EXCEPT ![r][t] = "ended"]
      /\ entry' = None /\ state' = [state EXCEPT ![r] = "over"]
      /\ waiting' \in {waiting, None} /\ answer' = answer /\ UNCHANGED <<content, ref, keys>>
  BY DEF FailTx, Respond, Unanswered
<1>3. TypeInv'
  BY <1>2 DEF TypeInv, TypeOK
<1>4. BlockInv'
  BY <1>1, <1>2 DEF BlockInv, TypeInv, TypeOK
<1>5. AloneInv'
  BY <1>2, OverAlone
<1>6. AnswerComplete'
  BY <1>1, <1>2 DEF AnswerComplete, Complete
<1> QED BY <1>3, <1>4, <1>5, <1>6

LEMMA NoChangesStep == ASSUME IInv, NEW r \in Request, scenario' = scenario,
                              NoChanges(r) \/ (state[r] = "reading" /\ LoseResponse(r))
                       PROVE  IInv'
<1> USE DEF IInv
<1>1. Touched' = Touched /\ BlockTx' = BlockTx /\ Changed' = Changed
  BY SameBlock
<1>2. /\ state[r] = "reading" /\ AllEnded(r) /\ entry = None
      /\ entry' = None /\ state' = [state EXCEPT ![r] = "over"]
      /\ waiting' \in {waiting, None} /\ answer' \in {answer, NoBalances}
      /\ UNCHANGED <<stage, content, ref, keys>>
  BY DEF NoChanges, LoseResponse, Unanswered, Respond
<1>3. TypeInv'
  BY <1>2 DEF TypeInv, TypeOK
<1>4. BlockInv'
  BY <1>1, <1>2 DEF BlockInv
<1>5. AloneInv'
  BY <1>2, OverAlone
<1>6. AnswerComplete'
  <2>1. ASSUME ~scenario.overlap PROVE NoBalances = [b \in Changed |-> Read]
    <3>1. \A t \in BlockTx : scenario.touches[t] = {}
      BY <1>2, <2>1, ScenarioType DEF AllEnded, AloneInv, Tracked, TypeInv
    <3>2. Changed = {}
      BY <3>1 DEF Changed
    <3> QED BY <3>2 DEF NoBalances
  <2> QED BY <1>1, <1>2, <2>1 DEF AnswerComplete, Complete
<1> QED BY <1>3, <1>4, <1>5, <1>6

LEMMA AskBalancesStep == ASSUME IInv, NEW r \in Request, AskBalances(r), scenario' = scenario
                         PROVE  IInv'
<1> USE DEF IInv
<1>1. Touched' = Touched /\ BlockTx' = BlockTx /\ Changed' = Changed
  BY SameBlock
<1>2. /\ state[r] = "reading" /\ AllEnded(r) /\ entry \in Object /\ entry # None
      /\ state' = [state EXCEPT ![r] = "asking"] /\ ref' = [ref EXCEPT ![r] = entry]
      /\ keys' = [keys EXCEPT ![r] = Tracked]
      /\ UNCHANGED <<stage, entry, content, waiting, answer>>
  BY DEF AskBalances, TypeInv, TypeOK, Tracked
<1>3. Tracked \subseteq Touched /\ Tracked \subseteq Balance
  BY <1>2 DEF Tracked, BlockInv, TypeInv, TypeOK
<1>4. TypeInv'
  BY <1>2, <1>3 DEF TypeInv, TypeOK
<1>5. BlockInv'
  BY <1>1, <1>2, <1>3 DEF BlockInv, TypeInv, TypeOK
<1>6. AloneInv'
  <2> SUFFICES ASSUME ~scenario.overlap, NEW q \in Request
               PROVE  /\ state'[q] \in {"reading", "asking"} => waiting' = q
                      /\ state'[q] = "reading" => \A t \in BlockTx :
                           stage'[q][t] # "reading" => scenario.touches[t] \subseteq Tracked'
                      /\ state'[q] = "asking" => keys'[q] = Touched
    BY <1>1 DEF AloneInv
  <2>1. Tracked' = Tracked
    BY <1>2 DEF Tracked
  <2>2. Touched \subseteq Tracked
    <3>1. \A t \in BlockTx : stage[r][t] = "ended"
      BY <1>2, ScenarioType DEF AllEnded, TypeInv
    <3> QED BY <1>2, <3>1 DEF AloneInv, Touched
  <2>3. CASE q = r
    BY <1>2, <1>3, <2>2, <2>3 DEF AloneInv, TypeInv, TypeOK
  <2>4. CASE q # r
    BY <1>2, <2>1, <2>4 DEF AloneInv, TypeInv, TypeOK
  <2> QED BY <2>3, <2>4
<1>7. AnswerComplete'
  BY <1>1, <1>2 DEF AnswerComplete, Complete
<1> QED BY <1>4, <1>5, <1>6, <1>7

\* The balances have been read, whether or not anybody gets the answer.
LEMMA SettledStep ==
    ASSUME IInv, NEW r \in Request, scenario' = scenario,
           BalancesRead(r) \/ (state[r] = "asking" /\ LoseResponse(r))
    PROVE  IInv'
<1> USE DEF IInv
<1>1. Touched' = Touched /\ BlockTx' = BlockTx /\ Changed' = Changed
  BY SameBlock
<1>2. /\ state[r] = "asking" /\ state' = [state EXCEPT ![r] = "over"] /\ entry' = None
      /\ content' = [content EXCEPT ![ref[r]] = Settle(r)]
      /\ ref' = [ref EXCEPT ![r] = None] /\ keys' = [keys EXCEPT ![r] = {}]
      /\ waiting' \in {waiting, None} /\ answer' \in {answer, Settle(r)} /\ stage' = stage
  BY DEF BalancesRead, LoseResponse, Unanswered, Respond, Settle, TypeInv
<1>3. /\ ref[r] \in Object /\ Settle(r) \in Maps
      /\ DOMAIN Settle(r) = (DOMAIN content[ref[r]] \cup keys[r]) \ Unreadable
      /\ \A b \in DOMAIN Settle(r) \cap keys[r] : Settle(r)[b] = Read
  BY <1>2, SettleIsMap
<1> HIDE DEF IInv
<1>4. TypeInv'
  <2>1. content' \in [Object -> Maps]
    BY <1>2, <1>3 DEF IInv, TypeInv
  <2>2. \A o \in Object : /\ DOMAIN content'[o] \subseteq Balance
                          /\ \A b \in DOMAIN content'[o] : content'[o][b] \in {Read, Undefined}
    BY <2>1, MapType
  <2> QED BY <1>2, <2>1, <2>2 DEF IInv, TypeInv, TypeOK
<1>5. BlockInv'
  <2>1. ASSUME NEW o \in Object PROVE DOMAIN content'[o] \subseteq Touched
    <3>1. CASE o = ref[r]
      <4>1. DOMAIN content[o] \subseteq Touched /\ keys[r] \subseteq Touched
        BY DEF IInv, BlockInv
      <4>2. content'[o] = Settle(r)
        BY <1>2, <3>1 DEF IInv, TypeInv
      <4> QED BY <1>3, <3>1, <4>1, <4>2
    <3>2. CASE o # ref[r]
      BY <1>2, <3>2 DEF IInv, BlockInv, TypeInv
    <3> QED BY <3>1, <3>2
  <2> QED BY <1>1, <1>2, <2>1 DEF IInv, BlockInv, TypeInv, TypeOK
<1>6. AloneInv'
  BY <1>2, OverAlone
<1>7. AnswerComplete'
  <2>1. ASSUME ~scenario.overlap PROVE Settle(r) = [b \in Changed |-> Read]
    <3>1. keys[r] = Touched /\ DOMAIN content[ref[r]] \subseteq Touched
      BY <1>2, <1>3, <2>1 DEF IInv, AloneInv, BlockInv
    <3>2. DOMAIN Settle(r) = Changed /\ Changed \subseteq keys[r]
      BY <1>3, <3>1 DEF Changed, Touched
    <3> QED BY <1>3, <3>2 DEF Settle, Without
  <2> QED BY <1>1, <1>2, <2>1 DEF IInv, AnswerComplete, Complete
<1> QED BY <1>4, <1>5, <1>6, <1>7 DEF IInv

LEMMA CrashStep == ASSUME IInv, Crash, scenario' = scenario
                   PROVE  IInv'
<1>1. Touched' = Touched /\ BlockTx' = BlockTx /\ Changed' = Changed
  BY SameBlock
<1>2. TypeInv'
  <2>1. \A o \in Object : content'[o] = NoBalances
    BY DEF Crash
  <2>2. content' \in [Object -> Maps]
    BY EmptyIsMap DEF Crash
  <2> QED BY <2>1, <2>2, EmptyIsMap DEF Crash, IInv, TypeInv, TypeOK
<1>3. BlockInv'
  BY EmptyIsMap DEF Crash, BlockInv
<1>4. AloneInv'
  BY DEF Crash, AloneInv
<1>5. AnswerComplete'
  BY <1>1 DEF Crash, IInv, AnswerComplete, Complete
<1> QED BY <1>2, <1>3, <1>4, <1>5 DEF IInv

LEMMA StepInv == IInv /\ [Next]_vars => IInv'
<1> SUFFICES ASSUME IInv, [Next]_vars PROVE IInv'
  OBVIOUS
<1>1. CASE UNCHANGED vars
  <2>1. Touched' = Touched /\ BlockTx' = BlockTx /\ Changed' = Changed
    BY <1>1, SameBlock DEF vars
  <2>2. TypeInv' /\ BlockInv'
    BY <1>1, <2>1 DEF vars, IInv, TypeInv, TypeOK, BlockInv
  <2>3. AloneInv' /\ AnswerComplete'
    BY <1>1, <2>1 DEF vars, IInv, AloneInv, Tracked, AnswerComplete, Complete
  <2> QED BY <2>2, <2>3 DEF IInv
<1>2. CASE Next
  <2>0. scenario' = scenario
    BY <1>2 DEF Next
  <2>1. CASE Worker
    BY <2>0, <2>1, SendStep, GiveUpStep DEF Worker
  <2>2. ASSUME NEW r \in Request, Fetch(r) PROVE IInv'
    BY <2>0, <2>2, TrackStep, EndTxStep, NoChangesStep, AskBalancesStep, SettledStep, ReleaseStep
    DEF Fetch
  <2>3. CASE Fault
    <3>1. ASSUME NEW r \in Request, LoseResponse(r) PROVE IInv'
      <4>1. state[r] = "reading" \/ state[r] = "asking"
        BY <3>1 DEF LoseResponse
      <4> QED BY <2>0, <3>1, <4>1, NoChangesStep, SettledStep
    <3> QED BY <2>0, <2>3, <3>1, CrashStep, FailTxStep, EndTxStep DEF Fault
  <2> QED BY <1>2, <2>1, <2>2, <2>3 DEF Next
<1> QED BY <1>1, <1>2

-----------------------------------------------------------------------------
(***************************************************************************)
(* The theorems.                                                           *)
(***************************************************************************)
\* The map that all requests share keeps its form, whatever requests that have
\* failed still add to it, and a request holds an entry of it only while it
\* awaits the balances (balance.service.ts).
THEOREM TypeCorrect == Spec => []TypeOK
<1>1. IInv => TypeOK
  BY DEF IInv, TypeInv
<1> QED BY <1>1, InitInv, StepInv, PTL DEF Spec

\* When requests do not overlap, every answer of getData has a value for each
\* balance the block changed and that can be read, and no other.
THEOREM AnswersComplete == Spec => []AnswerComplete
<1>1. IInv => AnswerComplete
  BY DEF IInv
<1> QED BY <1>1, InitInv, StepInv, PTL DEF Spec
=============================================================================
