----------------------------- MODULE BotsAttack -----------------------------
(***************************************************************************)
(* The contract BotsAttack: players are paired into games, place bots on   *)
(* their board and hack cells of the opponent's board in turn.             *)
(*                                                                         *)
(* A call that fails a "require" changes nothing; the actions are the      *)
(* calls that succeed.  The time of the last move is left out.             *)
(***************************************************************************)
EXTENDS Integers, FiniteSets, Sequences

CONSTANTS
    Player,
    Cell,         \* the cells of a board, BOARD_SIZE * BOARD_SIZE in the code
    BotCount,     \* BOT_COUNT
    None,         \* address(0)
    MaxGames      \* bound on the games created

ASSUME BotsAssumption ==
    /\ IsFiniteSet(Cell)
    /\ BotCount \in Nat \ {0}
    /\ None \notin Player
    /\ MaxGames \in Nat

VARIABLES
    games,        \* games of the contract, by id
    gameCounter,
    playerGames   \* ids of the games of a player, in the order they came

vars == <<games, gameCounter, playerGames>>

-----------------------------------------------------------------------------
EMPTY == 0
BOT == 1
INFECTED == 2
MISS == 3

Mark == {EMPTY, BOT, INFECTED, MISS}
Board == [Cell -> Mark]

\* placeBots stores what it is given: all marks but EMPTY and BOT act alike.
Locations == [Cell -> {EMPTY, BOT, INFECTED}]
EMPTY_BOARD == [c \in Cell |-> EMPTY]

\* Side 1 is player1, whose fields are player1Board, player1Hacks and so on.
Side == {1, 2}
Other(s) == 3 - s

GameId == 1 .. MaxGames

Game == [
    player : [Side -> Player \cup {None}],
    board : [Side -> Board],
    hacks : [Side -> Board],
    ready : [Side -> BOOLEAN],
    gameOver : BOOLEAN,
    winner : Player \cup {None},
    botsRemaining : [Side -> 0 .. BotCount],
    turn : Side]

CellsWith(board, mark) == {c \in Cell : board[c] = mark}

NewGame(p) == [
    player |-> [s \in Side |-> IF s = 1 THEN p ELSE None],
    board |-> [s \in Side |-> EMPTY_BOARD],
    hacks |-> [s \in Side |-> EMPTY_BOARD],
    ready |-> [s \in Side |-> FALSE],
    gameOver |-> FALSE,
    winner |-> None,
    botsRemaining |-> [s \in Side |-> BotCount],
    turn |-> 1]

\* An id that has not been given out: nobody plays it.
Init ==
    /\ games = [g \in GameId |-> NewGame(None)]
    /\ gameCounter = 0
    /\ playerGames = [p \in Player |-> <<>>]

-----------------------------------------------------------------------------
BothReady(game) == game.ready[1] /\ game.ready[2]

\* The side of a player; one who has joined the own game is player1.
SideOf(game, p) == IF p = game.player[1] THEN 1 ELSE 2

\* Modifiers validGame and playersTurn.
PlayersTurn(g, p) ==
    /\ g <= gameCounter
    /\ p = games[g].player[1] \/ p = games[g].player[2]
    /\ ~games[g].gameOver
    /\ p = games[g].player[games[g].turn] \/ ~BothReady(games[g])

\* Mutant: a game is created for everyone who starts one.
CreateGameAlways(p) ==
    /\ gameCounter + 1 \in GameId
    /\ gameCounter' = gameCounter + 1
    /\ games' = [games EXCEPT ![gameCounter + 1] = NewGame(p)]
    /\ playerGames' = [playerGames EXCEPT ![p] = Append(@, gameCounter + 1)]

\* startGame when there is no game or the last one has two players.
CreateGame(p) ==
    /\ gameCounter + 1 \in GameId
    /\ gameCounter # 0 => games[gameCounter].player[2] # None
    /\ gameCounter' = gameCounter + 1
    /\ games' = [games EXCEPT ![gameCounter + 1] = NewGame(p)]
    /\ playerGames' = [playerGames EXCEPT ![p] = Append(@, gameCounter + 1)]

\* startGame when the last game waits for a player, who may be its own.
JoinGame(p) ==
    /\ gameCounter # 0
    /\ games[gameCounter].player[2] = None
    /\ games' = [games EXCEPT ![gameCounter].player[2] = p]
    /\ playerGames' = [playerGames EXCEPT ![p] = Append(@, gameCounter)]
    /\ UNCHANGED gameCounter

\* Mutant: bots may be placed again during the game.
MayPlaceAgain(game, s, locations) ==
    /\ \A c \in Cell : game.board[s][c] \in {EMPTY, BOT}
    /\ Cardinality(CellsWith(locations, BOT)) = BotCount

MayPlace(game, s, locations) ==
    /\ ~BothReady(game)
    /\ \A c \in Cell : game.board[s][c] \in {EMPTY, BOT}
    /\ Cardinality(CellsWith(locations, BOT)) = BotCount

placeBots(p, g, locations) ==
    LET s == SideOf(games[g], p)
    IN  /\ PlayersTurn(g, p)
        /\ MayPlace(games[g], s, locations)
        /\ games' = [games EXCEPT ![g].board[s] = locations,
                                  ![g].ready[s] = TRUE]
        /\ UNCHANGED <<gameCounter, playerGames>>

\* A game after side s has hacked cell c of the board of side t, which leaves
\* left bots on it; side w wins if these are none.  The turn passes on even then.
Strike(game, s, c, t, left, w) ==
    LET hit == game.board[Other(s)][c] = BOT
        mark == IF hit THEN INFECTED ELSE MISS
        won == hit /\ left = 0
    IN  [game EXCEPT
            !.hacks[s][c] = mark,
            !.board[t][c] = mark,
            !.botsRemaining[Other(s)] = left,
            !.gameOver = won,
            !.winner = IF won THEN game.player[w] ELSE @,
            !.turn = Other(s)]

BotsAfter(game, s, c) ==
    IF game.board[Other(s)][c] = BOT
    THEN game.botsRemaining[Other(s)] - 1
    ELSE game.botsRemaining[Other(s)]

\* Mutant: a miss counts as well.
HackedAnyway(game, s, c) ==
    Strike(game, s, c, Other(s), game.botsRemaining[Other(s)] - 1, s)

\* Mutant: the player who runs out of bots wins.
HackedLoses(game, s, c) ==
    Strike(game, s, c, Other(s), BotsAfter(game, s, c), Other(s))

\* Mutant: the mark is set on the attacker's board.
HackedOwn(game, s, c) ==
    Strike(game, s, c, s, BotsAfter(game, s, c), s)

Hacked(game, s, c) == Strike(game, s, c, Other(s), BotsAfter(game, s, c), s)

tryHackingBot(p, g, c) ==
    LET s == SideOf(games[g], p)
    IN  /\ PlayersTurn(g, p)
        /\ BothReady(games[g])
        /\ games[g].hacks[s][c] = EMPTY
        /\ games' = [games EXCEPT ![g] = Hacked(@, s, c)]
        /\ UNCHANGED <<gameCounter, playerGames>>

Next ==
    \/ \E p \in Player : CreateGame(p) \/ JoinGame(p)
    \/ \E p \in Player, g \in GameId :
        \/ \E locations \in Locations : placeBots(p, g, locations)
        \/ \E c \in Cell : tryHackingBot(p, g, c)

Spec == Init /\ [][Next]_vars

-----------------------------------------------------------------------------
(***************************************************************************)
(* Properties.                                                             *)
(***************************************************************************)
TypeOK ==
    /\ games \in [GameId -> Game]
    /\ gameCounter \in 0 .. MaxGames
    /\ playerGames \in [Player -> Seq(GameId)]

\* The counter of a side is the number of its bots that can still be hit, and
\* the game is over exactly when one side has none: the other is the winner.
\* The counter decides the game (BotsAttack.sol:192), the boards are what the
\* players see.
CountersMatchBoards == \A g \in GameId :
    LET game == games[g] IN
    /\ \A s \in Side : game.ready[s] =>
        game.botsRemaining[s] = Cardinality(CellsWith(game.board[s], BOT))
    /\ game.gameOver <=> \E s \in Side : game.botsRemaining[s] = 0
    /\ game.gameOver =>
        \E s \in Side : /\ game.winner = game.player[s]
                        /\ game.botsRemaining[s] # 0
                        /\ game.botsRemaining[Other(s)] = 0

\* Nobody is stuck: as long as a game in play is not over, the player whose
\* turn it is has a cell left to hack.  tryHackingBot refuses a cell that was
\* hacked before, and there is no way to pass.
MoveLeft == \A g \in GameId :
    LET game == games[g] IN
    BothReady(game) /\ ~game.gameOver =>
        \E c \in Cell : game.hacks[game.turn][c] = EMPTY

\* What a player sees of the own hacks is what they did to the other board.
HacksOnBoard == \A g \in GameId, s \in Side, c \in Cell :
    games[g].hacks[s][c] # EMPTY =>
        games[g].board[Other(s)][c] = games[g].hacks[s][c]

\* getPlayerGames returns exactly the games one plays, oldest first, and only
\* the last game waits for a player.
GamesListed ==
    /\ \A p \in Player, g \in GameId :
        (\E i \in DOMAIN playerGames[p] : playerGames[p][i] = g)
            <=> \E s \in Side : games[g].player[s] = p
    /\ \A p \in Player : \A i, j \in DOMAIN playerGames[p] :
        i <= j => playerGames[p][i] <= playerGames[p][j]
    /\ \A g \in GameId : g < gameCounter => games[g].player[2] # None

\* Where side s has its bots, whether they are hit or not.
BotsOf(game, s) ==
    IF game.ready[s]
    THEN {c \in Cell : \/ game.board[s][c] = BOT
                       \/ game.hacks[Other(s)][c] = INFECTED}
    ELSE {}

Tried(game, s) == {c \in Cell : game.hacks[s][c] # EMPTY}

seatOf == [g \in GameId |-> games[g].player]
botsOf == [g \in GameId |-> [s \in Side |-> BotsOf(games[g], s)]]
triedOf == [g \in GameId |-> [s \in Side |-> Tried(games[g], s)]]

onTurnOf == [g \in GameId |-> games[g].turn]

Fleet == {B \in SUBSET Cell : Cardinality(B) = BotCount}

D == INSTANCE Duel WITH
    counter <- gameCounter, seat <- seatOf, bots <- botsOf, tried <- triedOf,
    onTurn <- onTurnOf

\* A game is a duel: once both sides have placed their bots these stay where
\* they are, sides alternate, no cell is tried twice, and nothing happens to a
\* game any more when all bots of one side have been found.
GamesAreDuels == D!DuelSpec
=============================================================================
