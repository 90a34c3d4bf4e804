-------------------------- MODULE BotsAttackProofs --------------------------
(***************************************************************************)
(* Proofs about BotsAttack, for boards of any size, any number of bots and *)
(* any players.                                                            *)
(*                                                                         *)
(* The steps change one game each.  SoundGame says what holds of a game    *)
(* whatever its history, and the first part shows that each change of a    *)
(* game keeps it; the second part lifts this to the contract.              *)
(***************************************************************************)
EXTENDS BotsAttack, FiniteSetTheorems, TLAPS

\* As long as a side is missing or has no bots the game is as it was created.
Waiting(game) ==
    ~BothReady(game) =>
        /\ game.hacks = [s \in Side |-> EMPTY_BOARD]
        /\ game.botsRemaining = [s \in Side |-> BotCount]
        /\ ~game.gameOver
        /\ game.turn = 1

\* Who has joined the own game cannot place bots as player2.
Seats(game) == game.ready[2] => game.player[2] \notin {None, game.player[1]}

Counted(game) == \A s \in Side : game.ready[s] =>
    /\ game.botsRemaining[s] = Cardinality(CellsWith(game.board[s], BOT))
    /\ BotsOf(game, s) # {}

Over(game) ==
    /\ game.gameOver <=> \E s \in Side : game.botsRemaining[s] = 0
    /\ game.gameOver =>
        \E s \in Side : /\ game.winner = game.player[s]
                        /\ game.botsRemaining[s] # 0
                        /\ game.botsRemaining[Other(s)] = 0

Hacks(game) == \A s \in Side, c \in Cell :
    /\ game.hacks[s][c] # BOT
    /\ game.hacks[s][c] # EMPTY => game.board[Other(s)][c] = game.hacks[s][c]

SoundGame(game) ==
    /\ game \in Game
    /\ Waiting(game) /\ Seats(game) /\ Counted(game)
    /\ Over(game) /\ Hacks(game)

-----------------------------------------------------------------------------
LEMMA Sides == Side = {1, 2} /\ \A s \in Side : Other(s) \in Side /\ Other(s) # s
                                             /\ Other(Other(s)) = s
  BY DEF Side, Other

LEMMA FiniteCells ==
    /\ IsFiniteSet(Cell)
    /\ \A S \in SUBSET Cell : IsFiniteSet(S) /\ Cardinality(S) \in Nat
                              /\ (Cardinality(S) = 0 <=> S = {})
  BY BotsAssumption, FS_Subset, FS_CardinalityType, FS_EmptySet

\* A game that has just been created is sound.
LEMMA NewGameSound ==
    ASSUME NEW p \in Player \cup {None}
    PROVE  SoundGame(NewGame(p))
<1> DEFINE game == NewGame(p)
<1>1. game \in Game
  BY BotsAssumption DEF NewGame, Game, Board, EMPTY_BOARD, Mark, EMPTY, Side
<1>2. /\ ~game.ready[1] /\ ~game.ready[2]
      /\ game.hacks = [s \in Side |-> EMPTY_BOARD]
      /\ game.botsRemaining = [s \in Side |-> BotCount]
      /\ ~game.gameOver /\ game.turn = 1
  BY DEF NewGame, Side
<1>3. Waiting(game) /\ Seats(game) /\ Counted(game)
  BY <1>2 DEF Waiting, Seats, Counted, Side, BothReady
<1>4. Over(game)
  BY <1>2, BotsAssumption DEF Over, Side
<1>5. Hacks(game)
  BY <1>2 DEF Hacks, EMPTY_BOARD, EMPTY, BOT, Side
<1> QED  BY <1>1, <1>3, <1>4, <1>5 DEF SoundGame

\* A second player, even the same, leaves a game sound.
LEMMA JoinedSound ==
    ASSUME NEW game, SoundGame(game), game.player[2] = None, NEW p \in Player
    PROVE  SoundGame([game EXCEPT !.player[2] = p])
<1> DEFINE new == [game EXCEPT !.player[2] = p]
<1>1. /\ new \in Game
      /\ new.hacks = game.hacks /\ new.board = game.board
      /\ new.ready = game.ready /\ new.botsRemaining = game.botsRemaining
      /\ new.gameOver = game.gameOver /\ new.turn = game.turn
  BY DEF SoundGame, Game, Side
<1>2. ~game.ready[2]
  BY DEF SoundGame, Seats
<1>3. ~game.gameOver
  BY <1>2 DEF SoundGame, Waiting, BothReady
<1>4. Waiting(new) /\ Seats(new) /\ Over(new) /\ Hacks(new)
  BY <1>1, <1>2, <1>3 DEF SoundGame, Waiting, BothReady, Seats, Over, Hacks
<1>5. Counted(new)
  BY <1>1 DEF SoundGame, Counted, BotsOf
<1> QED  BY <1>1, <1>4, <1>5 DEF SoundGame

\* The game after side s has placed its bots.
WithBots(game, s, locations) ==
    [game EXCEPT !.board[s] = locations, !.ready[s] = TRUE]

LEMMA PlacedFields ==
    ASSUME NEW game \in Game, NEW s \in Side, NEW locations \in Board
    PROVE  LET new == WithBots(game, s, locations)
           IN  /\ new \in Game
               /\ new.player = game.player /\ new.hacks = game.hacks
               /\ new.botsRemaining = game.botsRemaining
               /\ new.gameOver = game.gameOver /\ new.turn = game.turn
               /\ new.winner = game.winner
               /\ new.board[s] = locations
               /\ new.board[Other(s)] = game.board[Other(s)]
               /\ new.ready[s] /\ new.ready[Other(s)] = game.ready[Other(s)]
  BY Sides DEF WithBots, Game

\* Placing bots keeps a game sound, and changes only the bots of the side.
LEMMA PlacedSound ==
    ASSUME NEW game, SoundGame(game), NEW p \in Player, NEW s \in Side,
           s = SideOf(game, p), p = game.player[1] \/ p = game.player[2],
           NEW locations \in Board, MayPlace(game, s, locations)
    PROVE  LET new == WithBots(game, s, locations)
           IN  /\ SoundGame(new)
               /\ BotsOf(new, s) = CellsWith(locations, BOT)
               /\ BotsOf(new, Other(s)) = BotsOf(game, Other(s))
<1> DEFINE new == WithBots(game, s, locations)
<1>1. game \in Game  BY DEF SoundGame
<1>2. /\ new \in Game
      /\ new.player = game.player /\ new.hacks = game.hacks
      /\ new.botsRemaining = game.botsRemaining
      /\ new.gameOver = game.gameOver /\ new.turn = game.turn
      /\ new.winner = game.winner
      /\ new.board[s] = locations
      /\ new.board[Other(s)] = game.board[Other(s)]
      /\ new.ready[s] /\ new.ready[Other(s)] = game.ready[Other(s)]
  BY <1>1, PlacedFields
<1> HIDE DEF new
<1>3. /\ game.hacks = [t \in Side |-> EMPTY_BOARD]
      /\ game.botsRemaining = [t \in Side |-> BotCount]
      /\ ~game.gameOver /\ game.turn = 1
  BY DEF SoundGame, Waiting, MayPlace
<1>4. \A t \in Side, c \in Cell : game.hacks[t][c] = EMPTY
  BY <1>3 DEF EMPTY_BOARD
<1>5. Cardinality(CellsWith(locations, BOT)) = BotCount
  BY DEF MayPlace
<1>6. CellsWith(locations, BOT) # {}
  BY <1>5, FiniteCells, BotsAssumption DEF CellsWith
<1>7. BotsOf(new, s) = CellsWith(locations, BOT)
  BY <1>2, <1>4, Sides DEF BotsOf, CellsWith, EMPTY, INFECTED
<1>8. BotsOf(new, Other(s)) = BotsOf(game, Other(s))
  BY <1>2, <1>4, Sides DEF BotsOf
<1>9. Waiting(new) /\ Over(new) /\ Hacks(new)
  BY <1>2, <1>3, <1>4, BotsAssumption DEF Waiting, Over, Hacks, EMPTY, BOT, Side
<1>10. Seats(new)
  <2>1. CASE s = 2
    BY <2>1, <1>2, BotsAssumption DEF Seats, SideOf
  <2>2. CASE s = 1
    BY <2>2, <1>2 DEF Seats, SoundGame, Other
  <2> QED  BY <2>1, <2>2 DEF Side
<1>11. Counted(new)
  <2>1. new.botsRemaining[s] = BotCount
    BY <1>2, <1>3
  <2>2. game.ready[Other(s)] =>
            /\ game.botsRemaining[Other(s)]
                 = Cardinality(CellsWith(game.board[Other(s)], BOT))
            /\ BotsOf(game, Other(s)) # {}
    BY Sides DEF SoundGame, Counted
  <2>3. \A t \in Side : t = s \/ t = Other(s)
    BY DEF Side, Other
  <2> QED  BY <1>2, <1>5, <1>6, <1>7, <1>8, <2>1, <2>2, <2>3 DEF Counted
<1> QED  BY <1>2, <1>7, <1>8, <1>9, <1>10, <1>11 DEF SoundGame, new

-----------------------------------------------------------------------------
LEMMA HackedFields ==
    ASSUME NEW game, SoundGame(game), NEW s \in Side, NEW c \in Cell,
           BotsAfter(game, s, c) \in 0 .. BotCount
    PROVE  LET new == Hacked(game, s, c)
               hit == game.board[Other(s)][c] = BOT
               mark == IF hit THEN INFECTED ELSE MISS
               won == hit /\ BotsAfter(game, s, c) = 0
           IN  /\ new \in Game
               /\ new.player = game.player /\ new.ready = game.ready
               /\ new.hacks[s] = [game.hacks[s] EXCEPT ![c] = mark]
               /\ new.hacks[Other(s)] = game.hacks[Other(s)]
               /\ new.board[Other(s)] = [game.board[Other(s)] EXCEPT ![c] = mark]
               /\ new.board[s] = game.board[s]
               /\ new.botsRemaining[Other(s)] = BotsAfter(game, s, c)
               /\ new.botsRemaining[s] = game.botsRemaining[s]
               /\ new.gameOver = won
               /\ new.winner = IF won THEN game.player[s] ELSE game.winner
               /\ new.turn = Other(s)
<1> DEFINE mark == IF game.board[Other(s)][c] = BOT THEN INFECTED ELSE MISS
           left == BotsAfter(game, s, c)
           won == game.board[Other(s)][c] = BOT /\ left = 0
<1>1. game \in Game /\ mark \in Mark /\ left \in 0 .. BotCount /\ won \in BOOLEAN
  BY DEF SoundGame, Mark
<1>2. Hacked(game, s, c) = [game EXCEPT
            !.hacks[s][c] = mark,
            !.board[Other(s)][c] = mark,
            !.botsRemaining[Other(s)] = left,
            !.gameOver = won,
            !.winner = IF won THEN game.player[s] ELSE @,
            !.turn = Other(s)]
  BY DEF Hacked, Strike
<1> HIDE DEF mark, left, won
<1>3. Other(s) \in Side /\ Other(s) # s
  BY Sides
<1> DEFINE new == Hacked(game, s, c)
<1>4. /\ game.hacks[s] \in Board /\ game.board[Other(s)] \in Board
      /\ game.hacks \in [Side -> Board] /\ game.board \in [Side -> Board]
      /\ game.botsRemaining \in [Side -> 0 .. BotCount]
      /\ game.winner \in Player \cup {None} /\ game.player[s] \in Player \cup {None}
  BY <1>1, <1>3 DEF Game
<1>5. /\ new.player = game.player /\ new.ready = game.ready
      /\ new.hacks = [game.hacks EXCEPT ![s][c] = mark]
      /\ new.board = [game.board EXCEPT ![Other(s)][c] = mark]
      /\ new.botsRemaining = [game.botsRemaining EXCEPT ![Other(s)] = left]
      /\ new.gameOver = won
      /\ new.winner = (IF won THEN game.player[s] ELSE game.winner)
      /\ new.turn = Other(s)
  BY <1>1, <1>2 DEF Game
<1>6. /\ [game.hacks[s] EXCEPT ![c] = mark] \in Board
      /\ [game.board[Other(s)] EXCEPT ![c] = mark] \in Board
  BY <1>1, <1>4 DEF Board
<1>7. /\ new.hacks[s] = [game.hacks[s] EXCEPT ![c] = mark]
      /\ new.hacks[Other(s)] = game.hacks[Other(s)]
      /\ new.board[Other(s)] = [game.board[Other(s)] EXCEPT ![c] = mark]
      /\ new.board[s] = game.board[s]
      /\ new.botsRemaining[Other(s)] = left
      /\ new.botsRemaining[s] = game.botsRemaining[s]
  BY <1>3, <1>4, <1>5
<1>8. /\ [game.hacks EXCEPT ![s][c] = mark] \in [Side -> Board]
      /\ [game.board EXCEPT ![Other(s)][c] = mark] \in [Side -> Board]
      /\ [game.botsRemaining EXCEPT ![Other(s)] = left] \in [Side -> 0 .. BotCount]
      /\ (IF won THEN game.player[s] ELSE game.winner) \in Player \cup {None}
  BY <1>1, <1>3, <1>4, <1>6
<1>9. new \in Game
  BY <1>1, <1>2, <1>3, <1>8 DEF Game
<1> QED  BY <1>5, <1>7, <1>9 DEF mark, left, won

\* A hit takes one bot from the board, a miss none.
LEMMA BotsCounted ==
    ASSUME NEW board \in Board, NEW c \in Cell, NEW mark \in {INFECTED, MISS}
    PROVE  Cardinality(CellsWith([board EXCEPT ![c] = mark], BOT))
             = IF board[c] = BOT THEN Cardinality(CellsWith(board, BOT)) - 1
                                 ELSE Cardinality(CellsWith(board, BOT))
<1> DEFINE new == [board EXCEPT ![c] = mark]
<1>1. CellsWith(new, BOT) = CellsWith(board, BOT) \ {c}
  BY DEF Board, CellsWith, BOT, INFECTED, MISS
<1>2. CellsWith(board, BOT) \in SUBSET Cell
  BY DEF CellsWith
<1>3. IsFiniteSet(CellsWith(board, BOT))
  BY <1>2, FiniteCells
<1>4. Cardinality(CellsWith(board, BOT) \ {c})
        = IF c \in CellsWith(board, BOT) THEN Cardinality(CellsWith(board, BOT)) - 1
                                         ELSE Cardinality(CellsWith(board, BOT))
  BY <1>3, FS_RemoveElement
<1>5. c \in CellsWith(board, BOT) <=> board[c] = BOT
  BY DEF CellsWith
<1> QED  BY <1>1, <1>4, <1>5

\* In a game in play a side has no bots left exactly when they have been found.
LEMMA FoundAll ==
    ASSUME NEW game, SoundGame(game), NEW s \in Side, BothReady(game)
    PROVE  BotsOf(game, s) \subseteq Tried(game, Other(s)) <=> game.botsRemaining[s] = 0
<1>1. game.ready[s]
  BY DEF BothReady, Side
<1>2. game.botsRemaining[s] = Cardinality(CellsWith(game.board[s], BOT))
  BY <1>1 DEF SoundGame, Counted
<1>3. game.botsRemaining[s] = 0 <=> CellsWith(game.board[s], BOT) = {}
  BY <1>2, FiniteCells DEF CellsWith
<1>4. \A c \in Cell : game.hacks[Other(s)][c] # EMPTY =>
            /\ game.hacks[Other(s)][c] # BOT
            /\ game.board[s][c] = game.hacks[Other(s)][c]
  BY Sides DEF SoundGame, Hacks
<1>5. \A c \in Cell : game.board[s][c] = BOT => game.hacks[Other(s)][c] = EMPTY
  BY <1>4
<1> QED  BY <1>1, <1>3, <1>5 DEF BotsOf, Tried, CellsWith, EMPTY, INFECTED

\* The conditions under which tryHackingBot changes a game.
MayHack(game, s, c) ==
    /\ BothReady(game) /\ ~game.gameOver
    /\ s = game.turn /\ game.hacks[s][c] = EMPTY

\* Who may call tryHackingBot is on the side whose turn it is.
LEMMA SideOnTurn ==
    ASSUME NEW game, SoundGame(game), BothReady(game), NEW p \in Player,
           p = game.player[game.turn]
    PROVE  SideOf(game, p) = game.turn
<1>1. game.turn = 1 \/ game.turn = 2
  BY DEF SoundGame, Game, Side
<1>2. game.player[2] # game.player[1]
  BY DEF SoundGame, Seats, BothReady
<1> QED  BY <1>1, <1>2 DEF SideOf

\* Hacking a cell keeps a game sound; it adds the cell to those tried and moves
\* no bot.
LEMMA HackedSound ==
    ASSUME NEW game, SoundGame(game), NEW s \in Side, NEW c \in Cell,
           MayHack(game, s, c)
    PROVE  LET new == Hacked(game, s, c)
           IN  /\ SoundGame(new)
               /\ new.player = game.player
               /\ \A t \in Side : BotsOf(new, t) = BotsOf(game, t)
               /\ Tried(new, s) = Tried(game, s) \cup {c}
               /\ Tried(new, Other(s)) = Tried(game, Other(s))
               /\ new.turn = Other(s)
<1> DEFINE new == Hacked(game, s, c)
           t == Other(s)
           hit == game.board[t][c] = BOT
           mark == IF hit THEN INFECTED ELSE MISS
           left == BotsAfter(game, s, c)
           won == hit /\ left = 0
<1>1. /\ t \in Side /\ t # s /\ Other(t) = s
      /\ \A u \in Side : u = s \/ u = t
  BY DEF Side, Other
<1>2. game \in Game /\ game.ready[s] /\ game.ready[t]
  BY <1>1 DEF SoundGame, MayHack, BothReady, Side
<1>3. /\ game.hacks[s] \in Board /\ game.board[t] \in Board
      /\ game.botsRemaining[t] \in 0 .. BotCount
      /\ game.botsRemaining[s] \in 0 .. BotCount
  BY <1>1, <1>2 DEF Game
<1>4. mark \in {INFECTED, MISS} /\ mark # EMPTY /\ mark # BOT
  BY DEF INFECTED, MISS, EMPTY, BOT
<1>5. game.botsRemaining[t] = Cardinality(CellsWith(game.board[t], BOT))
  BY <1>1, <1>2 DEF SoundGame, Counted
<1>6. left = Cardinality(CellsWith([game.board[t] EXCEPT ![c] = mark], BOT))
  BY <1>3, <1>4, <1>5, BotsCounted DEF BotsAfter
<1>7. CellsWith([game.board[t] EXCEPT ![c] = mark], BOT) \in SUBSET Cell
  BY DEF CellsWith
<1>8. left \in Nat
  BY <1>6, <1>7, FiniteCells
<1>9. left \in 0 .. BotCount
  BY <1>3, <1>8, BotsAssumption DEF BotsAfter
<1>10. /\ new \in Game
       /\ new.player = game.player /\ new.ready = game.ready
       /\ new.hacks[s] = [game.hacks[s] EXCEPT ![c] = mark]
       /\ new.hacks[t] = game.hacks[t]
       /\ new.board[t] = [game.board[t] EXCEPT ![c] = mark]
       /\ new.board[s] = game.board[s]
       /\ new.botsRemaining[t] = left
       /\ new.botsRemaining[s] = game.botsRemaining[s]
       /\ new.gameOver = won
       /\ new.winner = IF won THEN game.player[s] ELSE game.winner
       /\ new.turn = t
  BY <1>9, HackedFields
<1> HIDE DEF new, mark, left, won, t
<1>11. /\ game.hacks[s][c] = EMPTY /\ game.turn = s /\ ~game.gameOver
  BY DEF MayHack
<1>12. /\ new.hacks[s][c] = mark /\ new.board[t][c] = mark
       /\ \A d \in Cell : d # c => /\ new.hacks[s][d] = game.hacks[s][d]
                                   /\ new.board[t][d] = game.board[t][d]
  BY <1>3, <1>10 DEF Board
<1>13. Tried(new, s) = Tried(game, s) \cup {c}
  BY <1>4, <1>12 DEF Tried
<1>14. Tried(new, t) = Tried(game, t)
  BY <1>10 DEF Tried
<1>15. BotsOf(new, s) = BotsOf(game, s)
  BY <1>1, <1>10, t = Other(s) DEF BotsOf, t
<1>16. BotsOf(new, t) = BotsOf(game, t)
  <2>1. \A d \in Cell : new.board[t][d] = BOT \/ new.hacks[s][d] = INFECTED
                    <=> game.board[t][d] = BOT \/ game.hacks[s][d] = INFECTED
    BY <1>11, <1>12 DEF mark, hit, EMPTY, BOT, INFECTED, MISS
  <2>2. new.ready[t] = game.ready[t]
    BY <1>10
  <2> QED  BY <1>1, <2>1, <2>2 DEF BotsOf
<1>17. Waiting(new)
  BY <1>2, <1>10 DEF Waiting, BothReady, MayHack
<1>18. Seats(new)
  BY <1>10 DEF SoundGame, Seats
<1>19. Counted(new)
  <2>1. BotsOf(game, s) # {} /\ BotsOf(game, t) # {}
    BY <1>1, <1>2 DEF SoundGame, Counted
  <2>2. game.botsRemaining[s] = Cardinality(CellsWith(game.board[s], BOT))
    BY <1>2 DEF SoundGame, Counted
  <2>3. /\ new.botsRemaining[s] = Cardinality(CellsWith(new.board[s], BOT))
        /\ new.botsRemaining[t] = Cardinality(CellsWith(new.board[t], BOT))
    BY <2>2, <1>6, <1>10
  <2> QED  BY <1>1, <1>15, <1>16, <2>1, <2>3 DEF Counted
<1>20. game.botsRemaining[s] # 0 /\ game.botsRemaining[t] # 0
  BY <1>1, <1>11 DEF SoundGame, Over
<1>21. won <=> left = 0
  BY <1>3, <1>20 DEF won, left, BotsAfter, t, hit
<1>22. Over(new)
  <2>1. new.botsRemaining[s] # 0 /\ (new.botsRemaining[t] = 0 <=> won)
    BY <1>10, <1>20, <1>21
  <2>2. new.gameOver <=> won
    BY <1>10
  <2>3. new.gameOver => new.winner = new.player[s]
    BY <1>10, <2>2
  <2> QED  BY <1>1, <2>1, <2>2, <2>3, t = Other(s) DEF Over, t
<1>23. Hacks(new)
  <2>1. \A u \in Side, d \in Cell :
            /\ game.hacks[u][d] # BOT
            /\ game.hacks[u][d] # EMPTY => game.board[Other(u)][d] = game.hacks[u][d]
    BY DEF SoundGame, Hacks
  <2>2. \A d \in Cell :
            /\ new.hacks[s][d] # BOT
            /\ new.hacks[s][d] # EMPTY => new.board[t][d] = new.hacks[s][d]
    BY <2>1, <1>4, <1>12 DEF t
  <2>3. \A d \in Cell :
            /\ new.hacks[t][d] # BOT
            /\ new.hacks[t][d] # EMPTY => new.board[s][d] = new.hacks[t][d]
    BY <2>1, <1>1, <1>10
  <2> QED  BY <1>1, <2>2, <2>3, t = Other(s) DEF Hacks, t
<1>24. SoundGame(new)
  BY <1>10, <1>17, <1>18, <1>19, <1>22, <1>23 DEF SoundGame
<1> QED  BY <1>1, <1>10, <1>13, <1>14, <1>15, <1>16, <1>24 DEF new, t

-----------------------------------------------------------------------------
(***************************************************************************)
(* The contract: its games are sound, and the lists of games are right.    *)
(***************************************************************************)
Given == \A g \in GameId :
    IF g > gameCounter
    THEN games[g] = NewGame(None)
    ELSE games[g].player[1] \in Player

IInv ==
    /\ TypeOK
    /\ \A g \in GameId : SoundGame(games[g])
    /\ Given
    /\ GamesListed

LEMMA InitIInv == Init => IInv
<1> SUFFICES ASSUME Init PROVE IInv
  OBVIOUS
<1>1. SoundGame(NewGame(None))
  BY NewGameSound
<1>2. \A g \in GameId : SoundGame(games[g]) /\ games[g] = NewGame(None)
  BY <1>1 DEF Init
<1>3. TypeOK
  BY <1>1, BotsAssumption DEF Init, TypeOK, SoundGame
<1>4. Given
  BY <1>2, BotsAssumption DEF Given, Init, GameId
<1>5. GamesListed
  <2>1. \A p \in Player, g \in GameId, s \in Side : games[g].player[s] # p
    BY <1>2, BotsAssumption DEF NewGame
  <2>2. \A p \in Player : playerGames[p] = <<>>
    BY DEF Init
  <2>3. \A g \in GameId : ~(g < gameCounter)
    BY BotsAssumption DEF Init, GameId
  <2> QED  BY <2>1, <2>2, <2>3 DEF GamesListed
<1> QED  BY <1>2, <1>3, <1>4, <1>5 DEF IInv

\* Appending a new, highest game to the list of a player who takes a side of it.
LEMMA ListedAfter ==
    ASSUME IInv, NEW g \in GameId, g >= gameCounter, NEW p \in Player,
           playerGames' = [playerGames EXCEPT ![p] = Append(@, g)],
           gameCounter' = g,
           \A q \in Player : (\E s \in Side : games'[g].player[s] = q)
                <=> q = p \/ \E s \in Side : games[g].player[s] = q,
           \A h \in GameId \ {g} : games'[h] = games[h],
           g = gameCounter \/ (gameCounter # 0 => games[gameCounter].player[2] # None),
           g = gameCounter \/ g = gameCounter + 1
    PROVE  GamesListed' /\ playerGames' \in [Player -> Seq(GameId)]
<1>1. playerGames \in [Player -> Seq(GameId)] /\ gameCounter \in 0 .. MaxGames
  BY DEF IInv, TypeOK
<1>2. playerGames' \in [Player -> Seq(GameId)]
  BY <1>1
<1>3. \A q \in Player, h \in GameId :
        (\E i \in DOMAIN playerGames[q] : playerGames[q][i] = h)
            <=> \E s \in Side : games[h].player[s] = q
  BY DEF IInv, GamesListed
<1>4. ASSUME NEW q \in Player, NEW h \in GameId
      PROVE  (\E i \in DOMAIN playerGames'[q] : playerGames'[q][i] = h)
                <=> \E s \in Side : games'[h].player[s] = q
  <2>1. CASE q # p
    BY <2>1, <1>1, <1>3
  <2>2. CASE q = p
    <3>1. /\ playerGames'[p] = Append(playerGames[p], g)
          /\ playerGames[p] \in Seq(GameId)
      BY <1>1
    <3>2. (\E i \in DOMAIN playerGames'[p] : playerGames'[p][i] = h)
            <=> h = g \/ \E i \in DOMAIN playerGames[p] : playerGames[p][i] = h
      BY <3>1
    <3> QED  BY <2>2, <3>2, <1>3
  <2> QED  BY <2>1, <2>2
<1>5. \A q \in Player : \A i \in DOMAIN playerGames[q] :
        playerGames[q][i] \in GameId /\ playerGames[q][i] <= gameCounter
  <2> SUFFICES ASSUME NEW q \in Player, NEW i \in DOMAIN playerGames[q]
               PROVE  playerGames[q][i] \in GameId /\ playerGames[q][i] <= gameCounter
    OBVIOUS
  <2>1. playerGames[q][i] \in GameId
    BY <1>1
  <2>2. \E s \in Side : games[playerGames[q][i]].player[s] = q
    BY <1>3, <2>1
  <2>3. playerGames[q][i] > gameCounter =>
            \A s \in Side : games[playerGames[q][i]].player[s] = None
    BY <2>1 DEF IInv, Given, NewGame
  <2> QED  BY <2>1, <2>2, <2>3, <1>1, BotsAssumption DEF GameId
<1>6. ASSUME NEW q \in Player, NEW i \in DOMAIN playerGames'[q],
             NEW j \in DOMAIN playerGames'[q], i <= j
      PROVE  playerGames'[q][i] <= playerGames'[q][j]
  <2>1. \A k, l \in DOMAIN playerGames[q] :
            k <= l => playerGames[q][k] <= playerGames[q][l]
    BY DEF IInv, GamesListed
  <2>2. CASE q # p
    BY <2>1, <2>2, <1>1, <1>6
  <2>3. CASE q = p
    <3>1. /\ playerGames'[q] = Append(playerGames[q], g)
          /\ playerGames[q] \in Seq(GameId)
      BY <1>1, <2>3
    <3>2. g \in Nat /\ gameCounter \in Nat
      BY <1>1 DEF GameId
    <3>3. CASE j \in DOMAIN playerGames[q]
      BY <1>6, <2>1, <3>1, <3>3
    <3>4. CASE j \notin DOMAIN playerGames[q]
      <4>1. j = Len(playerGames[q]) + 1 /\ playerGames'[q][j] = g
        BY <3>1, <3>4
      <4>2. CASE i = j
        BY <4>1, <4>2, <3>2
      <4>3. CASE i # j
        <5>1. i \in DOMAIN playerGames[q] /\ playerGames'[q][i] = playerGames[q][i]
          BY <3>1, <4>1, <4>3, <1>6
        <5>2. playerGames[q][i] \in GameId /\ playerGames[q][i] <= gameCounter
          BY <5>1, <1>5
        <5> QED  BY <4>1, <5>1, <5>2, <3>2 DEF GameId
      <4> QED  BY <4>2, <4>3
    <3> QED  BY <3>3, <3>4
  <2> QED  BY <2>2, <2>3
<1>7. ASSUME NEW h \in GameId, h < g  PROVE games'[h].player[2] # None
  <2>1. games'[h] = games[h]
    BY <1>7 DEF GameId
  <2>2. h < gameCounter => games[h].player[2] # None
    BY DEF IInv, GamesListed
  <2>3. h < gameCounter \/ h = gameCounter
    BY <1>1, <1>7 DEF GameId
  <2> QED  BY <2>1, <2>2, <2>3, <1>7 DEF GameId
<1> QED  BY <1>2, <1>4, <1>6, <1>7 DEF GamesListed

\* A step that changes a game that has been given out, but not its players.
LEMMA OneGameChanged ==
    ASSUME IInv, NEW g \in GameId, g <= gameCounter, NEW new, SoundGame(new),
           new.player = games[g].player,
           games' = [games EXCEPT ![g] = new],
           UNCHANGED <<gameCounter, playerGames>>
    PROVE  IInv'
<1>1. games \in [GameId -> Game] /\ new \in Game
  BY DEF IInv, TypeOK, SoundGame
<1>2. TypeOK'
  BY <1>1 DEF IInv, TypeOK
<1>3. \A h \in GameId : SoundGame(games'[h])
  BY <1>1 DEF IInv
<1>4. \A h \in GameId : games'[h].player = games[h].player /\ (h # g => games'[h] = games[h])
  BY <1>1
<1>5. Given'
  BY <1>4, <1>1 DEF IInv, Given, GameId, TypeOK
<1>6. GamesListed'
  BY <1>4 DEF IInv, GamesListed
<1> QED  BY <1>2, <1>3, <1>5, <1>6 DEF IInv

LEMMA CreateGameIInv ==
    ASSUME IInv, NEW p \in Player, CreateGame(p)  PROVE IInv'
<1> DEFINE g == gameCounter + 1
<1>1. games \in [GameId -> Game] /\ gameCounter \in 0 .. MaxGames /\ g \in GameId
  BY DEF IInv, TypeOK, CreateGame
<1>2. /\ games' = [games EXCEPT ![g] = NewGame(p)] /\ gameCounter' = g
      /\ playerGames' = [playerGames EXCEPT ![p] = Append(@, g)]
      /\ gameCounter # 0 => games[gameCounter].player[2] # None
  BY DEF CreateGame
<1>3. SoundGame(NewGame(p)) /\ NewGame(p) \in Game
  BY NewGameSound DEF SoundGame
<1>4. games[g] = NewGame(None)
  BY <1>1 DEF IInv, Given
<1>5. games'[g] = NewGame(p) /\ \A h \in GameId \ {g} : games'[h] = games[h]
  BY <1>1, <1>2
<1>6. \A q \in Player : (\E s \in Side : games'[g].player[s] = q)
                <=> q = p \/ \E s \in Side : games[g].player[s] = q
  BY <1>4, <1>5, BotsAssumption DEF NewGame, Side
<1>7. GamesListed' /\ playerGames' \in [Player -> Seq(GameId)]
  <2>1. /\ g >= gameCounter
        /\ g = gameCounter \/ g = gameCounter + 1
        /\ g = gameCounter \/ (gameCounter # 0 => games[gameCounter].player[2] # None)
    BY <1>1, <1>2
  <2>2. \A h \in GameId \ {g} : games'[h] = games[h]
    BY <1>5
  <2> HIDE DEF g
  <2> QED  BY <1>1, <1>2, <1>6, <2>1, <2>2, ListedAfter, Zenon
<1>8. games' \in [GameId -> Game] /\ gameCounter' \in 0 .. MaxGames
  BY <1>1, <1>2, <1>3, BotsAssumption DEF GameId
<1>9. \A h \in GameId : SoundGame(games'[h])
  BY <1>3, <1>5 DEF IInv
<1>10. Given'
  <2>1. NewGame(p).player[1] = p
    BY DEF NewGame, Side
  <2> QED  BY <1>1, <1>2, <1>5, <2>1 DEF IInv, Given, GameId
<1> QED  BY <1>7, <1>8, <1>9, <1>10 DEF IInv, TypeOK

LEMMA JoinGameIInv ==
    ASSUME IInv, NEW p \in Player, JoinGame(p)  PROVE IInv'
<1> DEFINE g == gameCounter
           new == [games[g] EXCEPT !.player[2] = p]
<1>1. /\ games \in [GameId -> Game] /\ gameCounter \in 0 .. MaxGames
      /\ g \in GameId /\ games[g].player[2] = None
  BY BotsAssumption DEF IInv, TypeOK, JoinGame, GameId
<1>2. /\ games' = [games EXCEPT ![g] = new] /\ gameCounter' = g
      /\ playerGames' = [playerGames EXCEPT ![p] = Append(@, g)]
  BY <1>1 DEF JoinGame
<1>3. SoundGame(new) /\ new \in Game
  BY <1>1, JoinedSound DEF IInv, SoundGame
<1>4. games'[g] = new /\ \A h \in GameId \ {g} : games'[h] = games[h]
  BY <1>1, <1>2
<1>5. new.player[1] = games[g].player[1] /\ new.player[2] = p
  BY <1>1 DEF Game, Side
<1>6. \A q \in Player : (\E s \in Side : games'[g].player[s] = q)
                <=> q = p \/ \E s \in Side : games[g].player[s] = q
  BY <1>1, <1>4, <1>5, BotsAssumption DEF Side
<1>7. GamesListed' /\ playerGames' \in [Player -> Seq(GameId)]
  <2>1. /\ g >= gameCounter
        /\ g = gameCounter \/ g = gameCounter + 1
        /\ g = gameCounter \/ (gameCounter # 0 => games[gameCounter].player[2] # None)
    BY <1>1
  <2>2. \A h \in GameId \ {g} : games'[h] = games[h]
    BY <1>4
  <2> HIDE DEF g
  <2> QED  BY <1>1, <1>2, <1>6, <2>1, <2>2, ListedAfter, Zenon
<1>8. games' \in [GameId -> Game] /\ gameCounter' \in 0 .. MaxGames
  BY <1>1, <1>2, <1>3
<1>9. \A h \in GameId : SoundGame(games'[h])
  BY <1>3, <1>4 DEF IInv
<1>10. Given'
  BY <1>1, <1>2, <1>4, <1>5 DEF IInv, Given, GameId
<1> QED  BY <1>7, <1>8, <1>9, <1>10 DEF IInv, TypeOK

LEMMA PlaceBotsIInv ==
    ASSUME IInv, NEW p \in Player, NEW g \in GameId, NEW locations \in Locations,
           placeBots(p, g, locations)
    PROVE  IInv'
<1> DEFINE s == SideOf(games[g], p)
           new == WithBots(games[g], s, locations)
<1>1. /\ games \in [GameId -> Game] /\ g <= gameCounter
      /\ p = games[g].player[1] \/ p = games[g].player[2]
      /\ MayPlace(games[g], s, locations)
      /\ UNCHANGED <<gameCounter, playerGames>>
  BY DEF IInv, TypeOK, placeBots, PlayersTurn
<1>2. s \in Side /\ locations \in Board
  BY DEF SideOf, Side, Locations, Board, Mark
<1>3. games' = [games EXCEPT ![g] = new]
  BY <1>1 DEF placeBots, WithBots
<1>4. SoundGame(new)
  BY <1>1, <1>2, PlacedSound DEF IInv
<1>5. new.player = games[g].player
  BY <1>1, <1>2, PlacedFields
<1> QED  BY <1>1, <1>3, <1>4, <1>5, OneGameChanged

LEMMA HackedIInv ==
    ASSUME IInv, NEW p \in Player, NEW g \in GameId, NEW c \in Cell,
           tryHackingBot(p, g, c)
    PROVE  /\ IInv'
           /\ MayHack(games[g], games[g].turn, c)
           /\ games' = [games EXCEPT ![g] = Hacked(games[g], games[g].turn, c)]
<1>1. /\ games \in [GameId -> Game] /\ g <= gameCounter
      /\ BothReady(games[g]) /\ ~games[g].gameOver
      /\ p = games[g].player[games[g].turn]
      /\ UNCHANGED <<gameCounter, playerGames>>
  BY DEF IInv, TypeOK, tryHackingBot, PlayersTurn
<1>2. SideOf(games[g], p) = games[g].turn
  BY <1>1, SideOnTurn DEF IInv
<1>3. MayHack(games[g], games[g].turn, c)
  BY <1>1, <1>2 DEF tryHackingBot, MayHack
<1>4. games' = [games EXCEPT ![g] = Hacked(games[g], games[g].turn, c)]
  BY <1>1, <1>2 DEF tryHackingBot
<1>5. games[g].turn \in Side
  BY <1>1 DEF Game
<1>6. /\ SoundGame(Hacked(games[g], games[g].turn, c))
      /\ Hacked(games[g], games[g].turn, c).player = games[g].player
  BY <1>3, <1>5, HackedSound DEF IInv
<1> QED  BY <1>1, <1>3, <1>4, <1>6, OneGameChanged

LEMMA NextIInv == IInv /\ [Next]_vars => IInv'
<1> SUFFICES ASSUME IInv, [Next]_vars PROVE IInv'
  OBVIOUS
<1>1. CASE UNCHANGED vars
  BY <1>1 DEF IInv, vars, TypeOK, Given, GamesListed
<1>2. ASSUME NEW p \in Player, CreateGame(p) PROVE IInv'
  BY <1>2, CreateGameIInv
<1>3. ASSUME NEW p \in Player, JoinGame(p) PROVE IInv'
  BY <1>3, JoinGameIInv
<1>4. ASSUME NEW p \in Player, NEW g \in GameId, NEW l \in Locations, placeBots(p, g, l)
      PROVE  IInv'
  BY <1>4, PlaceBotsIInv
<1>5. ASSUME NEW p \in Player, NEW g \in GameId, NEW c \in Cell, tryHackingBot(p, g, c)
      PROVE  IInv'
  BY <1>5, HackedIInv
<1> QED  BY <1>1, <1>2, <1>3, <1>4, <1>5 DEF Next

LEMMA SpecIInv == Spec => []IInv
  BY InitIInv, NextIInv, PTL DEF Spec

\* Games have the declared form for all of their life; in particular no
\* counter of bots falls below zero (BotsAttack.sol:191).
THEOREM GamesTyped == Spec => []TypeOK
<1>1. IInv => TypeOK
  BY DEF IInv
<1> QED  BY <1>1, SpecIInv, PTL

\* The counters, the boards and the winner agree (BotsAttack.sol:189-205).
THEOREM CountersRight == Spec => []CountersMatchBoards
<1>1. IInv => CountersMatchBoards
  BY DEF IInv, SoundGame, Counted, Over, CountersMatchBoards
<1> QED  BY <1>1, SpecIInv, PTL

\* A player sees on the hacks board what the opponent's board holds
\* (BotsAttack.sol:185-187).
THEOREM HacksRight == Spec => []HacksOnBoard
<1>1. IInv => HacksOnBoard
  BY DEF IInv, SoundGame, Hacks, HacksOnBoard
<1> QED  BY <1>1, SpecIInv, PTL

\* playerGames has exactly the games of a player, and only the last one is open
\* (BotsAttack.sol:80-112).
THEOREM ListsRight == Spec => []GamesListed
<1>1. IInv => GamesListed
  BY DEF IInv
<1> QED  BY <1>1, SpecIInv, PTL

\* As long as a game in play is not over the player on turn can move: who has
\* hacked all cells has hit all bots (BotsAttack.sol:181).
THEOREM NobodyStuck == Spec => []MoveLeft
<1>1. ASSUME IInv, NEW g \in GameId, BothReady(games[g]), ~games[g].gameOver
      PROVE  \E c \in Cell : games[g].hacks[games[g].turn][c] = EMPTY
  <2> DEFINE game == games[g]
             s == game.turn
  <2>1. SoundGame(game) /\ s \in Side
    BY <1>1 DEF IInv, SoundGame, Game
  <2>2. game.botsRemaining[Other(s)] # 0
    BY <1>1, <2>1, Sides DEF SoundGame, Over
  <2>3. ~(BotsOf(game, Other(s)) \subseteq Tried(game, s))
    BY <1>1, <2>1, <2>2, FoundAll, Sides
  <2> QED  BY <2>3 DEF BotsOf, Tried
<1>2. IInv => MoveLeft
  BY <1>1 DEF MoveLeft
<1> QED  BY <1>2, SpecIInv, PTL

-----------------------------------------------------------------------------
(***************************************************************************)
(* The contract implements Duel.                                           *)
(***************************************************************************)
LEMMA DuelInitially == Init => D!DuelInit
<1> SUFFICES ASSUME Init PROVE D!DuelInit
  OBVIOUS
<1>1. \A g \in GameId : games[g] = NewGame(None)
  BY DEF Init
<1>2. \A g \in GameId : games[g].player = [s \in Side |-> None]
  BY <1>1 DEF NewGame, Side
<1>3. \A g \in GameId, s \in Side : BotsOf(games[g], s) = {}
  BY <1>1 DEF NewGame, BotsOf
<1>4. \A g \in GameId, s \in Side : {c \in Cell : games[g].hacks[s][c] # EMPTY} = {}
  BY <1>1 DEF NewGame, EMPTY_BOARD
<1>5. \A g \in GameId : games[g].turn = 1
  BY <1>1 DEF NewGame
<1> QED  BY <1>2, <1>3, <1>4, <1>5 DEF D!DuelInit, Init, D!Sides, Side, seatOf, botsOf, triedOf, onTurnOf, Tried

LEMMA PlacedInPlay ==
    ASSUME NEW game, SoundGame(game)
    PROVE  BothReady(game) <=> BotsOf(game, 1) # {} /\ BotsOf(game, 2) # {}
  BY DEF SoundGame, Counted, BotsOf, BothReady, Side

LEMMA OpensDuel ==
    ASSUME IInv, NEW p \in Player, CreateGame(p)  PROVE D!Open(p)
<1> DEFINE g == gameCounter + 1
<1>1. games \in [GameId -> Game] /\ gameCounter \in 0 .. MaxGames /\ g \in GameId
  BY DEF IInv, TypeOK, CreateGame
<1>2. games' = [games EXCEPT ![g] = NewGame(p)] /\ gameCounter' = g
  BY DEF CreateGame
<1>3. games[g] = NewGame(None)
  BY <1>1 DEF IInv, Given
<1>4. games'[g] = NewGame(p) /\ \A h \in GameId \ {g} : games'[h] = games[h]
  BY <1>1, <1>2
<1>5. NewGame(p).player = [NewGame(None).player EXCEPT ![1] = p]
  BY DEF NewGame, Side
<1>6. \A s \in Side : /\ BotsOf(NewGame(p), s) = BotsOf(NewGame(None), s)
                      /\ Tried(NewGame(p), s) = Tried(NewGame(None), s)
  BY DEF NewGame, BotsOf, Tried
<1>7. seatOf' = [seatOf EXCEPT ![g][1] = p]
  BY <1>1, <1>3, <1>4, <1>5 DEF seatOf
<1>8. botsOf' = botsOf /\ triedOf' = triedOf /\ onTurnOf' = onTurnOf
  <2>1. \A h \in GameId, s \in Side : BotsOf(games'[h], s) = BotsOf(games[h], s)
                                   /\ Tried(games'[h], s) = Tried(games[h], s)
    BY <1>3, <1>4, <1>6
  <2>2. \A h \in GameId : games'[h].turn = games[h].turn
    BY <1>3, <1>4 DEF NewGame
  <2> QED  BY <2>1, <2>2 DEF botsOf, triedOf, onTurnOf
<1>9. gameCounter # 0 => seatOf[gameCounter][2] # None
  BY <1>1, BotsAssumption DEF CreateGame, seatOf, GameId
<1> QED  BY <1>1, <1>2, <1>7, <1>8, <1>9 DEF D!Open

LEMMA JoinsDuel ==
    ASSUME IInv, NEW p \in Player, JoinGame(p)  PROVE D!Join(p)
<1> DEFINE g == gameCounter
           new == [games[g] EXCEPT !.player[2] = p]
<1>1. /\ games \in [GameId -> Game] /\ gameCounter \in 0 .. MaxGames
      /\ g \in GameId /\ games[g].player[2] = None
  BY BotsAssumption DEF IInv, TypeOK, JoinGame, GameId
<1>2. games' = [games EXCEPT ![g] = new] /\ UNCHANGED gameCounter
  BY <1>1 DEF JoinGame
<1>3. games'[g] = new /\ \A h \in GameId \ {g} : games'[h] = games[h]
  BY <1>1, <1>2
<1>4. /\ new.player = [games[g].player EXCEPT ![2] = p]
      /\ new.board = games[g].board /\ new.hacks = games[g].hacks
      /\ new.ready = games[g].ready /\ new.turn = games[g].turn
  BY <1>1 DEF Game
<1>5. seatOf' = [seatOf EXCEPT ![g][2] = p]
  BY <1>1, <1>3, <1>4 DEF seatOf
<1>6. botsOf' = botsOf /\ triedOf' = triedOf /\ onTurnOf' = onTurnOf
  <2>1. \A h \in GameId, s \in Side : BotsOf(games'[h], s) = BotsOf(games[h], s)
                                   /\ Tried(games'[h], s) = Tried(games[h], s)
    <3> SUFFICES ASSUME NEW h \in GameId, NEW s \in Side
                 PROVE  /\ BotsOf(games'[h], s) = BotsOf(games[h], s)
                        /\ Tried(games'[h], s) = Tried(games[h], s)
      OBVIOUS
    <3> HIDE DEF new
    <3>1. CASE h = g
      BY <3>1, <1>3, <1>4 DEF BotsOf, Tried
    <3>2. CASE h # g
      BY <3>2, <1>3
    <3> QED  BY <3>1, <3>2
  <2>2. \A h \in GameId : games'[h].turn = games[h].turn
    BY <1>3, <1>4
  <2> QED  BY <2>1, <2>2 DEF botsOf, triedOf, onTurnOf
<1> QED  BY <1>1, <1>2, <1>5, <1>6 DEF D!Join, seatOf

LEMMA HidesBots ==
    ASSUME IInv, NEW p \in Player, NEW g \in GameId, NEW locations \in Locations,
           placeBots(p, g, locations)
    PROVE  \E s \in Side, B \in Fleet : D!Hide(g, s, B)
<1> DEFINE s == SideOf(games[g], p)
           new == WithBots(games[g], s, locations)
           B == CellsWith(locations, BOT)
<1>1. /\ games \in [GameId -> Game]
      /\ p = games[g].player[1] \/ p = games[g].player[2]
      /\ MayPlace(games[g], s, locations)
      /\ UNCHANGED <<gameCounter, playerGames>>
      /\ SoundGame(games[g])
  BY DEF IInv, TypeOK, placeBots, PlayersTurn
<1>2. s \in Side /\ locations \in Board /\ games[g].player[s] = p
  BY <1>1 DEF SideOf, Side, Locations, Board, Mark
<1>3. games' = [games EXCEPT ![g] = new]
  BY <1>1 DEF placeBots, WithBots
<1>4. /\ BotsOf(new, s) = B /\ BotsOf(new, Other(s)) = BotsOf(games[g], Other(s))
  BY <1>1, <1>2, PlacedSound
<1>5. /\ new.player = games[g].player /\ new.hacks = games[g].hacks
      /\ new.turn = games[g].turn
  BY <1>1, <1>2, PlacedFields
<1> HIDE DEF new, s
<1>6. games'[g] = new /\ \A h \in GameId \ {g} : games'[h] = games[h]
  BY <1>1, <1>3
<1>7. botsOf' = [botsOf EXCEPT ![g][s] = B]
  <2>1. \A t \in Side : BotsOf(new, t) = IF t = s THEN B ELSE BotsOf(games[g], t)
    BY <1>2, <1>4 DEF Side, Other
  <2> QED  BY <1>2, <1>6, <2>1 DEF botsOf
<1>8. seatOf' = seatOf /\ triedOf' = triedOf /\ onTurnOf' = onTurnOf
  BY <1>5, <1>6 DEF seatOf, triedOf, onTurnOf, Tried
<1>9. ~BothReady(games[g]) /\ B \in Fleet
  BY <1>1 DEF MayPlace, CellsWith, Fleet
<1>10. ~(botsOf[g][1] # {} /\ botsOf[g][2] # {})
  BY <1>1, <1>9, PlacedInPlay DEF botsOf, Side
<1>11. seatOf[g][s] # None
  BY <1>2, BotsAssumption DEF seatOf
<1>12. D!Hide(g, s, B)
  BY <1>1, <1>2, <1>7, <1>8, <1>9, <1>10, <1>11 DEF D!Hide, D!Placed
<1> QED  BY <1>2, <1>9, <1>12

LEMMA TriesCell ==
    ASSUME IInv, NEW p \in Player, NEW g \in GameId, NEW c \in Cell,
           tryHackingBot(p, g, c)
    PROVE  \E s \in Side : D!Try(g, s, c)
<1>1. /\ games \in [GameId -> Game] /\ SoundGame(games[g])
      /\ UNCHANGED <<gameCounter, playerGames>>
  BY DEF IInv, TypeOK, tryHackingBot
<1>2. PICK s \in Side : s = games[g].turn
  BY <1>1 DEF Game
<1> DEFINE new == Hacked(games[g], s, c)
<1>3. MayHack(games[g], s, c) /\ games' = [games EXCEPT ![g] = new]
  BY <1>2, HackedIInv
<1>4. /\ new.player = games[g].player
      /\ \A t \in Side : BotsOf(new, t) = BotsOf(games[g], t)
      /\ Tried(new, s) = Tried(games[g], s) \cup {c}
      /\ Tried(new, Other(s)) = Tried(games[g], Other(s))
      /\ new.turn = Other(s)
  BY <1>1, <1>2, <1>3, HackedSound
<1> HIDE DEF new
<1>5. games'[g] = new /\ \A h \in GameId \ {g} : games'[h] = games[h]
  BY <1>1, <1>3
<1>6. seatOf' = seatOf /\ botsOf' = botsOf
  BY <1>4, <1>5 DEF seatOf, botsOf
<1>7. triedOf' = [triedOf EXCEPT ![g][s] = @ \cup {c}]
  <2>1. \A t \in Side : Tried(new, t) = IF t = s THEN Tried(games[g], s) \cup {c}
                                                 ELSE Tried(games[g], t)
    BY <1>2, <1>4 DEF Side, Other
  <2>2. triedOf[g][s] = Tried(games[g], s)
    BY <1>2 DEF triedOf
  <2>3. triedOf' = [triedOf EXCEPT ![g][s] = Tried(games[g], s) \cup {c}]
    <3>1. triedOf' = [h \in GameId |-> [t \in Side |-> Tried(games'[h], t)]]
      BY DEF triedOf
    <3>2. ASSUME NEW h \in GameId
          PROVE  [t \in Side |-> Tried(games'[h], t)] =
                   IF h = g THEN [triedOf[g] EXCEPT ![s] = Tried(games[g], s) \cup {c}]
                            ELSE triedOf[h]
      <4>1. CASE h = g
        BY <1>2, <1>5, <2>1, <4>1 DEF triedOf
      <4>2. CASE h # g
        BY <1>5, <4>2 DEF triedOf
      <4> QED  BY <4>1, <4>2
    <3>3. triedOf = [h \in GameId |-> triedOf[h]]
      BY DEF triedOf
    <3> QED  BY <3>1, <3>2, <3>3
  <2> QED  BY <2>2, <2>3
<1>8. botsOf[g][1] # {} /\ botsOf[g][2] # {}
  BY <1>1, <1>3, PlacedInPlay DEF botsOf, MayHack, Side
<1>9. s = onTurnOf[g] /\ onTurnOf' = [onTurnOf EXCEPT ![g] = Other(s)]
  BY <1>2, <1>4, <1>5 DEF onTurnOf
<1>10. ASSUME NEW t \in Side PROVE ~(botsOf[g][Other(t)] \subseteq triedOf[g][t])
  <2>1. games[g].botsRemaining[Other(t)] # 0
    BY <1>1, <1>3, Sides DEF SoundGame, Over, MayHack
  <2>2. ~(BotsOf(games[g], Other(t)) \subseteq Tried(games[g], t))
    BY <1>1, <1>3, <2>1, FoundAll, Sides DEF MayHack
  <2> QED  BY <2>2, Sides DEF botsOf, triedOf
<1>11. c \in Cell \ triedOf[g][s]
  BY <1>2, <1>3 DEF MayHack, triedOf, Tried
<1>12. D!Try(g, s, c)
  BY <1>1, <1>2, <1>6, <1>7, <1>8, <1>9, <1>10, <1>11
     DEF D!Try, D!Placed, D!HasWon, D!Rival, Other, Side
<1> QED  BY <1>2, <1>12

LEMMA DuelSteps == IInv /\ [Next]_vars => [D!DuelNext]_(D!duelVars)
<1> SUFFICES ASSUME IInv, [Next]_vars PROVE [D!DuelNext]_(D!duelVars)
  OBVIOUS
<1>1. CASE UNCHANGED vars
  BY <1>1 DEF vars, D!duelVars, seatOf, botsOf, triedOf, onTurnOf, BotsOf, Tried
<1>2. ASSUME NEW p \in Player, CreateGame(p) PROVE D!DuelNext
  BY <1>2, OpensDuel DEF D!DuelNext
<1>3. ASSUME NEW p \in Player, JoinGame(p) PROVE D!DuelNext
  BY <1>3, JoinsDuel DEF D!DuelNext
<1>4. ASSUME NEW p \in Player, NEW g \in GameId, NEW l \in Locations, placeBots(p, g, l)
      PROVE  D!DuelNext
  BY <1>4, HidesBots DEF D!DuelNext, D!Sides, Side
<1>5. ASSUME NEW p \in Player, NEW g \in GameId, NEW c \in Cell, tryHackingBot(p, g, c)
      PROVE  D!DuelNext
  BY <1>5, TriesCell DEF D!DuelNext, D!Sides, Side
<1> QED  BY <1>1, <1>2, <1>3, <1>4, <1>5 DEF Next

\* Every game of the contract is a duel: fixed bots, alternating tries, and an
\* end when one side has been found (BotsAttack.sol:115-214).
THEOREM ContractIsDuel == Spec => GamesAreDuels
  BY DuelInitially, DuelSteps, SpecIInv, PTL DEF Spec, GamesAreDuels, D!DuelSpec
=============================================================================
