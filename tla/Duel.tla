-------------------------------- MODULE Duel --------------------------------
(***************************************************************************)
(* What a game of bots promises to its players, without boards, hits or    *)
(* counters: each side hides its bots, the sides try cells in turn, and    *)
(* the first to have tried all cells of the other side's bots has won.     *)
(***************************************************************************)
EXTENDS Integers

CONSTANTS
    Player,
    Cell,
    Fleet,        \* the sets of cells a side may hide its bots on
    None,         \* no player
    GameId

VARIABLES
    counter,      \* the number of games
    seat,         \* seat[g][s]: who plays side s of game g
    bots,         \* bots[g][s]: the cells side s hides its bots on, {} before
    tried,        \* tried[g][s]: the cells of the other side that s has tried
    onTurn        \* onTurn[g]: the side that tries next

duelVars == <<counter, seat, bots, tried, onTurn>>

Sides == {1, 2}
Rival(s) == 3 - s

DuelInit ==
    /\ counter = 0
    /\ seat = [g \in GameId |-> [s \in Sides |-> None]]
    /\ bots = [g \in GameId |-> [s \in Sides |-> {}]]
    /\ tried = [g \in GameId |-> [s \in Sides |-> {}]]
    /\ onTurn = [g \in GameId |-> 1]

Placed(g) == bots[g][1] # {} /\ bots[g][2] # {}

HasWon(g, s) == Placed(g) /\ bots[g][Rival(s)] \subseteq tried[g][s]

Open(p) ==
    /\ counter + 1 \in GameId
    /\ counter # 0 => seat[counter][2] # None
    /\ counter' = counter + 1
    /\ seat' = [seat EXCEPT ![counter + 1][1] = p]
    /\ UNCHANGED <<bots, tried, onTurn>>

Join(p) ==
    /\ counter \in GameId /\ seat[counter][2] = None
    /\ seat' = [seat EXCEPT ![counter][2] = p]
    /\ UNCHANGED <<counter, bots, tried, onTurn>>

\* Bots may be moved until both sides have placed theirs.
Hide(g, s, B) ==
    /\ seat[g][s] # None
    /\ ~Placed(g)
    /\ bots' = [bots EXCEPT ![g][s] = B]
    /\ UNCHANGED <<counter, seat, tried, onTurn>>

Try(g, s, c) ==
    /\ Placed(g) /\ s = onTurn[g]
    /\ ~HasWon(g, 1) /\ ~HasWon(g, 2)
    /\ c \in Cell \ tried[g][s]
    /\ tried' = [tried EXCEPT ![g][s] = @ \cup {c}]
    /\ onTurn' = [onTurn EXCEPT ![g] = Rival(s)]
    /\ UNCHANGED <<counter, seat, bots>>

DuelNext ==
    \/ \E p \in Player : Open(p) \/ Join(p)
    \/ \E g \in GameId, s \in Sides :
        \/ \E B \in Fleet : Hide(g, s, B)
        \/ \E c \in Cell : Try(g, s, c)

DuelSpec == DuelInit /\ [][DuelNext]_duelVars
=============================================================================
