SPECIFICATION Spec
CONSTANTS
    alice = alice  bob = bob  a1 = a1  a2 = a2  b1 = b1
    Player <- MCPlayer
    Cell <- MCCell
    BotCount = 2
    None = None
    MaxGames = 2
SYMMETRY Interchangeable
INVARIANTS
    TypeOK
    CountersMatchBoards
    MoveLeft
    HacksOnBoard
    GamesListed
PROPERTIES
    GamesAreDuels
CHECK_DEADLOCK FALSE
