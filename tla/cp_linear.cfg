SPECIFICATION Spec
CONSTANTS
    Red = Red
    Blue = Blue
    None = None
    r1 = r1
    r2 = r2
    b1 = b1
    Players = {r1, b1}
    N = 3
    DefaultOwner <- Chain
    Required <- OneRequired
    CapSteps = 2
    ScalesWithPlayers = TRUE
    BlocksPause = TRUE
    PartialRate = FALSE
    MapInputs = {"winner"}
    TeamOf <- OneEach
    GroupOf <- OneGroup
    MayWin <- AllMayWin
    CanCap <- AllCanCap
    Previous <- NoPrevious
    LockedAtStart = {}
INVARIANTS
    TypeOK
    ChainHolds
    DefendersCount
    NoWinPending
    ResourceAgrees
PROPERTIES
    PointsAreEarned
    PlaysTugOfWar
