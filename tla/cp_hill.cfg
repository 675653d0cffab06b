SPECIFICATION FairSpec
CONSTANTS
    Red = Red
    Blue = Blue
    None = None
    r1 = r1
    r2 = r2
    b1 = b1
    Players = {r1, b1}
    N = 1
    DefaultOwner <- Hill
    Required <- OneRequired
    CapSteps = 2
    ScalesWithPlayers = FALSE
    BlocksPause = FALSE
    PartialRate = TRUE
    MapInputs = {"owner","reset","lock","capture","master"}
    TeamOf <- OneEach
    GroupOf <- OneGroup
    MayWin <- AllMayWin
    CanCap <- AllCanCap
    Previous <- NoPrevious
    LockedAtStart = {}
INVARIANTS
    OutputMatchesWinner
PROPERTIES
    HeldAreaIsCaptured
    AbandonedCaptureEnds
    HeldPointsWin
