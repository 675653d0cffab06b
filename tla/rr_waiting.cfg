SPECIFICATION FairSpec
CONSTANTS
    Red = Red
    Blue = Blue
    None = None
    Tournament = FALSE
    StalemateEnable = FALSE
    StalemateTimed = FALSE
    TimeLimit = FALSE
    EndAtTimelimit = FALSE
    WaitingTime = TRUE
    PreventSwitch = TRUE
    WinLimit = 1
    MaxRounds = 0
    WinDifference = 0
    WinDifferenceMin = 0
    ScorePerCapture = TRUE
    ScoreInputs = {}
    MapTimer = TRUE
    Commands = {"readyrestart", "restartnow", "waitrestart"}
    WinInputs <- NoWins
    MaxScore = 1
    MaxPlayed = 1
PROPERTIES
    WaitingEnds
    LimitEndsGame
