SPECIFICATION FairSpec
CONSTANTS
    Red = Red
    Blue = Blue
    None = None
    Tournament = TRUE
    StalemateEnable = TRUE
    StalemateTimed = FALSE
    TimeLimit = FALSE
    EndAtTimelimit = FALSE
    WaitingTime = TRUE
    PreventSwitch = FALSE
    WinLimit = 0
    MaxRounds = 0
    WinDifference = 1
    WinDifferenceMin = 1
    ScorePerCapture = FALSE
    ScoreInputs = {}
    MapTimer = FALSE
    Commands = {"restartgame","tournament_restart"}
    WinInputs <- ResetOnly
    MaxScore = 1
    MaxPlayed = 1
PROPERTIES
    MatchStartsClean
    AwaitedMatchStarts
