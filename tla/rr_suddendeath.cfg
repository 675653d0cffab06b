SPECIFICATION Spec
CONSTANTS
    Red = Red
    Blue = Blue
    None = None
    Tournament = FALSE
    StalemateEnable = TRUE
    StalemateTimed = TRUE
    TimeLimit = TRUE
    EndAtTimelimit = TRUE
    WaitingTime = FALSE
    PreventSwitch = TRUE
    WinLimit = 1
    MaxRounds = 0
    WinDifference = 0
    WinDifferenceMin = 0
    ScorePerCapture = FALSE
    ScoreInputs = {1}
    MapTimer = TRUE
    Commands = {"nextlevel", "switchteams"}
    WinInputs <- MiniRounds
    MaxScore = 1
    MaxPlayed = 2
SYMMETRY Symmetry
INVARIANTS
    StalemateTimerLives
PROPERTIES
    GameOverIsFinal
