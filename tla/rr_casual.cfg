SPECIFICATION Spec
CONSTANTS
    Red = Red
    Blue = Blue
    None = None
    Tournament = FALSE
    StalemateEnable = FALSE
    StalemateTimed = FALSE
    TimeLimit = FALSE
    EndAtTimelimit = FALSE
    WaitingTime = TRUE
    PreventSwitch = TRUE
    WinLimit = 2
    MaxRounds = 2
    WinDifference = 0
    WinDifferenceMin = 0
    ScorePerCapture = FALSE
    ScoreInputs = {}
    MapTimer = TRUE
    Commands = {"restartround", "readyrestart", "waitcancel", "scrambleteams2"}
    WinInputs <- ResetOnly
    MaxScore = 2
    MaxPlayed = 2
SYMMETRY Symmetry
INVARIANTS
    TypeOK
    WaitTimerOnlyWhileWaiting
    WinsWithinRounds
    NoRoundPastLimit
    TimersShown
