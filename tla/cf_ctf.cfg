SPECIFICATION FairSpec
CONSTANTS
    Red = Red
    Blue = Blue
    None = None
    p1 = p1
    p2 = p2
    redFlag = redFlag
    blueFlag = blueFlag
    Players = {p1, p2}
    Flags = {redFlag, blueFlag}
    FlagTeam <- OneFlagEach
    StartsDisabled = {}
    ZoneTeams <- BothZones
    CapsLimit = 1
    MaxCaps = 2
    ReturnOnTouch = TRUE
    MapInputs <- RedFlagInputs
INVARIANTS
    TypeOK
    FlagsAgree
    WinnerHasMost
PROPERTIES
    CapturesAreEarned
    DroppedFlagReturns
    IsCaptureTheFlag
