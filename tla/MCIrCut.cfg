SPECIFICATION FairSpec
CONSTANTS
    Platforms <- MCPlatforms
    Period = 4
    Saturations = {"vivid"}
INVARIANTS
    ModeHolds
    AutoSenses
    FilterSettles
    ColourFollows
PROPERTIES
    SwitchesApart
    NightFalls
CHECK_DEADLOCK FALSE
