SPECIFICATION FairSpec
CONSTANTS
    Tables <- MCTables
    Levels = {0, 1, 2}
    Sensitivities = {0, 1, 2}
INVARIANTS
    TimerMatches
    LevelHolds
PROPERTIES
    StrengthFollows
CHECK_DEADLOCK FALSE
