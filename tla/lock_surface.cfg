SPECIFICATION FairSpec
CONSTANTS
    Outputs = {o1}
    Keys = {k1}
    None = none
    Scales <- MCScales
    Widths <- MCWidths
    MaxFailures = 1
INVARIANTS
    CommitsFit
    RepeatIsHeld
PROPERTIES
    UpdatesStay
    EveryOutputShows
CHECK_DEADLOCK FALSE
