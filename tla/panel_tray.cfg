SPECIFICATION FairSpec
CONSTANTS
    Apps = {a1, a2}
INVARIANTS
    TrayAgrees
PROPERTIES
    ItemsAreShown
CHECK_DEADLOCK FALSE
