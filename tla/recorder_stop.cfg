SPECIFICATION FairSpec
CONSTANTS
    PoolSize = 3
    MaxFailures = 1
    Audio = {"none"}
    MayMap = {FALSE}
    LastFrame = 3
PROPERTIES
    CtrlCStops
CHECK_DEADLOCK FALSE
