SPECIFICATION FairSpec
CONSTANTS
    PoolSize = 3
    MaxFailures = 1
    Audio = {"none", "pulse", "pipewire"}
    MayMap = {TRUE}
    LastFrame = 3
INVARIANTS
    TypeOK
    CaptureOwnsBuffer
    NoFrameLost
    MuxerExclusive
PROPERTIES
    Implements
    NoOvertaking
    StopsWithRoom
    FramesAreTaken
CHECK_DEADLOCK FALSE
