SPECIFICATION FairSpec
CONSTANTS
    SensorQueueSize = 1
    FusedQueueSize = 1
    FlushEvery = 2
    PipeSize = 1
    MaxFrames = 2
    MaxScans = 2
PROPERTIES ImplementsGroup StopReachesEveryone FusedIsDelivered
CHECK_DEADLOCK FALSE
