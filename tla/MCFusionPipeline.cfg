SPECIFICATION FairSpec
CONSTANTS
    SensorQueueSize = 2
    FusedQueueSize = 1
    FlushEvery = 3
    PipeSize = 1
    MaxFrames = 2
    MaxScans = 4
INVARIANTS TypeOK PublishedInOrder StaleAfterFlush
CHECK_DEADLOCK FALSE
