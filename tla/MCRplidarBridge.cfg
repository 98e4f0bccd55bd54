SPECIFICATION FairSpec
CONSTANTS
    PipeSize = 3
    BufferSize = 4
    QueueSize = 1
    MaxTimeouts = 2
INVARIANTS TypeOK NoBridgeLeft ExitStopsScan
PROPERTIES LineHandledOrClientStops ThreadEnds BridgeEndsWithClient
CHECK_DEADLOCK FALSE
