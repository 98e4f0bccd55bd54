SPECIFICATION FairSpec
CONSTANTS
    NumWorkers = 3
    Queues = {"sensor", "fused"}
    Writer <- MCWriter
    Reader <- MCReader
    MayOverrun = {1}
    InterruptAt = {"start"}
    MaxInterrupts = 1
PROPERTIES CtrlCStopsAll
