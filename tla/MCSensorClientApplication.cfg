SPECIFICATION FairSpec
CONSTANTS
    NumWorkers = 3
    Queues = {"sensor", "fused"}
    Writer <- MCWriter
    Reader <- MCReader
    MayOverrun = {1}
    InterruptAt <- MainPlaces
    MaxInterrupts = 2
INVARIANTS TypeOK ExitCodeTellsFailure QuietAfterShutdown
PROPERTIES FailureStopsAll CaughtCtrlCStopsAll MainEnds
