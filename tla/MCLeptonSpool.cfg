SPECIFICATION FairSpec
CONSTANTS
    MaxFrames = 3
    MaxTroubles = 2
INVARIANTS TypeOK KeptUntilStored TroubleExplains
PROPERTIES PendingInOrder CapturesGoOn SpoolDrains
