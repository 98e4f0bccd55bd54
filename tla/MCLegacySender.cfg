SPECIFICATION Spec
CONSTANTS
    MaxAttempts = 3
    MaxReadings = 3
INVARIANT ExitTellsDelivery
PROPERTY ImplementsDelivery
CHECK_DEADLOCK FALSE
