SPECIFICATION FairSpec
CONSTANTS
    MaxFailures = 3
    NoEntry = NoEntry
    MaxResults = 3
INVARIANTS TypeOK StaleOnlyFromRetry
PROPERTIES ImplementsDelivery TakenIsStoredOrClientEnds InTouchOrEnded
CHECK_DEADLOCK FALSE
