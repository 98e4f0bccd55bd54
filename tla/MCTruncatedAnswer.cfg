SPECIFICATION FairSpec
CONSTANTS
    MaxFailures = 3
    NoEntry = NoEntry
    MaxResults = 3
INVARIANT EndsOnlyAtLimit
CHECK_DEADLOCK FALSE
