SPECIFICATION FairSpec
CONSTANTS
    Calls <- MCCalls
    Signalled <- MCSignalled
    MaxLogs = 2
CHECK_DEADLOCK FALSE
INVARIANTS
    TypeOK
    SettledIsClean
    HeardBeforeResult
PROPERTIES
    EveryCallSettles
