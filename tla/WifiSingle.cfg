SPECIFICATION FairSpec
CONSTANTS
    Budget = 2
INVARIANTS
    SingleDisconnected
CHECK_DEADLOCK FALSE
