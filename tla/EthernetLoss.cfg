SPECIFICATION FairSpec
CONSTANTS
    Budget = 2
PROPERTIES
    LossReported
CHECK_DEADLOCK FALSE
