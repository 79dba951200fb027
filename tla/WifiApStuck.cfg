SPECIFICATION TimedSpec
CONSTANTS
    Budget = 2
    WdtLimit = 2
INVARIANTS
    ApCorrectionTaken
CHECK_DEADLOCK FALSE
