CONSTANTS
    Messages <- MCMessages
    Types = {"t1", "t2"}
    RRWidth = 2
    WdtLimit = 2
    MaxSettings = 2
    MaxRequests = 3
SPECIFICATION FairSpec
INVARIANTS TypeOK AnswersInForce RoundRobin StarvesOnlyAfterBindFailure
PROPERTIES SettingsTaken EverySocketServed
