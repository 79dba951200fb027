CONSTANTS
    Messages <- MCPortTwice
    Types = {"t1", "t2"}
    RRWidth = 2
    WdtLimit = 2
    MaxSettings = 1
    MaxRequests = 0
SPECIFICATION Spec
INVARIANTS NeverStarved
