CONSTANTS
    Tasks = {"t1", "t2"}
    Reasons = {"Power", "TaskWatchdog"}
    Period = 5
    MaxQueue = 1
    MaxFrames = 2
    MaxStates = 1
    MaxResets = 1
SPECIFICATION FairSpec
INVARIANTS
    FirstFrameIsReady
    ReadyStopsInTime
    ReadyPeriod
    Dispatched
PROPERTIES
    ImplementsMailboxes
    Announced
