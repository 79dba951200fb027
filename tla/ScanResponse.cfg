CONSTANTS
    Sizes = {2, 3}
    MaxPayload = 9
    FixArray = 2
    MaxIndex = 1
    MaxEntries = 5
    Limits = {0, 2}
    ScanTime = 2
    WdtLimit = 3
    MaxRequests = 3
SPECIFICATION Spec
INVARIANTS
    TypeOK
    ChunksInOrder
    FramesFull
    AnswerComplete
    StarvesOnlyInBursts
