SPECIFICATION FairSpec
CONSTANTS
    NBoards = 2
    Capacity = 2
    MaxTrig = 3
    MaxRun = 2
    PollBound = 2
INVARIANTS
    NoDuplicateEvent
    SameTrigger
PROPERTIES
    ImplementsStream
    RecordedIsDelivered
CHECK_DEADLOCK FALSE
