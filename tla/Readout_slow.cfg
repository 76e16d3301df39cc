SPECIFICATION Spec
CONSTANTS
    NBoards = 2
    Capacity = 2
    MaxTrig = 3
    MaxRun = 2
    PollBound = 2
INVARIANTS
    TriggeredBoardsTransferred
CHECK_DEADLOCK FALSE
