SPECIFICATION MCSpec
CONSTANTS
    MaxBoards = 2
    Threads = {t1, t2}
    None = None
    Commands <- AllCommands
    MaxScan = 2
    PollBound = 2
    MayThrow = FALSE
INVARIANTS
    NoUseAfterFree
CHECK_DEADLOCK FALSE
