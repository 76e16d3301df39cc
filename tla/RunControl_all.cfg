SPECIFICATION MCSpec
CONSTANTS
    MaxBoards = 2
    Threads = {t1, t2}
    None = None
    Commands <- AllCommands
    MaxScan = 3
    PollBound = 2
    MayThrow = TRUE
INVARIANTS
    SingleWorker
    WorkerMatchesRun
    NoDanglingAtRest
    NoUseAfterFreeUndisturbed
    ReadoutUndisturbed
PROPERTIES
    HandlersFinish
CHECK_DEADLOCK FALSE
