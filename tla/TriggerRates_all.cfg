SPECIFICATION RateSpec
CONSTANTS
    NBoards = 2
    Epoch = 20
    Second = 2
    MaxTime = 6
    MaxEvents = 2
    MaxRun = 1
INVARIANTS
    PrevNotAhead
    RatesAddUp
CHECK_DEADLOCK FALSE
