SPECIFICATION FairSpec
CONSTANTS
    Boards <- AllBoards
    MaxCrash = 1
    Events = 2
INVARIANTS
    TypeOK
    HeaderNotAhead
    CompletedKept
    MemoryIsStored
    TrueFrequencyDefined
PROPERTIES
    ConfigurationKept
    CalibrationEnds
CHECK_DEADLOCK FALSE
