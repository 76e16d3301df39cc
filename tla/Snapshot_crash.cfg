SPECIFICATION Spec
CONSTANTS
    Inodes = {f1, f2, f3, f4}
    NoFile = NoFile
    Chunks = 2
    MaxSnap = 3
    MaxCrash = 2
SYMMETRY InodeSymmetry
INVARIANTS
    ReadsWholeSnapshot
    LiveSurvivesPowerFailure
PROPERTIES
    LiveMovesForward
CHECK_DEADLOCK FALSE
