SPECIFICATION Spec
CONSTANTS
    Scenarios <- DominoOnly
    MaxChanges = 1
    Default <- DefaultSettings
    Alternative <- OtherSettings
INVARIANTS
    DominoKeepsRolling
CHECK_DEADLOCK FALSE
