SPECIFICATION Spec
CONSTANTS
    Board = {"a", "b"}
    Serial <- SerialNumbers
    Type <- Types
    Slots = 2
    Level = {"zero", "set"}
    Default = "zero"
    Request = {"r1"}
    Paste = {"p1"}
    MaxEvents = 3
INVARIANTS ScanFindsAll InventoryMatches
PROPERTIES OperatorSettingsKept RefreshServed PageCatchesUp
