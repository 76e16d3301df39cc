SPECIFICATION Spec
CONSTANTS
    Thread = {main, worker}
    Board = {b1, b2}
    Control = {ctrl}
    Status = {status}
    Value = {0, 1}
    Zero = 0
    None = None
    Depth = 1
    MaxLate = 2
SYMMETRY Symmetric
INVARIANTS AnswersAwaited
PROPERTIES ImplementsRegisterFile
