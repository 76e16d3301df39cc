SPECIFICATION Spec
CONSTANTS
    Scenarios <- ValuesAndThreads
    MaxChanges = 1
    Default <- DefaultSettings
    Alternative <- OtherSettings
INVARIANTS
    ConfigurationInEffect
    RunFollowsSettings
CHECK_DEADLOCK FALSE
