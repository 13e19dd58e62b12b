SPECIFICATION Spec
CONSTANTS
    Requests = {r1}
    MaxInflight = 2
    Calls <- MCSleeps
    MessageOptions <- MCSilent
    DefaultOperationTimeout = 2
    MaxMessages = 2
    MaxCalls = 2
    MaxClock = 4
INVARIANTS
    SleepIsWhole
CHECK_DEADLOCK FALSE
