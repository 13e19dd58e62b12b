SPECIFICATION Spec
CONSTANTS
    Requests = {r1, r2}
    MaxInflight = 3
    Calls <- MCCalls
    MessageOptions <- MCMessageOptions
    DefaultOperationTimeout = 2
    MaxMessages = 2
    MaxCalls = 2
    MaxClock = 4
INVARIANTS
    TypeOK
    ExplicitTimeoutHolds
    ErrorIsOwn
    StaleOptionsAreHarmless
    OwnOutputsWin
    CountMissesOnlyByEarlier
CHECK_DEADLOCK FALSE
