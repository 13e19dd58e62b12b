SPECIFICATION Spec
CONSTANTS
    Setups <- MCSetups
    MaxAttempts = 2
    MaxRequests = 2
    MaxPages = 3
    BatchSizes <- MCBatchSizes
INVARIANTS
    EverySheetIsGiven
CHECK_DEADLOCK FALSE
