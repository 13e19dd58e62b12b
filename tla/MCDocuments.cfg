SPECIFICATION Spec
CONSTANTS
    Setups <- MCSetups
    MaxAttempts = 2
    MaxRequests = 2
    MaxPages = 3
    BatchSizes <- MCBatchSizes
INVARIANTS
    CachedAnswersMatch
    MissingToolIs501
    AnswerIsOfTheDocument
    NamedProxyKept
PROPERTY
    RequestEnds
    IsTheService
CHECK_DEADLOCK FALSE
