SPECIFICATION Spec
CONSTANTS
    Setups <- MCMarkdown
    MaxAttempts = 2
    MaxRequests = 2
    MaxPages = 3
    BatchSizes <- MCBatchSizes
INVARIANTS
    MarkdownNeedsTheToolchain
CHECK_DEADLOCK FALSE
