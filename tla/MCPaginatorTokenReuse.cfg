CONSTANTS
    Items <- MCItems
    PageSize = 1
    Statuses <- MCStatuses
    RetryCodes <- MCRetryCodes
    RetryAttempts = 3
    IdempotentTokens = TRUE
SPECIFICATION Spec
INVARIANTS TokenUsedOnce
CHECK_DEADLOCK FALSE
