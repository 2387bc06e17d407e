CONSTANTS
    Items <- MCItems
    PageSize = 1
    Statuses <- MCStatuses
    RetryCodes <- MCRetryCodes
    RetryAttempts = 3
    IdempotentTokens = FALSE
SPECIFICATION Spec
INVARIANTS EnumerationComplete
CHECK_DEADLOCK FALSE
