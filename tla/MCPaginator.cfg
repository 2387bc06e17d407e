CONSTANTS
    Items <- MCItems
    PageSize = 1
    Statuses <- MCStatuses
    RetryCodes <- MCRetryCodes
    RetryAttempts = 3
    IdempotentTokens = TRUE
SPECIFICATION Spec
INVARIANTS TypeOK EnumerationExact TokenReplayBounded
PROPERTIES EnumerationEnds ImplementsEnumeration
CHECK_DEADLOCK FALSE
