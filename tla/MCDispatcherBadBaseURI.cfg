CONSTANTS
    Callers = {c1, c2}
    Endpoints = {e1}
    Nodes = {n1}
    Users = {u1}
    Tokens = {t1}
    Null = Null
    Empty = Empty
    Statuses <- MCStatuses
    RetryCodes <- MCRetryCodes
    RetryAttempts = 3
    BaseURIValid = FALSE
SPECIFICATION Spec
INVARIANTS OutcomeMatchesResponses
PROPERTIES ImplementsContract
