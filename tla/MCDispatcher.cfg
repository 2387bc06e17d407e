CONSTANTS
    Callers = {c1, c2}
    Endpoints = {e1}
    Nodes = {n1}
    Users = {u1}
    Tokens = {t1}
    Null = Null
    Empty = Empty
    Statuses <- MCStatuses
    RetryCodes <- MCRetryCodes
    RetryAttempts = 3
    BaseURIValid = TRUE
SPECIFICATION Spec
INVARIANTS TypeOK RetryContract OutcomeMatchesResponses BodyReleased
PROPERTIES CallCompletes ImplementsContract
