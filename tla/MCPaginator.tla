---------------------------- MODULE MCPaginator -----------------------------
(* Paginator on four items in pages of one, statuses 200, 404 *)
(* and 503 (retryable), three sends per request.                             *)
EXTENDS Paginator

MCItems == <<"n1", "n2", "n3", "n4">>
MCStatuses == {200, 404, 503}
MCRetryCodes == {503}
=============================================================================
