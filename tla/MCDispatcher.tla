---------------------------- MODULE MCDispatcher ----------------------------
(* Dispatcher on a small instance: two callers, one endpoint, one node, one *)
(* user, one token; statuses 200, 404 and 503 of which 503 is retryable.    *)
EXTENDS Dispatcher

MCStatuses == {200, 404, 503}
MCRetryCodes == {503}
=============================================================================
