----------------------------- MODULE Dispatcher -----------------------------
(***************************************************************************)
(* The request dispatcher of the generated OPC publisher client           *)
(* (src/api/generated/go/azure-iiot-opc-publisher/client.go).  Every one   *)
(* of the six operations follows the same template:                        *)
(*                                                                         *)
(*   validate body  ->  XPreparer  ->  XSender (retry decorator)           *)
(*                  ->  XResponder (status check, JSON decode, close)      *)
(*                                                                         *)
(* A caller is a goroutine running one call at a time; callers share      *)
(* nothing but the immutable BaseClient configuration (value receiver).    *)
(* The retry loop is go-autorest's DoRetryForStatusCodes, whose code is    *)
(* not part of this repository: its contract is taken from the spec       *)
(* (section 4.1 and 8): at most RetryAttempts sends, a resend only after a *)
(* status of the retryable set, the previous response body released before *)
(* the next send, and the loop abandoned with its body released when the   *)
(* caller's context is cancelled.                                          *)
(***************************************************************************)
EXTENDS Naturals, Sequences

CONSTANTS
    Callers,        \* goroutines issuing calls on the client
    Endpoints,      \* endpoint identifiers (opaque strings)
    Nodes,          \* node identifiers that may name a published item
    Users,          \* user identifiers for sample subscriptions
    Tokens,         \* continuation tokens a caller may hold
    Null,           \* a nil pointer field of a request body
    Empty,          \* the empty string
    Statuses,       \* HTTP status codes the service may answer with
    RetryCodes,     \* autorest.StatusCodesForRetry, as far as Statuses reach
    RetryAttempts,  \* client.RetryAttempts: the budget of sends of one call
    BaseURIValid    \* whether client.BaseURI parses as a URL

ASSUME StatusAssumption ==
    /\ 200 \in Statuses
    /\ RetryCodes \subseteq Statuses
    /\ 200 \notin RetryCodes
ASSUME RetryAssumption == RetryAttempts \in Nat \ {0}
ASSUME ConfigAssumption == BaseURIValid \in BOOLEAN
ASSUME NullAssumption ==
    Null \notin Nodes /\ Empty \notin Nodes /\ Empty \notin Users
ASSUME EndpointAssumption == Endpoints # {}

VARIABLES
    pc,         \* pc[c]: where caller c is in its current call
    op,         \* op[c]: the operation of the call
    req,        \* req[c]: the request built by the operation's preparer
    ctxDone,    \* ctxDone[c]: the call's context has been cancelled
    sends,      \* sends[c]: requests of this call that reached the service
    seen,       \* seen[c]: statuses answered to those requests, in order
    openBodies, \* openBodies[c]: response bodies of this call not closed
    outcome     \* outcome[c]: the result the call returned

vars == <<pc, op, req, ctxDone, sends, seen, openBodies, outcome>>

Ops == {"GetFirstListOfPublishedNodes", "GetNextListOfPublishedNodes",
        "StartPublishingValues", "StopPublishingValues",
        "Subscribe", "Unsubscribe"}

\* What a call returns: nothing yet, success, or one error of the taxonomy
\* of spec section 7 (the preparer's error is the fifth kind).
Outcomes == {"none", "ok", "validation", "prepare", "transport",
             "service", "decode"}

NoBody == "nobody"

Requests == [verb : {"GET", "POST", "PUT", "DELETE"},
             path : {"/v2/publish/{endpointId}",
                     "/v2/publish/{endpointId}/start",
                     "/v2/publish/{endpointId}/stop",
                     "/v2/monitor/{endpointId}/samples",
                     "/v2/monitor/{endpointId}/samples/{userId}"},
             endpoint : Endpoints,
             query : Tokens \cup {NoBody},
             pathUser : Users \cup {Empty, NoBody},
             body : Nodes \cup Users \cup {Null, Empty, NoBody}]

LastStatus(s) == s[Len(s)]

-----------------------------------------------------------------------------
(* Validation rules run before anything is prepared.                       *)

\* Mutant: the validation of body.Item.NodeID is dropped.
StartPublishingValuesValidNoCheck(body) == TRUE

\* validation.Null with Rule true on body.Item and body.Item.NodeID: both
\* pointers must be set.  A nil Item or a nil NodeID is modelled as Null; a
\* NodeID pointing to the empty string (Empty) is not nil and passes.
StartPublishingValuesValid(body) == body # Null

\* validation.Null with Rule true on body.NodeID.
StopPublishingValuesValid(body) == body # Null

-----------------------------------------------------------------------------
(* The preparers: the request each operation puts on the wire.             *)

GetFirstListOfPublishedNodesPreparer(e, body) ==
    [verb |-> "POST", path |-> "/v2/publish/{endpointId}", endpoint |-> e,
     query |-> NoBody, pathUser |-> NoBody, body |-> body]

\* The continuation token goes into the query string, there is no body.
GetNextListOfPublishedNodesPreparer(e, token) ==
    [verb |-> "GET", path |-> "/v2/publish/{endpointId}", endpoint |-> e,
     query |-> token, pathUser |-> NoBody, body |-> NoBody]

StartPublishingValuesPreparer(e, body) ==
    [verb |-> "POST", path |-> "/v2/publish/{endpointId}/start",
     endpoint |-> e, query |-> NoBody, pathUser |-> NoBody, body |-> body]

StopPublishingValuesPreparer(e, body) ==
    [verb |-> "POST", path |-> "/v2/publish/{endpointId}/stop",
     endpoint |-> e, query |-> NoBody, pathUser |-> NoBody, body |-> body]

\* The JSON body is attached only when len(body) > 0.
SubscribePreparer(e, body) ==
    [verb |-> "PUT", path |-> "/v2/monitor/{endpointId}/samples",
     endpoint |-> e, query |-> NoBody, pathUser |-> NoBody,
     body |-> IF body # Empty THEN body ELSE NoBody]

UnsubscribePreparer(e, userID) ==
    [verb |-> "DELETE", path |-> "/v2/monitor/{endpointId}/samples/{userId}",
     endpoint |-> e, query |-> NoBody, pathUser |-> userID, body |-> NoBody]

\* The responders of the four operations with a typed result decode the
\* body with ByUnmarshallingJSON; Subscribe and Unsubscribe only check the
\* status and close.
HasJSONResult(o) == o \notin {"Subscribe", "Unsubscribe"}

-----------------------------------------------------------------------------
(* The operations.  Each starts a call of an idle caller: the validation   *)
(* guard and its early return, then the request the preparer builds.  The *)
(* preparer itself fails only on a base URI that does not parse (Prepare). *)

Reject(c, o) ==
    /\ pc' = [pc EXCEPT ![c] = "done"]
    /\ op' = [op EXCEPT ![c] = o]
    /\ outcome' = [outcome EXCEPT ![c] = "validation"]
    /\ UNCHANGED <<req, ctxDone, sends, seen, openBodies>>

Admit(c, o, r) ==
    /\ pc' = [pc EXCEPT ![c] = "prepare"]
    /\ op' = [op EXCEPT ![c] = o]
    /\ req' = [req EXCEPT ![c] = r]
    /\ UNCHANGED <<ctxDone, sends, seen, openBodies, outcome>>

GetFirstListOfPublishedNodes(c, e) ==
    /\ pc[c] = "idle"
    /\ Admit(c, "GetFirstListOfPublishedNodes",
             GetFirstListOfPublishedNodesPreparer(e, Null))

GetNextListOfPublishedNodes(c, e, token) ==
    /\ pc[c] = "idle"
    /\ Admit(c, "GetNextListOfPublishedNodes",
             GetNextListOfPublishedNodesPreparer(e, token))

StartPublishingValues(c, e, body) ==
    /\ pc[c] = "idle"
    /\ IF StartPublishingValuesValid(body)
       THEN Admit(c, "StartPublishingValues",
                  StartPublishingValuesPreparer(e, body))
       ELSE Reject(c, "StartPublishingValues")

StopPublishingValues(c, e, body) ==
    /\ pc[c] = "idle"
    /\ IF StopPublishingValuesValid(body)
       THEN Admit(c, "StopPublishingValues",
                  StopPublishingValuesPreparer(e, body))
       ELSE Reject(c, "StopPublishingValues")

Subscribe(c, e, body) ==
    /\ pc[c] = "idle"
    /\ Admit(c, "Subscribe", SubscribePreparer(e, body))

Unsubscribe(c, e, userID) ==
    /\ pc[c] = "idle"
    /\ Admit(c, "Unsubscribe", UnsubscribePreparer(e, userID))

\* Mutant: a request that fails to prepare returns without setting err.
PrepareLosesError(c) ==
    /\ pc[c] = "prepare"
    /\ pc' = [pc EXCEPT ![c] = IF BaseURIValid THEN "send" ELSE "done"]
    /\ UNCHANGED <<op, req, ctxDone, sends, seen, openBodies, outcome>>

\* preparer.Prepare: WithBaseURL fails on a base URI that does not parse,
\* and the operation returns "Failure preparing request".
Prepare(c) ==
    /\ pc[c] = "prepare"
    /\ pc' = [pc EXCEPT ![c] = IF BaseURIValid THEN "send" ELSE "done"]
    /\ outcome' = [outcome EXCEPT ![c] = IF BaseURIValid THEN @
                                          ELSE "prepare"]
    /\ UNCHANGED <<op, req, ctxDone, sends, seen, openBodies>>

\* Mutant: a failed send is recorded as an answer with the status 0 that
\* the tracing code gives a nil response.
SendFailedRecordsStatus(c) ==
    /\ pc' = [pc EXCEPT ![c] = "done"]
    /\ seen' = [seen EXCEPT ![c] = Append(@, 0)]
    /\ openBodies' = [openBodies EXCEPT ![c] = 0]
    /\ outcome' = [outcome EXCEPT ![c] = "transport"]
    /\ UNCHANGED <<op, req, ctxDone, sends>>

\* XSender: autorest.SendWithSender with DoRetryForStatusCodes.  The loop
\* drains the previous attempt's body before the next Do.  Do fails without
\* a response on a cancelled context or a network failure; the operation
\* then returns "Failure sending request" with that error.
SendFailed(c) ==
    /\ pc' = [pc EXCEPT ![c] = "done"]
    /\ openBodies' = [openBodies EXCEPT ![c] = 0]
    /\ outcome' = [outcome EXCEPT ![c] = "transport"]
    /\ UNCHANGED <<op, req, ctxDone, sends, seen>>

\* Mutants of SendAnswered: one more attempt than the budget; the previous
\* body not drained; a send on a cancelled context.
SendAnsweredExtraAttempt(c) ==
    /\ ~ctxDone[c]
    /\ \E s \in Statuses :
        /\ sends' = [sends EXCEPT ![c] = @ + 1]
        /\ seen' = [seen EXCEPT ![c] = Append(@, s)]
        /\ openBodies' = [openBodies EXCEPT ![c] = 1]
        /\ pc' = [pc EXCEPT ![c] =
                    IF s \in RetryCodes /\ sends[c] + 1 <= RetryAttempts
                    THEN "delay" ELSE "respond"]
    /\ UNCHANGED <<op, req, ctxDone, outcome>>

SendAnsweredNoDrain(c) ==
    /\ ~ctxDone[c]
    /\ \E s \in Statuses :
        /\ sends' = [sends EXCEPT ![c] = @ + 1]
        /\ seen' = [seen EXCEPT ![c] = Append(@, s)]
        /\ openBodies' = [openBodies EXCEPT ![c] = @ + 1]
        /\ pc' = [pc EXCEPT ![c] =
                    IF s \in RetryCodes /\ sends[c] + 1 < RetryAttempts
                    THEN "delay" ELSE "respond"]
    /\ UNCHANGED <<op, req, ctxDone, outcome>>

\* The service answers with status s.  The loop returns the response when s
\* is not retryable or the budget of sends is spent, and otherwise waits.
SendAnswered(c) ==
    /\ ~ctxDone[c]
    /\ \E s \in Statuses :
        /\ sends' = [sends EXCEPT ![c] = @ + 1]
        /\ seen' = [seen EXCEPT ![c] = Append(@, s)]
        /\ openBodies' = [openBodies EXCEPT ![c] = 1]
        /\ pc' = [pc EXCEPT ![c] =
                    IF s \in RetryCodes /\ sends[c] + 1 < RetryAttempts
                    THEN "delay" ELSE "respond"]
    /\ UNCHANGED <<op, req, ctxDone, outcome>>

\* Mutant: a sender that, on a cancelled context, waits instead of failing.
SendBlocksOnCancel(c) ==
    /\ pc[c] = "send"
    /\ IF ctxDone[c] THEN UNCHANGED vars
       ELSE SendFailed(c) \/ SendAnswered(c)

Send(c) ==
    /\ pc[c] = "send"
    /\ SendFailed(c) \/ SendAnswered(c)

\* The delay between attempts.  A cancelled context ends the loop: the
\* sender returns ctx.Err() and the body of the last answer is released.
Backoff(c) ==
    /\ pc[c] = "delay"
    /\ \/ /\ ctxDone[c]
          /\ pc' = [pc EXCEPT ![c] = "done"]
          /\ openBodies' = [openBodies EXCEPT ![c] = 0]
          /\ outcome' = [outcome EXCEPT ![c] = "transport"]
       \/ /\ ~ctxDone[c]
          /\ pc' = [pc EXCEPT ![c] = "send"]
          /\ UNCHANGED <<openBodies, outcome>>
    /\ UNCHANGED <<op, req, ctxDone, sends, seen>>

\* Mutant: the responder without WithErrorUnlessStatusCode, decoding any
\* answer as a result.
RespondIgnoresStatus(c) ==
    /\ pc[c] = "respond"
    /\ pc' = [pc EXCEPT ![c] = "done"]
    /\ openBodies' = [openBodies EXCEPT ![c] = 0]
    /\ \E decoded \in BOOLEAN :
         outcome' = [outcome EXCEPT ![c] =
                       IF HasJSONResult(op[c]) /\ ~decoded THEN "decode"
                       ELSE "ok"]
    /\ UNCHANGED <<op, req, ctxDone, sends, seen>>

\* XResponder: autorest.Respond with WithErrorUnlessStatusCode(200), then
\* ByUnmarshallingJSON where the operation has a typed result, then
\* ByClosing, which closes the body on every path.  A 200 body that does not
\* decode is "Failure responding to request".
Respond(c) ==
    /\ pc[c] = "respond"
    /\ pc' = [pc EXCEPT ![c] = "done"]
    /\ openBodies' = [openBodies EXCEPT ![c] = 0]
    /\ \E decoded \in BOOLEAN :
         outcome' = [outcome EXCEPT ![c] =
                       IF LastStatus(seen[c]) # 200 THEN "service"
                       ELSE IF HasJSONResult(op[c]) /\ ~decoded THEN "decode"
                       ELSE "ok"]
    /\ UNCHANGED <<op, req, ctxDone, sends, seen>>

-----------------------------------------------------------------------------
(* The caller: it cancels the context of a call in progress, and takes the *)
(* result of a finished call, after which it may issue another.            *)

Cancel(c) ==
    /\ pc[c] \notin {"idle", "done"}
    /\ ~ctxDone[c]
    /\ ctxDone' = [ctxDone EXCEPT ![c] = TRUE]
    /\ UNCHANGED <<pc, op, req, sends, seen, openBodies, outcome>>

NoReq == [verb |-> "GET", path |-> "/v2/publish/{endpointId}",
          endpoint |-> CHOOSE e \in Endpoints : TRUE,
          query |-> NoBody, pathUser |-> NoBody, body |-> NoBody]

InitCall == [pc |-> "idle", op |-> "none", req |-> NoReq, ctxDone |-> FALSE,
             sends |-> 0, seen |-> <<>>, openBodies |-> 0, outcome |-> "none"]

Return(c) ==
    /\ pc[c] = "done"
    /\ pc' = [pc EXCEPT ![c] = InitCall.pc]
    /\ op' = [op EXCEPT ![c] = InitCall.op]
    /\ req' = [req EXCEPT ![c] = InitCall.req]
    /\ ctxDone' = [ctxDone EXCEPT ![c] = InitCall.ctxDone]
    /\ sends' = [sends EXCEPT ![c] = InitCall.sends]
    /\ seen' = [seen EXCEPT ![c] = InitCall.seen]
    /\ openBodies' = [openBodies EXCEPT ![c] = InitCall.openBodies]
    /\ outcome' = [outcome EXCEPT ![c] = InitCall.outcome]

-----------------------------------------------------------------------------
Init ==
    /\ pc = [c \in Callers |-> InitCall.pc]
    /\ op = [c \in Callers |-> InitCall.op]
    /\ req = [c \in Callers |-> InitCall.req]
    /\ ctxDone = [c \in Callers |-> InitCall.ctxDone]
    /\ sends = [c \in Callers |-> InitCall.sends]
    /\ seen = [c \in Callers |-> InitCall.seen]
    /\ openBodies = [c \in Callers |-> InitCall.openBodies]
    /\ outcome = [c \in Callers |-> InitCall.outcome]

Call(c) ==
    \E e \in Endpoints :
        \/ GetFirstListOfPublishedNodes(c, e)
        \/ \E t \in Tokens : GetNextListOfPublishedNodes(c, e, t)
        \/ \E b \in Nodes \cup {Null, Empty} : StartPublishingValues(c, e, b)
        \/ \E b \in Nodes \cup {Null, Empty} : StopPublishingValues(c, e, b)
        \/ \E u \in Users \cup {Empty} : Subscribe(c, e, u)
        \/ \E u \in Users \cup {Empty} : Unsubscribe(c, e, u)

\* The steps of a call in progress, which its goroutine keeps taking.
Step(c) == Prepare(c) \/ Send(c) \/ Backoff(c) \/ Respond(c)

Next ==
    \E c \in Callers : Call(c) \/ Step(c) \/ Cancel(c) \/ Return(c)

\* A goroutine in a call keeps running it, and net/http's Do returns (the
\* transport's timeouts bound it).  Neither cancelling nor calling is forced.
Spec == Init /\ [][Next]_vars /\ \A c \in Callers : WF_vars(Step(c))

-----------------------------------------------------------------------------
TypeOK ==
    /\ pc \in [Callers -> {"idle", "prepare", "send", "delay", "respond",
                           "done"}]
    /\ op \in [Callers -> Ops \cup {"none"}]
    /\ req \in [Callers -> Requests]
    /\ ctxDone \in [Callers -> BOOLEAN]
    /\ sends \in [Callers -> Nat]
    /\ seen \in [Callers -> Seq(Statuses)]
    /\ openBodies \in [Callers -> Nat]
    /\ outcome \in [Callers -> Outcomes]

(***************************************************************************)
(* Properties.                                                             *)
(***************************************************************************)

\* The retry contract of the senders (spec sections 4.1 and 8): a call puts
\* at most RetryAttempts requests on the wire, it resends only after a
\* retryable status, it waits between attempts only while budget is left,
\* and a call that fails with a retryable status as service error has spent
\* its whole budget (N retryable answers then 200 is N+1 sends; retryable
\* answers throughout is RetryAttempts sends).
RetryContract ==
    \A c \in Callers :
        /\ Len(seen[c]) = sends[c]
        /\ sends[c] <= RetryAttempts
        /\ \A i \in 1..(sends[c] - 1) : seen[c][i] \in RetryCodes
        /\ pc[c] = "delay" =>
              LastStatus(seen[c]) \in RetryCodes /\ sends[c] < RetryAttempts
        /\ pc[c] = "done" /\ outcome[c] = "service"
              /\ LastStatus(seen[c]) \in RetryCodes
              => sends[c] = RetryAttempts

\* The error taxonomy of spec section 7, as the handlers and responders
\* produce it: a validation error is returned before anything is sent, and
\* a request with a nil node identifier never reaches the service; success
\* and a decoding error come from a final 200; a service error from a final
\* answer that is not 200; a preparer error before any send.
OutcomeMatchesResponses ==
    \A c \in Callers :
        /\ op[c] \in {"StartPublishingValues", "StopPublishingValues"}
              /\ pc[c] \notin {"idle", "done"} => req[c].body # Null
        /\ pc[c] = "done" =>
              /\ outcome[c] # "none"
              /\ outcome[c] \in {"validation", "prepare"} => sends[c] = 0
              /\ outcome[c] \in {"ok", "decode"} =>
                    sends[c] > 0 /\ LastStatus(seen[c]) = 200
              /\ outcome[c] = "decode" => HasJSONResult(op[c])
              /\ outcome[c] = "service" =>
                    sends[c] > 0 /\ LastStatus(seen[c]) # 200

\* Every response body is released (spec section 4.1): a call holds at most
\* one open body, the one of its last answer while it waits or responds, and
\* none once it has returned, on every exit path including cancellation.
BodyReleased ==
    \A c \in Callers :
        /\ openBodies[c] <= 1
        /\ pc[c] \in {"idle", "prepare", "done"} => openBodies[c] = 0
        /\ pc[c] \in {"delay", "respond"} => openBodies[c] = 1

\* Spec section 4.3: a publish request whose item has an empty node
\* identifier, and an unpublish request with an empty node identifier, fail
\* validation before any network call.
NoEmptyNodeIdSent ==
    \A c \in Callers :
        op[c] \in {"StartPublishingValues", "StopPublishingValues"}
            /\ sends[c] > 0 => req[c].body \notin {Null, Empty}

\* Every call returns: the retry loop is bounded and each step of a call is
\* eventually taken, whatever the service answers and whether or not the
\* caller cancels.
CallCompletes ==
    \A c \in Callers : pc[c] \notin {"idle", "done"} ~> pc[c] = "done"

-----------------------------------------------------------------------------
(* The dispatcher implements the contract of module DispatchContract: a   *)
(* call is busy from the moment it passed validation until it returns,    *)
(* its answers are the statuses it has seen, its cancellation the         *)
(* context's, its result the outcome it returned.                         *)

CallState(p) ==
    CASE p = "idle" -> "idle"
      [] p = "done" -> "done"
      [] OTHER      -> "busy"

AbsState == [c \in Callers |-> CallState(pc[c])]

Contract == INSTANCE DispatchContract WITH
    Operations <- Ops,
    ValidatedOps <- {"StartPublishingValues", "StopPublishingValues"},
    DecodedOps <- {o \in Ops : HasJSONResult(o)},
    state <- AbsState,
    callOp <- op,
    wire <- seen,
    cancelled <- ctxDone,
    result <- outcome

\* Every behaviour of the six handlers, the retry decorator and the
\* responders, seen through that mapping, is one the contract allows: the
\* same request sent only while the budget, the last answer and the context
\* allow it, one result per call that its answers justify, and every call
\* that started eventually returning.
ImplementsContract == Contract!Spec
=============================================================================
