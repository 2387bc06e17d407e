----------------------------- MODULE Paginator ------------------------------
(***************************************************************************)
(* The enumeration of published nodes across pages (client.go lines        *)
(* 49-234, and the page and iterator types of the generated models, which  *)
(* are not under src/ and follow the spec, section 4.2).                   *)
(*                                                                         *)
(* One caller enumerates the published items of an endpoint:               *)
(*   GetFirstListOfPublishedNodes   POST, the first page and a token;      *)
(*   GetNextListOfPublishedNodesComplete(token)                            *)
(*                                  GET ?continuationToken=token, wrapped  *)
(*                                  in a page and an iterator;             *)
(*   page.Next (fn = getNextListOfPublishedNodesNextResults)               *)
(*                                  GET with the page's token, while the   *)
(*                                  token is not empty.                    *)
(* Each request goes through the same retry decorator as every other       *)
(* sender: on a retryable status the same request, token included, is     *)
(* sent again, up to RetryAttempts sends.                                  *)
(*                                                                         *)
(* The service holds the list Items.  A token is the offset of the next    *)
(* page (0 is the empty token).  Whether the service answers a token that  *)
(* was already presented with the same page again (IdempotentTokens) or   *)
(* treats it as a one-shot cursor that has moved on is not something the   *)
(* client controls: the spec assumes no idempotent replay.                 *)
(***************************************************************************)
EXTENDS Naturals, Sequences

CONSTANTS
    Items,            \* the published node ids of the endpoint, in order
    PageSize,         \* how many items the service puts in a page
    Statuses,         \* HTTP status codes the service may answer with
    RetryCodes,       \* autorest.StatusCodesForRetry, as far as Statuses reach
    RetryAttempts,    \* client.RetryAttempts
    IdempotentTokens  \* the service answers a replayed token with its page

ASSUME ItemsAssumption == Items \in Seq(STRING)
ASSUME PageAssumption == PageSize \in Nat \ {0}
ASSUME PagerStatusAssumption ==
    /\ 200 \in Statuses
    /\ RetryCodes \subseteq Statuses
    /\ 200 \notin RetryCodes
ASSUME PagerRetryAssumption == RetryAttempts \in Nat \ {0}
ASSUME ReplayAssumption == IdempotentTokens \in BOOLEAN

VARIABLES
    phase,      \* where the enumeration is
    fetch,      \* the request in flight: its kind, token and sends so far
    answer,     \* the status and page of the last answer to it
    page,       \* the current page of the iterator: its items and token
    collected,  \* the items the enumeration has yielded, in order
    uses        \* uses[t]: requests that reached the service carrying t

vars == <<phase, fetch, answer, page, collected, uses>>

Offsets == 0..Len(Items)

ItemIds == {Items[i] : i \in 1..Len(Items)}

\* A page of the service: up to PageSize items from offset t, and the token
\* of the page after it, empty (0) on the last page.
PageEnd(t) == IF t + PageSize < Len(Items) THEN t + PageSize ELSE Len(Items)

NextToken(t) == IF t + PageSize < Len(Items) THEN t + PageSize ELSE 0

PageAt(t) == [items |-> SubSeq(Items, t + 1, PageEnd(t)), token |-> NextToken(t)]

\* The empty result getNextListOfPublishedNodesNextResults returns when the
\* last results carry no token.
EmptyPage == [items |-> <<>>, token |-> 0]

NoAnswer == [status |-> 0, page |-> EmptyPage]

Kinds == {"first", "next", "nextResults"}

\* What a one-shot cursor answers to a token presented again: the page after
\* the one the token named, or nothing past the end.
ReplayPage(t) == IF PageAt(t).token = 0 THEN EmptyPage
                 ELSE PageAt(PageAt(t).token)

-----------------------------------------------------------------------------
(* The service.  A request with token t is answered with a status; a 200   *)
(* carries PageAt(t), or, for a token already presented to a one-shot      *)
(* cursor, the page after it.  The first-page POST has no token.           *)

Serve(t, s) ==
    IF s # 200 THEN [status |-> s, page |-> EmptyPage]
    ELSE IF t # 0 /\ uses[t] > 0 /\ ~IdempotentTokens
         THEN [status |-> s, page |-> ReplayPage(t)]
         ELSE [status |-> s, page |-> PageAt(t)]

-----------------------------------------------------------------------------
(* The client.                                                             *)

StartFetch(kind, t) ==
    /\ fetch' = [kind |-> kind, token |-> t, sends |-> 0]
    /\ answer' = NoAnswer

\* GetFirstListOfPublishedNodes: POST /v2/publish/{endpointId} with an empty
\* list request.
GetFirstListOfPublishedNodes ==
    /\ phase = "start"
    /\ phase' = "fetching"
    /\ StartFetch("first", 0)
    /\ UNCHANGED <<page, collected, uses>>

\* GetNextListOfPublishedNodesComplete(token): the caller hands the first
\* page's token to GetNextListOfPublishedNodes, which sets result.fn and
\* sends GET ?continuationToken=token; the result becomes the iterator's page.
GetNextListOfPublishedNodesComplete ==
    /\ phase = "listed"
    /\ phase' = "fetching"
    /\ StartFetch("next", page.token)
    /\ UNCHANGED <<page, collected, uses>>

\* Mutant: next() sends the token of the request before, not the page's.
PageNextStale ==
    /\ phase = "paging"
    /\ page.token # 0
    /\ phase' = "fetching"
    /\ StartFetch("nextResults", fetch.token)
    /\ UNCHANGED <<page, collected, uses>>

\* The iterator moves to the next page (spec 4.2): the wrapper calls next()
\* only while hasNext(), that is while the page's token is not empty, and
\* next() invokes fn, getNextListOfPublishedNodesNextResults, on the page.
PageNext ==
    /\ phase = "paging"
    /\ page.token # 0
    /\ phase' = "fetching"
    /\ StartFetch("nextResults", page.token)
    /\ UNCHANGED <<page, collected, uses>>

\* Mutant: one send more than the budget.
SendExtraAttempt ==
    /\ phase = "fetching"
    /\ \/ fetch.sends = 0
       \/ answer.status \in RetryCodes /\ fetch.sends <= RetryAttempts
    /\ \E s \in Statuses :
         answer' = Serve(fetch.token, s)
    /\ fetch' = [fetch EXCEPT !.sends = @ + 1]
    /\ uses' = IF fetch.token # 0 THEN [uses EXCEPT ![fetch.token] = @ + 1]
               ELSE uses
    /\ UNCHANGED <<phase, page, collected>>

\* The sender with DoRetryForStatusCodes: the request reaches the service,
\* which answers; on a retryable status with budget left it is sent again
\* unchanged, token included.
Send ==
    /\ phase = "fetching"
    /\ \/ fetch.sends = 0
       \/ answer.status \in RetryCodes /\ fetch.sends < RetryAttempts
    /\ \E s \in Statuses :
         answer' = Serve(fetch.token, s)
    /\ fetch' = [fetch EXCEPT !.sends = @ + 1]
    /\ uses' = IF fetch.token # 0 THEN [uses EXCEPT ![fetch.token] = @ + 1]
               ELSE uses
    /\ UNCHANGED <<phase, page, collected>>

\* The responder: a final 200 is decoded into the page, whose items the
\* iterator yields; anything else, or a body that does not decode, is an
\* error that leaves the page as it was and ends the enumeration, since the
\* complete-enumeration wrapper stops at the first error.
\* Mutant: the last page does not end the enumeration.
AcceptNeverDone(p) ==
    /\ page' = p
    /\ collected' = collected \o p.items
    /\ phase' = IF fetch.kind = "first" THEN "listed" ELSE "paging"

\* Mutant: the page's items are put before those already yielded.
AcceptPrepends(p) ==
    /\ page' = p
    /\ collected' = p.items \o collected
    /\ phase' = IF p.token = 0 THEN "done"
                ELSE IF fetch.kind = "first" THEN "listed" ELSE "paging"

Accept(p) ==
    /\ page' = p
    /\ collected' = collected \o p.items
    /\ phase' = IF p.token = 0 THEN "done"
                ELSE IF fetch.kind = "first" THEN "listed" ELSE "paging"

\* Mutant: a failed request replaces the page with the empty result, as if
\* the error were ignored.
RespondDropsError ==
    /\ phase = "fetching"
    /\ fetch.sends > 0
    /\ answer.status \notin RetryCodes \/ fetch.sends = RetryAttempts
    /\ \/ answer.status = 200 /\ Accept(answer.page)
       \/ Accept(EmptyPage)
    /\ UNCHANGED <<fetch, answer, uses>>

Respond ==
    /\ phase = "fetching"
    /\ fetch.sends > 0
    /\ answer.status \notin RetryCodes \/ fetch.sends = RetryAttempts
    /\ \/ answer.status = 200 /\ Accept(answer.page)
       \/ phase' = "failed" /\ UNCHANGED <<page, collected>>
    /\ UNCHANGED <<fetch, answer, uses>>

-----------------------------------------------------------------------------
Init ==
    /\ phase = "start"
    /\ fetch = [kind |-> "first", token |-> 0, sends |-> 0]
    /\ answer = NoAnswer
    /\ page = EmptyPage
    /\ collected = <<>>
    /\ uses = [t \in Offsets |-> 0]

Next ==
    \/ GetFirstListOfPublishedNodes
    \/ GetNextListOfPublishedNodesComplete
    \/ PageNext
    \/ Send
    \/ Respond

\* The caller drives the enumeration to its end, and each request returns.
Spec == Init /\ [][Next]_vars /\ WF_vars(Next)

-----------------------------------------------------------------------------
TypeOK ==
    /\ phase \in {"start", "fetching", "listed", "paging", "done", "failed"}
    /\ fetch \in [kind : Kinds, token : Offsets, sends : 0..RetryAttempts]
    /\ answer.status \in Statuses \cup {0}
    /\ page.token \in Offsets /\ page.items \in Seq(ItemIds)
    /\ collected \in Seq(ItemIds)
    /\ uses \in [Offsets -> Nat]

-----------------------------------------------------------------------------
(* Properties.                                                             *)

\* The enumeration yields the service's list exactly: at every point the
\* items yielded are a prefix of Items, in order, without a duplicate or a
\* gap across page boundaries and retries, and an enumeration that ends
\* without an error has yielded all of them (no silent truncation when a
\* page fails or the last token is empty).
EnumerationExact ==
    /\ Len(collected) <= Len(Items)
    /\ collected = SubSeq(Items, 1, Len(collected))
    /\ phase = "done" => collected = Items

\* Spec section 4.2: an enumeration that ends without an error has yielded
\* every item of the list; a page lost to a retry must not end it silently.
EnumerationComplete == phase = "done" => collected = Items

\* Spec section 3: a page's continuation token, once consumed to fetch the
\* next page, is never presented to the service again.
TokenUsedOnce == \A t \in Offsets \ {0} : uses[t] <= 1

\* The replay of a continuation token is confined to the retries of the one
\* request that carries it: whatever the service does with a replayed
\* token, no later page hands the client a token it already presented, so
\* no token reaches the service more than RetryAttempts times.
TokenReplayBounded == \A t \in Offsets \ {0} : uses[t] <= RetryAttempts

\* Every enumeration ends, with all items or with an error.
EnumerationEnds == <>(phase \in {"done", "failed"})

-----------------------------------------------------------------------------
(* The enumeration seen as the caller sees it: the items yielded, and      *)
(* whether it is over and how.                                             *)

ListStatus == IF phase \in {"done", "failed"} THEN phase ELSE "running"

Listing == INSTANCE EnumerationContract WITH yielded <- collected,
                                             status <- ListStatus

\* Pages, tokens, the Complete wrapper, page.Next and the retrying sender
\* together keep the promise of an enumeration: each accepted page extends
\* the items yielded by the next items of the list and never takes one
\* back, the last page and only it ends the enumeration, a failed request
\* ends it with what was yielded, and it does end.
ImplementsEnumeration == Listing!Spec
=============================================================================
