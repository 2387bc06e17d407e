# Formal model of the OPC Publisher client

This directory holds TLA+ models of the generated Go client for the OPC
Publisher REST API, `src/api/generated/go/azure-iiot-opc-publisher/client.go`.
It contains TLC configurations that model-check them, and TLAPS proofs of
their main safety properties. `PROJECT.json` maps every definition to the
lines of code it models. It also lists the runs, mutants, findings, hazards
and theorems.

## The system

`BaseClient` is an immutable value: a `BaseURI` and an `autorest.Client`. The
client carries `RetryAttempts`, `RetryDuration` and an HTTP sender. It has six
operations, and all of them follow one template:

| operation | verb / path | validated | body | result decoded |
|---|---|---|---|---|
| GetFirstListOfPublishedNodes | POST /v2/publish/{endpointId} | – | list request | yes |
| GetNextListOfPublishedNodes | GET …?continuationToken= | – | – | yes, as a page |
| StartPublishingValues | POST …/start | `body.Item`, `body.Item.NodeID` not nil | yes | yes |
| StopPublishingValues | POST …/stop | `body.NodeID` not nil | yes | yes |
| Subscribe | PUT …/subscribe | – | only if `len(body) > 0` | no |
| Unsubscribe | DELETE …/{userId} | – | – | no |

Each operation runs these steps in order, and any step's error returns at once:

1. Validate.
2. Prepare: build the request. This fails if `BaseURI` does not parse.
3. Send: `DoRetryForStatusCodes` resends the same request on a retryable
   status, up to the budget. It drains and closes each superseded response and
   stops when the context is cancelled.
4. Respond: an error unless the status is 200, then the JSON decode, then
   `ByClosing`.

Paging goes like this. `GetNextListOfPublishedNodes` sets `result.fn` to
`getNextListOfPublishedNodesNextResults`. The page's `Next()` then calls that
function with the last results. The function returns an empty result when the
last results carry no token. Otherwise it sends a GET with their token, through
the same retrying sender. `GetNextListOfPublishedNodesComplete` wraps the first
next-page call in an iterator.

The page and iterator types, and the retry loop, are not under `src/`. They are
modelled from the spec (§4.1, §4.2, §8) and marked `spec_modelled` where a
definition stands for them alone.

## Modules

**`Dispatcher`** models any number of concurrent callers. Each caller runs one
call of one operation at a time on the shared client. The client holds no
mutable state, so callers interact only through the shared service. The
per-caller variables are:

- `pc`: idle → prepare → send ⇄ delay → respond → done;
- `op`, `req`: the operation and the prepared request (verb, endpoint, body);
- `ctxDone`: the caller's context has been cancelled;
- `sends`, `seen`: the requests sent in this call and the statuses answered;
- `openBodies`: response bodies not yet closed;
- `outcome`: the error class returned: ok, validation, prepare, transport,
  service or decode.

The actions are:

| action | models |
|---|---|
| `Call(c)` | the operation's entry point, validation included. Each operation is its own operator (`StartPublishingValues`, …), and each uses `Reject`/`Admit` and its `…Preparer`. |
| `Prepare(c)` | the preparer's result and its error return |
| `SendAnswered(c)`, `SendFailed(c)` | one attempt of the retry loop, answered or failed in transport |
| `Backoff(c)` | the wait between attempts, which ends early on cancellation |
| `Respond(c)` | the responder |
| `Cancel(c)` | the caller cancels its context |
| `Return(c)` | the caller takes the result and may start another call |

**`Paginator`** models one caller enumerating an endpoint's published items
against a service that holds the list `Items`. A token is the offset of the
next page, and 0 is the empty token. The variables are:

- `phase`;
- `fetch`: the request in flight (its kind, token and sends);
- `answer`;
- `page`: the iterator's current page;
- `collected`: the items yielded;
- `uses`: how often each token reached the service.

The actions are `GetFirstListOfPublishedNodes`,
`GetNextListOfPublishedNodesComplete`, `PageNext`, `Send` (one attempt of the
retrying sender) and `Respond` (the responder and the page update).

`IdempotentTokens` chooses the service:

- TRUE: a replayed token is answered with the same page again;
- FALSE: a one-shot cursor, which the spec assumes.

**`DispatchContract`** is the abstract specification of a call: what any
implementation of the client promises its caller, independent of how the
validation, preparation, retry decorator and responder are arranged. A call
is `idle`, `busy` or `done`. While busy, `Attempt` appends one answer to
`wire`. It may do so only while the call is not cancelled, its budget is left,
and the wire is empty or its last answer is retryable. `Finish` returns one
result, which `Justified` ties to the answers:

- `prepare` only if nothing was sent;
- `ok` and `decode` only after a final 200, and `decode` only for an
  operation whose result is decoded;
- `service` only after a final non-200 answer, and, if that answer was
  retryable, only once the budget is spent.

`Refuse` is a validation error before anything is sent. `Cancel` and
`Return` are the caller's own steps. `Work(c)` is weakly fair.

`Dispatcher` implements it through the instance `Contract`:

- `pc` is mapped to idle/busy/done by `CallState`;
- `seen` is the wire;
- `ctxDone` is `cancelled`;
- `outcome` is `result`;
- `op` is `callOp`.

`Prepare`, `Backoff` that waits, and `Call` of an admitted request are
stutters or `Begin`. `SendAnswered` is `Attempt`. `SendFailed`, a cancelled
`Backoff` and `Respond` are `Finish`.

**`EnumerationContract`** is the abstract specification of an enumeration,
as its caller sees it. It has no pages, tokens or retries. The variables are
`yielded` and `status` (running, done or failed). The actions are:

- `Yield`: the next items of the list are yielded, and the enumeration is
  done exactly when they include the last one;
- `Finish`: an empty list ends without yielding anything;
- `Fail`: the enumeration stops, keeping what it yielded.

`Paginator` implements it through the instance `Listing`. `collected` is
`yielded`, and `ListStatus` maps the phase to running, done or failed. The
actions map as follows:

- the request steps (the first-page call, `Complete`, `PageNext`, `Send`)
  are stutters;
- a final 200 is `Yield`, or `Finish` for an empty page at the end;
- a failed request is `Fail`.

**`DispatcherProofs`**, **`DispatchRefinementProofs`**, **`PaginatorProofs`**
and **`PaginatorRefinementProofs`** hold the TLAPS proofs.

`MCDispatcher` and `MCPaginator` give the constants their values for TLC.

## Runs

| run | cfg | result | what it shows |
|---|---|---|---|
| dispatcher | MCDispatcher.cfg | pass, 249 001 states | `TypeOK`, `RetryContract`, `OutcomeMatchesResponses`, `BodyReleased`, `CallCompletes` and `ImplementsContract` hold |
| bad_base_uri | MCDispatcherBadBaseURI.cfg | pass, 1 849 states | with `BaseURIValid = FALSE`, `OutcomeMatchesResponses` and `ImplementsContract` hold: every admitted call takes the preparer's error return without sending |
| empty_node_id | MCDispatcherEmptyNodeId.cfg | violation | `NoEmptyNodeIdSent`: an empty NodeID is sent (finding) |
| paginator | MCPaginator.cfg | pass, 281 states | `TypeOK`, `EnumerationExact`, `TokenReplayBounded`, `EnumerationEnds` and `ImplementsEnumeration` hold with idempotent tokens |
| token_reuse | MCPaginatorTokenReuse.cfg | violation | `TokenUsedOnce`: a retry resends a consumed token (finding) |
| one_shot_cursor | MCPaginatorOneShot.cfg | violation | `EnumerationComplete`: against a one-shot cursor the enumeration ends done with a page missing (finding) |

The properties are:

- **RetryContract.** A call sends at most `RetryAttempts` requests. Every
  status before the last one it saw was retryable. A call that ended in a
  service error with a retryable status has spent its whole budget.
- **OutcomeMatchesResponses.** A validation error means nothing was sent. A
  success means the last status was 200. A service error means it was not 200.
- **BodyReleased.** At most one body is open per call. That body belongs to a
  call that is waiting or responding, and a returned call has none. This holds
  on every exit path.
- **CallCompletes.** Every call that starts returns.
- **ImplementsContract.** Every behaviour of the dispatcher, seen through the
  refinement mapping, is a behaviour of `DispatchContract`, fairness
  included. It relates the whole history of a call's answers to its result.
- **EnumerationExact.** `collected` is always a prefix of `Items`. An
  enumeration that ends without an error has yielded all of `Items`.
- **EnumerationComplete.** An enumeration that ends without an error has
  yielded all of `Items`. It is the part of `EnumerationExact` that the
  one-shot cursor breaks, checked on its own so that TLC's trace runs to the
  end of the enumeration.
- **TokenReplayBounded.** A continuation token reaches the service at most
  `RetryAttempts` times. Only the retries of the request that carries it
  replay it. No later page hands the client a token it has already
  presented. This bounds the damage of finding 1.
- **EnumerationEnds.** An enumeration always ends, either done or failed.
- **ImplementsEnumeration.** Every behaviour of the paginator, seen as the
  items yielded and whether it is over, is a behaviour of
  `EnumerationContract`, fairness included. The items yielded never shrink
  and never reorder. The last page, and only it, ends the enumeration.

Each property of a passing run has a mutant in `PROJECT.json`: a plausible bug
in the definition it depends on, such as one send too many, a body not
drained, a guard dropped, or a failed page taken for the empty result. TLC
finds the property violated under that mutant.

### Bounds

In `MCDispatcher`:

- Two callers, so calls interleave, one cancels while the other retries, and
  the two callers' bodies and budgets stay separate.
- One endpoint, node, user and token. Each is only carried through into the
  request, and no property compares two of them.
- Statuses {200, 404, 503} with 503 retryable. This covers success, a
  non-retryable error and a retryable one.
- `RetryAttempts = 3`. This gives a first attempt, a retry that is not the
  last, and a last retry, which is where off-by-one errors lie.

In `MCPaginator`:

- Four items at page size 1. The enumeration then crosses the first page, the
  `Complete` wrapper's page and at least two `Next()` pages.
- The same statuses and budget as above.

### Fairness

The dispatcher's spec takes weak fairness on each caller's own steps. A
goroutine that runs a call is not starved. Every step of the call is either
local or bounded by the transport's timeout and the `RetryDuration` delay, and
both of those end. `Cancel` and `Return` are not fair: a caller never has to
cancel, and never has to make another call. The paginator's caller has weak
fairness on `Next`, because the enumeration is driven to its end.

## Findings

1. **Continuation tokens are replayed** (`client.go:182`).
   `GetNextListOfPublishedNodesSender` uses the same retry decorator as
   every other sender. After a 503, the same `continuationToken` is sent
   again. The spec says a consumed token is never reused.

   Against a one-shot cursor the consequence is worse. The retried GET gets
   the page after the lost one. TLC's trace ends in phase `done` with
   `collected = <<n1, n2, n4>>`: the enumeration misses n3 and ends without
   an error.
2. **An empty node id passes validation** (`client.go:256`, `:336`).
   `validation.Null` rejects only a nil pointer, so `NodeID = ""` is sent to
   the service. Spec §4.3 says the client rejects it before any network call.

## Proofs

TLAPS proves the following for all values of the constants that satisfy the
`ASSUME`s of the modelled module.

In `DispatcherProofs`:

- `TypeCorrect`: `Spec => []TypeOK`.
- `RetryContractHolds`: `Spec => []RetryContract`.
- `BodyReleasedHolds`: `Spec => []BodyReleased`.
- `OutcomeMatchesResponsesHolds`: `Spec => []OutcomeMatchesResponses`.

In `DispatchRefinementProofs`:

- `Refinement`: `Spec => Contract!SafeSpec`, the safety part of the refinement.

In `PaginatorProofs`:

- `PagerTypeCorrect`: `Spec => []TypeOK`.
- `EnumerationExactHolds`: under `IdempotentTokens`,
  `Spec => []EnumerationExact`.
- `TokenReplayBoundedHolds`: `Spec => []TokenReplayBounded`. This holds
  whatever the service does with a replayed token.

In `PaginatorRefinementProofs`:

- `EnumerationRefinement`: under `IdempotentTokens`,
  `Spec => Listing!SafeSpec`.

The `ASSUME`s the proofs use are weak. In `Dispatcher`, 200 is a status and
not a retryable one, `RetryAttempts` is a positive natural, `BaseURIValid` is
a Boolean (both values are checked, by `dispatcher` and `bad_base_uri`), and
`Null` and `Empty` are not nodes. In `Paginator`, `Items` is a sequence,
`PageSize` and `RetryAttempts` are positive naturals, and the statuses satisfy
the same conditions.

- 200 is not retryable;
- the budget is a positive natural;
- the `Null` and `Empty` markers are not node ids.

The `Paginator` `ASSUME`s require that:

- `Items` is a finite sequence;
- the page size and the budget are positive;
- 200 is a status and is not retryable.

### Inductive invariants

None of the properties is inductive as it stands. `RetryContract` speaks only
of a finished call, so it says nothing about how far a call in progress has
got. The dispatcher proofs therefore use a stronger invariant,
`IInv == TypeOK /\ \A c : CallerInv(c)`. `CallerInv(c)` ties caller `c`'s
counters to its position in the call:

- `Len(seen) = sends` and `sends <= RetryAttempts`;
- every status before the last was retryable;
- an idle or preparing call has sent nothing;
- a call that is waiting has budget left and saw a retryable status;
- a call that is responding holds exactly one body;
- a call that is done holds none.

TLC checked `IInv` as an invariant before it was proved. Each proof has three
parts: `Init => IInv`, `IInv /\ [Next]_vars => IInv'` and `IInv => Inv`. The
step proof has one case per action. For a step of caller `d`, `OthersFramed`
shows that every other caller's variables are unchanged.
`OutcomeMatchesResponses` is proved by a step lemma that assumes `IInv` in
the pre-state.

The refinement proof adds `OpInv`: a call that is not idle has a real
operation. Without it, a `Respond` that decodes could map to a contract step
with operation `"none"`. The proof then shows two things. `Init` maps to
`Contract!Init`. Each `Dispatcher` step maps to the contract step listed
above, or to a stutter.

The paginator's exactness proof uses `PInv`. It ties the items yielded to the
phase:

- before the first call, nothing has been yielded;
- while a page is held, the items yielded are the prefix that ends at the
  page's token;
- while fetching, they are the prefix that ends at the token in flight, and
  a 200 answer carries the page at that token;
- after an error, they are some prefix;
- when done, they are the whole list.

Its step for an accepted page rests on `PrefixExtends`. That lemma says the
prefix up to a token, concatenated with the page at that token, is the prefix
up to the page's end. It is proved from `ConcatAdjacentSubSeq` of
`SequenceTheorems`. `PInv` was checked by TLC, at page sizes 1 and 2, before
it was proved.

The paginator refinement reuses `PInv`. A final 200 at token `t` yields the
items from `t` to `PageEnd(t)`. If `PageEnd(t) > t`, this is a `Yield`, and
the token is empty exactly when `PageEnd(t)` is the end of the list. If
`PageEnd(t) = t`, then `t` is the end, and the step is `Finish`.

`TokenReplayBounded` needs `UInv`, whose point is that tokens only move
forward. It has these conjuncts:

- `AnswerForward`: an answer carries a token past the one sent, or none.
  This holds for a one-shot cursor too, whose replay skips further ahead.
- `UnusedAhead`: no token at or past the current page's token, or past the
  token in flight, has reached the service.
- the token in flight was presented at most once per send.

TLC checked `UInv` in both service modes, at page sizes 1 and 2, before it
was proved.

### Only model-checked

These properties are checked by TLC and not proved:

- Liveness (`CallCompletes`, `EnumerationEnds`, and the fairness parts of
  `ImplementsContract` and `ImplementsEnumeration`) rests on fairness and
  `ENABLED`, which TLAPS does not handle.
- `EnumerationComplete`, and so `EnumerationExact`, is false against a
  one-shot cursor. The `one_shot_cursor` run shows this.
- The violations of `TokenUsedOnce` and `NoEmptyNodeIdSent` are shown by TLC
  runs. They are findings, not theorems.

## Not modelled

- Tracing spans. They are observability only. The `map` entries for the six
  operations name only their entry line, because the bodies are modelled by
  `Call` (validation), `Prepare`, `Send` and `Respond`, which have map
  entries of their own.
- The preparer's `req == nil` return in
  `getNextListOfPublishedNodesNextResults` (`client.go:205`). The iterator
  calls it only while the page carries a token, so in the model the branch is
  never taken.
- URL and JSON encoding. Only which parameter goes into the path, the query or
  the body is modelled.
- The user agent.
- The delay's duration and Retry-After.
- The generated model structs. Bodies, ids and tokens are model values.

## Open work

- In `Paginator`, a caller calling `Next()` again after an error. This is the
  page type's behaviour, from the generated models file.
- Two goroutines sharing one page is not modelled. The spec (§4.2, §5) says
  a page is not safe for concurrent use, and its code is not under `src/`.
