--------------------------- MODULE PaginatorProofs ---------------------------
(***************************************************************************)
(* Proofs about the enumeration of published nodes, for every list of     *)
(* items, every page size and every budget of sends.  The enumeration is  *)
(* exact against a service that answers a replayed token with the same    *)
(* page (IdempotentTokens); against a one-shot cursor it is not, as the   *)
(* run one_shot_cursor shows.                                             *)
(***************************************************************************)
EXTENDS Paginator, SequenceTheorems, TLAPS

\* The first k items of the service's list.
Prefix(k) == SubSeq(Items, 1, k)

Pages == [items : Seq(ItemIds), token : Offsets]

(***************************************************************************)
(* Lemmas about the service's pages.                                       *)
(***************************************************************************)

\* The list is a sequence of node ids and every offset is a natural.
LEMMA ItemsFacts ==
    /\ Items \in Seq(ItemIds)
    /\ Len(Items) \in Nat
    /\ Offsets \subseteq Nat
BY ItemsAssumption DEF ItemIds, Offsets

\* Every item of the list is a node id.
LEMMA ItemInIds == \A i \in 1..Len(Items) : Items[i] \in ItemIds
BY Zenon DEF ItemIds

\* A prefix of the list is a sequence of node ids of that length.
LEMMA PrefixFacts ==
    \A k \in Offsets : Prefix(k) \in Seq(ItemIds) /\ Len(Prefix(k)) = k
<1> SUFFICES ASSUME NEW k \in Offsets
             PROVE  Prefix(k) \in Seq(ItemIds) /\ Len(Prefix(k)) = k
  OBVIOUS
<1>1. \A i \in 1..k : Items[i] \in ItemIds
  BY ItemInIds, ItemsFacts DEF Offsets
<1>2. QED
  BY <1>1, ItemsFacts, SubSeqProperties DEF Prefix, Offsets

\* Where a page ends and which token it carries.
LEMMA PageEndFacts ==
    \A t \in Offsets :
        /\ PageEnd(t) \in t..Len(Items)
        /\ NextToken(t) \in Offsets
        /\ NextToken(t) # 0 => NextToken(t) = PageEnd(t)
        /\ NextToken(t) = 0 => PageEnd(t) = Len(Items)
BY ItemsFacts, PageAssumption DEF PageEnd, NextToken, Offsets

\* Every page the service can answer with is a page of node ids.
LEMMA PageTyped == \A t \in Offsets : PageAt(t) \in Pages
<1> SUFFICES ASSUME NEW t \in Offsets PROVE PageAt(t) \in Pages
  OBVIOUS
<1>1. \A i \in (t + 1)..PageEnd(t) : Items[i] \in ItemIds
  BY ItemInIds, PageEndFacts, ItemsFacts DEF Offsets
<1>2. SubSeq(Items, t + 1, PageEnd(t)) \in Seq(ItemIds)
  BY <1>1, PageEndFacts, ItemsFacts, SubSeqProperties DEF Offsets
<1>3. QED
  BY <1>2, PageEndFacts DEF PageAt, Pages

LEMMA ServeTyped ==
    \A t \in Offsets, s \in Statuses :
        /\ Serve(t, s).status = s
        /\ Serve(t, s).page \in Pages
<1> SUFFICES ASSUME NEW t \in Offsets, NEW s \in Statuses
             PROVE  Serve(t, s).status = s /\ Serve(t, s).page \in Pages
  OBVIOUS
<1>1. EmptyPage \in Pages
  BY ItemsFacts DEF EmptyPage, Pages, Offsets
<1>2. ReplayPage(t) \in Pages
  BY <1>1, PageTyped, PageEndFacts DEF ReplayPage, PageAt
<1>3. QED
  BY <1>1, <1>2, PageTyped DEF Serve

\* The page at offset t continues the prefix before t.
LEMMA PrefixExtends ==
    \A t \in Offsets : Prefix(t) \o PageAt(t).items = Prefix(PageEnd(t))
<1> SUFFICES ASSUME NEW t \in Offsets
             PROVE  Prefix(t) \o PageAt(t).items = Prefix(PageEnd(t))
  OBVIOUS
<1>1. /\ 1 \in 1..Len(Items) + 1
      /\ t \in (1 - 1)..Len(Items)
      /\ PageEnd(t) \in t..Len(Items)
  BY PageEndFacts, ItemsFacts DEF Offsets
<1>2. QED
  BY <1>1, ItemsFacts, ConcatAdjacentSubSeq DEF Prefix, PageAt

(***************************************************************************)
(* Type correctness, for any service.                                      *)
(***************************************************************************)
TInv == TypeOK /\ answer.page \in Pages

LEMMA TInvStep == TInv /\ [Next]_vars => TInv'
<1> SUFFICES ASSUME TInv, [Next]_vars PROVE TInv'
  OBVIOUS
<1> USE DEF TInv, TypeOK
<1>1. CASE GetFirstListOfPublishedNodes
  BY <1>1, ServeTyped, ItemsFacts, PagerRetryAssumption DEF GetFirstListOfPublishedNodes, StartFetch,
     NoAnswer, EmptyPage, Pages, Offsets, Kinds
<1>2. CASE GetNextListOfPublishedNodesComplete
  BY <1>2, ItemsFacts, PagerRetryAssumption DEF GetNextListOfPublishedNodesComplete, StartFetch,
     NoAnswer, EmptyPage, Pages, Offsets, Kinds
<1>3. CASE PageNext
  BY <1>3, ItemsFacts, PagerRetryAssumption DEF PageNext, StartFetch, NoAnswer, EmptyPage, Pages, Offsets,
     Kinds
<1>4. CASE Send
  <2>1. PICK s \in Statuses : answer' = Serve(fetch.token, s)
    BY <1>4 DEF Send
  <2>2. answer'.status \in Statuses /\ answer'.page \in Pages
    BY <2>1, ServeTyped
  <2>3. fetch'.sends \in 0..RetryAttempts
    BY <1>4, PagerRetryAssumption DEF Send
  <2>4. QED
    BY <1>4, <2>2, <2>3 DEF Send
<1>5. CASE Respond
  <2>1. CASE answer.status = 200 /\ Accept(answer.page)
    <3>1. collected \o answer.page.items \in Seq(ItemIds)
      BY DEF Pages
    <3>2. QED
      BY <1>5, <2>1, <3>1 DEF Respond, Accept, Pages
  <2>2. CASE phase' = "failed" /\ UNCHANGED <<page, collected>>
    BY <1>5, <2>2 DEF Respond
  <2>3. QED
    BY <1>5, <2>1, <2>2 DEF Respond
<1>6. CASE UNCHANGED vars
  BY <1>6 DEF vars, TypeOK, Pages, Prefix, PageAt, PageEnd, NextToken,
     Offsets, ItemIds, Kinds
<1>7. QED
  BY <1>1, <1>2, <1>3, <1>4, <1>5, <1>6 DEF Next

\* The initial state is well typed.
LEMMA InitTInv == Init => TInv
<1> SUFFICES ASSUME Init PROVE TInv
  OBVIOUS
<1>1. 0 \in Offsets /\ <<>> \in Seq(ItemIds)
  BY ItemsFacts DEF Offsets
<1>2. EmptyPage \in Pages /\ EmptyPage.token \in Offsets
      /\ EmptyPage.items \in Seq(ItemIds)
  BY <1>1 DEF EmptyPage, Pages
<1>3. NoAnswer.status \in Statuses \cup {0} /\ NoAnswer.page \in Pages
  BY <1>2 DEF NoAnswer
<1>4. fetch \in [kind : Kinds, token : Offsets, sends : 0..RetryAttempts]
  BY <1>1, PagerRetryAssumption DEF Init, Kinds
<1>5. uses \in [Offsets -> Nat]
  BY DEF Init
<1>6. QED
  BY <1>1, <1>2, <1>3, <1>4, <1>5 DEF Init, TInv, TypeOK

\* The enumeration's state is always well typed: the sends of a request
\* stay within the budget, pages and the items yielded are node ids.
THEOREM PagerTypeCorrect == Spec => []TypeOK
<1>1. Init => TInv
  BY InitTInv
<1>2. TInv => TypeOK
  BY DEF TInv
<1>3. QED
  BY <1>1, <1>2, TInvStep, PTL DEF Spec

(***************************************************************************)
(* The inductive invariant.  EnumerationExact says that what was yielded  *)
(* is a prefix; it does not say which one, and so does not show that the  *)
(* next page continues it.  The strengthening ties the prefix to the token *)
(* the client holds: the items yielded are exactly those before the offset *)
(* of the token of the current page, or of the request in flight, and a   *)
(* 200 answer to that request carries the page at that offset.            *)
(***************************************************************************)
PInv ==
    /\ TypeOK
    /\ answer.page \in Pages
    /\ phase = "start" => collected = <<>>
    /\ phase \in {"listed", "paging"} =>
          page.token # 0 /\ collected = Prefix(page.token)
    /\ phase = "fetching" =>
          /\ collected = Prefix(fetch.token)
          /\ answer.status = 200 => answer.page = PageAt(fetch.token)
    /\ phase = "done" => collected = Items
    /\ phase = "failed" => \E k \in Offsets : collected = Prefix(k)

\* Against an idempotent service a 200 answer carries the page at the
\* token that was sent.
LEMMA ServeIdempotent ==
    IdempotentTokens => \A t \in Offsets : Serve(t, 200).page = PageAt(t)
BY DEF Serve

\* What a step does to the prefix: Accept of the page at the token sent.
LEMMA AcceptExtends ==
    ASSUME TypeOK, NEW t \in Offsets, collected = Prefix(t),
           Accept(PageAt(t))
    PROVE  /\ collected' = Prefix(PageEnd(t))
           /\ page' = PageAt(t)
           /\ phase' = "done" => collected' = Items
           /\ phase' # "done" => page'.token # 0
                                 /\ collected' = Prefix(page'.token)
<1>1. collected' = Prefix(PageEnd(t)) /\ page' = PageAt(t)
  BY PrefixExtends DEF Accept
<1>2. CASE NextToken(t) = 0
  <2>0. PageAt(t).token = 0
    BY <1>2 DEF PageAt
  <2>1. phase' = "done"
    BY <2>0 DEF Accept
  <2>6. PageEnd(t) = Len(Items)
    BY <1>2, PageEndFacts
  <2>2. Prefix(Len(Items)) = Items
    BY ItemsFacts, SubSeqFull DEF Prefix
  <2>3. QED
    BY <1>1, <2>1, <2>2, <2>6
<1>3. CASE NextToken(t) # 0
  <2>1. phase' # "done"
    BY <1>3 DEF Accept, PageAt
  <2>2. page'.token = PageEnd(t) /\ page'.token # 0
    BY <1>1, <1>3, PageEndFacts DEF PageAt
  <2>3. QED
    BY <1>1, <2>1, <2>2
<1>4. QED
  BY <1>2, <1>3

LEMMA PInvStep ==
    ASSUME IdempotentTokens
    PROVE  PInv /\ [Next]_vars => PInv'
<1> SUFFICES ASSUME PInv, [Next]_vars PROVE PInv'
  OBVIOUS
<1>1. TInv'
  BY TInvStep DEF PInv, TInv
<1> USE DEF PInv
<1>2. CASE GetFirstListOfPublishedNodes
  <2>1. /\ phase' = "fetching" /\ fetch'.token = 0 /\ answer'.status = 0
        /\ collected' = <<>>
    BY <1>2 DEF GetFirstListOfPublishedNodes, StartFetch, NoAnswer
  <2>2. Prefix(0) = <<>>
    BY DEF Prefix
  <2>3. QED
    BY <1>1, <2>1, <2>2 DEF TInv
<1>3. CASE GetNextListOfPublishedNodesComplete \/ PageNext
  <2>1. /\ phase \in {"listed", "paging"} /\ phase' = "fetching"
        /\ fetch'.token = page.token /\ answer'.status = 0
        /\ UNCHANGED collected
    BY <1>3 DEF GetNextListOfPublishedNodesComplete, PageNext, StartFetch,
       NoAnswer
  <2>2. QED
    BY <1>1, <2>1 DEF TInv
<1>4. CASE Send
  <2>1. PICK s \in Statuses : answer' = Serve(fetch.token, s)
    BY <1>4 DEF Send
  <2>2. /\ phase = "fetching" /\ phase' = "fetching"
        /\ fetch'.token = fetch.token
        /\ UNCHANGED collected
    BY <1>4 DEF Send, TypeOK
  <2>3. answer'.status = 200 => answer'.page = PageAt(fetch.token)
    BY <2>1, ServeIdempotent, ServeTyped DEF TypeOK
  <2>4. QED
    BY <1>1, <2>2, <2>3 DEF TInv
<1>5. CASE Respond
  <2>1. phase = "fetching" /\ fetch.token \in Offsets
    BY <1>5 DEF Respond, TypeOK
  <2>2. CASE answer.status = 200 /\ Accept(answer.page)
    <3>1. Accept(PageAt(fetch.token))
      BY <2>1, <2>2
    <3>2. /\ phase' = "done" => collected' = Items
          /\ phase' # "done" => page'.token # 0
                                /\ collected' = Prefix(page'.token)
      BY <2>1, <3>1, AcceptExtends
    <3>3. phase' \in {"done", "listed", "paging"}
      BY <3>1 DEF Accept
    <3>4. QED
      BY <1>1, <3>2, <3>3 DEF TInv
  <2>3. CASE phase' = "failed" /\ UNCHANGED <<page, collected>>
    BY <1>1, <2>1, <2>3 DEF TInv
  <2>4. QED
    BY <1>5, <2>2, <2>3 DEF Respond
<1>6. CASE UNCHANGED vars
  BY <1>6 DEF vars, TypeOK, Pages, Prefix, PageAt, PageEnd, NextToken,
     Offsets, ItemIds, Kinds
<1>7. QED
  BY <1>2, <1>3, <1>4, <1>5, <1>6 DEF Next

\* The strengthened invariant holds initially.
LEMMA InitPInv == Init => PInv
<1>1. Init => TInv
  BY InitTInv
<1>2. QED
  BY <1>1 DEF Init, PInv, TInv

\* Against a service that answers a replayed token with the same page, the
\* enumeration yields the service's list exactly, for every list, page
\* size and budget: a prefix at every point, in order, and all of it once
\* the enumeration ends without an error.
THEOREM EnumerationExactHolds ==
    ASSUME IdempotentTokens
    PROVE  Spec => []EnumerationExact
<1>1. Init => PInv
  BY InitPInv
<1>2. PInv => EnumerationExact
  <2> SUFFICES ASSUME PInv PROVE EnumerationExact
    OBVIOUS
  <2>1. PICK k \in Offsets : collected = Prefix(k)
    <3>1. phase \in {"start", "fetching", "listed", "paging", "done",
                     "failed"}
      BY DEF PInv, TypeOK
    <3>2. Prefix(0) = <<>> /\ Prefix(Len(Items)) = Items
      BY ItemsFacts, SubSeqFull DEF Prefix
    <3>3. 0 \in Offsets /\ Len(Items) \in Offsets
      BY ItemsFacts DEF Offsets
    <3>4. QED
      BY <3>1, <3>2, <3>3 DEF PInv, TypeOK
  <2>2. Len(collected) = k /\ k <= Len(Items)
    BY <2>1, PrefixFacts DEF Offsets
  <2>3. collected = SubSeq(Items, 1, Len(collected))
    BY <2>1, <2>2 DEF Prefix
  <2>4. phase = "done" => collected = Items
    BY DEF PInv
  <2>5. QED
    BY <2>2, <2>3, <2>4 DEF EnumerationExact
<1>3. QED
  BY <1>1, <1>2, PInvStep, PTL DEF Spec
(***************************************************************************)
(* Replayed tokens.  TokenReplayBounded is not inductive: it does not say  *)
(* that a token the client is about to present is still unused.  The      *)
(* strengthening says that tokens only move forward: an answer carries a  *)
(* token past the one sent (or none), nothing at or past the token of the *)
(* current page, or past the token in flight, has reached the service,    *)
(* and the token in flight was presented at most once per send.  It holds *)
(* whatever the service does with a replayed token.                        *)
(***************************************************************************)
AnswerForward == answer.page.token = 0 \/ answer.page.token > fetch.token

UnusedAhead ==
    /\ phase = "start" => \A t \in Offsets : uses[t] = 0
    /\ phase = "fetching" =>
          /\ fetch.token # 0 => uses[fetch.token] <= fetch.sends
          /\ \A t \in Offsets : t > fetch.token => uses[t] = 0
    /\ phase \in {"listed", "paging"} =>
          /\ page.token # 0
          /\ \A t \in Offsets : t >= page.token => uses[t] = 0

UInv == TInv /\ TokenReplayBounded /\ AnswerForward /\ UnusedAhead

\* Offsets are naturals.
LEMMA OffsetsNat == \A x \in Offsets : x \in Nat
BY DEF Offsets

\* A page's token lies past the page's offset, or is empty.
LEMMA TokenForward ==
    \A t \in Offsets : NextToken(t) = 0 \/ NextToken(t) > t
BY ItemsFacts, PageAssumption DEF NextToken, Offsets

\* Whatever the service answers, the page it carries names a token past the
\* one sent, or none; a one-shot cursor's replay skips further ahead.
LEMMA ServeForward ==
    \A t \in Offsets, s \in Statuses :
        Serve(t, s).page.token = 0 \/ Serve(t, s).page.token > t
<1> SUFFICES ASSUME NEW t \in Offsets, NEW s \in Statuses
             PROVE  Serve(t, s).page.token = 0 \/ Serve(t, s).page.token > t
  OBVIOUS
<1>1. PageAt(t).token = 0 \/ PageAt(t).token > t
  BY TokenForward DEF PageAt
<1>2. ReplayPage(t).token = 0 \/ ReplayPage(t).token > t
  <2>1. CASE PageAt(t).token = 0
    BY <2>1 DEF ReplayPage, EmptyPage
  <2>2. CASE PageAt(t).token # 0
    <3>1. NextToken(t) \in Offsets /\ NextToken(t) > t
      BY <2>2, <1>1, PageEndFacts DEF PageAt
    <3>2. NextToken(NextToken(t)) = 0 \/ NextToken(NextToken(t)) > NextToken(t)
      BY <3>1, TokenForward
    <3>3. QED
      <4>1. ReplayPage(t) = PageAt(NextToken(t))
        BY <2>2 DEF ReplayPage, PageAt
      <4>2. PageAt(NextToken(t)).token = NextToken(NextToken(t))
        BY DEF PageAt
      <4>3. ReplayPage(t).token = NextToken(NextToken(t))
        BY <4>1, <4>2
      <4>4. NextToken(NextToken(t)) \in Offsets
        BY <3>1, PageEndFacts
      <4>5. QED
        <5>0. t \in Nat /\ NextToken(t) \in Nat /\ NextToken(NextToken(t)) \in Nat
          BY <3>1, <4>4, OffsetsNat, Zenon
        <5>1. NextToken(NextToken(t)) = 0 \/ NextToken(NextToken(t)) > t
          BY <3>1, <3>2, <5>0
        <5>2. QED
          BY <4>3, <5>1
  <2>3. QED
    BY <2>1, <2>2
<1>3. QED
  BY <1>1, <1>2 DEF Serve, EmptyPage

LEMMA UInvStep == UInv /\ [Next]_vars => UInv'
<1> SUFFICES ASSUME UInv, [Next]_vars PROVE UInv'
  OBVIOUS
<1>1. TInv'
  BY TInvStep DEF UInv
<1>2. /\ uses \in [Offsets -> Nat]
      /\ fetch.token \in Offsets /\ fetch.sends \in Nat
      /\ page.token \in Offsets
      /\ RetryAttempts \in Nat
      /\ \A x \in Offsets : x \in Nat
      /\ fetch'.sends <= RetryAttempts
  BY <1>1, PagerRetryAssumption, OffsetsNat DEF UInv, TInv, TypeOK
<1>3. CASE GetFirstListOfPublishedNodes
  <2>1. /\ phase = "start" /\ phase' = "fetching" /\ uses' = uses
        /\ fetch'.token = 0 /\ answer'.page.token = 0
    BY <1>3 DEF GetFirstListOfPublishedNodes, StartFetch, NoAnswer, EmptyPage
  <2>2. \A t \in Offsets : uses[t] = 0
    BY <2>1 DEF UInv, UnusedAhead
  <2>3. TokenReplayBounded'
    BY <1>2, <2>1, <2>2 DEF TokenReplayBounded
  <2>4. AnswerForward'
    BY <2>1 DEF AnswerForward
  <2>5. UnusedAhead'
    BY <2>1, <2>2 DEF UnusedAhead
  <2>6. QED
    BY <1>1, <2>3, <2>4, <2>5 DEF UInv
<1>4. CASE GetNextListOfPublishedNodesComplete \/ PageNext
  <2>1. /\ phase \in {"listed", "paging"} /\ phase' = "fetching"
        /\ uses' = uses
        /\ fetch'.token = page.token /\ fetch'.sends = 0
        /\ answer'.page.token = 0
    BY <1>4 DEF GetNextListOfPublishedNodesComplete, PageNext, StartFetch,
       NoAnswer, EmptyPage
  <2>2. \A t \in Offsets : t >= page.token => uses[t] = 0
    BY <2>1 DEF UInv, UnusedAhead
  <2>3. uses[page.token] = 0
    <3>1. page.token \in Nat /\ page.token >= page.token
      BY <1>2
    <3>2. QED
      BY <1>2, <2>2, <3>1
  <2>4. TokenReplayBounded'
    BY <2>1 DEF UInv, TokenReplayBounded
  <2>5. AnswerForward'
    BY <2>1 DEF AnswerForward
  <2>6. UnusedAhead'
    BY <1>2, <2>1, <2>2, <2>3 DEF UnusedAhead
  <2>7. QED
    BY <1>1, <2>4, <2>5, <2>6 DEF UInv
<1>5. CASE Send
  <2>1. /\ phase = "fetching" /\ phase' = "fetching"
        /\ fetch'.token = fetch.token /\ fetch'.sends = fetch.sends + 1
        /\ uses' = IF fetch.token # 0
                   THEN [uses EXCEPT ![fetch.token] = @ + 1] ELSE uses
    BY <1>5, <1>2 DEF Send
  <2>2. /\ fetch.token # 0 => uses[fetch.token] <= fetch.sends
        /\ \A t \in Offsets : t > fetch.token => uses[t] = 0
    BY <2>1 DEF UInv, UnusedAhead
  <2>3. \A t \in Offsets : t # fetch.token => uses'[t] = uses[t]
    BY <2>1, <1>2
  <2>4. fetch.token # 0 => uses'[fetch.token] = uses[fetch.token] + 1
    BY <2>1, <1>2
  <2>5. fetch.token # 0 => uses'[fetch.token] <= fetch'.sends
    BY <2>1, <2>2, <2>4, <1>2
  <2>6. TokenReplayBounded'
    BY <1>2, <2>1, <2>3, <2>5 DEF UInv, TokenReplayBounded
  <2>7. AnswerForward'
    <3>1. PICK s \in Statuses : answer' = Serve(fetch.token, s)
      BY <1>5 DEF Send
    <3>2. QED
      BY <1>2, <2>1, <3>1, ServeForward DEF AnswerForward
  <2>8. UnusedAhead'
    BY <1>2, <2>1, <2>2, <2>3, <2>5 DEF UnusedAhead
  <2>9. QED
    BY <1>1, <2>6, <2>7, <2>8 DEF UInv
<1>6. CASE Respond
  <2>1. /\ phase = "fetching"
        /\ UNCHANGED <<fetch, answer, uses>>
    BY <1>6 DEF Respond
  <2>2. /\ TokenReplayBounded' /\ AnswerForward'
        /\ \A t \in Offsets : t > fetch.token => uses[t] = 0
        /\ answer.page.token = 0 \/ answer.page.token > fetch.token
    BY <2>1 DEF UInv, TokenReplayBounded, AnswerForward, UnusedAhead
  <2>3. CASE answer.status = 200 /\ Accept(answer.page)
    <3>1. phase' \in {"done", "listed", "paging"}
      BY <2>3 DEF Accept
    <3>2. phase' # "done" => page'.token = answer.page.token
                             /\ page'.token # 0
      BY <2>3 DEF Accept
    <3>3. phase' # "done" => \A t \in Offsets : t >= page'.token => uses'[t] = 0
      <4>1. answer.page.token \in Nat
        BY OffsetsNat DEF UInv, TInv, Pages
      <4>2. QED
        BY <1>2, <2>1, <2>2, <3>2, <4>1
    <3>4. UnusedAhead'
      BY <3>1, <3>2, <3>3 DEF UnusedAhead
    <3>5. QED
      BY <1>1, <2>2, <3>4 DEF UInv
  <2>4. CASE phase' = "failed" /\ UNCHANGED <<page, collected>>
    <3>1. UnusedAhead'
      BY <2>4 DEF UnusedAhead
    <3>2. QED
      BY <1>1, <2>2, <3>1 DEF UInv
  <2>5. QED
    BY <1>6, <2>3, <2>4 DEF Respond
<1>7. CASE UNCHANGED vars
  BY <1>1, <1>7 DEF vars, UInv, TokenReplayBounded, AnswerForward,
     UnusedAhead
<1>8. QED
  BY <1>3, <1>4, <1>5, <1>6, <1>7 DEF Next

\* Whatever the service does with a replayed continuation token, the retry
\* decorator is the only thing that replays one: a token reaches the
\* service at most RetryAttempts times, for every list, page size and budget.
THEOREM TokenReplayBoundedHolds == Spec => []TokenReplayBounded
<1>1. Init => UInv
  <2> SUFFICES ASSUME Init PROVE UInv
    OBVIOUS
  <2>1. TInv
    BY InitTInv
  <2>2. \A t \in Offsets : uses[t] = 0
    BY DEF Init
  <2>3. QED
    BY <2>1, <2>2, PagerRetryAssumption
       DEF UInv, Init, TokenReplayBounded, AnswerForward, UnusedAhead,
           NoAnswer, EmptyPage
<1>2. UInv => TokenReplayBounded
  BY DEF UInv
<1>3. QED
  BY <1>1, <1>2, UInvStep, PTL DEF Spec
=============================================================================
