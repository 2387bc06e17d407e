---------------------- MODULE PaginatorRefinementProofs ----------------------
(***************************************************************************)
(* The enumeration of published nodes implements EnumerationContract under *)
(* the mapping of collected to the items yielded and of the phase to       *)
(* running, done or failed, for every list, page size and budget, against *)
(* a service that answers a replayed token with the same page.  The       *)
(* argument rests on PInv: the items yielded are the prefix of the list   *)
(* that ends at the token in flight, and a 200 carries the page there.    *)
(***************************************************************************)
EXTENDS PaginatorProofs

\* A token is empty exactly when its page reaches the end of the list.
LEMMA TokenEmptyAtEnd ==
    \A t \in Offsets : NextToken(t) = 0 <=> PageEnd(t) = Len(Items)
BY ItemsFacts, PageAssumption DEF PageEnd, NextToken, Offsets

\* A page that yields nothing starts at the end of the list.
LEMMA EmptyPageAtEnd ==
    \A t \in Offsets : PageEnd(t) = t => t = Len(Items)
BY ItemsFacts, PageAssumption DEF PageEnd, Offsets

\* The steps that only prepare or send a request leave the items yielded
\* and the status alone.
LEMMA RequestStepStutters ==
    ASSUME PInv,
           \/ GetFirstListOfPublishedNodes
           \/ GetNextListOfPublishedNodesComplete
           \/ PageNext
           \/ Send
    PROVE  UNCHANGED Listing!evars
<1>1. phase \in {"start", "listed", "paging", "fetching"}
      /\ phase' = "fetching"
      /\ UNCHANGED collected
  BY DEF GetFirstListOfPublishedNodes, GetNextListOfPublishedNodesComplete,
     PageNext, Send, StartFetch, PInv
<1>2. QED
  BY <1>1 DEF Listing!evars, ListStatus

\* A final 200 maps to the contract's Yield, or, for a page that yields
\* nothing, to Finish.
LEMMA AcceptRefines ==
    ASSUME IdempotentTokens, PInv, phase = "fetching",
           answer.status = 200, Accept(answer.page)
    PROVE  Listing!Yield \/ Listing!Finish
<1> DEFINE t == fetch.token
<1>1. t \in Offsets /\ collected = Prefix(t) /\ answer.page = PageAt(t)
  BY DEF PInv, TypeOK
<1>2. Accept(PageAt(t))
  BY <1>1
<1>3. collected' = Prefix(PageEnd(t))
  BY <1>1, <1>2, AcceptExtends DEF PInv
<1>4. Len(collected) = t /\ PageEnd(t) \in t..Len(Items)
  BY <1>1, PrefixFacts, PageEndFacts
<1>5. phase' = IF NextToken(t) = 0 THEN "done"
               ELSE IF fetch.kind = "first" THEN "listed" ELSE "paging"
  BY <1>2 DEF Accept, PageAt
<1>6. ListStatus' = IF PageEnd(t) = Len(Items) THEN "done" ELSE "running"
  BY <1>1, <1>5, TokenEmptyAtEnd DEF ListStatus
<1>7. ListStatus = "running"
  BY DEF ListStatus
<1>8. CASE PageEnd(t) > t
  <2>1. PageEnd(t) \in (Len(collected) + 1)..Len(Items)
    BY <1>4, <1>8
  <2>2. QED
    BY <1>3, <1>6, <1>7, <2>1 DEF Listing!Yield, Prefix
<1>9. CASE PageEnd(t) = t
  <2>1. t = Len(Items)
    BY <1>1, <1>9, EmptyPageAtEnd
  <2>2. Prefix(Len(Items)) = Items
    BY ItemsFacts, SubSeqFull DEF Prefix
  <2>3. collected = Items /\ collected' = Items
    BY <1>1, <1>3, <1>9, <2>1, <2>2
  <2>4. ListStatus' = "done"
    BY <1>6, <1>9, <2>1
  <2>5. QED
    BY <1>7, <2>3, <2>4 DEF Listing!Finish
<1>10. QED
  BY <1>4, <1>8, <1>9

\* Every step of the enumeration is a step of the contract or leaves what
\* the caller sees unchanged.
LEMMA StepRefines ==
    ASSUME IdempotentTokens
    PROVE  PInv /\ [Next]_vars => [Listing!Next]_Listing!evars
<1> SUFFICES ASSUME PInv, [Next]_vars
             PROVE  [Listing!Next]_Listing!evars
  OBVIOUS
<1>1. CASE \/ GetFirstListOfPublishedNodes
           \/ GetNextListOfPublishedNodesComplete
           \/ PageNext
           \/ Send
  BY <1>1, RequestStepStutters
<1>2. CASE Respond
  <2>1. phase = "fetching" /\ ListStatus = "running"
    BY <1>2 DEF Respond, ListStatus
  <2>2. CASE answer.status = 200 /\ Accept(answer.page)
    BY <2>1, <2>2, AcceptRefines DEF Listing!Next
  <2>3. CASE phase' = "failed" /\ UNCHANGED <<page, collected>>
    <3>1. ListStatus' = "failed"
      BY <2>3 DEF ListStatus
    <3>2. QED
      BY <2>1, <2>3, <3>1 DEF Listing!Fail, Listing!Next
  <2>4. QED
    BY <1>2, <2>2, <2>3 DEF Respond
<1>3. CASE UNCHANGED vars
  BY <1>3 DEF vars, Listing!evars, ListStatus
<1>4. QED
  BY <1>1, <1>2, <1>3 DEF Next

\* The enumeration starts as the contract does: nothing yielded, running.
LEMMA InitRefines == Init => Listing!Init
BY DEF Init, Listing!Init, ListStatus

\* Against a service that answers a replayed token with the same page, every
\* behaviour of the paginator, seen as the items it has yielded and whether
\* it is over, is a behaviour of EnumerationContract: the list is yielded
\* forward only, in order, ending done exactly with its last item, or failed.
THEOREM EnumerationRefinement ==
    ASSUME IdempotentTokens
    PROVE  Spec => Listing!SafeSpec
<1>1. Init => PInv /\ Listing!Init
  BY InitPInv, InitRefines
<1>2. PInv /\ [Next]_vars => PInv' /\ [Listing!Next]_Listing!evars
  BY PInvStep, StepRefines
<1>3. QED
  BY <1>1, <1>2, PTL DEF Spec, Listing!SafeSpec
=============================================================================
