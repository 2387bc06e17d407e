---------------------- MODULE DispatchRefinementProofs ----------------------
(***************************************************************************)
(* The dispatcher implements the safety part of the contract of module    *)
(* DispatchContract under the mapping of module Dispatcher.  Each step of *)
(* a caller maps to one step of the contract or to a stutter:             *)
(*   Call        ->  Begin, or Refuse on a validation error               *)
(*   Prepare     ->  stutter, or Finish "prepare"                         *)
(*   SendFailed  ->  Finish "transport"                                   *)
(*   SendAnswered->  Attempt                                              *)
(*   Backoff     ->  stutter, or Finish "transport" once cancelled        *)
(*   Respond     ->  Finish with the outcome the responder returns        *)
(*   Cancel, Return -> Cancel, Return                                     *)
(* The guards of Attempt and Finish are the facts of the inductive        *)
(* invariant IInv about a call that is about to send or to respond.       *)
(***************************************************************************)
EXTENDS DispatcherProofs

\* A step that moves caller c's pc to v moves its abstract state to the
\* abstract state of v and leaves the other callers' alone.
LEMMA AbsStateUpdate ==
    TypeOK =>
        \A c \in Callers : \A v :
            pc' = [pc EXCEPT ![c] = v] =>
                AbsState' = [AbsState EXCEPT ![c] = CallState(v)]
BY DEF AbsState, TypeOK

\* A step that moves caller c within the same abstract state leaves the
\* contract's state function unchanged.
LEMMA AbsStateStays ==
    TypeOK =>
        \A c \in Callers : \A v :
            pc' = [pc EXCEPT ![c] = v] /\ CallState(v) = CallState(pc[c]) =>
                AbsState' = AbsState
BY DEF AbsState, TypeOK

\* A call that has left idle carries one of the six operations.
OpInv == \A c \in Callers : pc[c] # "idle" => op[c] \in Ops

LEMMA OpInvStep == TypeOK /\ OpInv /\ [Next]_vars => OpInv'
<1> SUFFICES ASSUME TypeOK, OpInv, [Next]_vars,
                    NEW c \in Callers, pc'[c] # "idle"
             PROVE  op'[c] \in Ops
  BY DEF OpInv
<1>1. CASE UNCHANGED vars
  BY <1>1 DEF vars, OpInv
<1>2. ASSUME NEW d \in Callers, d # c,
             Call(d) \/ Step(d) \/ Cancel(d) \/ Return(d)
      PROVE  op'[c] \in Ops
  <2>1. pc'[c] = pc[c] /\ op'[c] = op[c]
    BY <1>2 DEF Call, GetFirstListOfPublishedNodes,
       GetNextListOfPublishedNodes, StartPublishingValues,
       StopPublishingValues, Subscribe, Unsubscribe, Admit, Reject,
       Step, Prepare, Send, SendFailed, SendAnswered, Backoff, Respond,
       Cancel, Return, TypeOK
  <2>2. QED
    BY <2>1 DEF OpInv
<1>3. CASE Call(c)
  BY <1>3 DEF Call, GetFirstListOfPublishedNodes,
     GetNextListOfPublishedNodes, StartPublishingValues,
     StopPublishingValues, Subscribe, Unsubscribe, Admit, Reject, Ops,
     TypeOK
<1>4. CASE Step(c) \/ Cancel(c)
  <2>1. pc[c] # "idle" /\ op' = op
    BY <1>4 DEF Step, Prepare, Send, SendFailed, SendAnswered, Backoff,
       Respond, Cancel
  <2>2. QED
    BY <2>1 DEF OpInv
<1>5. CASE Return(c)
  BY <1>5 DEF Return, InitCall, TypeOK
<1>6. QED
  BY <1>1, <1>2, <1>3, <1>4, <1>5 DEF Next

LEMMA OpInvInit == Init => OpInv
BY DEF Init, InitCall, OpInv

\* The initial state of the dispatcher is an initial state of the contract.
LEMMA InitRefines == Init => Contract!Init
<1> SUFFICES ASSUME Init PROVE Contract!Init
  OBVIOUS
<1>1. AbsState = [c \in Callers |-> "idle"]
  BY DEF Init, InitCall, AbsState, CallState
<1>2. QED
  BY <1>1 DEF Init, InitCall, Contract!Init

\* A call that passed validation is busy in the contract.
LEMMA BusyStates ==
    /\ CallState("prepare") = "busy" /\ CallState("send") = "busy"
    /\ CallState("delay") = "busy" /\ CallState("respond") = "busy"
    /\ CallState("idle") = "idle" /\ CallState("done") = "done"
BY DEF CallState

\* Every step of the dispatcher is a step of the contract or leaves the
\* contract's state unchanged.
LEMMA StepRefines ==
    IInv /\ OpInv /\ [Next]_vars => [Contract!Next]_Contract!avars
<1> SUFFICES ASSUME IInv, OpInv, [Next]_vars
             PROVE  [Contract!Next]_Contract!avars
  OBVIOUS
<1> USE DEF IInv
<1>1. CASE UNCHANGED vars
  BY <1>1 DEF vars, Contract!avars, AbsState
<1>2. ASSUME NEW c \in Callers, Call(c) PROVE Contract!Next
  <2> PICK e \in Endpoints :
          \/ GetFirstListOfPublishedNodes(c, e)
          \/ \E t \in Tokens : GetNextListOfPublishedNodes(c, e, t)
          \/ \E b \in Nodes \cup {Null, Empty} : StartPublishingValues(c, e, b)
          \/ \E b \in Nodes \cup {Null, Empty} : StopPublishingValues(c, e, b)
          \/ \E u \in Users \cup {Empty} : Subscribe(c, e, u)
          \/ \E u \in Users \cup {Empty} : Unsubscribe(c, e, u)
    BY <1>2 DEF Call
  <2>1. pc[c] = "idle"
    BY DEF GetFirstListOfPublishedNodes, GetNextListOfPublishedNodes,
       StartPublishingValues, StopPublishingValues, Subscribe, Unsubscribe
  <2>2. AbsState[c] = "idle"
    BY <2>1, BusyStates DEF AbsState
  \* An admitted call begins; a rejected one is refused.
  <2>3. ASSUME NEW o \in Ops, NEW r, Admit(c, o, r) PROVE Contract!Begin(c)
    <3>1. AbsState' = [AbsState EXCEPT ![c] = "busy"]
      <4>1. pc' = [pc EXCEPT ![c] = "prepare"]
        BY <2>3 DEF Admit
      <4>2. AbsState' = [AbsState EXCEPT ![c] = CallState("prepare")]
        BY <4>1, AbsStateUpdate DEF IInv
      <4>3. QED
        BY <4>2, BusyStates
    <3>2. QED
      BY <2>2, <2>3, <3>1 DEF Admit, Contract!Begin
  <2>4. ASSUME NEW o \in {"StartPublishingValues", "StopPublishingValues"},
               Reject(c, o)
        PROVE  Contract!Refuse(c)
    <3>1. AbsState' = [AbsState EXCEPT ![c] = "done"]
      <4>1. pc' = [pc EXCEPT ![c] = "done"]
        BY <2>4 DEF Reject
      <4>2. AbsState' = [AbsState EXCEPT ![c] = CallState("done")]
        BY <4>1, AbsStateUpdate DEF IInv
      <4>3. QED
        BY <4>2, BusyStates
    <3>2. QED
      BY <2>2, <2>4, <3>1 DEF Reject, Contract!Refuse
  <2>5. Contract!Begin(c) \/ Contract!Refuse(c)
    <3>1. CASE GetFirstListOfPublishedNodes(c, e)
      BY <3>1, <2>3 DEF GetFirstListOfPublishedNodes, Ops
    <3>2. CASE \E t \in Tokens : GetNextListOfPublishedNodes(c, e, t)
      BY <3>2, <2>3 DEF GetNextListOfPublishedNodes, Ops
    <3>3. CASE \E b \in Nodes \cup {Null, Empty} :
                   StartPublishingValues(c, e, b)
      BY <3>3, <2>3, <2>4 DEF StartPublishingValues, Ops
    <3>4. CASE \E b \in Nodes \cup {Null, Empty} :
                   StopPublishingValues(c, e, b)
      BY <3>4, <2>3, <2>4 DEF StopPublishingValues, Ops
    <3>5. CASE \E u \in Users \cup {Empty} : Subscribe(c, e, u)
      BY <3>5, <2>3 DEF Subscribe, Ops
    <3>6. CASE \E u \in Users \cup {Empty} : Unsubscribe(c, e, u)
      BY <3>6, <2>3 DEF Unsubscribe, Ops
    <3>7. QED
      BY <3>1, <3>2, <3>3, <3>4, <3>5, <3>6
  <2>6. QED
    BY <2>5 DEF Contract!Next
<1>3. ASSUME NEW c \in Callers, Prepare(c)
      PROVE  [Contract!Next]_Contract!avars
  <2>1. CASE BaseURIValid
    <3>1. /\ pc[c] = "prepare"
          /\ pc' = [pc EXCEPT ![c] = "send"]
          /\ outcome' = outcome
          /\ UNCHANGED <<op, ctxDone, seen>>
      BY <1>3, <2>1 DEF Prepare, TypeOK
    <3>2. AbsState' = AbsState
      BY <3>1, AbsStateStays, BusyStates DEF TypeOK
    <3>3. QED
      BY <3>1, <3>2 DEF Contract!avars
  <2>2. CASE ~BaseURIValid
    <3>1. /\ pc[c] = "prepare"
          /\ pc' = [pc EXCEPT ![c] = "done"]
          /\ outcome' = [outcome EXCEPT ![c] = "prepare"]
          /\ UNCHANGED <<op, ctxDone, seen>>
      BY <1>3, <2>2 DEF Prepare
    <3>2. AbsState' = [AbsState EXCEPT ![c] = "done"]
      BY <3>1, AbsStateUpdate, BusyStates
    <3>3. AbsState[c] = "busy"
      BY <3>1, BusyStates DEF AbsState
    <3>4. seen[c] = <<>>
      BY <3>1 DEF CallerInv, TypeOK
    <3>5. Contract!Finish(c, "prepare")
      BY <3>1, <3>2, <3>3, <3>4 DEF Contract!Finish, Contract!Justified
    <3>6. QED
      BY <3>5 DEF Contract!Next, Contract!Work, Contract!Finished,
         Contract!Results
  <2>3. QED
    BY <2>1, <2>2
<1>4. ASSUME NEW c \in Callers, SendFailed(c), pc[c] = "send"
      PROVE  Contract!Next
  <2>1. /\ pc' = [pc EXCEPT ![c] = "done"]
        /\ outcome' = [outcome EXCEPT ![c] = "transport"]
        /\ UNCHANGED <<op, ctxDone, seen>>
    BY <1>4 DEF SendFailed
  <2>2. AbsState' = [AbsState EXCEPT ![c] = "done"]
    BY <2>1, AbsStateUpdate, BusyStates
  <2>3. AbsState[c] = "busy"
    BY <1>4, BusyStates DEF AbsState
  <2>4. Contract!Finish(c, "transport")
    BY <2>1, <2>2, <2>3 DEF Contract!Finish, Contract!Justified
  <2>5. QED
    BY <2>4 DEF Contract!Next, Contract!Work, Contract!Finished,
       Contract!Results
<1>5. ASSUME NEW c \in Callers, SendAnswered(c), pc[c] = "send"
      PROVE  Contract!Next
  <2>1. PICK s \in Statuses :
          /\ seen' = [seen EXCEPT ![c] = Append(@, s)]
          /\ pc' = [pc EXCEPT ![c] =
                      IF s \in RetryCodes /\ sends[c] + 1 < RetryAttempts
                      THEN "delay" ELSE "respond"]
    BY <1>5 DEF SendAnswered
  <2>2. /\ ~ctxDone[c]
        /\ UNCHANGED <<op, ctxDone, outcome>>
    BY <1>5 DEF SendAnswered
  <2>3. AbsState' = AbsState
    <3> DEFINE v == IF s \in RetryCodes /\ sends[c] + 1 < RetryAttempts
                    THEN "delay" ELSE "respond"
    <3>1. CallState(v) = CallState(pc[c])
      BY <1>5, BusyStates
    <3>2. QED
      BY <2>1, <3>1, AbsStateStays
  <2>4. /\ Len(seen[c]) < RetryAttempts
        /\ seen[c] = <<>> \/ LastStatus(seen[c]) \in RetryCodes
    BY <1>5 DEF CallerInv, TypeOK
  <2>5. Contract!Attempt(c)
    BY <1>5, <2>1, <2>2, <2>3, <2>4, BusyStates
    DEF Contract!Attempt, Contract!Last, LastStatus, AbsState
  <2>6. QED
    BY <2>5 DEF Contract!Next, Contract!Work
<1>6. ASSUME NEW c \in Callers, Backoff(c)
      PROVE  [Contract!Next]_Contract!avars
  <2>1. CASE ctxDone[c]
    <3>1. /\ pc[c] = "delay"
          /\ pc' = [pc EXCEPT ![c] = "done"]
          /\ outcome' = [outcome EXCEPT ![c] = "transport"]
          /\ UNCHANGED <<op, ctxDone, seen>>
      BY <1>6, <2>1 DEF Backoff
    <3>2. AbsState' = [AbsState EXCEPT ![c] = "done"]
      BY <3>1, AbsStateUpdate, BusyStates
    <3>3. AbsState[c] = "busy"
      BY <3>1, BusyStates DEF AbsState
    <3>4. Contract!Finish(c, "transport")
      BY <3>1, <3>2, <3>3 DEF Contract!Finish, Contract!Justified
    <3>5. QED
      BY <3>4 DEF Contract!Next, Contract!Work, Contract!Finished,
         Contract!Results
  <2>2. CASE ~ctxDone[c]
    <3>1. /\ pc[c] = "delay"
          /\ pc' = [pc EXCEPT ![c] = "send"]
          /\ UNCHANGED <<op, ctxDone, seen, outcome>>
      BY <1>6, <2>2 DEF Backoff
    <3>2. AbsState' = AbsState
      BY <3>1, AbsStateStays, BusyStates
    <3>3. QED
      BY <3>1, <3>2 DEF Contract!avars
  <2>3. QED
    BY <2>1, <2>2
<1>7. ASSUME NEW c \in Callers, Cancel(c) PROVE Contract!Next
  <2>1. /\ pc[c] \notin {"idle", "done"} /\ ~ctxDone[c]
        /\ ctxDone' = [ctxDone EXCEPT ![c] = TRUE]
        /\ UNCHANGED <<pc, op, seen, outcome>>
    BY <1>7 DEF Cancel
  <2>2. AbsState[c] = "busy" /\ AbsState' = AbsState
    BY <2>1 DEF AbsState, CallState, TypeOK
  <2>3. Contract!Cancel(c)
    BY <2>1, <2>2 DEF Contract!Cancel
  <2>4. QED
    BY <2>3 DEF Contract!Next
<1>8. ASSUME NEW c \in Callers, Return(c) PROVE Contract!Next
  <2>1. /\ pc[c] = "done"
        /\ pc' = [pc EXCEPT ![c] = "idle"]
        /\ op' = [op EXCEPT ![c] = "none"]
        /\ ctxDone' = [ctxDone EXCEPT ![c] = FALSE]
        /\ seen' = [seen EXCEPT ![c] = <<>>]
        /\ outcome' = [outcome EXCEPT ![c] = "none"]
    BY <1>8 DEF Return, InitCall
  <2>2. AbsState' = [AbsState EXCEPT ![c] = "idle"]
    BY <2>1, AbsStateUpdate, BusyStates
  <2>3. AbsState[c] = "done"
    BY <2>1, BusyStates DEF AbsState
  <2>4. Contract!Return(c)
    BY <2>1, <2>2, <2>3 DEF Contract!Return
  <2>5. QED
    BY <2>4 DEF Contract!Next
<1>9. ASSUME NEW c \in Callers, Respond(c) PROVE Contract!Next
  <2>1. PICK decoded \in BOOLEAN :
          outcome' = [outcome EXCEPT ![c] =
                        IF LastStatus(seen[c]) # 200 THEN "service"
                        ELSE IF HasJSONResult(op[c]) /\ ~decoded THEN "decode"
                        ELSE "ok"]
    BY <1>9 DEF Respond
  <2> DEFINE r == IF LastStatus(seen[c]) # 200 THEN "service"
                  ELSE IF HasJSONResult(op[c]) /\ ~decoded THEN "decode"
                  ELSE "ok"
  <2>2. /\ pc[c] = "respond"
        /\ pc' = [pc EXCEPT ![c] = "done"]
        /\ UNCHANGED <<op, ctxDone, seen>>
    BY <1>9 DEF Respond
  <2>3. AbsState' = [AbsState EXCEPT ![c] = "done"]
    BY <2>2, AbsStateUpdate, BusyStates
  <2>4. AbsState[c] = "busy"
    BY <2>2, BusyStates DEF AbsState
  <2>5. /\ seen[c] # <<>>
        /\ LastStatus(seen[c]) \notin RetryCodes
              \/ Len(seen[c]) = RetryAttempts
    BY <2>2 DEF CallerInv, TypeOK
  <2>6. op[c] \in Ops
    BY <2>2 DEF OpInv
  <2>7. r \in Contract!Finished /\ Contract!Justified(c, r)
    <3>1. CASE LastStatus(seen[c]) # 200
      BY <2>5, <3>1 DEF Contract!Finished, Contract!Results,
         Contract!Justified, Contract!Last, LastStatus
    <3>2. CASE LastStatus(seen[c]) = 200 /\ HasJSONResult(op[c]) /\ ~decoded
      BY <2>5, <2>6, <3>2 DEF Contract!Finished, Contract!Results,
         Contract!Justified, Contract!Last, LastStatus, HasJSONResult, Ops
    <3>3. CASE LastStatus(seen[c]) = 200 /\ ~(HasJSONResult(op[c]) /\ ~decoded)
      BY <2>5, <3>3 DEF Contract!Finished, Contract!Results,
         Contract!Justified, Contract!Last, LastStatus
    <3>4. QED
      BY <3>1, <3>2, <3>3
  <2>8. Contract!Finish(c, r)
    BY <2>1, <2>2, <2>3, <2>4, <2>7 DEF Contract!Finish
  <2>9. QED
    BY <2>7, <2>8 DEF Contract!Next, Contract!Work
<1>10. QED
  BY <1>1, <1>2, <1>3, <1>4, <1>5, <1>6, <1>7, <1>8, <1>9 DEF Next, Step, Send

\* The dispatcher implements the contract: every behaviour of the handlers,
\* the retry decorator and the responders, seen through the mapping of
\* module Dispatcher, satisfies the safety part of DispatchContract, for
\* every number of callers, every set of statuses and every budget.
THEOREM Refinement == Spec => Contract!SafeSpec
<1>1. Init => IInv /\ OpInv /\ Contract!Init
  BY InitIInv, OpInvInit, InitRefines
<1>2. IInv /\ OpInv /\ [Next]_vars =>
          IInv' /\ OpInv' /\ [Contract!Next]_Contract!avars
  BY IInvStep, OpInvStep, StepRefines DEF IInv
<1>3. QED
  BY <1>1, <1>2, PTL DEF Spec, Contract!SafeSpec
=============================================================================
