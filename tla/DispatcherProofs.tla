-------------------------- MODULE DispatcherProofs --------------------------
(***************************************************************************)
(* Proofs about the dispatcher, for every value of the constants that     *)
(* satisfies the assumptions of module Dispatcher.                         *)
(***************************************************************************)
EXTENDS Dispatcher, TLAPS

(***************************************************************************)
(* The inductive invariant.  RetryContract and BodyReleased speak of the   *)
(* states where a call waits or has returned; they are not inductive alone *)
(* because they say nothing of a call about to send or to respond.  The    *)
(* strengthening records, for each step of the call, how many sends it has *)
(* made and what the last answer was: a call about to send has budget     *)
(* left and, if it sent before, was answered with a retryable status; a    *)
(* call about to respond either got a final status or spent its budget.    *)
(***************************************************************************)
CallerInv(c) ==
    /\ Len(seen[c]) = sends[c]
    /\ sends[c] <= RetryAttempts
    /\ \A i \in 1..(sends[c] - 1) : seen[c][i] \in RetryCodes
    /\ pc[c] \in {"idle", "prepare"} => sends[c] = 0
    /\ pc[c] = "send" =>
          /\ sends[c] < RetryAttempts
          /\ sends[c] > 0 => LastStatus(seen[c]) \in RetryCodes
    /\ pc[c] = "delay" =>
          /\ sends[c] > 0 /\ sends[c] < RetryAttempts
          /\ LastStatus(seen[c]) \in RetryCodes
    /\ pc[c] = "respond" =>
          /\ sends[c] > 0
          /\ LastStatus(seen[c]) \notin RetryCodes \/ sends[c] = RetryAttempts
    /\ pc[c] = "done" /\ outcome[c] = "service" =>
          /\ sends[c] > 0
          /\ LastStatus(seen[c]) \notin RetryCodes \/ sends[c] = RetryAttempts
    /\ openBodies[c] <= 1
    /\ pc[c] \in {"idle", "prepare", "done"} => openBodies[c] = 0
    /\ pc[c] \in {"delay", "respond"} => openBodies[c] = 1

IInv == TypeOK /\ \A c \in Callers : CallerInv(c)

\* The request every preparer builds is a well-formed request.
LEMMA PreparersTyped ==
    /\ \A e \in Endpoints :
          GetFirstListOfPublishedNodesPreparer(e, Null) \in Requests
    /\ \A e \in Endpoints, t \in Tokens :
          GetNextListOfPublishedNodesPreparer(e, t) \in Requests
    /\ \A e \in Endpoints, n \in Nodes \cup {Null, Empty} :
          /\ StartPublishingValuesPreparer(e, n) \in Requests
          /\ StopPublishingValuesPreparer(e, n) \in Requests
    /\ \A e \in Endpoints, u \in Users \cup {Empty} :
          /\ SubscribePreparer(e, u) \in Requests
          /\ UnsubscribePreparer(e, u) \in Requests
BY DEF Requests, GetFirstListOfPublishedNodesPreparer,
    GetNextListOfPublishedNodesPreparer, StartPublishingValuesPreparer,
    StopPublishingValuesPreparer, SubscribePreparer, UnsubscribePreparer

\* The placeholder request of an idle caller is well formed.
LEMMA NoReqTyped == NoReq \in Requests
BY EndpointAssumption DEF NoReq, Requests

\* Every step of the dispatcher keeps it well typed.
LEMMA TypeOKStep == TypeOK /\ [Next]_vars => TypeOK'
<1> SUFFICES ASSUME TypeOK, [Next]_vars PROVE TypeOK'
  OBVIOUS
<1>1. ASSUME NEW c \in Callers, Call(c) PROVE TypeOK'
  <2> PICK e \in Endpoints :
          \/ GetFirstListOfPublishedNodes(c, e)
          \/ \E t \in Tokens : GetNextListOfPublishedNodes(c, e, t)
          \/ \E b \in Nodes \cup {Null, Empty} : StartPublishingValues(c, e, b)
          \/ \E b \in Nodes \cup {Null, Empty} : StopPublishingValues(c, e, b)
          \/ \E u \in Users \cup {Empty} : Subscribe(c, e, u)
          \/ \E u \in Users \cup {Empty} : Unsubscribe(c, e, u)
    BY <1>1 DEF Call
  <2>1. CASE GetFirstListOfPublishedNodes(c, e)
    BY <2>1, PreparersTyped DEF GetFirstListOfPublishedNodes, Admit, TypeOK, Ops
  <2>2. CASE \E t \in Tokens : GetNextListOfPublishedNodes(c, e, t)
    BY <2>2, PreparersTyped DEF GetNextListOfPublishedNodes, Admit, TypeOK, Ops
  <2>3. CASE \E b \in Nodes \cup {Null, Empty} : StartPublishingValues(c, e, b)
    <3> PICK b \in Nodes \cup {Null, Empty} : StartPublishingValues(c, e, b)
      BY <2>3
    <3>1. CASE StartPublishingValuesValid(b)
      <4>1. /\ pc' = [pc EXCEPT ![c] = "prepare"]
            /\ op' = [op EXCEPT ![c] = "StartPublishingValues"]
            /\ req' = [req EXCEPT ![c] = StartPublishingValuesPreparer(e, b)]
            /\ UNCHANGED <<ctxDone, sends, seen, openBodies, outcome>>
        BY <3>1 DEF StartPublishingValues, Admit
      <4>2. StartPublishingValuesPreparer(e, b) \in Requests
        BY PreparersTyped
      <4>3. QED
        BY <4>1, <4>2 DEF TypeOK, Ops
    <3>2. CASE ~StartPublishingValuesValid(b)
      BY <3>2 DEF StartPublishingValues, Reject, TypeOK, Ops, Outcomes
    <3>3. QED
      BY <3>1, <3>2
  <2>4. CASE \E b \in Nodes \cup {Null, Empty} : StopPublishingValues(c, e, b)
    <3> PICK b \in Nodes \cup {Null, Empty} : StopPublishingValues(c, e, b)
      BY <2>4
    <3>1. CASE StopPublishingValuesValid(b)
      <4>1. /\ pc' = [pc EXCEPT ![c] = "prepare"]
            /\ op' = [op EXCEPT ![c] = "StopPublishingValues"]
            /\ req' = [req EXCEPT ![c] = StopPublishingValuesPreparer(e, b)]
            /\ UNCHANGED <<ctxDone, sends, seen, openBodies, outcome>>
        BY <3>1 DEF StopPublishingValues, Admit
      <4>2. StopPublishingValuesPreparer(e, b) \in Requests
        BY PreparersTyped
      <4>3. QED
        BY <4>1, <4>2 DEF TypeOK, Ops
    <3>2. CASE ~StopPublishingValuesValid(b)
      BY <3>2 DEF StopPublishingValues, Reject, TypeOK, Ops, Outcomes
    <3>3. QED
      BY <3>1, <3>2
  <2>5. CASE \E u \in Users \cup {Empty} : Subscribe(c, e, u)
    BY <2>5, PreparersTyped DEF Subscribe, Admit, TypeOK, Ops
  <2>6. CASE \E u \in Users \cup {Empty} : Unsubscribe(c, e, u)
    BY <2>6, PreparersTyped DEF Unsubscribe, Admit, TypeOK, Ops
  <2>7. QED
    BY <2>1, <2>2, <2>3, <2>4, <2>5, <2>6
<1>2. ASSUME NEW c \in Callers, Prepare(c) PROVE TypeOK'
  BY <1>2, ConfigAssumption DEF Prepare, TypeOK, Outcomes
<1>3. ASSUME NEW c \in Callers, Send(c) PROVE TypeOK'
  <2>1. CASE SendFailed(c)
    BY <2>1 DEF SendFailed, TypeOK, Outcomes
  <2>2. CASE SendAnswered(c)
    <3> PICK s \in Statuses :
          /\ sends' = [sends EXCEPT ![c] = @ + 1]
          /\ seen' = [seen EXCEPT ![c] = Append(@, s)]
          /\ openBodies' = [openBodies EXCEPT ![c] = 1]
          /\ pc' = [pc EXCEPT ![c] =
                      IF s \in RetryCodes /\ sends[c] + 1 < RetryAttempts
                      THEN "delay" ELSE "respond"]
      BY <2>2 DEF SendAnswered
    <3> QED
      BY <2>2 DEF SendAnswered, TypeOK
  <2>3. QED
    BY <1>3, <2>1, <2>2 DEF Send
<1>4. ASSUME NEW c \in Callers, Backoff(c) PROVE TypeOK'
  <2>1. CASE ctxDone[c]
    <3>1. /\ pc' = [pc EXCEPT ![c] = "done"]
          /\ openBodies' = [openBodies EXCEPT ![c] = 0]
          /\ outcome' = [outcome EXCEPT ![c] = "transport"]
          /\ UNCHANGED <<op, req, ctxDone, sends, seen>>
      BY <1>4, <2>1 DEF Backoff
    <3>2. QED
      BY <3>1 DEF TypeOK, Outcomes
  <2>2. CASE ~ctxDone[c]
    BY <1>4, <2>2 DEF Backoff, TypeOK
  <2>3. QED
    BY <2>1, <2>2
<1>5. ASSUME NEW c \in Callers, Respond(c) PROVE TypeOK'
  BY <1>5 DEF Respond, TypeOK, Outcomes
<1>6. ASSUME NEW c \in Callers, Cancel(c) PROVE TypeOK'
  BY <1>6 DEF Cancel, TypeOK
<1>7. ASSUME NEW c \in Callers, Return(c) PROVE TypeOK'
  BY <1>7, NoReqTyped DEF Return, InitCall, TypeOK, Outcomes
<1>8. CASE UNCHANGED vars
  BY <1>8 DEF vars, TypeOK
<1>9. QED
  BY <1>1, <1>2, <1>3, <1>4, <1>5, <1>6, <1>7, <1>8 DEF Next, Step

\* Type correctness: every state of the dispatcher is well typed.
THEOREM TypeCorrect == Spec => []TypeOK
<1>1. Init => TypeOK
  BY NoReqTyped DEF Init, InitCall, TypeOK, Outcomes
<1>2. QED
  BY <1>1, TypeOKStep, PTL DEF Spec

\* What a step of another caller leaves alone.
Frame(c) ==
    /\ pc'[c] = pc[c]
    /\ sends'[c] = sends[c]
    /\ seen'[c] = seen[c]
    /\ openBodies'[c] = openBodies[c]
    /\ outcome'[c] = outcome[c]

\* A step of caller d touches only d's entries.
LEMMA OthersFramed ==
    ASSUME TypeOK, NEW c \in Callers, NEW d \in Callers, d # c,
           Call(d) \/ Step(d) \/ Cancel(d) \/ Return(d)
    PROVE  Frame(c)
<1>1. CASE Call(d)
  BY <1>1 DEF Call, GetFirstListOfPublishedNodes, GetNextListOfPublishedNodes,
     StartPublishingValues, StopPublishingValues, Subscribe, Unsubscribe,
     Admit, Reject, Frame, TypeOK
<1>2. CASE Prepare(d)
  BY <1>2 DEF Prepare, Frame, TypeOK
<1>3. CASE Send(d)
  BY <1>3 DEF Send, SendFailed, SendAnswered, Frame, TypeOK
<1>4. CASE Backoff(d)
  BY <1>4 DEF Backoff, Frame, TypeOK
<1>5. CASE Respond(d)
  BY <1>5 DEF Respond, Frame, TypeOK
<1>6. CASE Cancel(d)
  BY <1>6 DEF Cancel, Frame, TypeOK
<1>7. CASE Return(d)
  BY <1>7 DEF Return, Frame, TypeOK
<1>8. QED
  BY <1>1, <1>2, <1>3, <1>4, <1>5, <1>6, <1>7 DEF Step

\* Every step keeps the inductive invariant.
LEMMA IInvStep == IInv /\ [Next]_vars => IInv'
<1> SUFFICES ASSUME IInv, [Next]_vars PROVE IInv'
  OBVIOUS
<1>1. TypeOK'
  BY TypeOKStep DEF IInv
<1>2. ASSUME NEW c \in Callers PROVE CallerInv(c)'
  <2> USE DEF IInv, TypeOK
  <2>1. CASE UNCHANGED vars
    BY <2>1 DEF vars, CallerInv, LastStatus
  <2>2. ASSUME NEW d \in Callers, d # c,
               Call(d) \/ Step(d) \/ Cancel(d) \/ Return(d)
        PROVE  CallerInv(c)'
    <3>1. Frame(c)
      BY <2>2, OthersFramed
    <3>2. QED
      BY <3>1 DEF Frame, CallerInv, LastStatus
  <2>3. CASE Call(c)
    <3>1. /\ pc[c] = "idle"
          /\ \/ pc'[c] = "prepare"
             \/ pc'[c] = "done" /\ outcome'[c] = "validation"
          /\ sends'[c] = sends[c] /\ seen'[c] = seen[c]
          /\ openBodies'[c] = openBodies[c]
      BY <2>3 DEF Call, GetFirstListOfPublishedNodes,
         GetNextListOfPublishedNodes, StartPublishingValues,
         StopPublishingValues, Subscribe, Unsubscribe, Admit, Reject
    <3>2. QED
      BY <3>1 DEF CallerInv
  <2>4. CASE Prepare(c)
    <3>1. /\ pc[c] = "prepare"
          /\ \/ pc'[c] = "send"
             \/ pc'[c] = "done" /\ outcome'[c] = "prepare"
          /\ sends'[c] = sends[c] /\ seen'[c] = seen[c]
          /\ openBodies'[c] = openBodies[c]
      BY <2>4 DEF Prepare
    <3>2. QED
      BY <3>1, RetryAssumption DEF CallerInv
  <2>5. CASE SendFailed(c) /\ pc[c] = "send"
    <3>1. /\ pc'[c] = "done" /\ outcome'[c] = "transport"
          /\ openBodies'[c] = 0
          /\ UNCHANGED <<sends, seen>>
      BY <2>5 DEF SendFailed
    <3>2. QED
      BY <3>1 DEF CallerInv
  <2>6. CASE SendAnswered(c) /\ pc[c] = "send"
    <3>1. PICK s \in Statuses :
            /\ sends' = [sends EXCEPT ![c] = @ + 1]
            /\ seen' = [seen EXCEPT ![c] = Append(@, s)]
            /\ openBodies' = [openBodies EXCEPT ![c] = 1]
            /\ pc' = [pc EXCEPT ![c] =
                        IF s \in RetryCodes /\ sends[c] + 1 < RetryAttempts
                        THEN "delay" ELSE "respond"]
      BY <2>6 DEF SendAnswered
    <3>2. /\ sends'[c] = sends[c] + 1
          /\ seen'[c] = Append(seen[c], s)
          /\ openBodies'[c] = 1
          /\ pc'[c] = IF s \in RetryCodes /\ sends[c] + 1 < RetryAttempts
                      THEN "delay" ELSE "respond"
      BY <3>1
    <3>3. /\ Len(seen'[c]) = sends'[c]
          /\ LastStatus(seen'[c]) = s
          /\ \A i \in 1..(sends'[c] - 1) : seen'[c][i] = seen[c][i]
      BY <3>2 DEF CallerInv, LastStatus
    <3>4. \A i \in 1..(sends'[c] - 1) : seen'[c][i] \in RetryCodes
      BY <2>6, <3>2, <3>3 DEF CallerInv, LastStatus
    <3>5. sends[c] < RetryAttempts
          /\ (sends[c] > 0 => LastStatus(seen[c]) \in RetryCodes)
      BY <2>6 DEF CallerInv
    <3>6. CASE s \in RetryCodes /\ sends[c] + 1 < RetryAttempts
      <4>1. pc'[c] = "delay"
        BY <3>2, <3>6
      <4>2. QED
        BY <3>2, <3>3, <3>4, <3>5, <3>6, <4>1, RetryAssumption DEF CallerInv
    <3>7. CASE ~(s \in RetryCodes /\ sends[c] + 1 < RetryAttempts)
      <4>1. pc'[c] = "respond"
        BY <3>2, <3>7
      <4>2. s \notin RetryCodes \/ sends'[c] = RetryAttempts
        BY <3>2, <3>5, <3>7, RetryAssumption
      <4>3. QED
        BY <3>2, <3>3, <3>4, <3>5, <4>1, <4>2, RetryAssumption DEF CallerInv
    <3>8. QED
      BY <3>6, <3>7
  <2>7. CASE Backoff(c)
    <3>1. CASE ctxDone[c]
      <4>1. /\ pc[c] = "delay" /\ pc'[c] = "done"
            /\ outcome'[c] = "transport" /\ openBodies'[c] = 0
            /\ UNCHANGED <<sends, seen>>
        BY <2>7, <3>1 DEF Backoff
      <4>2. QED
        BY <4>1 DEF CallerInv
    <3>2. CASE ~ctxDone[c]
      <4>1. /\ pc[c] = "delay" /\ pc'[c] = "send"
            /\ UNCHANGED <<sends, seen, openBodies, outcome>>
        BY <2>7, <3>2 DEF Backoff
      <4>2. QED
        BY <4>1 DEF CallerInv
    <3>3. QED
      BY <3>1, <3>2
  <2>8. CASE Respond(c)
    <3>1. /\ pc[c] = "respond" /\ pc'[c] = "done"
          /\ openBodies'[c] = 0
          /\ sends'[c] = sends[c] /\ seen'[c] = seen[c]
      BY <2>8 DEF Respond
    <3>2. /\ sends[c] > 0
          /\ LastStatus(seen[c]) \notin RetryCodes \/ sends[c] = RetryAttempts
          /\ Len(seen[c]) = sends[c]
          /\ sends[c] <= RetryAttempts
          /\ \A i \in 1..(sends[c] - 1) : seen[c][i] \in RetryCodes
      BY <3>1 DEF CallerInv
    <3>3. QED
      BY <3>1, <3>2 DEF CallerInv
  <2>9. CASE Cancel(c)
    <3>1. UNCHANGED <<pc, sends, seen, openBodies, outcome>>
      BY <2>9 DEF Cancel
    <3>2. QED
      BY <3>1 DEF CallerInv, LastStatus
  <2>10. CASE Return(c)
    <3>1. /\ pc'[c] = "idle" /\ sends'[c] = 0 /\ seen'[c] = <<>>
          /\ openBodies'[c] = 0 /\ outcome'[c] = "none"
      BY <2>10 DEF Return, InitCall
    <3>2. QED
      BY <3>1, RetryAssumption DEF CallerInv
  <2>11. QED
    <3>1. Send(c) => \/ (SendFailed(c) /\ pc[c] = "send")
                    \/ (SendAnswered(c) /\ pc[c] = "send")
      BY DEF Send
    <3>2. QED
      BY <2>1, <2>2, <2>3, <2>4, <2>7, <2>8, <2>9, <2>10, <2>5, <2>6, <3>1
      DEF Next, Step
<1>3. QED
  BY <1>1, <1>2 DEF IInv

\* The initial state satisfies the inductive invariant.
LEMMA InitIInv == Init => IInv
<1> SUFFICES ASSUME Init PROVE IInv
  OBVIOUS
<1>1. TypeOK
  BY NoReqTyped DEF Init, InitCall, TypeOK, Outcomes
<1>2. ASSUME NEW c \in Callers PROVE CallerInv(c)
  <2>1. /\ pc[c] = "idle" /\ sends[c] = 0 /\ seen[c] = <<>>
        /\ openBodies[c] = 0
    BY DEF Init, InitCall
  <2>2. QED
    BY <2>1, RetryAssumption DEF CallerInv
<1>3. QED
  BY <1>1, <1>2 DEF IInv

\* The retry contract of the senders and the release of every response
\* body hold in every state, for every number of callers and every budget.
THEOREM RetryContractHolds == Spec => []RetryContract
<1>1. Init => IInv
  BY InitIInv
<1>2. IInv => RetryContract
  BY DEF IInv, CallerInv, RetryContract
<1>3. QED
  BY <1>1, <1>2, IInvStep, PTL DEF Spec

THEOREM BodyReleasedHolds == Spec => []BodyReleased
<1>1. Init => IInv
  BY InitIInv
<1>2. IInv => BodyReleased
  BY DEF IInv, CallerInv, BodyReleased
<1>3. QED
  BY <1>1, <1>2, IInvStep, PTL DEF Spec

(***************************************************************************)
(* The error taxonomy.  OutcomeMatchesResponses is inductive together     *)
(* with IInv: a call's outcome is fixed by the step that ends it, and      *)
(* IInv supplies what that step needs (nothing sent before validation or  *)
(* preparation fails, at least one answer before the responder runs).     *)
(***************************************************************************)
OutcomeOf(c) ==
    /\ op[c] \in {"StartPublishingValues", "StopPublishingValues"}
          /\ pc[c] \notin {"idle", "done"} => req[c].body # Null
    /\ pc[c] = "done" =>
          /\ outcome[c] # "none"
          /\ outcome[c] \in {"validation", "prepare"} => sends[c] = 0
          /\ outcome[c] \in {"ok", "decode"} =>
                sends[c] > 0 /\ LastStatus(seen[c]) = 200
          /\ outcome[c] = "decode" => HasJSONResult(op[c])
          /\ outcome[c] = "service" =>
                sends[c] > 0 /\ LastStatus(seen[c]) # 200

\* A step keeps the outcome of every call justified.
LEMMA OutcomeStep ==
    IInv /\ OutcomeMatchesResponses /\ [Next]_vars =>
        OutcomeMatchesResponses'
<1> SUFFICES ASSUME IInv, OutcomeMatchesResponses, [Next]_vars,
                    NEW c \in Callers
             PROVE  OutcomeOf(c)'
  BY DEF OutcomeMatchesResponses, OutcomeOf
<1> USE DEF IInv
<1>0. OutcomeOf(c)
  BY DEF OutcomeMatchesResponses, OutcomeOf
<1>1. CASE UNCHANGED vars
  BY <1>0, <1>1 DEF vars, OutcomeOf, LastStatus
<1>2. ASSUME NEW d \in Callers, d # c,
             Call(d) \/ Step(d) \/ Cancel(d) \/ Return(d)
      PROVE  OutcomeOf(c)'
  <2>1. Frame(c)
    BY <1>2, OthersFramed
  <2>2. op'[c] = op[c] /\ req'[c] = req[c]
    BY <1>2 DEF Call, GetFirstListOfPublishedNodes,
       GetNextListOfPublishedNodes, StartPublishingValues,
       StopPublishingValues, Subscribe, Unsubscribe, Admit, Reject,
       Step, Prepare, Send, SendFailed, SendAnswered, Backoff, Respond,
       Cancel, Return, TypeOK
  <2>3. QED
    BY <1>0, <2>1, <2>2 DEF Frame, OutcomeOf, LastStatus
<1>3. CASE Call(c)
  <2>1. pc[c] = "idle" /\ sends[c] = 0
    BY <1>3 DEF Call, GetFirstListOfPublishedNodes,
       GetNextListOfPublishedNodes, StartPublishingValues,
       StopPublishingValues, Subscribe, Unsubscribe, CallerInv
  <2> PICK e \in Endpoints :
          \/ GetFirstListOfPublishedNodes(c, e)
          \/ \E t \in Tokens : GetNextListOfPublishedNodes(c, e, t)
          \/ \E b \in Nodes \cup {Null, Empty} : StartPublishingValues(c, e, b)
          \/ \E b \in Nodes \cup {Null, Empty} : StopPublishingValues(c, e, b)
          \/ \E u \in Users \cup {Empty} : Subscribe(c, e, u)
          \/ \E u \in Users \cup {Empty} : Unsubscribe(c, e, u)
    BY <1>3 DEF Call
  \* A rejected call returns before it sends; an admitted one is busy.
  <2>2. ASSUME NEW o, Reject(c, o) PROVE OutcomeOf(c)'
    BY <2>1, <2>2 DEF Reject, OutcomeOf, TypeOK
  <2>3. ASSUME NEW o, NEW r, Admit(c, o, r),
               o \in {"StartPublishingValues", "StopPublishingValues"}
                  => r.body # Null
        PROVE  OutcomeOf(c)'
    BY <2>3 DEF Admit, OutcomeOf, TypeOK
  <2>4. CASE GetFirstListOfPublishedNodes(c, e)
    BY <2>4, <2>3 DEF GetFirstListOfPublishedNodes
  <2>5. CASE \E t \in Tokens : GetNextListOfPublishedNodes(c, e, t)
    BY <2>5, <2>3 DEF GetNextListOfPublishedNodes
  <2>6. CASE \E b \in Nodes \cup {Null, Empty} : StartPublishingValues(c, e, b)
    <3> PICK b \in Nodes \cup {Null, Empty} : StartPublishingValues(c, e, b)
      BY <2>6
    <3>1. CASE StartPublishingValuesValid(b)
      <4>1. Admit(c, "StartPublishingValues",
                  StartPublishingValuesPreparer(e, b))
        BY <3>1 DEF StartPublishingValues
      <4>2. StartPublishingValuesPreparer(e, b).body # Null
        BY <3>1 DEF StartPublishingValuesPreparer, StartPublishingValuesValid
      <4>3. QED
        BY <4>1, <4>2, <2>3
    <3>2. CASE ~StartPublishingValuesValid(b)
      BY <3>2, <2>2 DEF StartPublishingValues
    <3>3. QED
      BY <3>1, <3>2
  <2>7. CASE \E b \in Nodes \cup {Null, Empty} : StopPublishingValues(c, e, b)
    <3> PICK b \in Nodes \cup {Null, Empty} : StopPublishingValues(c, e, b)
      BY <2>7
    <3>1. CASE StopPublishingValuesValid(b)
      <4>1. Admit(c, "StopPublishingValues",
                  StopPublishingValuesPreparer(e, b))
        BY <3>1 DEF StopPublishingValues
      <4>2. StopPublishingValuesPreparer(e, b).body # Null
        BY <3>1 DEF StopPublishingValuesPreparer, StopPublishingValuesValid
      <4>3. QED
        BY <4>1, <4>2, <2>3
    <3>2. CASE ~StopPublishingValuesValid(b)
      BY <3>2, <2>2 DEF StopPublishingValues
    <3>3. QED
      BY <3>1, <3>2
  <2>8. CASE \E u \in Users \cup {Empty} : Subscribe(c, e, u)
    BY <2>8, <2>3 DEF Subscribe
  <2>9. CASE \E u \in Users \cup {Empty} : Unsubscribe(c, e, u)
    BY <2>9, <2>3 DEF Unsubscribe
  <2>10. QED
    BY <2>4, <2>5, <2>6, <2>7, <2>8, <2>9
<1>4. CASE Prepare(c)
  <2>1. /\ pc[c] = "prepare" /\ sends[c] = 0
        /\ \/ pc'[c] = "send"
           \/ pc'[c] = "done" /\ outcome'[c] = "prepare"
        /\ UNCHANGED <<op, req, sends, seen>>
    BY <1>4, ConfigAssumption DEF Prepare, CallerInv, TypeOK
  <2>2. QED
    BY <1>0, <2>1 DEF OutcomeOf
<1>5. CASE Send(c)
  <2>1. pc[c] = "send" /\ UNCHANGED <<op, req>>
    BY <1>5 DEF Send, SendFailed, SendAnswered
  <2>2. CASE SendFailed(c)
    <3>1. pc'[c] = "done" /\ outcome'[c] = "transport"
      BY <2>2 DEF SendFailed, TypeOK
    <3>2. QED
      BY <3>1 DEF OutcomeOf
  <2>3. CASE SendAnswered(c)
    <3>1. pc'[c] \in {"delay", "respond"}
      BY <2>3 DEF SendAnswered, TypeOK
    <3>2. QED
      BY <1>0, <2>1, <3>1 DEF OutcomeOf
  <2>4. QED
    BY <1>5, <2>2, <2>3 DEF Send
<1>6. CASE Backoff(c)
  <2>1. /\ pc[c] = "delay" /\ UNCHANGED <<op, req>>
        /\ \/ pc'[c] = "send"
           \/ pc'[c] = "done" /\ outcome'[c] = "transport"
    BY <1>6 DEF Backoff, TypeOK
  <2>2. QED
    BY <1>0, <2>1 DEF OutcomeOf
<1>7. CASE Respond(c)
  <2>1. PICK decoded \in BOOLEAN :
          outcome' = [outcome EXCEPT ![c] =
                        IF LastStatus(seen[c]) # 200 THEN "service"
                        ELSE IF HasJSONResult(op[c]) /\ ~decoded THEN "decode"
                        ELSE "ok"]
    BY <1>7 DEF Respond
  <2>2. /\ pc[c] = "respond" /\ pc'[c] = "done"
        /\ UNCHANGED <<op, req, sends, seen>>
    BY <1>7 DEF Respond, TypeOK
  <2>3. sends[c] > 0
    BY <2>2 DEF CallerInv
  <2>4. QED
    BY <2>1, <2>2, <2>3 DEF OutcomeOf, TypeOK
<1>8. CASE Cancel(c)
  <2>1. UNCHANGED <<pc, op, req, sends, seen, outcome>>
    BY <1>8 DEF Cancel
  <2>2. QED
    BY <1>0, <2>1 DEF OutcomeOf, LastStatus
<1>9. CASE Return(c)
  <2>1. pc'[c] = "idle"
    BY <1>9 DEF Return, InitCall, TypeOK
  <2>2. QED
    BY <2>1 DEF OutcomeOf
<1>10. QED
  BY <1>1, <1>2, <1>3, <1>4, <1>5, <1>6, <1>7, <1>8, <1>9 DEF Next, Step

\* The error taxonomy of spec section 7 holds in every state, for every
\* number of callers and every budget: a validation or preparation error
\* with nothing sent, a success or decoding error after a final 200, a
\* service error after a final answer that is not 200, and a request with
\* a nil node identifier never past validation.
THEOREM OutcomeMatchesResponsesHolds == Spec => []OutcomeMatchesResponses
<1>1. Init => IInv /\ OutcomeMatchesResponses
  BY InitIInv DEF Init, InitCall, OutcomeMatchesResponses
<1>2. IInv /\ OutcomeMatchesResponses /\ [Next]_vars =>
          IInv' /\ OutcomeMatchesResponses'
  BY IInvStep, OutcomeStep
<1>3. QED
  BY <1>1, <1>2, PTL DEF Spec
=============================================================================
