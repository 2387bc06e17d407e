-------------------------- MODULE DispatchContract --------------------------
(***************************************************************************)
(* What a call of the client promises its caller, independently of how    *)
(* validation, preparation, the retry decorator and the responder are     *)
(* arranged (spec sections 4.1, 5, 7 and 8).  A call is idle, busy or     *)
(* done.  While busy it puts the same request on the wire, a first time   *)
(* and again only after a retryable answer, never more than RetryAttempts *)
(* times and never once its context is cancelled; it then returns one     *)
(* result, which the answers on the wire justify.                         *)
(***************************************************************************)
EXTENDS Naturals, Sequences

CONSTANTS
    Callers,        \* goroutines issuing calls
    Operations,     \* the operations of the client
    ValidatedOps,   \* operations whose request is validated before sending
    DecodedOps,     \* operations whose 200 answer is decoded into a result
    Statuses,       \* HTTP status codes the service may answer with
    RetryCodes,     \* the statuses that are retried
    RetryAttempts   \* the budget of sends of one call

VARIABLES
    state,      \* state[c]: "idle", "busy" or "done"
    callOp,     \* callOp[c]: the operation of c's call
    wire,       \* wire[c]: the answers to the requests of c's call, in order
    cancelled,  \* cancelled[c]: the call's context is cancelled
    result      \* result[c]: what the call returned

avars == <<state, callOp, wire, cancelled, result>>

Results == {"ok", "validation", "prepare", "transport", "service", "decode"}

Last(s) == s[Len(s)]

\* The results of a call that passed validation.
Finished == Results \ {"validation"}

\* The results a call may return, given its operation and its answers.
Justified(c, r) ==
    CASE r = "prepare"    -> wire[c] = <<>>
      [] r = "transport"  -> TRUE
      [] r = "service"    -> /\ wire[c] # <<>>
                             /\ Last(wire[c]) # 200
                             /\ Last(wire[c]) \in RetryCodes =>
                                   Len(wire[c]) = RetryAttempts
      [] r = "ok"         -> wire[c] # <<>> /\ Last(wire[c]) = 200
      [] r = "decode"     -> /\ wire[c] # <<>> /\ Last(wire[c]) = 200
                             /\ callOp[c] \in DecodedOps

Begin(c) ==
    /\ state[c] = "idle"
    /\ \E o \in Operations : callOp' = [callOp EXCEPT ![c] = o]
    /\ state' = [state EXCEPT ![c] = "busy"]
    /\ UNCHANGED <<wire, cancelled, result>>

\* A request that fails validation returns before anything is sent.
Refuse(c) ==
    /\ state[c] = "idle"
    /\ \E o \in ValidatedOps : callOp' = [callOp EXCEPT ![c] = o]
    /\ state' = [state EXCEPT ![c] = "done"]
    /\ result' = [result EXCEPT ![c] = "validation"]
    /\ UNCHANGED <<wire, cancelled>>

Attempt(c) ==
    /\ state[c] = "busy"
    /\ ~cancelled[c]
    /\ Len(wire[c]) < RetryAttempts
    /\ wire[c] = <<>> \/ Last(wire[c]) \in RetryCodes
    /\ \E s \in Statuses : wire' = [wire EXCEPT ![c] = Append(@, s)]
    /\ UNCHANGED <<state, callOp, cancelled, result>>

Finish(c, r) ==
    /\ state[c] = "busy"
    /\ Justified(c, r)
    /\ state' = [state EXCEPT ![c] = "done"]
    /\ result' = [result EXCEPT ![c] = r]
    /\ UNCHANGED <<callOp, wire, cancelled>>

Cancel(c) ==
    /\ state[c] = "busy"
    /\ ~cancelled[c]
    /\ cancelled' = [cancelled EXCEPT ![c] = TRUE]
    /\ UNCHANGED <<state, callOp, wire, result>>

Return(c) ==
    /\ state[c] = "done"
    /\ state' = [state EXCEPT ![c] = "idle"]
    /\ callOp' = [callOp EXCEPT ![c] = "none"]
    /\ wire' = [wire EXCEPT ![c] = <<>>]
    /\ cancelled' = [cancelled EXCEPT ![c] = FALSE]
    /\ result' = [result EXCEPT ![c] = "none"]

Init ==
    /\ state = [c \in Callers |-> "idle"]
    /\ callOp = [c \in Callers |-> "none"]
    /\ wire = [c \in Callers |-> <<>>]
    /\ cancelled = [c \in Callers |-> FALSE]
    /\ result = [c \in Callers |-> "none"]

\* The work of a busy call: another attempt or its result.
Work(c) == Attempt(c) \/ \E r \in Finished : Finish(c, r)

Next ==
    \E c \in Callers :
        \/ Begin(c) \/ Refuse(c) \/ Work(c) \/ Cancel(c) \/ Return(c)

SafeSpec == Init /\ [][Next]_avars

\* A busy call keeps working until it returns.
Fairness == \A c \in Callers : WF_avars(Work(c))

Spec == SafeSpec /\ Fairness
=============================================================================
