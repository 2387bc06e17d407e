------------------------- MODULE EnumerationContract -------------------------
(***************************************************************************)
(* What enumerating an endpoint's published nodes promises its caller     *)
(* (spec section 4.2), independently of pages, tokens and retries: the    *)
(* items of the service's list are yielded in order, some at a time,      *)
(* never taken back; the enumeration either ends with all of them or      *)
(* fails, and it does one or the other.                                   *)
(***************************************************************************)
EXTENDS Naturals, Sequences

CONSTANT Items      \* the service's list

VARIABLES
    yielded,        \* the items yielded so far
    status          \* "running", "done" or "failed"

evars == <<yielded, status>>

\* The next items of the list are yielded; the enumeration is over exactly
\* when they were the last ones.
Yield ==
    /\ status = "running"
    /\ \E k \in (Len(yielded) + 1)..Len(Items) :
          /\ yielded' = SubSeq(Items, 1, k)
          /\ status' = IF k = Len(Items) THEN "done" ELSE "running"

\* Nothing is left to yield: an empty list ends without yielding anything.
Finish ==
    /\ status = "running"
    /\ yielded = Items
    /\ status' = "done"
    /\ UNCHANGED yielded

\* The enumeration stops with an error, keeping what it yielded.
Fail ==
    /\ status = "running"
    /\ status' = "failed"
    /\ UNCHANGED yielded

Init == yielded = <<>> /\ status = "running"

Next == Yield \/ Finish \/ Fail

SafeSpec == Init /\ [][Next]_evars

\* An enumeration that is running goes on until it is over.
Spec == SafeSpec /\ WF_evars(Next)
=============================================================================
