------------------------------ MODULE OneCall ------------------------------
(***************************************************************************)
(* What a method of the contract backend promises its caller: the contract *)
(* carries the call out at most once, and the method returns nil only if   *)
(* it has.  An error says nothing about that: the call may have been       *)
(* carried out, or be carried out later.  ContractCalls relies on this,    *)
(* and leaves the last case to FundingRetry.                               *)
(***************************************************************************)
VARIABLES
    served,   \* how often the contract has carried out the current call
    outcome   \* "idle" before the first call, "running", "nil" or "error"

vars == <<served, outcome>>

Init == served = 0 /\ outcome = "idle"

Begin ==
    /\ outcome # "running"
    /\ outcome' = "running"
    /\ served' = 0

Serve ==
    /\ outcome \in {"running", "error"}
    /\ served = 0
    /\ served' = 1
    /\ UNCHANGED outcome

Succeed ==
    /\ outcome = "running"
    /\ served = 1
    /\ outcome' = "nil"
    /\ UNCHANGED served

Fail ==
    /\ outcome = "running"
    /\ outcome' = "error"
    /\ UNCHANGED served

Next == Begin \/ Serve \/ Succeed \/ Fail

Spec == Init /\ [][Next]_vars
=============================================================================
