--------------------------- MODULE ContractCalls ---------------------------
(***************************************************************************)
(* What a call of the contract backend (client/client.go) can do, as the   *)
(* Funder and the Adjudicator see it.  InvokeSignedTx simulates, signs and *)
(* submits one transaction and fetches its result.  The contract applies   *)
(* the transaction at most once, so a call                                 *)
(*   - succeeds: the contract accepts it, and its result is decoded;       *)
(*   - is undecoded: the contract has applied it, and yet the caller gets  *)
(*     an error, because the result could not be fetched or decoded;       *)
(*   - fails without effect: the contract rejects it, in the simulation or *)
(*     after submission, or the network does not carry it there.           *)
(* Failures that the contract does not cause are counted by faults, so     *)
(* that a run can bound them.                                              *)
(***************************************************************************)
EXTENDS PerunContract

CONSTANT MaxFaults    \* bound on network failures in a behaviour

ASSUME MaxFaultsAssumption == MaxFaults \in Nat

VARIABLE faults       \* network failures so far

Fault ==
    /\ faults < MaxFaults
    /\ faults' = faults + 1

NoFault == UNCHANGED faults

\* A call without effect, of which the contract would accept "accepted".
CallFails(accepted) ==
    /\ UNCHANGED contractVars
    /\ (~accepted /\ NoFault) \/ Fault
=============================================================================
