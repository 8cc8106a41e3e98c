---------------------------- MODULE FundingRetry ----------------------------
(***************************************************************************)
(* Funding when Fund is called again after an error, by either party, with *)
(* a new context: a transaction that took effect although its call failed, *)
(* and a deposit left by an abort that failed, are then met by a second    *)
(* call of the same Funder.                                                *)
(*                                                                         *)
(* A submission that Horizon answers with a timeout is an error for the    *)
(* caller, but the transaction has no time bound, and the ledger may apply *)
(* it as long as its sequence number is the account's next one: at any     *)
(* moment until another transaction of that account is applied.            *)
(***************************************************************************)
EXTENDS Funding

VARIABLE late   \* late[p]: the transactions of party p that may still be applied

retryVars == <<vars, late>>

-----------------------------------------------------------------------------
\* A new call of Fund after one that returned an error.
FundAgain(p) ==
    /\ pc[p] = "done"
    /\ result[p] = "error"
    /\ pc' = [pc EXCEPT ![p] = "idle"]
    /\ iter' = [iter EXCEPT ![p] = 0]
    /\ deadline' = [deadline EXCEPT ![p] = FALSE]
    /\ result' = [result EXCEPT ![p] = "none"]
    /\ UNCHANGED <<contractVars, faults, late>>

\* What a transaction of party p does when the ledger applies it; one that the
\* contract rejects has no effect.
Accepts(p, call) ==
    \/ call = "open" /\ CanOpen
    \/ call = "fund" /\ CanFund(p)
    \/ call = "abort" /\ CanAbort(p)
Applies(p, call) ==
    \/ call = "open" /\ CanOpen /\ TxOpen
    \/ call = "fund" /\ CanFund(p) /\ TxFund(p)
    \/ call = "abort" /\ CanAbort(p) /\ TxAbort(p)
    \/ ~Accepts(p, call) /\ UNCHANGED contractVars

\* The next call of p submits a transaction.
Submits(p, call) ==
    \/ call = "open" /\ p = 0 /\ pc[p] = "open"
    \/ call = "fund" /\ pc[p] = "fund" /\ ContainsAllAssets(p)
    \/ call = "abort" /\ (AbortsOnTimeout(p) \/ AbortsAtEnd(p))

\* The simulation is accepted, Horizon does not answer in time, and Fund returns.
SubmissionTimesOut(p) ==
    /\ \E call \in {"open", "fund", "abort"} :
          /\ Submits(p, call) /\ Accepts(p, call)
          /\ late' = [late EXCEPT ![p] = @ \cup {call}]
    /\ Return(p, "error")
    /\ Fault
    /\ UNCHANGED contractVars

\* All of them have the same sequence number: one is included, if any.
LateIsIncluded(p) ==
    /\ \E call \in late[p] : Applies(p, call)
    /\ late' = [late EXCEPT ![p] = {}]
    /\ UNCHANGED <<faults, pc, iter, deadline, result>>

\* A step of p's call; if it changes the contract it uses up the sequence number.
CallStepInTime(p) ==
    /\ CallStep(p)
    /\ late' = IF UNCHANGED contractVars THEN late ELSE [late EXCEPT ![p] = {}]

-----------------------------------------------------------------------------
RetryInit == Init /\ late = [p \in Party |-> {}]

RetryNext ==
    \E p \in Party :
        \/ (Fund(p) \/ Deadline(p)) /\ UNCHANGED late
        \/ CallStepInTime(p)
        \/ SubmissionTimesOut(p)
        \/ LateIsIncluded(p)
        \/ FundAgain(p)

RetrySpec == RetryInit /\ [][RetryNext]_retryVars

-----------------------------------------------------------------------------
(* Properties, besides those of Funding *)

\* A party that was told of a funded channel, or that it has its tokens back, is not
\* surprised later: none of its transactions that the ledger may still apply would
\* have an effect, whatever its peer has done since.
LateIsHarmless ==
    \A p \in Party :
        result[p] \in {"nil", "timeout"} => \A call \in late[p] : ~Accepts(p, call)
=============================================================================
