--------------------------- MODULE MCFundingRetry ---------------------------
(* Instances of FundingRetry for TLC. *)
EXTENDS FundingRetry

Rows(a0, b0, a1, b1) ==
    [a \in Asset |-> [p \in Party |->
        IF a = 0 THEN (IF p = 0 THEN a0 ELSE b0)
                 ELSE (IF p = 0 THEN a1 ELSE b1)]]

Opening(bal) == [last |-> 0, bal |-> [v \in 0..0 |-> bal], final |-> FALSE]

\* Asset 0 is on this ledger, asset 1 is not.  A swap across the chains in either
\* direction, and both assets from both parties.
MCHistories ==
    {Opening(Rows(2, 0, 0, 3)), Opening(Rows(0, 3, 2, 0)), Opening(Rows(1, 2, 3, 4))}

MCEndowment == [p \in Party |-> [a \in Asset |-> 5]]
MCOneAsset == [p \in Party |-> {0}]
=============================================================================
