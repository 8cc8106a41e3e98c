----------------------------- MODULE MCFunding -----------------------------
(* Instances of Funding for TLC. *)
EXTENDS Funding

\* A matrix of balances: rows are assets, columns are parties.
Rows(a0, b0, a1, b1) ==
    [a \in Asset |-> [p \in Party |->
        IF a = 0 THEN (IF p = 0 THEN a0 ELSE b0)
                 ELSE (IF p = 0 THEN a1 ELSE b1)]]

\* A history that consists of the initial state only.
Opening(bal) == [last |-> 0, bal |-> [v \in 0..0 |-> bal], final |-> FALSE]

\* Swaps, one-sided deposits, one asset only, two assets from both, and a
\* share that B cannot afford.
MCHistories ==
    {Opening(Rows(2, 0, 0, 3)), Opening(Rows(0, 3, 2, 0)),
     Opening(Rows(2, 0, 3, 0)), Opening(Rows(0, 2, 0, 3)),
     Opening(Rows(2, 3, 0, 0)), Opening(Rows(0, 0, 2, 3)),
     Opening(Rows(1, 2, 3, 4)), Opening(Rows(2, 0, 0, 9))}

MCSwapOnly == {Opening(Rows(2, 0, 0, 3))}

\* All that is paid in is of the second asset.
MCSecondOnly == {Opening(Rows(0, 0, 2, 3))}

MCEndowment == [p \in Party |-> [a \in Asset |-> 5]]
MCAllAssets == [p \in Party |-> Asset]
=============================================================================
