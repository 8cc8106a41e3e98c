--------------------------- MODULE MCAdjudication ---------------------------
(* Instances of Adjudication for TLC. *)
EXTENDS Adjudication, Sequences

\* A state that gives A the amounts a0, a1 and B the amounts b0, b1.
Rows(a0, b0, a1, b1) ==
    [a \in Asset |-> [p \in Party |->
        IF a = 0 THEN (IF p = 0 THEN a0 ELSE b0)
                 ELSE (IF p = 0 THEN a1 ELSE b1)]]

History(states, final) ==
    [last |-> Len(states) - 1,
     bal |-> [v \in 0 .. Len(states) - 1 |-> states[v + 1]],
     final |-> final]

\* A swap that has been carried out, a swap that is completed in two steps,
\* payments in both assets, a channel that only A has funded, and a swap and a
\* payment across ledgers, of which this one sees one asset; each of them with and
\* without a final state, and a channel that was never used.
MCHistories ==
    {History(s, f) :
        s \in {<<Rows(2, 0, 0, 3), Rows(0, 2, 3, 0)>>,
               <<Rows(2, 0, 0, 3), Rows(1, 1, 1, 2), Rows(0, 2, 0, 3)>>,
               <<Rows(1, 1, 1, 1), Rows(2, 0, 1, 1), Rows(0, 2, 2, 0)>>,
               <<Rows(2, 0, 3, 0), Rows(1, 1, 3, 0)>>,
               <<Rows(2, 0, 0, 0), Rows(0, 2, 0, 0)>>,
               <<Rows(1, 1, 0, 0), Rows(2, 0, 0, 0), Rows(0, 2, 0, 0)>>},
        f \in BOOLEAN}
    \cup {History(<<Rows(1, 2, 3, 0)>>, FALSE)}

MCEndowment == [p \in Party |-> [a \in Asset |-> 0]]
=============================================================================
