------------------------- MODULE MCAdjSubscription -------------------------
(* Instances of AdjSubscription for TLC. *)
EXTENDS AdjSubscription, TLC

Rows(a, b) == [asset \in Asset |-> [p \in Party |-> IF p = 0 THEN a ELSE b]]

\* Two or three states; in the last one A may own everything.
MCHistories ==
    {[last |-> 1, bal |-> (0 :> Rows(1, 1) @@ 1 :> Rows(2, 0)), final |-> f] :
        f \in BOOLEAN}
    \cup {[last |-> 2, final |-> TRUE,
           bal |-> (0 :> Rows(1, 1) @@ 1 :> Rows(2, 0) @@ 2 :> Rows(1, 1))]}

MCEndowment == [p \in Party |-> [a \in Asset |-> 0]]
=============================================================================
