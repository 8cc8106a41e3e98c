---------------------------- MODULE MCSignedCall ----------------------------
(* Instances of SignedCall for TLC. *)
EXTENDS SignedCall

Rows(a, b) == [asset \in Asset |-> [p \in Party |-> IF p = 0 THEN a ELSE b]]

\* Two signed states, the second of them final.  They pay the same, so that the
\* tokens are back where they were when a channel is gone, and it can be opened
\* again and again.
MCHistories ==
    {[last |-> 1, bal |-> [v \in 0..1 |-> Rows(1, 1)], final |-> TRUE]}

MCEndowment == [p \in Party |-> [a \in Asset |-> 1]]

MCMethods == {"open", "fund", "abort_funding", "dispute", "close", "force_close",
              "withdraw", "get_channel"}
=============================================================================
