----------------------------- MODULE Settlement -----------------------------
(***************************************************************************)
(* What the settlement of a channel promises to its parties, whatever they *)
(* do and in whatever order their transactions arrive: there is one        *)
(* outcome, a state that both have signed, which is never replaced; and    *)
(* each party receives its shares of that state in one payment, at most    *)
(* once.  Whether somebody is paid at all is a question of liveness.       *)
(***************************************************************************)
EXTENDS Integers

CONSTANTS
    Holders,   \* who is paid
    Goods      \* in which assets

VARIABLES
    due,       \* due[v][p][a]: what the signed state v gives p of a; never changes
    outcome,   \* the state that the channel is settled with, or -1
    payout     \* payout[p][a]: what p has received of asset a

vars == <<due, outcome, payout>>

Nothing == [a \in Goods |-> 0]

Init ==
    /\ outcome = -1
    /\ payout = [p \in Holders |-> Nothing]

Settle ==
    /\ outcome = -1
    /\ outcome' \in DOMAIN due
    /\ UNCHANGED <<due, payout>>

Pay(p) ==
    /\ outcome # -1
    /\ payout[p] = Nothing
    /\ payout' = [payout EXCEPT ![p] = due[outcome][p]]
    /\ UNCHANGED <<due, outcome>>

Next == Settle \/ \E p \in Holders : Pay(p)

Spec == Init /\ [][Next]_vars
=============================================================================
