--------------------------- MODULE PerunContract ---------------------------
(***************************************************************************)
(* The Soroban payment-channel contract that every component of this       *)
(* backend talks to.  The contract is not in this repository (only its     *)
(* compiled form, testdata/perun_soroban_contract.wasm, is), so this       *)
(* module is the environment of the others: one guard (CanX) and one       *)
(* effect (TxX) per entry point that client/buildtx.go builds arguments    *)
(* for.  It describes one channel, the one whose ID the handlers pass.     *)
(*                                                                         *)
(* Abstractions.  Parties and assets are 0 and 1, the participant indices  *)
(* and the positions in Allocation.Assets (the funder reads Assets[0] and  *)
(* Assets[1], so there are always two).  The states that both parties have *)
(* signed form one history, numbered by version; a signature check is then *)
(* membership in the history.  Ledger time is only ever compared with      *)
(* "latest dispute + challenge duration", so it is one flag, expired.      *)
(***************************************************************************)
EXTENDS Integers

CONSTANTS
    Stellar,    \* the assets that live on this ledger; others are locked elsewhere
    Histories,  \* the signed histories a behaviour may start with
    Endowment   \* Endowment[p][a]: tokens of asset a that party p owns at first

Party == {0, 1}
Asset == {0, 1}
Peer(p) == 1 - p

Allocation == [Asset -> [Party -> Nat]]

\* A history: states 0..last, the last of which may be final.
IsHistory(h) ==
    /\ h = [last |-> h.last, bal |-> h.bal, final |-> h.final]
    /\ h.last \in Nat
    /\ h.bal \in [0..h.last -> Allocation]
    /\ h.final \in BOOLEAN
    /\ h.final => h.last > 0
    /\ \A v \in 0..h.last, a \in Asset :
          h.bal[v][a][0] + h.bal[v][a][1] = h.bal[0][a][0] + h.bal[0][a][1]

ASSUME StellarAssumption == Stellar \subseteq Asset
ASSUME HistoriesAssumption == \A h \in Histories : IsHistory(h)
ASSUME EndowmentAssumption == Endowment \in [Party -> [Asset -> Nat]]

VARIABLES
    hist,    \* the history of this behaviour; never changes
    chan,    \* the channel as the contract stores it: its control and version
    wallet,  \* wallet[p][a]: tokens party p holds outside the contract
    held     \* held[a]: tokens the contract holds for this channel

contractVars == <<hist, chan, wallet, held>>
chainVars == <<chan, wallet, held>>

-----------------------------------------------------------------------------
Versions == 0..hist.last
Final(v) == hist.final /\ v = hist.last

\* What the state of version v gives party p of asset a on this ledger.
Share(v, p, a) == IF a \in Stellar THEN hist.bal[v][a][p] ELSE 0
OwesNothing(v, p) == \A a \in Asset : Share(v, p, a) = 0

Neither == [p \in Party |-> FALSE]
Absent == [open |-> FALSE, funded |-> Neither, closed |-> FALSE,
           withdrawn |-> Neither, disputed |-> FALSE, expired |-> FALSE,
           version |-> 0]

FullyFunded == \A p \in Party : chan.funded[p]

ContractTypeOK ==
    /\ hist \in Histories
    /\ chan \in [open : BOOLEAN, funded : [Party -> BOOLEAN],
                 closed : BOOLEAN, withdrawn : [Party -> BOOLEAN],
                 disputed : BOOLEAN, expired : BOOLEAN, version : Versions]
    /\ wallet \in [Party -> [Asset -> Int]]
    /\ held \in [Asset -> Int]

ContractInit ==
    /\ hist \in Histories
    /\ chan = Absent
    /\ wallet = Endowment
    /\ held = [a \in Asset |-> 0]

-----------------------------------------------------------------------------
(* Opening and funding *)

\* open rejects an existing channel; anyone may call it.
CanOpen == ~chan.open
TxOpen ==
    /\ chan' = [Absent EXCEPT !.open = TRUE]
    /\ UNCHANGED <<hist, wallet, held>>

\* fund takes the caller's shares of version 0 in one transaction, and marks
\* the peer as funded too when the peer owes nothing on this ledger.
CanFund(p) ==
    /\ chan.open
    /\ ~chan.funded[p]
    /\ \A a \in Asset : Share(0, p, a) <= wallet[p][a]
TxFund(p) ==
    /\ chan' = [chan EXCEPT !.funded =
                   [q \in Party |-> \/ q = p
                                    \/ chan.funded[q]
                                    \/ OwesNothing(0, q)]]
    /\ wallet' = [wallet EXCEPT ![p] =
                   [a \in Asset |-> wallet[p][a] - Share(0, p, a)]]
    /\ held' = [a \in Asset |-> held[a] + Share(0, p, a)]
    /\ UNCHANGED hist

\* abort_funding refunds the only party that has funded, at that party's
\* request, and deletes the channel.
CanAbort(p) ==
    /\ chan.open
    /\ chan.funded[p]
    /\ ~chan.funded[Peer(p)]
TxAbort(p) ==
    /\ chan' = Absent
    /\ wallet' = [wallet EXCEPT ![p] =
                   [a \in Asset |-> wallet[p][a] + Share(0, p, a)]]
    /\ held' = [a \in Asset |-> held[a] - Share(0, p, a)]
    /\ UNCHANGED hist

-----------------------------------------------------------------------------
(* Disputing, closing and withdrawing *)

\* dispute replaces a non-final state by a later one (the initial state may be
\* registered again) and restarts the challenge period.
CanDispute(v) ==
    /\ chan.open
    /\ FullyFunded
    /\ ~chan.closed
    /\ ~Final(chan.version)
    /\ v > chan.version \/ (v = 0 /\ chan.version = 0)
TxDispute(v) ==
    /\ chan' = [chan EXCEPT !.disputed = TRUE, !.expired = FALSE, !.version = v]
    /\ UNCHANGED <<hist, wallet, held>>

\* The challenge duration passes on the ledger.
Elapse ==
    /\ chan.disputed
    /\ ~chan.closed
    /\ ~chan.expired
    /\ chan' = [chan EXCEPT !.expired = TRUE]
    /\ UNCHANGED <<hist, wallet, held>>

\* close accepts a final state at any time, on a closed channel as well.
CanClose(v) ==
    /\ chan.open
    /\ FullyFunded
    /\ Final(v)
TxClose(v) ==
    /\ chan' = [chan EXCEPT !.closed = TRUE, !.version = v]
    /\ UNCHANGED <<hist, wallet, held>>

CanForceClose ==
    /\ chan.open
    /\ FullyFunded
    /\ chan.disputed
    /\ chan.expired
    /\ ~chan.closed
TxForceClose ==
    /\ chan' = [chan EXCEPT !.closed = TRUE]
    /\ UNCHANGED <<hist, wallet, held>>

\* withdraw(idx, one_withdrawer): party idx itself must sign, or B for both
\* parties when there is one withdrawer.
CanWithdraw(caller, idx, one) ==
    /\ chan.open
    /\ chan.closed
    /\ ~chan.withdrawn[idx]
    /\ caller = IF one THEN 1 ELSE idx

\* The channel is deleted once both are marked as withdrawn; a party with
\* nothing to get is marked together with its peer.
TxWithdraw(idx) ==
    LET done == [q \in Party |-> \/ q = idx
                                 \/ chan.withdrawn[q]
                                 \/ OwesNothing(chan.version, q)]
        paid(a) == Share(chan.version, idx, a)
    IN /\ chan' = IF \A q \in Party : done[q]
                  THEN Absent
                  ELSE [chan EXCEPT !.withdrawn = done]
       /\ wallet' = [wallet EXCEPT ![idx] =
                        [a \in Asset |-> wallet[idx][a] + paid(a)]]
       /\ held' = [a \in Asset |-> held[a] - paid(a)]
       /\ UNCHANGED hist
=============================================================================
