---------------------------- MODULE Adjudication ----------------------------
(***************************************************************************)
(* Two Adjudicators (channel/adjudicator.go) that settle one funded        *)
(* channel.  Each party calls Withdraw, again after an error, and may      *)
(* register states with Register meanwhile; all of it is interleaved with  *)
(* the peer and with the challenge period on the ledger.                   *)
(*                                                                         *)
(* One action is one call of the contract backend with the Go code around  *)
(* it; ContractCalls says how such a call can end.  What Withdraw has read *)
(* of the channel is used only to choose its next call, so what a process  *)
(* remembers is its label and its request.                                 *)
(*                                                                         *)
(* The parties' exchange of signed states is not in this repository; the   *)
(* behaviour starts when it has ended.  known[p] is the last version that  *)
(* party p holds with both signatures.  A lost message can leave one party *)
(* one version behind, the final one included: see FinalIsShared.          *)
(***************************************************************************)
EXTENDS ContractCalls

CONSTANTS
    Withdrawers,    \* the values of oneWithdrawer that both parties may use
    MaxRegisters    \* bound on what each party registers beside its watcher

ASSUME WithdrawersAssumption == Withdrawers \subseteq BOOLEAN
ASSUME MaxRegistersAssumption == MaxRegisters \in Nat

VARIABLES
    oneWithdrawer, \* Adjudicator.oneWithdrawer of both parties; never changes
    known,      \* known[p]: the last state that p holds
    registered, \* registered[p]: how often p has used Register itself
    pc,         \* pc[p]: the next call of p's Withdraw
    req,        \* req[p]: the version in the request of p's Withdraw
    result,     \* result[p]: what p's last Withdraw has returned
    settled     \* history: the version at which the channel was closed, or -1

callVars == <<oneWithdrawer, known, registered, pc, req, result>>
vars == <<contractVars, faults, callVars, settled>>

-----------------------------------------------------------------------------
(* The decisions of Withdraw *)

\* needWithdraw for the request of party p, about itself or about its peer.
NeedWithdraw(p, who) == \E a \in Stellar : hist.bal[req[p]][a][who] # 0

\* With one withdrawer A leaves a final swap across chains to B.
LeavesToB(p) ==
    /\ p = 0
    /\ oneWithdrawer
    /\ \E who \in Party : ~NeedWithdraw(p, who)

\* The channel is closed and there is nothing to do for p any more.
AlreadyWithdrawn(p) == chan.withdrawn[p] \/ (p = 0 /\ oneWithdrawer)

-----------------------------------------------------------------------------
(* Control flow of a call *)

Goto(p, label) ==
    /\ pc' = [pc EXCEPT ![p] = label]
    /\ UNCHANGED <<oneWithdrawer, known, registered, req, result>>

Return(p, value) ==
    /\ pc' = [pc EXCEPT ![p] = "idle"]
    /\ result' = [result EXCEPT ![p] = value]
    /\ UNCHANGED <<oneWithdrawer, known, registered, req>>

WithdrawSelf(p) ==
    IF NeedWithdraw(p, p) THEN Goto(p, "withdraw") ELSE Return(p, "nil")

\* Mutant of HandleWithdrawal: one withdrawer withdraws for itself only.
HandleWithdrawalSelf(p) == WithdrawSelf(p)

\* handleWithdrawal up to its first call.
HandleWithdrawal(p) ==
    IF oneWithdrawer /\ NeedWithdraw(p, Peer(p))
    THEN Goto(p, "withdrawOther")
    ELSE WithdrawSelf(p)

-----------------------------------------------------------------------------
(* The steps of Withdraw *)

Withdraw(p) ==
    /\ pc[p] = "idle"
    /\ result[p] # "nil"
    /\ pc' = [pc EXCEPT ![p] = "read"]
    /\ req' = [req EXCEPT ![p] = known[p]]
    /\ UNCHANGED <<contractVars, faults, oneWithdrawer, known, registered, result, settled>>

ReadFails(p) ==
    /\ pc[p] = "read"
    /\ CallFails(chan.open)
    /\ Return(p, "error")
    /\ UNCHANGED settled

ReadClosed(p) ==
    /\ pc[p] = "read"
    /\ chan.open
    /\ chan.closed
    /\ IF AlreadyWithdrawn(p) THEN Return(p, "nil") ELSE HandleWithdrawal(p)
    /\ NoFault
    /\ UNCHANGED <<contractVars, settled>>

\* Mutant of ReadNotClosed: A force-closes final states as well.
ReadNotClosedForced(p) ==
    /\ pc[p] = "read"
    /\ chan.open
    /\ ~chan.closed
    /\ IF Final(req[p]) /\ p = 1 THEN Goto(p, "close") ELSE Goto(p, "forceClose")
    /\ NoFault
    /\ UNCHANGED <<contractVars, settled>>

ReadNotClosed(p) ==
    /\ pc[p] = "read"
    /\ chan.open
    /\ ~chan.closed
    /\ IF ~Final(req[p])
       THEN Goto(p, "forceClose")
       ELSE IF LeavesToB(p) THEN Return(p, "nil") ELSE Goto(p, "close")
    /\ NoFault
    /\ UNCHANGED <<contractVars, settled>>

\* Close never returns nil, so the channel is read again in any case.
CloseApplied(p) ==
    /\ pc[p] = "close"
    /\ CanClose(req[p]) /\ TxClose(req[p])
    /\ settled' = req[p]
    /\ Goto(p, "reread")
    /\ NoFault \/ Fault

CloseFails(p) ==
    /\ pc[p] = "close"
    /\ CallFails(CanClose(req[p]))
    /\ Goto(p, "reread")
    /\ UNCHANGED settled

Reread(p) ==
    /\ pc[p] = "reread"
    /\ chan.open
    /\ chan.closed
    /\ IF p = 0 /\ oneWithdrawer THEN Return(p, "nil") ELSE HandleWithdrawal(p)
    /\ NoFault
    /\ UNCHANGED <<contractVars, settled>>

\* Either the channel cannot be read, or it is open and Close's error stands.
RereadFails(p) ==
    /\ pc[p] = "reread"
    /\ CallFails(chan.open /\ chan.closed)
    /\ Return(p, "error")
    /\ UNCHANGED settled

ForceCloseSucceeds(p) ==
    /\ pc[p] = "forceClose"
    /\ CanForceClose /\ TxForceClose
    /\ settled' = chan.version
    /\ HandleWithdrawal(p)
    /\ NoFault

ForceCloseUndecoded(p) ==
    /\ pc[p] = "forceClose"
    /\ CanForceClose /\ TxForceClose
    /\ settled' = chan.version
    /\ Return(p, "error")
    /\ Fault

\* Mutant of ForceCloseFails: an error of its own for a closed channel.
ForceCloseFailsOpenly(p) ==
    /\ pc[p] = "forceClose"
    /\ CallFails(CanForceClose)
    /\ Return(p, "closed")
    /\ UNCHANGED settled

\* Nothing returns ErrChannelAlreadyClosed: a call that comes after the peer's
\* force close is an error like any other.
ForceCloseFails(p) ==
    /\ pc[p] = "forceClose"
    /\ CallFails(CanForceClose)
    /\ Return(p, "error")
    /\ UNCHANGED settled

\* withdrawOther withdraws for A, whoever calls.
OtherSucceeds(p) ==
    /\ pc[p] = "withdrawOther"
    /\ CanWithdraw(p, 0, TRUE) /\ TxWithdraw(0)
    /\ WithdrawSelf(p)
    /\ NoFault
    /\ UNCHANGED settled

\* After an error of withdrawOther the caller withdraws for itself, whether or
\* not it needs to, and the error is dropped.
OtherUndecoded(p) ==
    /\ pc[p] = "withdrawOther"
    /\ CanWithdraw(p, 0, TRUE) /\ TxWithdraw(0)
    /\ Goto(p, "withdraw")
    /\ Fault
    /\ UNCHANGED settled

OtherFails(p) ==
    /\ pc[p] = "withdrawOther"
    /\ CallFails(CanWithdraw(p, 0, TRUE))
    /\ Goto(p, "withdraw")
    /\ UNCHANGED settled

WithdrawSucceeds(p) ==
    /\ pc[p] = "withdraw"
    /\ CanWithdraw(p, p, oneWithdrawer) /\ TxWithdraw(p)
    /\ Return(p, "nil")
    /\ NoFault
    /\ UNCHANGED settled

WithdrawUndecoded(p) ==
    /\ pc[p] = "withdraw"
    /\ CanWithdraw(p, p, oneWithdrawer) /\ TxWithdraw(p)
    /\ Return(p, "error")
    /\ Fault
    /\ UNCHANGED settled

\* Mutant of WithdrawFails: the error of the last call is dropped.
WithdrawFailsAsNil(p) ==
    /\ pc[p] = "withdraw"
    /\ CallFails(CanWithdraw(p, p, oneWithdrawer))
    /\ Return(p, "nil")
    /\ UNCHANGED settled

WithdrawFails(p) ==
    /\ pc[p] = "withdraw"
    /\ CallFails(CanWithdraw(p, p, oneWithdrawer))
    /\ Return(p, "error")
    /\ UNCHANGED settled

-----------------------------------------------------------------------------
(* Register and the challenge period *)

\* Register disputes with a state that the caller holds; what it returns is not
\* used.  It may come at any time, and be repeated.
Registers(p, v) ==
    /\ v <= known[p]
    /\ CanDispute(v) /\ TxDispute(v)
    /\ NoFault \/ Fault
    /\ UNCHANGED <<oneWithdrawer, known, pc, req, result, settled>>

Register(p) ==
    /\ \E v \in Versions : Registers(p, v)
    /\ registered[p] < MaxRegisters
    /\ registered' = [registered EXCEPT ![p] = @ + 1]

\* A call that the contract rejects changes nothing; this is one that is lost.
RegisterFails ==
    /\ Fault
    /\ UNCHANGED <<contractVars, callVars, settled>>

\* A watcher: it has the last state that its party holds registered, over an
\* older one or to start the dispute.
Watch(p) ==
    /\ known[p] > chan.version \/ ~chan.disputed
    /\ Registers(p, known[p])
    /\ UNCHANGED registered

\* The challenge period ends, whether or not the watchers were in time.
ChallengeEnds ==
    /\ Elapse
    /\ UNCHANGED <<faults, callVars, settled>>

-----------------------------------------------------------------------------
Init ==
    /\ hist \in Histories
    /\ chan = [Absent EXCEPT !.open = TRUE, !.funded = [p \in Party |-> TRUE]]
    /\ wallet = Endowment
    /\ held = [a \in Asset |-> Share(0, 0, a) + Share(0, 1, a)]
    /\ oneWithdrawer \in Withdrawers
    /\ known \in [Party -> Versions]
    /\ \E p \in Party : known[p] = hist.last
    /\ \A p \in Party : known[p] >= hist.last - 1
    /\ registered = [p \in Party |-> 0]
    /\ pc = [p \in Party |-> "idle"]
    /\ req = [p \in Party |-> 0]
    /\ result = [p \in Party |-> "none"]
    /\ settled = -1
    /\ faults = 0

ReadStep(p) == ReadFails(p) \/ ReadClosed(p) \/ ReadNotClosed(p)
CloseStep(p) == CloseApplied(p) \/ CloseFails(p) \/ Reread(p) \/ RereadFails(p)
ForceCloseStep(p) ==
    ForceCloseSucceeds(p) \/ ForceCloseUndecoded(p) \/ ForceCloseFails(p)
WithdrawStep(p) ==
    \/ OtherSucceeds(p) \/ OtherUndecoded(p) \/ OtherFails(p)
    \/ WithdrawSucceeds(p) \/ WithdrawUndecoded(p) \/ WithdrawFails(p)

\* A party that settles: it calls Withdraw, again after an error, and runs it.
Settling(p) ==
    Withdraw(p) \/ ReadStep(p) \/ CloseStep(p) \/ ForceCloseStep(p) \/ WithdrawStep(p)

Next ==
    \/ \E p \in Party : Settling(p) \/ Register(p) \/ Watch(p)
    \/ RegisterFails
    \/ ChallengeEnds

Spec == Init /\ [][Next]_vars

\* Both parties settle, their watchers register what they hold, and time passes.
\* A call that finds the challenge period over is not put off for ever.
FairSpec ==
    /\ Spec
    /\ WF_vars(ChallengeEnds)
    /\ \A p \in Party : WF_vars(Settling(p)) /\ WF_vars(Watch(p))

-----------------------------------------------------------------------------
(* Properties *)

\* Every variable has its type.
TypeOK ==
    /\ ContractTypeOK
    /\ faults \in 0..MaxFaults
    /\ oneWithdrawer \in Withdrawers
    /\ known \in [Party -> Versions]
    /\ registered \in [Party -> 0..MaxRegisters]
    /\ pc \in [Party -> {"idle", "read", "close", "reread", "forceClose",
                         "withdrawOther", "withdraw"}]
    /\ req \in [Party -> Versions]
    /\ result \in [Party -> {"none", "nil", "error"}]
    /\ settled \in Versions \cup {-1}

\* A final state, if there is one, is held by both parties.  Otherwise the one without it
\* force-closes, and the contract lets the Close of the other one replace that outcome.
FinalIsShared == hist.final => \A p \in Party : known[p] = hist.last

\* Party p has received exactly its share of the state of version v.
PaidFor(p, v) == \A a \in Asset : wallet[p][a] = Endowment[p][a] + Share(v, p, a)

\* The two Adjudicators implement Settlement, if a final state is shared: whatever mix
\* of Close, ForceClose, Register and repeated Withdraw calls the parties make, the
\* outcome is never replaced, neither by a late Close nor by a dispute, nobody is paid
\* before it is settled, and a payment is the whole share of that one state, and never
\* repeated.
Promised == INSTANCE Settlement WITH
    Holders <- Party, Goods <- Asset, outcome <- settled,
    due <- [v \in Versions |-> [p \in Party |-> [a \in Asset |-> Share(v, p, a)]]],
    payout <- [p \in Party |-> [a \in Asset |-> wallet[p][a] - Endowment[p][a]]]
KeepsSettlement ==
    /\ FinalIsShared => Promised!Init
    /\ [][FinalIsShared => [Promised!Next]_(Promised!vars)]_vars

\* While the channel exists the contract holds what it still has to pay out, if a final
\* state is shared.
EscrowCoversClaims ==
    FinalIsShared /\ chan.open /\ chan.closed =>
        \A a \in Asset :
            LET claim(p) == IF chan.withdrawn[p] THEN 0 ELSE Share(chan.version, p, a)
            IN held[a] = claim(0) + claim(1)

\* When Withdraw returns nil, without a single withdrawer, and the channel was
\* closed with the caller's own state, the caller has been paid.
NilMeansPaid ==
    \A p \in Party :
        ~oneWithdrawer /\ result[p] = "nil" /\ settled = req[p] => PaidFor(p, settled)

\* A channel that is gone has paid both parties in full, if a final state is shared.
GoneMeansPaid ==
    FinalIsShared /\ ~chan.open => \A p \in Party : PaidFor(p, settled)

\* With one withdrawer, as long as no call has failed on the way, B's nil means
\* that both are paid.  (B drops an error of withdrawOther.)
NilMeansBothPaid ==
    oneWithdrawer /\ faults = 0 /\ result[1] = "nil" /\ settled = req[1] =>
        \A p \in Party : PaidFor(p, settled)

\* If both parties ask with the last signed state, and no challenge period ends
\* on an older one, then in the end both have their shares of it, after any lost
\* race and any error that they answer by calling Withdraw again.  With one
\* withdrawer this takes a network without failures.
Settles ==
    /\ \A p \in Party : known[p] = hist.last
    /\ [](settled \in {-1, hist.last} /\ (oneWithdrawer => faults = 0))
    => <>[](\A p \in Party : PaidFor(p, hist.last))
=============================================================================
