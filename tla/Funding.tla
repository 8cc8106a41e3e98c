------------------------------ MODULE Funding ------------------------------
(***************************************************************************)
(* Two Funders (channel/funder.go) that fund one channel: each party's     *)
(* call of Fund is a process, and the processes share the contract.        *)
(*                                                                         *)
(* One action is one call of the contract backend with the Go code around  *)
(* it; ContractCalls says how such a call can end.  The polling interval   *)
(* is the time between two steps of a process; deadline[p] is set when the *)
(* context of p's call is done.                                            *)
(***************************************************************************)
EXTENDS ContractCalls

CONSTANTS
    MaxIters,      \* Funder.maxIters
    FunderAssets   \* FunderAssets[p]: the assets in assetAddrs of p's Funder

ASSUME MaxItersAssumption == MaxIters \in Nat
ASSUME FunderAssetsAssumption == FunderAssets \in [Party -> SUBSET Asset]

VARIABLES
    pc,        \* pc[p]: the next call of p's Fund
    iter,      \* iter[p]: the loop counter of fundParty
    deadline,  \* deadline[p]: ctx.Done() of p's call is ready
    result     \* result[p]: what p's Fund has returned

callVars == <<pc, iter, deadline, result, faults>>
vars == <<contractVars, callVars>>

-----------------------------------------------------------------------------
(* The decisions of fundParty *)

\* needFunding(Balances[p], Assets): the code passes row p of the balances, that
\* is the balances of asset p, and pairs entry i of that row with Assets[i].
NeedFunding(p) == \E i \in Stellar : hist.bal[0][p][i] # 0

\* Mutant of MyTurn: B does not wait for A.
MyTurnAtOnce(p) == ~FullyFunded /\ ~chan.funded[p]

\* A funds first; B funds after A, or at once if A does not need to.
MyTurn(p) ==
    /\ ~FullyFunded
    /\ ~chan.funded[p]
    /\ p = 1 => chan.funded[0] \/ ~NeedFunding(0)

\* containsAllAssets: the first asset that is found settles it.
ContainsAllAssets(p) == Asset \cap FunderAssets[p] # {}

-----------------------------------------------------------------------------
(* Control flow of a call *)

Goto(p, label) ==
    /\ pc' = [pc EXCEPT ![p] = label]
    /\ UNCHANGED <<iter, deadline, result>>

\* Mutant of Continue: the loop counter is not increased.
ContinueUncounted(p) == Goto(p, "loop")

Continue(p) ==
    /\ pc' = [pc EXCEPT ![p] = "loop"]
    /\ iter' = [iter EXCEPT ![p] = @ + 1]
    /\ UNCHANGED <<deadline, result>>

Return(p, value) ==
    /\ pc' = [pc EXCEPT ![p] = "done"]
    /\ result' = [result EXCEPT ![p] = value]
    /\ UNCHANGED <<iter, deadline>>

-----------------------------------------------------------------------------
(* The steps of Fund *)

Fund(p) ==
    /\ pc[p] = "idle"
    /\ Goto(p, IF p = 0 THEN "open" ELSE "loop")
    /\ NoFault
    /\ UNCHANGED contractVars

\* openChannel: cb.Open.
OpenSucceeds ==
    /\ pc[0] = "open"
    /\ CanOpen /\ TxOpen
    /\ Goto(0, "openInfo")
    /\ NoFault

OpenUndecoded ==
    /\ pc[0] = "open"
    /\ CanOpen /\ TxOpen
    /\ Return(0, "error")
    /\ Fault

OpenFails ==
    /\ pc[0] = "open"
    /\ CallFails(CanOpen)
    /\ Return(0, "error")

\* openChannel: the check of the channel it has opened.
OpenInfo ==
    /\ pc[0] = "openInfo"
    /\ chan.open
    /\ Goto(0, "loop")
    /\ NoFault
    /\ UNCHANGED contractVars

OpenInfoFails ==
    /\ pc[0] = "openInfo"
    /\ CallFails(chan.open)
    /\ Return(0, "error")

\* Mutant of Polls: one iteration too many.
PollsOnceMore(p) == pc[p] = "loop" /\ iter[p] <= MaxIters /\ ~deadline[p]

\* The head of the loop when the timer fires before the context is done.
Polls(p) ==
    /\ pc[p] = "loop"
    /\ iter[p] < MaxIters
    /\ ~deadline[p]

\* A missing channel makes GetChannelInfo fail as well.
PollFails(p) ==
    /\ Polls(p)
    /\ CallFails(chan.open)
    /\ Continue(p)

PollFunded(p) ==
    /\ Polls(p)
    /\ chan.open
    /\ FullyFunded
    /\ Return(p, "nil")
    /\ NoFault
    /\ UNCHANGED contractVars

PollNoNeed(p) ==
    /\ Polls(p)
    /\ chan.open
    /\ MyTurn(p)
    /\ ~NeedFunding(p)
    /\ Return(p, "nil")
    /\ NoFault
    /\ UNCHANGED contractVars

PollMyTurn(p) ==
    /\ Polls(p)
    /\ chan.open
    /\ MyTurn(p)
    /\ NeedFunding(p)
    /\ Goto(p, "fund")
    /\ NoFault
    /\ UNCHANGED contractVars

PollWaits(p) ==
    /\ Polls(p)
    /\ chan.open
    /\ ~FullyFunded
    /\ ~MyTurn(p)
    /\ Continue(p)
    /\ NoFault
    /\ UNCHANGED contractVars

\* FundChannel: the asset check, then cb.Fund.  An error ends the call without
\* an abort.  A then reads its balance in an endless loop until that succeeds;
\* B reads its balances once and only logs them.
FundSucceeds(p) ==
    /\ pc[p] = "fund"
    /\ ContainsAllAssets(p)
    /\ CanFund(p) /\ TxFund(p)
    /\ IF p = 0 /\ 0 \in Stellar THEN Goto(p, "balance") ELSE Continue(p)
    /\ NoFault

FundUndecoded(p) ==
    /\ pc[p] = "fund"
    /\ ContainsAllAssets(p)
    /\ CanFund(p) /\ TxFund(p)
    /\ Return(p, "error")
    /\ Fault

FundFails(p) ==
    /\ pc[p] = "fund"
    /\ CallFails(ContainsAllAssets(p) /\ CanFund(p))
    /\ Return(p, "error")

BalanceRead ==
    /\ pc[0] = "balance"
    /\ Continue(0)
    /\ NoFault
    /\ UNCHANGED contractVars

BalanceFails ==
    /\ pc[0] = "balance"
    /\ Fault
    /\ UNCHANGED <<contractVars, pc, iter, deadline, result>>

\* The context is done at the head of the loop, or the loop has ended.
AbortsOnTimeout(p) == pc[p] = "loop" /\ iter[p] < MaxIters /\ deadline[p]
AbortsAtEnd(p) == pc[p] = "loop" /\ iter[p] >= MaxIters

\* AbortChannel: the timeout error is returned only if the abort succeeds, and
\* after the last iteration a successful abort returns nil.
AbortSucceeds(p) ==
    /\ \/ AbortsOnTimeout(p) /\ Return(p, "timeout")
       \/ AbortsAtEnd(p) /\ Return(p, "nil")
    /\ CanAbort(p) /\ TxAbort(p)
    /\ NoFault

AbortUndecoded(p) ==
    /\ AbortsOnTimeout(p) \/ AbortsAtEnd(p)
    /\ CanAbort(p) /\ TxAbort(p)
    /\ Return(p, "error")
    /\ Fault

\* Mutants of AbortFails: the error of the abort is dropped.
AbortFailsAsTimeout(p) ==
    /\ AbortsOnTimeout(p) \/ AbortsAtEnd(p)
    /\ CallFails(CanAbort(p))
    /\ Return(p, "timeout")
AbortFailsAsNil(p) ==
    /\ AbortsOnTimeout(p) \/ AbortsAtEnd(p)
    /\ CallFails(CanAbort(p))
    /\ Return(p, "nil")

AbortFails(p) ==
    /\ AbortsOnTimeout(p) \/ AbortsAtEnd(p)
    /\ CallFails(CanAbort(p))
    /\ Return(p, "error")

\* The context of a running call is cancelled or expires, at any moment.
Deadline(p) ==
    /\ pc[p] \notin {"idle", "done"}
    /\ ~deadline[p]
    /\ deadline' = [deadline EXCEPT ![p] = TRUE]
    /\ UNCHANGED <<contractVars, pc, iter, result, faults>>

-----------------------------------------------------------------------------
Init ==
    /\ ContractInit
    /\ pc = [p \in Party |-> "idle"]
    /\ iter = [p \in Party |-> 0]
    /\ deadline = [p \in Party |-> FALSE]
    /\ result = [p \in Party |-> "none"]
    /\ faults = 0

OpenStep ==
    \/ OpenSucceeds \/ OpenUndecoded \/ OpenFails
    \/ OpenInfo \/ OpenInfoFails

PollStep(p) ==
    \/ PollFails(p) \/ PollFunded(p) \/ PollNoNeed(p)
    \/ PollMyTurn(p) \/ PollWaits(p)

DepositStep(p) == FundSucceeds(p) \/ FundUndecoded(p) \/ FundFails(p)

AbortStep(p) == AbortSucceeds(p) \/ AbortUndecoded(p) \/ AbortFails(p)

\* What the goroutine of p's call does once Fund has been called.
CallStep(p) ==
    \/ p = 0 /\ (OpenStep \/ BalanceRead \/ BalanceFails)
    \/ PollStep(p)
    \/ DepositStep(p)
    \/ AbortStep(p)

Next == \E p \in Party : Fund(p) \/ CallStep(p) \/ Deadline(p)

Spec == Init /\ [][Next]_vars

\* A goroutine that can run does run.  Whether a party calls Fund at all, and
\* whether its context ends, is up to the caller.
FairSpec == Spec /\ \A p \in Party : WF_vars(CallStep(p))

-----------------------------------------------------------------------------
(* Properties *)

Labels == {"idle", "open", "openInfo", "loop", "fund", "balance", "done"}

\* Every variable has its type.
TypeOK ==
    /\ ContractTypeOK
    /\ pc \in [Party -> Labels]
    /\ iter \in [Party -> 0..MaxIters]
    /\ deadline \in [Party -> BOOLEAN]
    /\ result \in [Party -> {"none", "nil", "timeout", "error"}]
    /\ faults \in 0..MaxFaults

\* When Fund returns nil or a funding timeout, the caller either has a fully
\* funded channel or all of its tokens.
SafeReturn ==
    \A p \in Party :
        result[p] \in {"nil", "timeout"} /\ ~FullyFunded =>
            \A a \in Asset : wallet[p][a] = Endowment[p][a]

\* A party that was told of a funding timeout is not in a funded channel, then
\* or later, whatever its peer still does: the abort and the peer's deposit
\* exclude each other.
TimeoutIsFinal ==
    \A p \in Party : result[p] = "timeout" => ~chan.open

\* When both calls are over and one deposit is left in an unfunded channel,
\* the depositor was given an error that is not the timeout error: an abort
\* or a fund call failed on it.
StrandedIsReported ==
    (\A p \in Party : pc[p] = "done") /\ ~FullyFunded =>
        \A p \in Party : chan.funded[p] => result[p] = "error"

\* B's transaction pays in.
BPays == wallet'[1] # wallet[1] /\ chan'.funded[1]

\* If A owes any of the first asset, B pays in only while A's deposit is in the
\* contract, although A may abort between B's poll and B's transaction.  For the
\* other assets see AFundsFirst.
DepositOrder == [][BPays => chan.funded[0] \/ Share(0, 0, 0) = 0]_vars

\* Every call of Fund returns.
FundReturns == \A p \in Party : pc[p] # "idle" ~> pc[p] = "done"

(* What the repository says and the code does not do; see the README. *)

\* "TestFunding_TimeoutNotFunded": A's Fund must not succeed if B never funds.
AloneIsNotFunded ==
    pc[1] = "idle" /\ NeedFunding(0) => result[0] # "nil"

\* "If party A has funded or does not need to fund, party B funds": B pays only
\* after A, unless A owes nothing.
AFundsFirst == [][BPays => chan.funded[0] \/ OwesNothing(0, 0)]_vars
=============================================================================
