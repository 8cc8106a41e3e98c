--------------------------- MODULE Funding_proofs ---------------------------
(***************************************************************************)
(* The safety properties of Funding and of FundingRetry, for every         *)
(* history, every endowment, every set of assets on this ledger, every     *)
(* loop bound and any number of network failures.                          *)
(***************************************************************************)
EXTENDS FundingRetry, PerunContract_proofs

\* Party p is between two calls of a loop iteration that has begun.
InIteration(p) == pc[p] \in {"fund", "balance"}

\* Where a process can be, and when a result exists.
ControlInv ==
    \A p \in Party :
        /\ pc[p] \in {"open", "openInfo", "balance"} => p = 0
        /\ InIteration(p) => iter[p] < MaxIters
        /\ pc[p] = "done" <=> result[p] # "none"

\* A channel that is not open has no trace of an earlier one.
ChanInv == ~chan.open => chan = Absent

\* The escrow is what the funding flags stand for, and is missing in the wallets.
Deposit(p, a) == IF chan.funded[p] THEN Share(0, p, a) ELSE 0
EscrowInv ==
    \A a \in Asset :
        /\ held[a] = Deposit(0, a) + Deposit(1, a)
        /\ \A p \in Party : wallet[p][a] = Endowment[p][a] - Deposit(p, a)

\* A opens once: before that there is no channel, B has not seen one, and
\* nothing has been aborted.
OpenOnce ==
    pc[0] \in {"idle", "open"} =>
        /\ ~chan.open
        /\ pc[1] # "fund"
        /\ \A p \in Party : result[p] # "timeout"

\* A party whose call has returned without an error is not the only depositor.
ReturnInv ==
    \A p \in Party :
        result[p] \in {"nil", "timeout"} /\ chan.funded[p] => FullyFunded

\* Between B's poll and its transaction, A's deposit can only disappear with
\* the channel.
TurnInv == pc[1] = "fund" /\ chan.open => chan.funded[0] \/ ~NeedFunding(0)

IInv ==
    /\ TypeOK /\ ControlInv /\ ChanInv /\ EscrowInv
    /\ OpenOnce /\ ReturnInv /\ TimeoutIsFinal /\ TurnInv

-----------------------------------------------------------------------------
(* Steps *)

\* The calls that change the contract, with the control flow around them.
Opens == pc[0] = "open" /\ CanOpen /\ TxOpen /\ pc'[0] \in {"openInfo", "done"}
Deposits(p) == pc[p] = "fund" /\ CanFund(p) /\ TxFund(p)
Aborts(p) == pc[p] = "loop" /\ CanAbort(p) /\ TxAbort(p) /\ pc'[p] = "done"

\* Every step is at most one transaction that the contract accepts.
LEMMA OneTransaction ==
    ASSUME TypeOK, [Next]_vars
    PROVE  \/ UNCHANGED contractVars
           \/ Opens
           \/ \E p \in Party : Deposits(p)
           \/ \E p \in Party : Aborts(p)
<1> USE DEF Goto, Continue, Return, CallFails, Fault, NoFault
<1>1. CASE UNCHANGED vars
  BY <1>1 DEF vars
<1>2. ASSUME NEW p \in Party, Fund(p) PROVE UNCHANGED contractVars
  BY <1>2 DEF Fund
<1>3. ASSUME OpenStep PROVE UNCHANGED contractVars \/ Opens
  BY <1>3 DEF OpenStep, OpenSucceeds, OpenUndecoded, OpenFails, OpenInfo,
     OpenInfoFails, Opens, TypeOK, Party
<1>4. ASSUME BalanceRead \/ BalanceFails PROVE UNCHANGED contractVars
  BY <1>4 DEF BalanceRead, BalanceFails
<1>5. ASSUME NEW p \in Party, PollStep(p) PROVE UNCHANGED contractVars
  BY <1>5 DEF PollStep, PollFails, PollFunded, PollNoNeed, PollMyTurn, PollWaits
<1>6. ASSUME NEW p \in Party, DepositStep(p)
      PROVE  UNCHANGED contractVars \/ Deposits(p)
  BY <1>6 DEF DepositStep, FundSucceeds, FundUndecoded, FundFails, Deposits
<1>7. ASSUME NEW p \in Party, AbortStep(p)
      PROVE  UNCHANGED contractVars \/ Aborts(p)
  BY <1>7 DEF AbortStep, AbortSucceeds, AbortUndecoded, AbortFails, Aborts,
     AbortsOnTimeout, AbortsAtEnd, TypeOK
<1>8. ASSUME NEW p \in Party, Deadline(p) PROVE UNCHANGED contractVars
  BY <1>8 DEF Deadline
<1> QED
  BY <1>1, <1>2, <1>3, <1>4, <1>5, <1>6, <1>7, <1>8 DEF Next, CallStep

-----------------------------------------------------------------------------
(* Types and control *)

LEMMA InitInv == Init => IInv
<1> SUFFICES ASSUME Init PROVE IInv
  OBVIOUS
<1> USE DEF Init, ContractInit
<1>1. Absent.funded = Neither /\ ~Absent.open
  BY DEF Absent
<1>2. TypeOK
  BY AbsentType, EndowmentAssumption, MaxItersAssumption, MaxFaultsAssumption
     DEF TypeOK, ContractTypeOK, Labels, ChanType
<1>3. EscrowInv
  BY <1>1, EndowmentAssumption DEF EscrowInv, Deposit, Neither, Party
<1>4. ControlInv /\ ChanInv /\ OpenOnce /\ ReturnInv /\ TimeoutIsFinal /\ TurnInv
  BY <1>1 DEF ControlInv, ChanInv, OpenOnce, ReturnInv, TimeoutIsFinal, TurnInv,
     InIteration, Party
<1> QED
  BY <1>2, <1>3, <1>4 DEF IInv

LEMMA ContractTypeStep ==
    ASSUME TypeOK, [Next]_vars
    PROVE  ContractTypeOK'
<1>1. CASE UNCHANGED contractVars
  BY <1>1 DEF contractVars, TypeOK, ContractTypeOK, Versions
<1>2. CASE Opens
  BY <1>2, OpenType DEF Opens, TypeOK
<1>3. ASSUME NEW p \in Party, Deposits(p) PROVE ContractTypeOK'
  BY <1>3, FundType DEF Deposits, TypeOK
<1>4. ASSUME NEW p \in Party, Aborts(p) PROVE ContractTypeOK'
  BY <1>4, AbortType DEF Aborts, TypeOK
<1> QED
  BY <1>1, <1>2, <1>3, <1>4, OneTransaction

\* The calls of Fund keep their types and stay where the code can be.
CallTypeOK ==
    /\ pc \in [Party -> Labels]
    /\ iter \in [Party -> 0..MaxIters]
    /\ deadline \in [Party -> BOOLEAN]
    /\ result \in [Party -> {"none", "nil", "timeout", "error"}]
    /\ faults \in 0..MaxFaults

LEMMA CallTypeStep ==
    ASSUME TypeOK, ControlInv, [Next]_vars
    PROVE  CallTypeOK' /\ ControlInv'
<1> USE MaxItersAssumption, MaxFaultsAssumption
    DEF CallTypeOK, TypeOK, ControlInv, InIteration, Labels, Goto, Continue,
        Return, CallFails, Fault, NoFault, Party
<1>1. CASE UNCHANGED vars
  BY <1>1 DEF vars, callVars
<1>2. ASSUME NEW p \in Party, Fund(p) PROVE CallTypeOK' /\ ControlInv'
  BY <1>2 DEF Fund
<1>3. CASE OpenStep
  BY <1>3 DEF OpenStep, OpenSucceeds, OpenUndecoded, OpenFails, OpenInfo,
     OpenInfoFails
<1>4. CASE BalanceRead \/ BalanceFails
  BY <1>4 DEF BalanceRead, BalanceFails
<1>5. ASSUME NEW p \in Party, PollStep(p) PROVE CallTypeOK' /\ ControlInv'
  <2> USE DEF Polls
  <2>1. CASE PollFails(p) \/ PollWaits(p)
    BY <2>1 DEF PollFails, PollWaits
  <2>2. CASE PollFunded(p) \/ PollNoNeed(p)
    BY <2>2 DEF PollFunded, PollNoNeed
  <2>3. CASE PollMyTurn(p)
    BY <2>3 DEF PollMyTurn
  <2> QED
    BY <1>5, <2>1, <2>2, <2>3 DEF PollStep
<1>6. ASSUME NEW p \in Party, DepositStep(p) PROVE CallTypeOK' /\ ControlInv'
  BY <1>6 DEF DepositStep, FundSucceeds, FundUndecoded, FundFails
<1>7. ASSUME NEW p \in Party, AbortStep(p) PROVE CallTypeOK' /\ ControlInv'
  BY <1>7 DEF AbortStep, AbortSucceeds, AbortUndecoded, AbortFails,
     AbortsOnTimeout, AbortsAtEnd
<1>8. ASSUME NEW p \in Party, Deadline(p) PROVE CallTypeOK' /\ ControlInv'
  BY <1>8 DEF Deadline
<1> QED
  BY <1>1, <1>2, <1>3, <1>4, <1>5, <1>6, <1>7, <1>8 DEF Next, CallStep

-----------------------------------------------------------------------------
(* Money *)

\* The escrow stays backed in every transaction that the contract accepts.
MoneyInv == ContractTypeOK /\ ChanInv /\ EscrowInv

LEMMA OpenEscrow ==
    ASSUME MoneyInv, CanOpen, TxOpen
    PROVE  ChanInv' /\ EscrowInv'
<1> USE DEF MoneyInv
<1>1. /\ chan'.open /\ chan'.funded = Neither /\ chan.funded = Neither
      /\ UNCHANGED <<hist, wallet, held>>
  BY DEF CanOpen, TxOpen, ChanInv, Absent
<1>2. ASSUME NEW a \in Asset, NEW q \in Party
      PROVE  Deposit(q, a)' = 0 /\ Deposit(q, a) = 0
  BY <1>1 DEF Deposit, Neither
<1>3. EscrowInv'
  BY <1>1, <1>2 DEF EscrowInv, Party
<1> QED
  BY <1>1, <1>3 DEF ChanInv

LEMMA FundEscrow ==
    ASSUME MoneyInv, NEW p \in Party, CanFund(p), TxFund(p)
    PROVE  ChanInv' /\ EscrowInv'
<1> USE DEF MoneyInv
<1>1. \A q \in Party, a \in Asset : Share(0, q, a) \in Nat
  BY ShareNat, EndVersions DEF ContractTypeOK
<1>2. /\ chan'.open /\ ~chan.funded[p]
      /\ \A q \in Party : chan'.funded[q] <=>
            q = p \/ chan.funded[q] \/ OwesNothing(0, q)
  BY DEF CanFund, TxFund, ContractTypeOK
<1>3. \A q \in Party, a \in Asset : Share(0, q, a)' = Share(0, q, a)
  BY DEF TxFund, Share
<1>4. ASSUME NEW a \in Asset
      PROVE  /\ held'[a] = held[a] + Share(0, p, a)
             /\ \A q \in Party : wallet'[q][a] =
                   IF q = p THEN wallet[q][a] - Share(0, p, a) ELSE wallet[q][a]
  BY <1>1 DEF TxFund, ContractTypeOK
<1>5. ASSUME NEW a \in Asset, NEW q \in Party
      PROVE  Deposit(q, a)' = IF q = p THEN Share(0, p, a) ELSE Deposit(q, a)
  BY <1>2, <1>3 DEF Deposit, OwesNothing
<1>6. ASSUME NEW a \in Asset
      PROVE  /\ Deposit(p, a) = 0
             /\ \A q \in Party : Deposit(q, a) \in Int
             /\ wallet[p][a] \in Int /\ Endowment[p][a] \in Int
  BY <1>1, <1>2, EndowmentAssumption DEF Deposit, ContractTypeOK
<1>7. EscrowInv'
  BY <1>1, <1>4, <1>5, <1>6 DEF EscrowInv, Party
<1> QED
  BY <1>2, <1>7 DEF ChanInv

LEMMA AbortEscrow ==
    ASSUME MoneyInv, NEW p \in Party, CanAbort(p), TxAbort(p)
    PROVE  ChanInv' /\ EscrowInv'
<1> USE DEF MoneyInv
<1>1. \A q \in Party, a \in Asset : Share(0, q, a) \in Nat
  BY ShareNat, EndVersions DEF ContractTypeOK
<1>2. /\ chan' = Absent /\ \A q \in Party : ~chan'.funded[q]
      /\ chan.funded[p] /\ \A q \in Party : q # p => ~chan.funded[q]
  BY DEF CanAbort, TxAbort, Absent, Neither, Peer, Party
<1>3. ASSUME NEW a \in Asset
      PROVE  /\ held'[a] = held[a] - Share(0, p, a)
             /\ \A q \in Party : wallet'[q][a] =
                   IF q = p THEN wallet[q][a] + Share(0, p, a) ELSE wallet[q][a]
  BY <1>1 DEF TxAbort, ContractTypeOK
<1>4. ASSUME NEW a \in Asset, NEW q \in Party
      PROVE  /\ Deposit(q, a)' = 0
             /\ Deposit(q, a) = IF q = p THEN Share(0, p, a) ELSE 0
             /\ Endowment[q][a] \in Int
  BY <1>2, EndowmentAssumption DEF Deposit
<1>5. EscrowInv'
  BY <1>1, <1>3, <1>4 DEF EscrowInv, Party
<1> QED
  BY <1>2, <1>5 DEF ChanInv

LEMMA EscrowStep ==
    ASSUME TypeOK, ChanInv, EscrowInv, [Next]_vars
    PROVE  ChanInv' /\ EscrowInv'
<1>1. MoneyInv
  BY DEF MoneyInv, TypeOK
<1>2. CASE UNCHANGED contractVars
  BY <1>2 DEF contractVars, ChanInv, EscrowInv, Deposit, Share
<1> QED
  BY <1>1, <1>2, OpenEscrow, FundEscrow, AbortEscrow, OneTransaction
     DEF Opens, Deposits, Aborts

-----------------------------------------------------------------------------
(* What the callers are told *)

\* A fully funded channel exists, and no transaction of a Funder undoes it.
LEMMA FundedStep ==
    ASSUME TypeOK, ChanInv, [Next]_vars, FullyFunded
    PROVE  chan'.open /\ FullyFunded'
<1>1. chan.open
  BY DEF ChanInv, FullyFunded, Absent, Neither, Party
<1>2. CASE UNCHANGED contractVars
  BY <1>1, <1>2 DEF contractVars, FullyFunded
<1>3. CASE Opens
  BY <1>1, <1>3 DEF Opens, CanOpen
<1>4. ASSUME NEW p \in Party, Deposits(p) PROVE FALSE
  BY <1>4 DEF Deposits, CanFund, FullyFunded
<1>5. ASSUME NEW p \in Party, Aborts(p) PROVE FALSE
  BY <1>5 DEF Aborts, CanAbort, FullyFunded, Peer, Party
<1> QED
  BY <1>2, <1>3, <1>4, <1>5, OneTransaction

\* How a step changes the results: by returning one, and when it is not an
\* error, the channel is fully funded, the caller has no deposit, or the abort
\* has just deleted the channel.
LEMMA ResultStep ==
    ASSUME TypeOK, ControlInv, [Next]_vars,
           NEW p \in Party, result'[p] # result[p]
    PROVE  /\ result[p] = "none"
           /\ \/ result'[p] = "error"
              \/ /\ result'[p] = "nil"
                 /\ UNCHANGED contractVars
                 /\ FullyFunded \/ (~chan.funded[p] /\ ~NeedFunding(p))
              \/ /\ result'[p] \in {"nil", "timeout"}
                 /\ chan.open
                 /\ chan' = Absent
<1> USE DEF TypeOK, Goto, Continue, Return, CallFails, Fault, NoFault
<1>1. result[p] = "none" \/ pc[p] = "done"
  BY DEF ControlInv
<1>2. CASE UNCHANGED vars
  BY <1>2 DEF vars, callVars
<1>3. ASSUME NEW q \in Party, Fund(q) \/ Deadline(q) PROVE FALSE
  BY <1>3 DEF Fund, Deadline
<1>4. CASE OpenStep
  BY <1>1, <1>4 DEF OpenStep, OpenSucceeds, OpenUndecoded, OpenFails, OpenInfo,
     OpenInfoFails
<1>5. ASSUME BalanceRead \/ BalanceFails PROVE FALSE
  BY <1>5 DEF BalanceRead, BalanceFails
<1>6. ASSUME NEW q \in Party, PollStep(q)
      PROVE  /\ result[p] = "none" /\ result'[p] = "nil"
             /\ UNCHANGED contractVars
             /\ FullyFunded \/ (~chan.funded[p] /\ ~NeedFunding(p))
  BY <1>1, <1>6 DEF PollStep, PollFails, PollFunded, PollNoNeed, PollMyTurn,
     PollWaits, Polls, MyTurn
<1>7. ASSUME NEW q \in Party, DepositStep(q)
      PROVE  result[p] = "none" /\ result'[p] = "error"
  BY <1>1, <1>7 DEF DepositStep, FundSucceeds, FundUndecoded, FundFails
<1>8. ASSUME NEW q \in Party, AbortStep(q)
      PROVE  /\ result[p] = "none"
             /\ \/ result'[p] = "error"
                \/ /\ result'[p] \in {"nil", "timeout"}
                   /\ chan.open /\ chan' = Absent
  BY <1>1, <1>8 DEF AbortStep, AbortSucceeds, AbortUndecoded, AbortFails,
     AbortsOnTimeout, AbortsAtEnd, CanAbort, TxAbort
<1> QED
  BY <1>2, <1>3, <1>4, <1>5, <1>6, <1>7, <1>8 DEF Next, CallStep

\* A returned call has no more steps, so its result stands.
LEMMA ReturnStep ==
    ASSUME IInv, [Next]_vars
    PROVE  ReturnInv'
<1> SUFFICES ASSUME NEW p \in Party,
                    result'[p] \in {"nil", "timeout"}, chan'.funded[p]
             PROVE  FullyFunded'
  BY DEF ReturnInv
<1> USE DEF IInv
<1>1. CASE result'[p] # result[p]
  <2>1. \/ UNCHANGED contractVars /\ (FullyFunded \/ ~chan.funded[p])
        \/ chan' = Absent
    BY <1>1, ResultStep
  <2>2. chan' # Absent
    BY DEF Absent, Neither
  <2> QED
    BY <2>1, <2>2 DEF contractVars, FullyFunded
<1>2. CASE result'[p] = result[p]
  <2>1. pc[p] = "done"
    BY <1>2 DEF ControlInv
  <2>2. CASE FullyFunded
    BY <2>2, FundedStep
  <2>3. CASE ~chan.funded[p]
    <3>1. ~UNCHANGED contractVars
      BY <2>3 DEF contractVars
    <3>2. ~Opens /\ \A q \in Party : ~Aborts(q)
      BY DEF Opens, TxOpen, Aborts, TxAbort, Absent, Neither
    <3>3. PICK q \in Party : Deposits(q)
      BY <3>1, <3>2, OneTransaction
    <3>4. q # p /\ chan'.funded[q]
      BY <2>1, <3>3 DEF Deposits, TxFund, TypeOK, ContractTypeOK
    <3> QED
      BY <3>4 DEF FullyFunded, Party
  <2> QED
    BY <1>2, <2>2, <2>3 DEF ReturnInv
<1> QED
  BY <1>1, <1>2

\* A process comes to its deposit only from a poll of an open channel.
LEMMA EnterFund ==
    ASSUME TypeOK, [Next]_vars, NEW p \in Party, pc'[p] = "fund"
    PROVE  pc[p] = "fund" \/ (/\ chan.open /\ MyTurn(p) /\ NeedFunding(p)
                               /\ UNCHANGED contractVars)
<1> USE DEF TypeOK, Goto, Continue, Return, CallFails, Fault, NoFault
<1>1. CASE UNCHANGED vars
  BY <1>1 DEF vars, callVars
<1>2. ASSUME NEW q \in Party, Fund(q) \/ Deadline(q) PROVE pc[p] = "fund"
  BY <1>2 DEF Fund, Deadline
<1>3. ASSUME OpenStep PROVE pc[p] = "fund"
  BY <1>3 DEF OpenStep, OpenSucceeds, OpenUndecoded, OpenFails, OpenInfo,
     OpenInfoFails
<1>4. ASSUME BalanceRead \/ BalanceFails PROVE pc[p] = "fund"
  BY <1>4 DEF BalanceRead, BalanceFails
<1>5. ASSUME NEW q \in Party, PollStep(q)
      PROVE  pc[p] = "fund" \/ (/\ chan.open /\ MyTurn(p) /\ NeedFunding(p)
                               /\ UNCHANGED contractVars)
  BY <1>5 DEF PollStep, PollFails, PollFunded, PollNoNeed, PollMyTurn, PollWaits
<1>6. ASSUME NEW q \in Party, DepositStep(q) PROVE pc[p] = "fund"
  BY <1>6 DEF DepositStep, FundSucceeds, FundUndecoded, FundFails
<1>7. ASSUME NEW q \in Party, AbortStep(q) PROVE pc[p] = "fund"
  BY <1>7 DEF AbortStep, AbortSucceeds, AbortUndecoded, AbortFails
<1> QED
  BY <1>1, <1>2, <1>3, <1>4, <1>5, <1>6, <1>7 DEF Next, CallStep

\* A is never again at the start of its call once it has opened, and until then
\* nobody can deposit or abort.
LEMMA OpenOnceStep ==
    ASSUME IInv, [Next]_vars
    PROVE  OpenOnce'
<1> SUFFICES ASSUME pc'[0] \in {"idle", "open"}
             PROVE  /\ ~chan'.open
                    /\ pc'[1] # "fund"
                    /\ \A p \in Party : result'[p] # "timeout"
  BY DEF OpenOnce
<1> USE DEF IInv
<1>1. pc[0] \in {"idle", "open"}
  <2> USE DEF Goto, Continue, Return, CallFails, Fault, NoFault, TypeOK, Party
  <2>1. CASE UNCHANGED vars
    BY <2>1 DEF vars, callVars
  <2>2. ASSUME NEW p \in Party, Fund(p) PROVE pc[0] \in {"idle", "open"}
    BY <2>2 DEF Fund
  <2>3. ASSUME OpenStep PROVE FALSE
    BY <2>3 DEF OpenStep, OpenSucceeds, OpenUndecoded, OpenFails, OpenInfo,
       OpenInfoFails
  <2>4. CASE BalanceRead \/ BalanceFails
    BY <2>4 DEF BalanceRead, BalanceFails
  <2>5. ASSUME NEW p \in Party, PollStep(p) PROVE pc[0] \in {"idle", "open"}
    BY <2>5 DEF PollStep, PollFails, PollFunded, PollNoNeed, PollMyTurn, PollWaits
  <2>6. ASSUME NEW p \in Party, DepositStep(p) PROVE pc[0] \in {"idle", "open"}
    BY <2>6 DEF DepositStep, FundSucceeds, FundUndecoded, FundFails
  <2>7. ASSUME NEW p \in Party, AbortStep(p) PROVE pc[0] \in {"idle", "open"}
    BY <2>7 DEF AbortStep, AbortSucceeds, AbortUndecoded, AbortFails
  <2>8. ASSUME NEW p \in Party, Deadline(p) PROVE pc[0] \in {"idle", "open"}
    BY <2>8 DEF Deadline
  <2> QED
    BY <2>1, <2>2, <2>3, <2>4, <2>5, <2>6, <2>7, <2>8 DEF Next, CallStep
<1>2. ~chan.open /\ pc[1] # "fund" /\ \A p \in Party : result[p] # "timeout"
  BY <1>1 DEF OpenOnce
<1>3. ~Opens /\ \A p \in Party : ~Deposits(p) /\ ~Aborts(p)
  BY <1>2 DEF Opens, Deposits, CanFund, Aborts, CanAbort
<1>4. UNCHANGED contractVars
  BY <1>3, OneTransaction
<1>5. \A p \in Party : result'[p] # "timeout"
  BY <1>2, ResultStep
<1>6. pc'[1] # "fund"
  BY <1>2, EnterFund DEF Party
<1> QED
  BY <1>2, <1>4, <1>5, <1>6 DEF contractVars

\* After a timeout the channel is deleted, and A, who alone opens it, is past
\* that point.
LEMMA TimeoutStep ==
    ASSUME IInv, [Next]_vars
    PROVE  TimeoutIsFinal'
<1> SUFFICES ASSUME NEW p \in Party, result'[p] = "timeout"
             PROVE  ~chan'.open
  BY DEF TimeoutIsFinal
<1> USE DEF IInv
<1>1. CASE result'[p] # result[p]
  BY <1>1, ResultStep DEF Absent
<1>2. CASE result'[p] = result[p]
  <2>1. ~chan.open /\ pc[0] # "open"
    BY <1>2 DEF TimeoutIsFinal, OpenOnce
  <2>2. ~Opens /\ \A q \in Party : ~Deposits(q) /\ ~Aborts(q)
    BY <2>1 DEF Opens, Deposits, CanFund, Aborts, CanAbort
  <2> QED
    BY <2>1, <2>2, OneTransaction DEF contractVars
<1> QED
  BY <1>1, <1>2

\* A can take its deposit back under B's feet, but only by deleting the channel.
LEMMA TurnStep ==
    ASSUME IInv, [Next]_vars
    PROVE  TurnInv'
<1> SUFFICES ASSUME pc'[1] = "fund", chan'.open
             PROVE  chan'.funded[0] \/ ~NeedFunding(0)'
  BY DEF TurnInv
<1> USE DEF IInv
<1>1. chan.open
  <2>1. ~\E p \in Party : Deposits(p) /\ ~chan.open
    BY DEF Deposits, CanFund
  <2>2. ~Opens \/ pc'[1] # "fund"
    BY EnterFund DEF Opens, CanOpen, OpenOnce, Party
  <2>3. ~\E p \in Party : Aborts(p)
    BY DEF Aborts, TxAbort, Absent
  <2> QED
    BY <2>1, <2>2, <2>3, OneTransaction DEF contractVars
<1>2. chan.funded[0] \/ ~NeedFunding(0)
  BY <1>1, EnterFund DEF TurnInv, MyTurn, Party
<1>3. hist' = hist
  BY OneTransaction DEF contractVars, Opens, TxOpen, Deposits, TxFund, Aborts, TxAbort
<1>4. chan.funded[0] => chan'.funded[0]
  <2>1. ~Opens /\ \A p \in Party : ~Aborts(p)
    BY <1>1 DEF Opens, CanOpen, Aborts, TxAbort, Absent
  <2>2. ASSUME NEW p \in Party, Deposits(p), chan.funded[0] PROVE chan'.funded[0]
    BY <2>2 DEF Deposits, TxFund, TypeOK, ContractTypeOK, Party
  <2> QED
    BY <2>1, <2>2, OneTransaction DEF contractVars
<1> QED
  BY <1>2, <1>3, <1>4 DEF NeedFunding

LEMMA IInvStep == IInv /\ [Next]_vars => IInv'
<1> SUFFICES ASSUME IInv, [Next]_vars PROVE IInv'
  OBVIOUS
<1>1. TypeOK'
  BY ContractTypeStep, CallTypeStep DEF IInv, TypeOK, CallTypeOK
<1> QED
  BY <1>1, CallTypeStep, EscrowStep, OpenOnceStep, ReturnStep, TimeoutStep,
     TurnStep DEF IInv

LEMMA IInvAlways == Spec => []IInv
<1> QED
  BY InitInv, IInvStep, PTL DEF Spec

-----------------------------------------------------------------------------
(* Theorems *)

\* Every variable of the two Funders and of the channel keeps its type; in
\* particular the loop counter stays within maxIters.
THEOREM TypeCorrect == Spec => []TypeOK
<1>1. IInv => TypeOK
  BY DEF IInv
<1> QED
  BY <1>1, IInvAlways, PTL

\* A call that returns nil or a timeout leaves the caller with a funded channel
\* or with all of its tokens.
THEOREM ReturnIsSafe == Spec => []SafeReturn
<1>1. IInv => SafeReturn
  <2> SUFFICES ASSUME IInv, NEW p \in Party, result[p] \in {"nil", "timeout"},
                      ~FullyFunded, NEW a \in Asset
               PROVE  wallet[p][a] = Endowment[p][a]
    BY DEF SafeReturn
  <2>1. ~chan.funded[p]
    BY DEF IInv, ReturnInv
  <2> QED
    BY <2>1, EndowmentAssumption DEF IInv, EscrowInv, Deposit
<1> QED
  BY <1>1, IInvAlways, PTL

\* No party that was told of a timeout is ever in an open channel again.
THEOREM TimeoutsAreFinal == Spec => []TimeoutIsFinal
<1>1. IInv => TimeoutIsFinal
  BY DEF IInv
<1> QED
  BY <1>1, IInvAlways, PTL

\* A deposit that is left behind has been reported to its owner as an error.
THEOREM StrandedAreReported == Spec => []StrandedIsReported
<1>1. IInv => StrandedIsReported
  <2> SUFFICES ASSUME IInv, NEW p \in Party, pc[p] = "done", ~FullyFunded,
                      chan.funded[p]
               PROVE  result[p] = "error"
    BY DEF StrandedIsReported
  <2>1. result[p] \in {"nil", "timeout", "error"}
    BY DEF IInv, TypeOK, ControlInv
  <2> QED
    BY <2>1 DEF IInv, ReturnInv
<1> QED
  BY <1>1, IInvAlways, PTL

\* What A owes of the first asset is part of the row that needFunding is given.
LEMMA FirstAssetIsNeeded == Share(0, 0, 0) # 0 => NeedFunding(0)
BY DEF Share, NeedFunding

\* If A owes any of the first asset, B's deposit follows A's, even if A aborts between
\* B's poll and B's transaction.
THEOREM DepositsAreOrdered == Spec => DepositOrder
<1>1. IInv /\ [Next]_vars => [BPays => chan.funded[0] \/ Share(0, 0, 0) = 0]_vars
  <2> SUFFICES ASSUME IInv, [Next]_vars, wallet'[1] # wallet[1], chan'.funded[1]
               PROVE  chan.funded[0] \/ ~NeedFunding(0)
    BY FirstAssetIsNeeded DEF BPays
  <2>1. ~Opens /\ ~UNCHANGED contractVars
    BY DEF Opens, TxOpen, contractVars
  <2>2. ~\E p \in Party : Aborts(p)
    BY DEF Aborts, TxAbort, Absent, Neither, Party
  <2>3. PICK p \in Party : Deposits(p)
    BY <2>1, <2>2, OneTransaction DEF IInv
  <2>4. p = 1
    BY <2>3 DEF Deposits, TxFund, IInv, TypeOK, ContractTypeOK, Party
  <2> QED
    BY <2>3, <2>4 DEF Deposits, CanFund, IInv, TurnInv
<1> QED
  BY <1>1, IInvAlways, PTL DEF Spec, DepositOrder

-----------------------------------------------------------------------------
(* Calls come to an end *)

\* The calls that an iteration has ahead, and what comes before the first one.
Rank(p) ==
    CASE pc[p] = "idle" -> 6
      [] pc[p] = "open" -> 5
      [] pc[p] = "openInfo" -> 4
      [] pc[p] = "loop" -> 3
      [] pc[p] = "fund" -> 2
      [] pc[p] = "balance" -> 1
      [] pc[p] = "done" -> 0

\* How many steps p's call may still take: four calls for each iteration that is left,
\* and the endless loop around GetBalance once more for each failure.
WorkLeft(p) == 4 * (MaxIters - iter[p]) + Rank(p) + (MaxFaults - faults)

\* What a step of p's call does to the numbers that it is measured by.
LEMMA CallAdvances ==
    ASSUME IInv, NEW p \in Party, CallStep(p)
    PROVE  /\ \A q \in Party : q # p => pc'[q] = pc[q] /\ iter'[q] = iter[q]
           /\ \/ /\ iter'[p] = iter[p]
                 /\ Rank(p)' < Rank(p)
                 /\ faults' >= faults
              \/ /\ iter'[p] = iter[p] + 1
                 /\ Rank(p)' <= Rank(p) + 2
                 /\ faults' >= faults
              \/ /\ iter'[p] = iter[p]
                 /\ Rank(p)' = Rank(p)
                 /\ faults' > faults
<1> USE DEF IInv, TypeOK, ControlInv, InIteration, Labels, Goto, Continue, Return,
            CallFails, Fault, NoFault, Rank, Party
<1>1. CASE p = 0 /\ OpenStep
  BY <1>1 DEF OpenStep, OpenSucceeds, OpenUndecoded, OpenFails, OpenInfo,
     OpenInfoFails
<1>2. CASE p = 0 /\ (BalanceRead \/ BalanceFails)
  BY <1>2 DEF BalanceRead, BalanceFails
<1>3. CASE PollStep(p)
  BY <1>3 DEF PollStep, PollFails, PollWaits, PollFunded, PollNoNeed, PollMyTurn, Polls
<1>4. CASE DepositStep(p)
  BY <1>4 DEF DepositStep, FundSucceeds, FundUndecoded, FundFails
<1>5. CASE AbortStep(p)
  BY <1>5 DEF AbortStep, AbortSucceeds, AbortUndecoded, AbortFails,
     AbortsOnTimeout, AbortsAtEnd
<1> QED
  BY <1>1, <1>2, <1>3, <1>4, <1>5 DEF CallStep

\* Fund does not run for ever: whatever the contract, the peer and the network answer,
\* each step of a call leaves it less to do, and no step of anybody leaves it more.
THEOREM FundAdvances ==
    Spec => /\ [](\A p \in Party : WorkLeft(p) \in Nat)
            /\ [][\A p \in Party :
                     /\ CallStep(p) => WorkLeft(p)' < WorkLeft(p)
                     /\ WorkLeft(p)' <= WorkLeft(p)]_vars
<1>1. IInv => \A p \in Party :
                 /\ iter[p] \in 0..MaxIters /\ faults \in 0..MaxFaults
                 /\ Rank(p) \in Nat /\ WorkLeft(p) \in Nat
  BY MaxItersAssumption, MaxFaultsAssumption
     DEF IInv, TypeOK, Labels, Rank, WorkLeft
<1>2. ASSUME IInv, [Next]_vars, NEW p \in Party
      PROVE  /\ CallStep(p) => WorkLeft(p)' < WorkLeft(p)
             /\ WorkLeft(p)' <= WorkLeft(p)
  <2>0. IInv'
    BY <1>2, IInvStep
  <2>1. /\ iter[p] \in Nat /\ faults \in Nat /\ Rank(p) \in Nat
        /\ iter'[p] \in Nat /\ faults' \in Nat /\ Rank(p)' \in Nat
        /\ MaxIters \in Nat /\ MaxFaults \in Nat
    BY <1>2, <2>0, MaxItersAssumption, MaxFaultsAssumption
       DEF IInv, TypeOK, Labels, Rank
  <2>2. ASSUME CallStep(p) PROVE WorkLeft(p)' < WorkLeft(p)
    <3>1. CASE iter'[p] = iter[p]
      BY <1>2, <2>1, <2>2, <3>1, CallAdvances DEF WorkLeft
    <3>2. CASE iter'[p] # iter[p]
      BY <1>2, <2>1, <2>2, <3>2, CallAdvances DEF WorkLeft
    <3> QED
      BY <3>1, <3>2
  <2>3. ASSUME NEW q \in Party, q # p, CallStep(q)
        PROVE  pc'[p] = pc[p] /\ iter'[p] = iter[p] /\ faults' >= faults
    BY <1>2, <2>1, <2>3, CallAdvances
  <2>4. ASSUME NEW q \in Party, Fund(q)
        PROVE  Rank(p)' <= Rank(p) /\ iter'[p] = iter[p] /\ faults' = faults
    BY <1>2, <2>4 DEF Fund, Goto, NoFault, Rank, IInv, TypeOK, Labels
  <2>5. ASSUME (\E q \in Party : Deadline(q)) \/ UNCHANGED vars
        PROVE  Rank(p)' = Rank(p) /\ iter'[p] = iter[p] /\ faults' = faults
    BY <2>5 DEF Deadline, vars, callVars, Rank
  <2>6. ASSUME pc'[p] = pc[p] PROVE Rank(p)' = Rank(p)
    BY <2>6 DEF Rank
  <2>7. ASSUME Rank(p)' <= Rank(p), iter'[p] = iter[p], faults' >= faults
        PROVE  WorkLeft(p)' <= WorkLeft(p)
    BY <2>1, <2>7 DEF WorkLeft
  <2>8. WorkLeft(p) \in Int /\ WorkLeft(p)' \in Int
    BY <2>1 DEF WorkLeft
  <2>9. CASE CallStep(p)
    BY <2>2, <2>8, <2>9
  <2>10. CASE ~CallStep(p)
    <3>1. Rank(p)' <= Rank(p) /\ iter'[p] = iter[p] /\ faults' >= faults
      <4>1. CASE \E q \in Party : Fund(q)
        BY <2>1, <2>4, <4>1
      <4>2. CASE \E q \in Party : CallStep(q)
        BY <2>1, <2>3, <2>6, <2>10, <4>2
      <4>3. CASE (\E q \in Party : Deadline(q)) \/ UNCHANGED vars
        BY <2>1, <2>5, <4>3
      <4> QED
        BY <1>2, <4>1, <4>2, <4>3 DEF Next
    <3> QED
      BY <2>7, <2>10, <3>1
  <2> QED
    BY <2>9, <2>10
<1>3. IInv /\ [Next]_vars
        => [\A p \in Party :
              /\ CallStep(p) => WorkLeft(p)' < WorkLeft(p)
              /\ WorkLeft(p)' <= WorkLeft(p)]_vars
  BY <1>2
<1>4. IInv => \A p \in Party : WorkLeft(p) \in Nat
  BY <1>1
<1> QED
  BY <1>3, <1>4, IInvAlways, PTL DEF Spec

-----------------------------------------------------------------------------
(* Fund called again, and transactions that are included late *)

LateType == late \in [Party -> SUBSET {"open", "fund", "abort"}]

\* Only a party that has to pay in does so, alone at any rate.
NeedInv ==
    \A p \in Party :
        /\ pc[p] = "fund" \/ late[p] \cap {"fund", "abort"} # {} => NeedFunding(p)
        /\ chan.funded[p] /\ ~FullyFunded => NeedFunding(p)

\* The opening of the channel is late only as long as A has not come past it.
LateOpenInv ==
    \A p \in Party : "open" \in late[p] =>
        /\ p = 0
        /\ pc[p] \in {"idle", "open"} \/ (pc[p] = "done" /\ result[p] = "error")

\* A party that was told of success or of the timeout has no deposit of its own in
\* the channel, unless it is fully funded, and no transaction that can bring one.
ToldInv ==
    \A p \in Party : result[p] \in {"nil", "timeout"} =>
        /\ FullyFunded \/ ~chan.funded[p]
        /\ FullyFunded \/ late[p] = {} \/ ~NeedFunding(p)

RetryInv ==
    /\ TypeOK /\ ControlInv /\ ChanInv /\ EscrowInv
    /\ LateType /\ NeedInv /\ LateOpenInv /\ ToldInv

\* A transaction that the contract accepts, of party p.
Transacts(p) ==
    \/ CanOpen /\ TxOpen
    \/ CanFund(p) /\ TxFund(p) /\ NeedFunding(p)
    \/ CanAbort(p) /\ TxAbort(p)

LEMMA RetryStart == RetryInit => RetryInv
<1> SUFFICES ASSUME RetryInit PROVE RetryInv
  OBVIOUS
<1>1. IInv
  BY InitInv DEF RetryInit
<1>2. /\ \A p \in Party : late[p] = {} /\ pc[p] # "fund" /\ result[p] = "none"
      /\ \A p \in Party : ~chan.funded[p]
  BY DEF RetryInit, Init, ContractInit, Absent, Neither
<1>3. LateType
  BY DEF RetryInit, LateType
<1>4. NeedInv /\ LateOpenInv /\ ToldInv
  BY <1>2 DEF NeedInv, LateOpenInv, ToldInv
<1> QED
  BY <1>1, <1>3, <1>4 DEF IInv, RetryInv

\* What was told stays true: a late transaction of a party that was told, if the
\* contract still accepts it, does not exist.
LEMMA HarmlessInv == RetryInv => LateIsHarmless
<1> SUFFICES ASSUME RetryInv, NEW p \in Party, result[p] \in {"nil", "timeout"},
                    NEW call \in late[p], Accepts(p, call)
             PROVE  FALSE
  BY DEF LateIsHarmless
<1>1. call \in {"open", "fund", "abort"}
  BY DEF RetryInv, LateType
<1>2. call # "open"
  BY DEF RetryInv, LateOpenInv, ControlInv
<1>3. NeedFunding(p)
  BY <1>1, <1>2 DEF RetryInv, NeedInv
<1>4. FullyFunded
  BY <1>3 DEF RetryInv, ToldInv
<1> QED
  BY <1>1, <1>2, <1>4 DEF Accepts, CanFund, CanAbort, FullyFunded, Peer, Party

\* The transaction is one of a running call, or a late one.
Acts(p) ==
    /\ Transacts(p)
    /\ late' = [late EXCEPT ![p] = {}]
    /\ pc[p] # "done" \/ \E call \in late[p] : Accepts(p, call)

\* Every step is at most one transaction, after which no other one of the same
\* party can be included late.
LEMMA RetryTransaction ==
    ASSUME RetryInv, [RetryNext]_retryVars
    PROVE  UNCHANGED contractVars \/ \E p \in Party : Acts(p)
<1> USE DEF RetryInv
<1>1. CASE UNCHANGED retryVars
  BY <1>1 DEF retryVars, vars
<1>2. ASSUME NEW p \in Party, CallStepInTime(p), ~UNCHANGED contractVars
      PROVE  Acts(p)
  <2>1. CallStep(p) /\ late' = [late EXCEPT ![p] = {}]
    BY <1>2 DEF CallStepInTime
  <2> USE DEF contractVars, CallFails, NeedInv, Transacts, Acts
  <2>2. CASE p = 0 /\ (OpenStep \/ BalanceRead \/ BalanceFails)
    BY <1>2, <2>1, <2>2 DEF OpenStep, OpenSucceeds, OpenUndecoded, OpenFails,
       OpenInfo, OpenInfoFails, BalanceRead, BalanceFails
  <2>3. CASE PollStep(p)
    BY <1>2, <2>3 DEF PollStep, PollFails, PollFunded, PollNoNeed, PollMyTurn,
       PollWaits
  <2>4. CASE DepositStep(p)
    BY <1>2, <2>1, <2>4 DEF DepositStep, FundSucceeds, FundUndecoded, FundFails
  <2>5. CASE AbortStep(p)
    BY <1>2, <2>1, <2>5 DEF AbortStep, AbortSucceeds, AbortUndecoded, AbortFails,
       AbortsOnTimeout, AbortsAtEnd
  <2> QED
    BY <2>1, <2>2, <2>3, <2>4, <2>5 DEF CallStep
<1>3. ASSUME NEW p \in Party, LateIsIncluded(p), ~UNCHANGED contractVars
      PROVE  Acts(p)
  <2>1. PICK call \in late[p] : Applies(p, call)
    BY <1>3 DEF LateIsIncluded
  <2>2. call = "fund" => NeedFunding(p)
    BY <2>1 DEF NeedInv
  <2>3. Accepts(p, call)
    BY <1>3, <2>1 DEF Applies, Accepts
  <2> QED
    BY <1>3, <2>1, <2>2, <2>3 DEF LateIsIncluded, Applies, Transacts, Acts
<1>4. ASSUME NEW p \in Party, Fund(p) \/ Deadline(p) \/ SubmissionTimesOut(p)
                              \/ FundAgain(p)
      PROVE  UNCHANGED contractVars
  BY <1>4 DEF Fund, Deadline, SubmissionTimesOut, FundAgain
<1> QED
  BY <1>1, <1>2, <1>3, <1>4 DEF RetryNext

LEMMA RetryContractStep ==
    ASSUME RetryInv, [RetryNext]_retryVars
    PROVE  /\ ContractTypeOK' /\ ChanInv' /\ EscrowInv' /\ hist' = hist
           /\ FullyFunded => chan'.open /\ FullyFunded'
<1>1. MoneyInv
  BY DEF RetryInv, MoneyInv, TypeOK
<1>2. FullyFunded => chan.open
  BY <1>1 DEF MoneyInv, ChanInv, FullyFunded, Absent, Neither, Party
<1>3. CASE UNCHANGED contractVars
  BY <1>1, <1>2, <1>3 DEF MoneyInv, contractVars, ContractTypeOK, Versions,
     ChanInv, EscrowInv, Deposit, Share, FullyFunded
<1>4. ASSUME NEW p \in Party, Acts(p)
      PROVE  /\ ContractTypeOK' /\ ChanInv' /\ EscrowInv' /\ hist' = hist
             /\ ~FullyFunded
  <2>1. CASE CanOpen /\ TxOpen
    BY <1>1, <1>2, <2>1, OpenEscrow, OpenType DEF MoneyInv, CanOpen, TxOpen
  <2>2. CASE CanFund(p) /\ TxFund(p)
    BY <1>1, <2>2, FundEscrow, FundType DEF MoneyInv, CanFund, TxFund, FullyFunded
  <2>3. CASE CanAbort(p) /\ TxAbort(p)
    <3>1. ~FullyFunded
      BY <2>3 DEF CanAbort, FullyFunded, Peer, Party
    <3>2. ContractTypeOK' /\ hist' = hist
      BY <1>1, <2>3, AbortType DEF MoneyInv, TxAbort
    <3> QED
      BY <1>1, <2>3, <3>1, <3>2, AbortEscrow
  <2> QED
    BY <1>4, <2>1, <2>2, <2>3 DEF Acts, Transacts
<1> QED
  BY <1>3, <1>4, RetryTransaction

\* A step of p's call leaves the other call alone.
LEMMA OwnStep ==
    ASSUME TypeOK, NEW p \in Party, NEW q \in Party, q # p,
           Fund(p) \/ CallStep(p) \/ Deadline(p) \/ SubmissionTimesOut(p)
             \/ LateIsIncluded(p) \/ FundAgain(p)
    PROVE  pc'[q] = pc[q] /\ result'[q] = result[q]
<1> USE DEF TypeOK, Goto, Continue, Return
<1>1. CASE Fund(p) \/ Deadline(p) \/ SubmissionTimesOut(p) \/ LateIsIncluded(p)
           \/ FundAgain(p)
  BY <1>1 DEF Fund, Deadline, SubmissionTimesOut, LateIsIncluded, FundAgain
<1>2. CASE p = 0 /\ (OpenStep \/ BalanceRead \/ BalanceFails)
  BY <1>2 DEF OpenStep, OpenSucceeds, OpenUndecoded, OpenFails, OpenInfo,
     OpenInfoFails, BalanceRead, BalanceFails
<1>3. CASE PollStep(p)
  BY <1>3 DEF PollStep, PollFails, PollFunded, PollNoNeed, PollMyTurn, PollWaits
<1>4. CASE DepositStep(p)
  BY <1>4 DEF DepositStep, FundSucceeds, FundUndecoded, FundFails
<1>5. CASE AbortStep(p)
  BY <1>5 DEF AbortStep, AbortSucceeds, AbortUndecoded, AbortFails
<1> QED
  BY <1>1, <1>2, <1>3, <1>4, <1>5 DEF CallStep

\* A result other than an error of a submission comes from the call itself.
LEMMA OwnStepOnly ==
    ASSUME TypeOK, [RetryNext]_retryVars, NEW p \in Party,
           result'[p] # result[p], result'[p] # "none", ~SubmissionTimesOut(p)
    PROVE  CallStepInTime(p)
<1>1. ~UNCHANGED retryVars
  BY DEF retryVars, vars, callVars
<1>2. PICK q \in Party :
        \/ Fund(q) \/ Deadline(q) \/ CallStepInTime(q) \/ SubmissionTimesOut(q)
        \/ LateIsIncluded(q) \/ FundAgain(q)
  BY <1>1 DEF RetryNext
<1>3. q = p
  BY <1>2, OwnStep DEF CallStepInTime
<1> QED
  BY <1>2, <1>3 DEF Fund, Deadline, LateIsIncluded, FundAgain, Goto, TypeOK

LEMMA RetryCallStep ==
    ASSUME RetryInv, [RetryNext]_retryVars
    PROVE  CallTypeOK' /\ ControlInv' /\ LateType'
<1> USE DEF RetryInv
<1>1. LateType'
  <2>1. CASE UNCHANGED retryVars
    BY <2>1 DEF retryVars, LateType
  <2>2. ASSUME NEW p \in Party,
               \/ UNCHANGED late
               \/ late' = [late EXCEPT ![p] = {}]
               \/ \E call \in {"open", "fund", "abort"} :
                    late' = [late EXCEPT ![p] = @ \cup {call}]
        PROVE  LateType'
    BY <2>2 DEF LateType
  <2> QED
    BY <2>1, <2>2 DEF RetryNext, CallStepInTime, SubmissionTimesOut, LateIsIncluded,
       FundAgain
<1>2. ASSUME [Next]_vars PROVE CallTypeOK' /\ ControlInv'
  BY <1>2, CallTypeStep
<1>3. ASSUME NEW p \in Party, Fund(p) \/ Deadline(p) \/ CallStepInTime(p) PROVE Next
  BY <1>3 DEF CallStepInTime, Next
<1>4. ASSUME NEW p \in Party, SubmissionTimesOut(p) \/ LateIsIncluded(p)
                              \/ FundAgain(p)
      PROVE  CallTypeOK' /\ ControlInv'
  <2> USE MaxItersAssumption, MaxFaultsAssumption
      DEF CallTypeOK, TypeOK, ControlInv, InIteration, Labels
  <2>1. CASE SubmissionTimesOut(p)
    BY <2>1 DEF SubmissionTimesOut, Submits, AbortsOnTimeout, AbortsAtEnd, Return,
       Fault
  <2>2. CASE LateIsIncluded(p)
    BY <2>2 DEF LateIsIncluded
  <2>3. CASE FundAgain(p)
    BY <2>3 DEF FundAgain
  <2> QED
    BY <1>4, <2>1, <2>2, <2>3
<1> QED
  BY <1>1, <1>2, <1>3, <1>4 DEF RetryNext, retryVars

\* A step is one of Funding, with no new late transaction, or one of FundingRetry.
LEMMA RetrySteps ==
    ASSUME LateType, [RetryNext]_retryVars
    PROVE  \/ [Next]_vars /\ \A q \in Party : late'[q] \subseteq late[q]
           \/ \E p \in Party : SubmissionTimesOut(p) \/ LateIsIncluded(p) \/ FundAgain(p)
<1>1. CASE UNCHANGED retryVars
  BY <1>1 DEF retryVars
<1>2. ASSUME NEW p \in Party, (Fund(p) \/ Deadline(p)) /\ UNCHANGED late
      PROVE  Next /\ \A q \in Party : late'[q] \subseteq late[q]
  BY <1>2 DEF Next
<1>3. ASSUME NEW p \in Party, CallStepInTime(p)
      PROVE  Next /\ \A q \in Party : late'[q] \subseteq late[q]
  <2>1. late' = late \/ late' = [late EXCEPT ![p] = {}]
    BY <1>3 DEF CallStepInTime
  <2> QED
    BY <1>3, <2>1 DEF CallStepInTime, Next, LateType
<1> QED
  BY <1>1, <1>2, <1>3 DEF RetryNext

\* What is included late has been submitted by its own party.
LEMMA LateStep ==
    ASSUME LateType, [RetryNext]_retryVars,
           NEW p \in Party, NEW call \in late'[p], call \notin late[p]
    PROVE  SubmissionTimesOut(p) /\ Submits(p, call) /\ Accepts(p, call)
<1>1. ~(\A q \in Party : late'[q] \subseteq late[q])
  OBVIOUS
<1>2. PICK q \in Party : SubmissionTimesOut(q) \/ LateIsIncluded(q) \/ FundAgain(q)
  BY <1>1, RetrySteps
<1>3. SubmissionTimesOut(q)
  BY <1>2 DEF LateIsIncluded, FundAgain, LateType
<1>4. PICK c \in {"open", "fund", "abort"} :
         /\ Submits(q, c) /\ Accepts(q, c)
         /\ late' = [late EXCEPT ![q] = @ \cup {c}]
  BY <1>3 DEF SubmissionTimesOut
<1>5. p = q /\ call = c
  BY <1>4 DEF LateType
<1> QED
  BY <1>3, <1>4, <1>5

LEMMA NeedStep ==
    ASSUME RetryInv, [RetryNext]_retryVars
    PROVE  NeedInv'
<1> USE DEF RetryInv
<1>1. ASSUME NEW p \in Party PROVE NeedFunding(p)' <=> NeedFunding(p)
  BY RetryContractStep DEF NeedFunding
<1>2. ASSUME NEW p \in Party, pc'[p] = "fund" PROVE NeedFunding(p)
  <2>1. CASE [Next]_vars
    BY <1>2, <2>1, EnterFund DEF NeedInv
  <2>2. ASSUME NEW q \in Party,
               SubmissionTimesOut(q) \/ LateIsIncluded(q) \/ FundAgain(q)
        PROVE  pc[p] = "fund"
    BY <1>2, <2>2 DEF SubmissionTimesOut, LateIsIncluded, FundAgain, Return, TypeOK
  <2> QED
    BY <2>1, <2>2, RetrySteps DEF NeedInv
<1>3. ASSUME NEW p \in Party, NEW call \in late'[p], call \in {"fund", "abort"}
      PROVE  NeedFunding(p)
  <2>1. CASE call \in late[p]
    BY <1>3, <2>1 DEF NeedInv
  <2>2. CASE call \notin late[p]
    <3>1. Submits(p, call) /\ Accepts(p, call)
      BY <2>2, LateStep
    <3>2. pc[p] = "fund" \/ (chan.funded[p] /\ ~FullyFunded)
      BY <1>3, <3>1 DEF Submits, Accepts, CanAbort, FullyFunded, Peer, Party
    <3> QED
      BY <3>2 DEF NeedInv
  <2> QED
    BY <2>1, <2>2
<1>4. ASSUME NEW p \in Party, chan'.funded[p], ~FullyFunded' PROVE NeedFunding(p)
  <2>1. CASE UNCHANGED contractVars
    BY <1>4, <2>1 DEF contractVars, FullyFunded, NeedInv
  <2>2. ASSUME NEW q \in Party, Acts(q) PROVE NeedFunding(p)
    <3>1. ~TxOpen /\ ~TxAbort(q)
      BY <1>4 DEF TxOpen, TxAbort, Absent, Neither
    <3>2. TxFund(q) /\ NeedFunding(q)
      BY <2>2, <3>1 DEF Acts, Transacts
    <3>3. chan'.funded[q]
      BY <3>2 DEF TxFund, TypeOK, ContractTypeOK
    <3> QED
      BY <1>4, <3>2, <3>3 DEF FullyFunded, Party
  <2> QED
    BY <2>1, <2>2, RetryTransaction
<1> QED
  BY <1>1, <1>2, <1>3, <1>4 DEF NeedInv

LEMMA LateOpenStep ==
    ASSUME RetryInv, [RetryNext]_retryVars
    PROVE  LateOpenInv'
<1> USE DEF RetryInv
<1> SUFFICES ASSUME NEW p \in Party, "open" \in late'[p]
             PROVE  /\ p = 0
                    /\ \/ pc'[p] \in {"idle", "open"}
                       \/ pc'[p] = "done" /\ result'[p] = "error"
  BY DEF LateOpenInv
<1>1. ASSUME SubmissionTimesOut(p) PROVE pc'[p] = "done" /\ result'[p] = "error"
  BY <1>1 DEF SubmissionTimesOut, Return, TypeOK
<1>2. CASE "open" \notin late[p]
  BY <1>1, <1>2, LateStep DEF Submits
<1>3. CASE "open" \in late[p]
  <2>1. /\ p = 0
        /\ pc[0] \in {"idle", "open"} \/ (pc[0] = "done" /\ result[0] = "error")
    BY <1>3 DEF LateOpenInv
  <2>2. CASE pc'[0] = pc[0] /\ result'[0] = result[0]
    BY <2>1, <2>2
  <2>3. CASE UNCHANGED retryVars
    BY <2>2, <2>3 DEF retryVars, vars, callVars
  <2>4. ASSUME NEW q \in Party, q # 0,
               Fund(q) \/ CallStep(q) \/ Deadline(q) \/ SubmissionTimesOut(q)
                 \/ LateIsIncluded(q) \/ FundAgain(q)
        PROVE  pc'[0] = pc[0] /\ result'[0] = result[0]
    BY <2>4, OwnStep DEF Party
  <2>5. ASSUME Fund(0) \/ Deadline(0) \/ FundAgain(0)
        PROVE  pc'[0] \in {"idle", "open"} \/ (pc'[0] = pc[0] /\ result'[0] = result[0])
    BY <2>5 DEF Fund, Deadline, FundAgain, Goto, TypeOK, Party
  <2>6. ~LateIsIncluded(0)
    BY <2>1 DEF LateIsIncluded, LateType
  <2>7. ASSUME CallStepInTime(0)
        PROVE  pc'[0] = "done" /\ result'[0] = "error"
    <3>1. CallStep(0) /\ UNCHANGED contractVars
      BY <2>1, <2>7 DEF CallStepInTime, LateType
    <3>2. ~(CanOpen /\ TxOpen)
      BY <3>1 DEF contractVars, CanOpen, TxOpen, Absent
    <3>3. OpenStep
      BY <2>1, <3>1 DEF CallStep, BalanceRead, BalanceFails, PollStep, PollFails,
         PollFunded, PollNoNeed, PollMyTurn, PollWaits, Polls, DepositStep,
         FundSucceeds, FundUndecoded, FundFails, AbortStep, AbortSucceeds,
         AbortUndecoded, AbortFails, AbortsOnTimeout, AbortsAtEnd
    <3>4. OpenFails
      BY <2>1, <3>2, <3>3 DEF OpenStep, OpenSucceeds, OpenUndecoded, OpenInfo,
         OpenInfoFails
    <3> QED
      BY <3>4 DEF OpenFails, Return, TypeOK, Party
  <2>8. CallStepInTime(1) => CallStep(1)
    BY DEF CallStepInTime
  <2> QED
    BY <1>1, <2>1, <2>2, <2>3, <2>4, <2>5, <2>6, <2>7, <2>8 DEF RetryNext, Party
<1> QED
  BY <1>2, <1>3

LEMMA ToldStep ==
    ASSUME RetryInv, [RetryNext]_retryVars
    PROVE  ToldInv'
<1> USE DEF RetryInv
<1> SUFFICES ASSUME NEW p \in Party, result'[p] \in {"nil", "timeout"}
             PROVE  /\ FullyFunded' \/ ~chan'.funded[p]
                    /\ FullyFunded' \/ late'[p] = {} \/ ~NeedFunding(p)'
  BY DEF ToldInv
<1>1. NeedFunding(p)' <=> NeedFunding(p)
  BY RetryContractStep DEF NeedFunding
<1>2. FullyFunded => FullyFunded'
  BY RetryContractStep
<1>3. ~SubmissionTimesOut(p) /\ late'[p] \subseteq late[p]
  <2>1. ~SubmissionTimesOut(p)
    BY DEF SubmissionTimesOut, Return, TypeOK
  <2> QED
    BY <2>1, LateStep
<1>4. CASE result'[p] = result[p]
  <2>1. /\ FullyFunded \/ ~chan.funded[p]
        /\ FullyFunded \/ late[p] = {} \/ ~NeedFunding(p)
    BY <1>4 DEF ToldInv
  <2>2. FullyFunded' \/ late'[p] = {} \/ ~NeedFunding(p)'
    BY <1>1, <1>2, <1>3, <2>1
  <2>3. CASE FullyFunded
    BY <1>2, <2>2, <2>3
  <2>4. CASE ~chan.funded[p] /\ UNCHANGED contractVars
    BY <2>2, <2>4 DEF contractVars
  <2>5. ASSUME NEW q \in Party, Acts(q), ~chan.funded[p]
        PROVE  FullyFunded' \/ ~chan'.funded[p]
    <3>1. p # q
      BY <1>4, <2>5, HarmlessInv DEF Acts, LateIsHarmless, ControlInv
    <3>2. CASE TxOpen \/ TxAbort(q)
      BY <3>2 DEF TxOpen, TxAbort, Absent, Neither
    <3>3. CASE TxFund(q)
      BY <3>1, <3>3 DEF TxFund, TypeOK, ContractTypeOK, FullyFunded, Party
    <3> QED
      BY <2>5, <3>2, <3>3 DEF Acts, Transacts
  <2> QED
    BY <2>1, <2>2, <2>3, <2>4, <2>5, RetryTransaction
<1>5. CASE result'[p] # result[p]
  <2>1. [Next]_vars
    <3>1. ASSUME NEW q \in Party,
                 SubmissionTimesOut(q) \/ LateIsIncluded(q) \/ FundAgain(q)
          PROVE  FALSE
      BY <1>3, <1>5, <3>1 DEF SubmissionTimesOut, LateIsIncluded, FundAgain, Return,
         TypeOK
    <3> QED
      BY <3>1, RetrySteps
  <2>2. \/ /\ UNCHANGED contractVars
           /\ (FullyFunded \/ (~chan.funded[p] /\ ~NeedFunding(p)))
        \/ chan.open /\ chan' = Absent
    BY <1>5, <2>1, ResultStep
  <2>3. CASE UNCHANGED contractVars
    BY <1>1, <1>2, <2>2, <2>3 DEF contractVars, Absent
  <2>4. CASE chan.open /\ chan' = Absent
    <3>1. ~chan'.funded[p]
      BY <2>4 DEF Absent, Neither
    <3>2. CallStepInTime(p)
      BY <1>3, <1>5, OwnStepOnly
    <3>3. late'[p] = {}
      BY <2>4, <3>2 DEF CallStepInTime, contractVars, Absent, LateType
    <3> QED
      BY <3>1, <3>3
  <2> QED
    BY <2>2, <2>3, <2>4
<1> QED
  BY <1>4, <1>5

LEMMA RetryInvStep == RetryInv /\ [RetryNext]_retryVars => RetryInv'
<1> SUFFICES ASSUME RetryInv, [RetryNext]_retryVars PROVE RetryInv'
  OBVIOUS
<1>1. TypeOK'
  BY RetryContractStep, RetryCallStep DEF TypeOK, CallTypeOK
<1> QED
  BY <1>1, RetryContractStep, RetryCallStep, NeedStep, LateOpenStep, ToldStep
     DEF RetryInv

LEMMA RetryInvAlways == RetrySpec => []RetryInv
<1> QED
  BY RetryStart, RetryInvStep, PTL DEF RetrySpec

\* Whatever was told stays true: no transaction of a party that was told of a
\* funded channel, or that it has its tokens back, can take effect late.
THEOREM LateIncluded == RetrySpec => []LateIsHarmless
<1> QED
  BY HarmlessInv, RetryInvAlways, PTL

\* A return of nil or of the timeout is as safe when calls are repeated.
THEOREM RetryReturn == RetrySpec => []SafeReturn
<1>1. RetryInv => SafeReturn
  <2> SUFFICES ASSUME RetryInv, NEW p \in Party, result[p] \in {"nil", "timeout"},
                      ~FullyFunded, NEW a \in Asset
               PROVE  wallet[p][a] = Endowment[p][a]
    BY DEF SafeReturn
  <2>1. ~chan.funded[p]
    BY DEF RetryInv, ToldInv
  <2> QED
    BY <2>1, EndowmentAssumption DEF RetryInv, EscrowInv, Deposit
<1> QED
  BY <1>1, RetryInvAlways, PTL

\* A deposit that is left behind is reported when calls are repeated, too.
THEOREM RetryStranded == RetrySpec => []StrandedIsReported
<1>1. RetryInv => StrandedIsReported
  <2> SUFFICES ASSUME RetryInv, NEW p \in Party, pc[p] = "done", ~FullyFunded,
                      chan.funded[p]
               PROVE  result[p] = "error"
    BY DEF StrandedIsReported
  <2>1. result[p] \in {"nil", "timeout", "error"}
    BY DEF RetryInv, TypeOK, ControlInv
  <2> QED
    BY <2>1 DEF RetryInv, ToldInv
<1> QED
  BY <1>1, RetryInvAlways, PTL
=============================================================================
